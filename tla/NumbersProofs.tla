---------------------------- MODULE NumbersProofs ---------------------------
(***************************************************************************)
(* That the pages tell the same: for any plays, catalogue and readers, and *)
(* any filter, every chart, heatmap, ranking and list adds up to the       *)
(* figures beside it (src/src/stats.rs, src/src/api.rs).  Each of them     *)
(* divides the same rows into classes, and the classes of a finite table   *)
(* add up to it; the peak of concurrent plays is found by a sweep that is  *)
(* shown to count, at every beginning of a play, what is on.  So do the    *)
(* places, lists and requests (src/src/security.rs, src/src/seerr.rs), and *)
(* what the plays tell of people and of new arrivals (src/src/recap.rs,    *)
(* src/src/profile.rs, src/src/groups.rs, src/src/recent.rs).  And whoever *)
(* the sightings show in two places has an alert (src/src/security.rs).    *)
(***************************************************************************)
EXTENDS ReportsProofs

-----------------------------------------------------------------------------
(* Sums and counts.                                                          *)

(* The sum of the numbers f has over S.                                      *)
SumAt(f, S) == MapThenSumSet(LAMBDA x0 : f[x0], S)

(* `SumAt` is that sum, however the elements are taken.                      *)
LEMMA TotalIs ==
  ASSUME NEW S, IsFiniteSet(S), NEW f \in [S -> Int]
  PROVE  IsSum(f, S, SumAt(f, S))
<1> DEFINE D(sums) == [Q \in SUBSET S |-> IF Q = {} THEN 0 ELSE f[OneOf(Q)] + sums[Q \ {OneOf(Q)}]]
           kept == CHOOSE sums : sums = D(sums)
<1>1. SumAt(f, S) = kept[S]
  BY DEF SumAt, MapThenSumSet, MapThenFoldSet, OneOf
<1>2. ASSUME NEW sums PROVE D(sums) = SumStep(f, S, sums)
  BY DEF SumStep
<1>3. PICK sums : AreSums(f, S, sums)
  BY SumsExist
<1>4. sums = D(sums)
  BY <1>2, <1>3 DEF AreSums
<1> HIDE DEF D
<1>5. kept = D(kept)
  BY <1>4
<1>6. AreSums(f, S, kept)
  BY <1>2, <1>5 DEF AreSums
<1> QED
  BY <1>1, <1>6 DEF IsSum

(* To count is to add up ones.                                               *)
LEMMA CountIs ==
  ASSUME NEW S, IsFiniteSet(S)
  PROVE  IsSum([x0 \in S |-> 1], S, Cardinality(S))
<1>1. [x0 \in S |-> 1] \in [S -> Int]
  OBVIOUS
<1>2. \E n \in Int : IsSum([x0 \in S |-> 1], S, n)
  BY <1>1, SumIs
<1> QED
  BY <1>2, CountIsSum

(* A table of tallies adds up column by column.                              *)
LEMMA SumOfIs ==
  ASSUME NEW t, IsFiniteSet(DOMAIN t), \A x0 \in DOMAIN t : t[x0].plays \in Int /\ t[x0].watch_s \in Int
  PROVE  /\ IsSum([x0 \in DOMAIN t |-> t[x0].plays], DOMAIN t, SumOf(t).plays)
         /\ IsSum([x0 \in DOMAIN t |-> t[x0].watch_s], DOMAIN t, SumOf(t).watch_s)
         /\ SumOf(t) = [plays |-> SumOf(t).plays, watch_s |-> SumOf(t).watch_s]
<1> DEFINE S == DOMAIN t
           f == [x0 \in S |-> t[x0].plays]
           g == [x0 \in S |-> t[x0].watch_s]
           DF(sums) == [Q \in SUBSET S |-> IF Q = {} THEN 0 ELSE t[OneOf(Q)].plays + sums[Q \ {OneOf(Q)}]]
           DG(sums) == [Q \in SUBSET S |-> IF Q = {} THEN 0 ELSE t[OneOf(Q)].watch_s + sums[Q \ {OneOf(Q)}]]
           kf == CHOOSE sums : sums = DF(sums)
           kg == CHOOSE sums : sums = DG(sums)
<1>1. SumOf(t) = [plays |-> kf[S], watch_s |-> kg[S]]
  BY DEF SumOf, MapThenSumSet, MapThenFoldSet, OneOf
<1>2. f \in [S -> Int] /\ g \in [S -> Int]
  OBVIOUS
<1>3. \A Q \in SUBSET S : Q # {} => OneOf(Q) \in S
  BY DEF OneOf
<1>4. ASSUME NEW sums PROVE DF(sums) = SumStep(f, S, sums) /\ DG(sums) = SumStep(g, S, sums)
  BY <1>3 DEF SumStep
<1> HIDE DEF f, g, S
<1>5. PICK sums : AreSums(f, S, sums)
  BY <1>2, SumsExist DEF S
<1>6. PICK others : AreSums(g, S, others)
  BY <1>2, SumsExist DEF S
<1>7. sums = DF(sums) /\ others = DG(others)
  BY <1>4, <1>5, <1>6 DEF AreSums
<1> HIDE DEF DF, DG
<1>8. kf = DF(kf) /\ kg = DG(kg)
  BY <1>7
<1>9. AreSums(f, S, kf) /\ AreSums(g, S, kg)
  BY <1>4, <1>8 DEF AreSums
<1>10. IsSum(f, S, SumOf(t).plays) /\ IsSum(g, S, SumOf(t).watch_s)
  <2>1. SumOf(t).plays = kf[S] /\ SumOf(t).watch_s = kg[S]
    BY <1>1
  <2> HIDE DEF kf, kg
  <2> QED
    BY <1>9, <2>1 DEF IsSum
<1> QED
  BY <1>1, <1>10 DEF f, g, S

(* What is told of the classes of a table adds up to what is told of it all. *)
LEMMA TallyOfParts ==
  ASSUME NEW R, IsTable(R), NEW I, IsFiniteSet(I), NEW cls \in [R -> I],
         NEW t, DOMAIN t = I, \A i \in I : t[i] = Tally(Classed(R, cls, {i}))
  PROVE  SumOf(t) = Tally(R)
<1> DEFINE ones == [r \in R |-> 1]
           secs == [r \in R |-> r.duration_s]
           tp == [i \in I |-> t[i].plays]
           tw == [i \in I |-> t[i].watch_s]
<1>1. IsFiniteSet(R) /\ \A r \in R : r.duration_s \in Int
  BY DEF IsTable, IsPlay
<1>2. ones \in [R -> Int] /\ secs \in [R -> Int]
  BY <1>1
<1>3. IsSum(ones, R, Cardinality(R)) /\ IsSum(secs, R, Seconds(R))
  BY <1>1, CountIs, SecondsIs
<1>4. ASSUME NEW i \in I
      PROVE  LET Q == Classed(R, cls, {i})
             IN  /\ t[i].plays \in Int /\ t[i].watch_s \in Int
                 /\ IsSum([x0 \in Q |-> ones[x0]], Q, t[i].plays)
                 /\ IsSum([x0 \in Q |-> secs[x0]], Q, t[i].watch_s)
  <2> DEFINE Q == Classed(R, cls, {i})
  <2>1. Q \in SUBSET R /\ t[i] = Tally(Q)
    BY DEF Classed
  <2> HIDE DEF Q
  <2>2. IsFiniteSet(Q) /\ \A r \in Q : r.duration_s \in Int
    BY <1>1, <2>1, FS_Subset
  <2>3. t[i].plays = Cardinality(Q) /\ t[i].watch_s = Seconds(Q)
    BY <2>1 DEF Tally
  <2>4. IsSum([x0 \in Q |-> 1], Q, t[i].plays) /\ IsSum([x0 \in Q |-> x0.duration_s], Q, t[i].watch_s)
    BY <2>2, <2>3, CountIs, SecondsIs
  <2>5. [x0 \in Q |-> 1] = [x0 \in Q |-> ones[x0]] /\ [x0 \in Q |-> x0.duration_s] = [x0 \in Q |-> secs[x0]]
    BY <2>1
  <2>6. [x0 \in Q |-> 1] \in [Q -> Int] /\ [x0 \in Q |-> x0.duration_s] \in [Q -> Int]
    BY <2>2
  <2>7. t[i].plays \in Int
    BY <2>2, <2>4, <2>6, SumIsOne
  <2>8. t[i].watch_s \in Int
    BY <2>2, <2>4, <2>6, SumIsOne
  <2> HIDE DEF ones, secs
  <2> QED
    BY <2>4, <2>5, <2>7, <2>8 DEF Q
<1> HIDE DEF ones, secs
<1>5. PartSums(R, ones, I, cls, tp) /\ PartSums(R, secs, I, cls, tw)
  BY <1>4 DEF PartSums
<1>6. /\ IsSum([x0 \in DOMAIN t |-> t[x0].plays], DOMAIN t, SumOf(t).plays)
      /\ IsSum([x0 \in DOMAIN t |-> t[x0].watch_s], DOMAIN t, SumOf(t).watch_s)
      /\ SumOf(t) = [plays |-> SumOf(t).plays, watch_s |-> SumOf(t).watch_s]
  BY <1>4, SumOfIs
<1>7. tp \in [I -> Int] /\ tw \in [I -> Int] /\ IsSum(tp, I, SumOf(t).plays) /\ IsSum(tw, I, SumOf(t).watch_s)
  BY <1>4, <1>6
<1> HIDE DEF tp, tw
<1>8. Cardinality(R) = SumOf(t).plays
  BY <1>1, <1>2, <1>3, <1>5, <1>7, SumOfParts
<1>9. Seconds(R) = SumOf(t).watch_s
  BY <1>1, <1>2, <1>3, <1>5, <1>7, SumOfParts
<1> QED
  BY <1>6, <1>8, <1>9 DEF Tally

-----------------------------------------------------------------------------
(* Days, weeks, months and the charts over them.                             *)

(* Division with a remainder, of which there is one.                         *)
LEMMA Division ==
  ASSUME NEW n \in Nat \ {0}, NEW t \in Int
  PROVE  /\ t \div n \in Int /\ t % n \in Int /\ 0 <= t % n /\ t % n < n
         /\ n * (t \div n) \in Int /\ t = n * (t \div n) + (t % n)
  OBVIOUS

(* Multiples are as far apart as what they are multiples of.                 *)
LEMMA Multiples ==
  ASSUME NEW n \in Nat \ {0}, NEW y \in Int, NEW z \in Int
  PROVE  /\ y < z => n * y + n <= n * z
         /\ y <= z <=> n * y <= n * z
         /\ n * y \in Int /\ n * z \in Int
<1>1. n * y \in Int /\ n * z \in Int
  OBVIOUS
<1>2. ASSUME NEW p \in Int, NEW q \in Int, p < q PROVE n * p + n <= n * q
  <2>1. \E d \in Nat : q = p + 1 + d
    <3>1. q - p - 1 \in Nat /\ q = p + 1 + (q - p - 1)
      BY <1>2
    <3> QED
      BY <3>1
  <2>2. PICK d \in Nat : q = p + 1 + d
    BY <2>1
  <2>3. n * d >= 0 /\ n * d \in Int
    OBVIOUS
  <2>4. n * q = n * p + n + n * d
    BY <2>2
  <2> QED
    BY <2>3, <2>4
<1>3. y < z => n * y + n <= n * z
  BY <1>2
<1>4. z < y => n * z + n <= n * y
  BY <1>2
<1> QED
  BY <1>1, <1>3, <1>4

(* A quotient and a remainder below the divisor are the quotient and the     *)
(* remainder.                                                                *)
LEMMA OneRemainder ==
  ASSUME NEW n \in Nat \ {0}, NEW t \in Int, NEW q \in Int, NEW r \in Int, 0 <= r, r < n, t = n * q + r
  PROVE  t \div n = q /\ t % n = r
<1> DEFINE k == t \div n
           s == t % n
<1>1. k \in Int /\ s \in Int /\ 0 <= s /\ s < n /\ t = n * k + s
  BY Division
<1> HIDE DEF k, s
<1>2. n * q \in Int /\ n * k \in Int /\ (q < k => n * q + n <= n * k) /\ (k < q => n * k + n <= n * q)
  BY <1>1, Multiples
<1> QED
  BY <1>1, <1>2 DEF k, s

(* Days do not run backwards, and midnight is the first of a day.            *)
LEMMA DaysInOrder ==
  ASSUME NEW t \in Int, NEW d \in Int
  PROVE  /\ Day(t) \in Int /\ Midnight(d) \in Int /\ Day(Midnight(d)) = d
         /\ d <= Day(t) <=> Midnight(d) <= t
         /\ t < Midnight(Day(t) + 1)
<1>1. DayLength \in Nat \ {0}
  BY PagesAssumption
<1> DEFINE k == t \div DayLength
           s == t % DayLength
<1>2. k \in Int /\ s \in Int /\ 0 <= s /\ s < DayLength /\ t = DayLength * k + s
  BY <1>1, Division
<1>3. Day(t) = k
  BY DEF Day
<1> HIDE DEF k, s
<1>4. Midnight(d) = DayLength * d /\ DayLength * d \in Int /\ Midnight(k + 1) = DayLength * k + DayLength
  BY <1>1, <1>2 DEF Midnight
<1>5. Day(Midnight(d)) = d
  <2>1. DayLength * d = DayLength * d + 0
    BY <1>4
  <2>2. (DayLength * d) \div DayLength = d
    BY <1>1, <1>4, <2>1, OneRemainder
  <2> QED
    BY <1>4, <2>2 DEF Day
<1>6. DayLength * k \in Int /\ (d <= k <=> DayLength * d <= DayLength * k) /\ (k < d => DayLength * k + DayLength <= DayLength * d)
  BY <1>1, <1>2, Multiples
<1> QED
  BY <1>1, <1>2, <1>3, <1>4, <1>5, <1>6

(* The two ways the code finds the Monday of a week, in SQL and in Rust,     *)
(* agree.                                                                    *)
LEMMA MondayIs ==
  ASSUME NEW d \in Int
  PROVE  /\ SqlMonday(d) = WeekLength * (d \div WeekLength) /\ d - (d % WeekLength) = WeekLength * (d \div WeekLength)
         /\ d \div WeekLength \in Int
<1>1. WeekLength \in Nat \ {0}
  BY PagesAssumption
<1> DEFINE k == d \div WeekLength
           s == d % WeekLength
<1>2. k \in Int /\ s \in Int /\ 0 <= s /\ s < WeekLength /\ d = WeekLength * k + s /\ WeekLength * k \in Int
  BY <1>1, Division
<1> HIDE DEF k, s
<1>3. WeekLength - 1 - d = WeekLength * (-k) + (WeekLength - 1 - s)
  BY <1>1, <1>2
<1>4. (WeekLength - 1 - d) % WeekLength = WeekLength - 1 - s
  <2> DEFINE t == WeekLength - 1 - d
             q == -k
             r == WeekLength - 1 - s
  <2>1. t \in Int /\ q \in Int /\ r \in Int /\ 0 <= r /\ r < WeekLength /\ t = WeekLength * q + r
    BY <1>1, <1>2, <1>3
  <2> HIDE DEF t, q, r
  <2>2. t % WeekLength = r
    BY <1>1, <2>1, OneRemainder
  <2> QED
    BY <2>2 DEF t, r
<1>5. SqlMonday(d) = d + (WeekLength - 1 - s) - (WeekLength - 1)
  BY <1>4 DEF SqlMonday
<1> QED
  BY <1>1, <1>2, <1>5 DEF k, s

-----------------------------------------------------------------------------

(* A filter's window begins at a midnight, or there is none.                 *)
IsWindow(s) == s.since # Null => s.since \in Int /\ \E d \in Int : s.since = Midnight(d)

(* What a chart of R under s is about.                                       *)
ChartOf(R, s) ==
  /\ IsTable(R) /\ IsWindow(s) /\ today \in Nat
  /\ \A r \in R : Day(r.start) <= today /\ (s.since # Null => s.since <= r.start)

(* A chart begins on a day no play of its table is before.                   *)
LEMMA FirstDayIs ==
  ASSUME NEW R, NEW s, ChartOf(R, s), s.since # Null \/ R # {}
  PROVE  FirstDay(R, s) \in Int /\ \A r \in R : FirstDay(R, s) <= Day(r.start)
<1>1. CASE s.since # Null
  <2>1. PICK d \in Int : s.since = Midnight(d)
    BY <1>1 DEF ChartOf, IsWindow
  <2>2. \A r \in R : r.start \in Int /\ Midnight(d) <= r.start
    BY <1>1, <2>1 DEF ChartOf, IsTable, IsPlay
  <2>3. FirstDay(R, s) = Day(Midnight(d))
    BY <1>1, <2>1 DEF FirstDay
  <2> QED
    BY <2>2, <2>3, DaysInOrder
<1>2. CASE s.since = Null
  <2> DEFINE D == {Day(r.start) : r \in R}
  <2>1. D \in SUBSET Nat /\ D # {}
    <3>1. ASSUME NEW r \in R PROVE Day(r.start) \in Nat
      <4>1. r.start \in Nat /\ r.start \in Int /\ 0 \in Int
        BY DEF ChartOf, IsTable, IsPlay
      <4>2. Day(r.start) \in Int /\ (0 <= Day(r.start) <=> Midnight(0) <= r.start)
        BY <4>1, DaysInOrder
      <4>3. Midnight(0) = 0
        BY PagesAssumption DEF Midnight
      <4> QED
        BY <4>1, <4>2, <4>3
    <3> QED
      BY <1>2, <3>1
  <2>2. FirstDay(R, s) = Min(D)
    BY <1>2 DEF FirstDay
  <2>3. \A r \in R : Day(r.start) \in D
    OBVIOUS
  <2> HIDE DEF D
  <2> QED
    <3> DEFINE z0 == Min(D)
    <3>1. z0 \in D /\ \A z \in D : z0 <= z
      BY <2>1, SmallestOf
    <3>2. FirstDay(R, s) = z0
      BY <2>2
    <3> HIDE DEF z0
    <3>3. z0 \in Nat
      BY <2>1, <3>1
    <3>4. FirstDay(R, s) = z0 /\ z0 \in Int /\ \A z \in D : z0 <= z
      BY <3>1, <3>2, <3>3
    <3> QED
      BY <2>3, <3>4
<1> QED
  BY <1>1, <1>2

(* Every play falls on a date of the chart.                                  *)
LEMMA DatesHold ==
  ASSUME NEW R, NEW s, ChartOf(R, s)
  PROVE  /\ IsFiniteSet(ChartDates(R, s))
         /\ \A r \in R : DateOf(R, s, r.start) \in ChartDates(R, s)
<1>1. CASE s.since = Null /\ R = {}
  BY <1>1, FS_EmptySet DEF ChartDates
<1>2. CASE s.since # Null \/ R # {}
  <2> DEFINE first == FirstDay(R, s)
             step == IF Weekly(R, s) THEN WeekLength ELSE 1
             begin == ChartFrom(R, s)
  <2>1. first \in Int /\ (\A r \in R : first <= Day(r.start)) /\ today \in Int
    BY <1>2, FirstDayIs DEF ChartOf
  <2>2. ChartDates(R, s) = {d \in begin .. today : (d - begin) % step = 0}
    BY <1>2 DEF ChartDates
  <2>3. begin = IF Weekly(R, s) THEN WeekLength * (first \div WeekLength) ELSE first
    BY <2>1, MondayIs DEF ChartFrom
  <2>4. WeekLength \in Nat \ {0}
    BY PagesAssumption
  <2>5. first \div WeekLength \in Int /\ begin \in Int
    <3>1. first \div WeekLength \in Int /\ WeekLength * (first \div WeekLength) \in Int
      BY <2>1, <2>4, Division
    <3> QED
      BY <2>1, <2>3, <3>1
  <2> HIDE DEF begin
  <2>6. IsFiniteSet(ChartDates(R, s))
    BY <2>1, <2>2, <2>5, FS_Interval, FS_Subset
  <2>7. ASSUME NEW r \in R
        PROVE  DateOf(R, s, r.start) \in ChartDates(R, s)
    <3> DEFINE d == Day(r.start)
               k == d \div WeekLength
               q == first \div WeekLength
    <3>1. r.start \in Int /\ d <= today
      BY DEF ChartOf, IsTable, IsPlay
    <3>2. d \in Int /\ first <= d
      BY <2>1, <3>1, DaysInOrder
    <3> HIDE DEF d, first
    <3>3. CASE Weekly(R, s)
      <4>1. DateOf(R, s, r.start) = WeekLength * k /\ k \in Int
        BY <3>2, <3>3, MondayIs DEF DateOf, d
      <4>2. begin = WeekLength * q /\ q \in Int /\ step = WeekLength
        BY <2>3, <2>5, <3>3
      <4>3. /\ d = WeekLength * k + (d % WeekLength) /\ 0 <= d % WeekLength /\ d % WeekLength < WeekLength /\ d % WeekLength \in Int
            /\ first = WeekLength * q + (first % WeekLength) /\ 0 <= first % WeekLength /\ first % WeekLength < WeekLength
            /\ first % WeekLength \in Int
        BY <2>1, <2>4, <3>2, Division
      <4> HIDE DEF k, q, step
      <4>4. /\ WeekLength * k \in Int /\ WeekLength * q \in Int
            /\ (k < q => WeekLength * k + WeekLength <= WeekLength * q) /\ (q <= k <=> WeekLength * q <= WeekLength * k)
        BY <2>4, <4>1, <4>2, Multiples
      <4>5. q <= k
        BY <2>4, <3>2, <4>1, <4>2, <4>3, <4>4
      <4>6. WeekLength * k \in begin .. today
        BY <2>1, <3>1, <3>2, <4>1, <4>2, <4>3, <4>4, <4>5
      <4>7. (WeekLength * k - begin) % WeekLength = 0
        <5> DEFINE t == WeekLength * k - WeekLength * q
                   z == k - q
        <5>1. t \in Int /\ z \in Int /\ t = WeekLength * z + 0
          BY <2>4, <4>1, <4>2, <4>4
        <5> HIDE DEF t, z
        <5>2. t % WeekLength = 0
          BY <2>4, <5>1, OneRemainder
        <5> QED
          BY <4>2, <5>2 DEF t
      <4> QED
        BY <2>2, <4>1, <4>2, <4>6, <4>7
    <3>4. CASE ~Weekly(R, s)
      <4>1. DateOf(R, s, r.start) = d /\ begin = first /\ step = 1
        BY <2>3, <3>4 DEF DateOf, d
      <4>2. d \in begin .. today
        BY <2>1, <3>1, <3>2, <4>1
      <4>3. (d - begin) % 1 = 0
        BY <2>1, <3>2, <4>1
      <4> QED
        BY <2>2, <4>1, <4>2, <4>3
    <3> QED
      BY <3>3, <3>4
  <2> QED
    BY <2>6, <2>7
<1> QED
  BY <1>1, <1>2

(* "The chart's buckets and the totals always describe exactly the same      *)
(* plays".                                                                   *)
LEMMA ChartTellsAll ==
  ASSUME NEW R, NEW s, ChartOf(R, s)
  PROVE  SumOfChart(Daily(R, s)) = Tally(R)
<1> DEFINE f == Daily(R, s)
           D == ChartDates(R, s)
           I == {<<d, g>> : d \in D, g \in TYPE_GROUPS}
           t == [x0 \in I |-> f[x0[1]][x0[2]]]
           cls == [r \in R |-> <<DateOf(R, s, r.start), TypeGroup(r)>>]
<1>1. DOMAIN f = D
  BY DEF Daily
<1>2. SumOfChart(f) = SumOf(t)
  BY <1>1 DEF SumOfChart
<1>3. IsFiniteSet(D) /\ \A r \in R : DateOf(R, s, r.start) \in D
  BY DatesHold
<1>4. IsFiniteSet(I)
  <2>1. IsFiniteSet(TYPE_GROUPS)
    <3>1. IsFiniteSet({"Movie"}) /\ IsFiniteSet({"Episode"}) /\ IsFiniteSet({"Audio"}) /\ IsFiniteSet({"Other"})
      BY FS_Singleton
    <3>2. IsFiniteSet({"Movie"} \cup {"Episode"}) /\ IsFiniteSet({"Audio"} \cup {"Other"})
      BY <3>1, FS_Union
    <3>3. IsFiniteSet(({"Movie"} \cup {"Episode"}) \cup ({"Audio"} \cup {"Other"}))
      BY <3>2, FS_Union
    <3>4. TYPE_GROUPS = ({"Movie"} \cup {"Episode"}) \cup ({"Audio"} \cup {"Other"})
      BY DEF TYPE_GROUPS
    <3> QED
      BY <3>3, <3>4
  <2>2. I = D \X TYPE_GROUPS
    OBVIOUS
  <2> HIDE DEF D, I
  <2> QED
    BY <1>3, <2>1, <2>2, FS_Product
<1>5. cls \in [R -> I]
  <2>1. \A r \in R : TypeGroup(r) \in TYPE_GROUPS
    BY DEF TypeGroup, TYPE_GROUPS
  <2> HIDE DEF D
  <2> QED
    BY <1>3, <2>1
<1>6. ASSUME NEW i \in I
      PROVE  t[i] = Tally(Classed(R, cls, {i}))
  <2>1. PICK d \in D, g \in TYPE_GROUPS : i = <<d, g>>
    OBVIOUS
  <2> DEFINE Q == {r \in R : DateOf(R, s, r.start) = d /\ TypeGroup(r) = g}
  <2>2. t[i] = Tally(Q)
    BY <2>1 DEF Daily
  <2>3. Q = Classed(R, cls, {i})
    BY <2>1 DEF Classed
  <2> HIDE DEF t, cls, Q
  <2> QED
    BY <2>2, <2>3
<1>7. DOMAIN t = I /\ IsTable(R)
  BY DEF ChartOf
<1> HIDE DEF f, D, I, t, cls
<1>8. SumOf(t) = Tally(R)
  BY <1>4, <1>5, <1>6, <1>7, TallyOfParts
<1> QED
  BY <1>2, <1>8 DEF f

-----------------------------------------------------------------------------
(* The table the pages are read from.                                        *)

(* What is in the table has begun, and there is no more than fits.           *)
TableInv ==
  /\ RowsInv
  /\ Cardinality(rows) <= MostPlays
  /\ \A r \in rows : Day(r.start) <= today

(* Neither a recorded play, nor one that ends or is deleted, nor a day that  *)
(* passes breaks that.                                                       *)
LEMMA TableStep ==
  ASSUME TableInv, Recorded \/ Ended \/ activity_delete \/ DayPasses \/ UNCHANGED <<rows, today>>
  PROVE  TableInv'
<1>1. RowsInv /\ RowsInv'
  BY RowsStep DEF TableInv
<1>2. IsFiniteSet(rows) /\ Cardinality(rows) \in Nat /\ MostPlays \in Nat /\ today \in Nat
  BY <1>1, PlaysAssumption, FS_CardinalityType DEF RowsInv, PagesTypeOK
<1>3. \A r \in rows : Day(r.start) \in Int
  <2>1. \A r \in rows : r.start \in Int
    BY <1>1, RowIsPlay DEF RowsInv
  <2> QED
    BY <2>1, DaysInOrder
<1>4. CASE Recorded
  <2>1. PICK r \in PlaysToCome : /\ Day(r.start) <= today /\ Cardinality(rows) < MostPlays /\ rows' = rows \cup {r} /\ today' = today
    BY <1>4 DEF Recorded
  <2>2. Cardinality(rows') <= MostPlays
    <3>1. Cardinality(rows \cup {r}) = IF r \in rows THEN Cardinality(rows) ELSE Cardinality(rows) + 1
      BY <1>2, FS_AddElement
    <3> QED
      BY <1>2, <2>1, <3>1
  <2>3. \A p \in rows' : Day(p.start) <= today'
    BY <2>1 DEF TableInv
  <2> QED
    BY <1>1, <2>2, <2>3 DEF TableInv, Day
<1>5. CASE Ended
  <2>1. PICK r \in rows : rows' = (rows \ {r}) \cup {[r EXCEPT !.active = FALSE]} /\ today' = today
    BY <1>5 DEF Ended
  <2> DEFINE z == [r EXCEPT !.active = FALSE]
  <2>2. z.start = r.start
    <3>1. PICK p \in PlaysToCome : r = [p EXCEPT !.active = r.active]
      BY <1>1 DEF RowsInv, PagesTypeOK
    <3> QED
      BY <3>1, PlaysAssumption
  <2> HIDE DEF z
  <2>3. rows' = (rows \ {r}) \cup {z}
    BY <2>1 DEF z
  <2>4. IsFiniteSet(rows \ {r}) /\ Cardinality(rows \ {r}) = Cardinality(rows) - 1
    BY <1>2, FS_RemoveElement
  <2>5. Cardinality(rows') <= MostPlays
    <3>1. Cardinality((rows \ {r}) \cup {z}) <= Cardinality(rows)
      <4> DEFINE Q0 == rows \ {r}
      <4>1. Cardinality(Q0 \cup {z}) = IF z \in Q0 THEN Cardinality(Q0) ELSE Cardinality(Q0) + 1
        BY <2>4, FS_AddElement
      <4> QED
        BY <1>2, <2>4, <4>1
    <3>2. IsFiniteSet((rows \ {r}) \cup {z})
      BY <2>4, FS_AddElement
    <3>3. Cardinality((rows \ {r}) \cup {z}) \in Nat
      BY <3>2, FS_CardinalityType
    <3>4. Cardinality(rows) <= MostPlays
      BY DEF TableInv
    <3> QED
      BY <1>2, <2>3, <3>1, <3>3, <3>4
  <2>6. \A p \in rows' : Day(p.start) <= today'
    BY <2>1, <2>2, <2>3 DEF TableInv
  <2> QED
    BY <1>1, <2>5, <2>6 DEF TableInv, Day
<1>6. CASE activity_delete
  <2>1. PICK r \in rows : rows' = rows \ {r} /\ today' = today
    BY <1>6 DEF activity_delete
  <2>2. Cardinality(rows') = Cardinality(rows) - 1
    BY <1>2, <2>1, FS_RemoveElement
  <2>3. Cardinality(rows') <= MostPlays
    BY <1>2, <2>2 DEF TableInv
  <2>4. \A p \in rows' : Day(p.start) <= today'
    BY <2>1 DEF TableInv
  <2> QED
    BY <1>1, <2>3, <2>4 DEF TableInv, Day
<1>7. CASE DayPasses
  <2>1. rows' = rows /\ today' = today + 1
    BY <1>7 DEF DayPasses
  <2>2. \A p \in rows' : Day(p.start) <= today'
    BY <1>2, <1>3, <2>1 DEF TableInv
  <2> QED
    BY <1>1, <2>1, <2>2 DEF TableInv, Day
<1>8. CASE UNCHANGED <<rows, today>>
  BY <1>1, <1>8 DEF TableInv, Day
<1> QED
  BY <1>4, <1>5, <1>6, <1>7, <1>8

(* It holds of the empty table.                                              *)
LEMMA TableInitially == PagesInit => TableInv
<1> SUFFICES ASSUME PagesInit PROVE TableInv
  OBVIOUS
<1>1. RowsInv
  BY FS_EmptySet, PlaysAssumption DEF PagesInit, RowsInv, PagesTypeOK
<1>2. Cardinality(rows) = 0 /\ rows = {}
  BY FS_EmptySet DEF PagesInit
<1> QED
  BY <1>1, <1>2, PlaysAssumption DEF TableInv

(* The rows a filter leaves, and any of them, are in its window.             *)
LEMMA ScopeIs ==
  ASSUME TableInv, NEW v, NEW q, q.days \in Nat
  PROVE  /\ IsWindow(Scope(v, q)) /\ today \in Nat
         /\ q.days = 0 => Scope(v, q).since = Null
         /\ q.days > 0 => Scope(v, q).since = Midnight(today - (q.days - 1)) /\ Scope(v, q).since # Null
         /\ Scope(v, q).days = q.days /\ Scope(v, q).library_id = q.library_id
         /\ Scope(v, q).user_id = pinned_user(v, q.user_id)
<1>1. today \in Nat
  BY DEF TableInv, RowsInv, PagesTypeOK
<1>2. today - (q.days - 1) \in Int
  BY <1>1
<1> DEFINE d == today - (q.days - 1)
<1>3. Midnight(d) \in Int
  BY <1>2, DaysInOrder
<1> HIDE DEF d
<1>4. q.days > 0 => Scope(v, q).since = Midnight(d)
  BY DEF Scope, d
<1>5. q.days = 0 => Scope(v, q).since = Null
  BY DEF Scope
<1>6. Null \notin Int
  BY ColumnsAssumption
<1>7. IsWindow(Scope(v, q))
  BY <1>2, <1>3, <1>4, <1>5 DEF IsWindow, d
<1> QED
  BY <1>1, <1>3, <1>4, <1>5, <1>6, <1>7 DEF Scope, d

(* What a filter leaves of the table, and any part of it, lies in its        *)
(* window.                                                                   *)
LEMMA CondIs ==
  ASSUME TableInv, NEW s, IsWindow(s), NEW R \in SUBSET Cond(rows, s)
  PROVE  ChartOf(R, s) /\ IsTable(R) /\ R \subseteq rows
<1>1. R \subseteq rows /\ \A r \in R : s.since # Null => r.start >= s.since
  BY DEF Cond, Base
<1>2. IsTable(R)
  BY <1>1, RowsAreTable, TablePart DEF TableInv
<1>3. \A r \in R : s.since # Null => s.since <= r.start
  BY <1>1, <1>2 DEF IsWindow, IsTable, IsPlay
<1>4. today \in Nat /\ \A r \in R : Day(r.start) <= today
  BY <1>1 DEF TableInv, RowsInv, PagesTypeOK
<1> QED
  BY <1>1, <1>2, <1>3, <1>4 DEF ChartOf

(* The charts of the dashboard, of a person and of a library agree with the  *)
(* figures beside them.                                                      *)
LEMMA ChartsTellAll ==
  ASSUME TableInv, NEW v, NEW q \in Queries
  PROVE  ChartsAgree(v, q)
<1> DEFINE s == Scope(v, q)
           page == overview(rows, v, q)
           R == Cond(rows, s)
<1>1. q.days \in Nat
  BY PagesAssumption DEF Queries
<1>2. IsWindow(s) /\ today \in Nat
  BY <1>1, ScopeIs
<1>3. ChartOf(R, s)
  BY <1>2, CondIs
<1>4. SumOfChart(page.daily) = page.totals.tally
  <2>1. page.daily = Daily(R, s) /\ page.totals.tally = Tally(R)
    BY DEF overview, Totals
  <2> HIDE DEF page, R, s
  <2> QED
    BY <1>3, <2>1, ChartTellsAll
<1>5. ASSUME s.since # Null
      PROVE  LET both == Cond(rows, Scope(v, [q EXCEPT !.days = 2 * q.days]))
             IN  /\ Cond(rows, s) \cup Previous(rows, s) = both
                 /\ Cond(rows, s) \cap Previous(rows, s) = {}
  <2> DEFINE q2 == [q EXCEPT !.days = 2 * q.days]
             sq == Scope(v, q2)
             n == q.days
             mid0 == Midnight(today - (n - 1))
             low == Midnight(today - (2 * n - 1))
  <2>1. q2.days = 2 * n /\ q2.user_id = q.user_id /\ q2.library_id = q.library_id
    BY DEF Queries
  <2>2. n \in Nat /\ n > 0
    BY <1>1, <1>5, ScopeIs
  <2>3. s.since = mid0 /\ s.days = n /\ mid0 # Null
    BY <1>1, <2>2, ScopeIs
  <2>4. sq.since = low /\ sq.since # Null /\ sq.user_id = s.user_id /\ sq.library_id = s.library_id
    <3>1. 2 * n \in Nat /\ 2 * n > 0
      BY <2>2
    <3> HIDE DEF q2
    <3> QED
      BY <1>1, <2>1, <3>1, ScopeIs
  <2>5. low = mid0 - n * DayLength /\ low \in Int /\ mid0 \in Int /\ low <= mid0
    <3>1. DayLength \in Nat \ {0} /\ today \in Int /\ n \in Nat
      BY <1>2, <2>2, PagesAssumption
    <3>2. (today - (2 * n - 1)) * DayLength = (today - (n - 1)) * DayLength - n * DayLength
      BY <3>1
    <3>3. n * DayLength \in Nat /\ (today - (n - 1)) * DayLength \in Int
      BY <3>1
    <3> QED
      BY <3>2, <3>3 DEF Midnight
  <2>6. Base(rows, sq) = Base(rows, s)
    BY <2>4 DEF Base
  <2> HIDE DEF s, sq, low, mid0, n, q2
  <2>7. Cond(rows, sq) = {r \in Base(rows, s) : r.start >= low}
    BY <2>4, <2>6 DEF Cond
  <2>8. Cond(rows, s) = {r \in Base(rows, s) : r.start >= mid0}
    BY <1>5, <2>3 DEF Cond
  <2>9. Previous(rows, s) = {r \in Base(rows, s) : low <= r.start /\ r.start < mid0}
    BY <2>3, <2>5 DEF Previous
  <2>10. \A r \in Base(rows, s) : r.start \in Int
    BY RowIsPlay DEF TableInv, RowsInv, Base
  <2>11. Cond(rows, s) \cup Previous(rows, s) = Cond(rows, sq) /\ Cond(rows, s) \cap Previous(rows, s) = {}
    BY <2>5, <2>7, <2>8, <2>9, <2>10
  <2> QED
    BY <2>11 DEF s, sq, q2
<1> QED
  BY <1>4, <1>5 DEF ChartsAgree

-----------------------------------------------------------------------------
(* The head of a ranking, and the buckets under it.                          *)

(* Of finitely many numbers there is a greatest.                             *)
LEMMA MostExists ==
  ASSUME NEW Q, IsFiniteSet(Q), Q # {}, NEW g, \A y0 \in Q : g[y0] \in Int
  PROVE  \E z0 \in Q : \A y0 \in Q : g[y0] <= g[z0]
<1> DEFINE Has(R) == \E z0 \in R : \A y0 \in R : g[y0] <= g[z0]
           T == {n \in Nat : \A R \in SUBSET Q : Cardinality(R) = n /\ R # {} => Has(R)}
<1>1. 0 \in T
  <2>1. \A R \in SUBSET Q : Cardinality(R) = 0 => R = {}
    BY PartsAreFinite
  <2> QED
    BY <2>1
<1>2. ASSUME NEW n \in Nat, n \in T
      PROVE  n + 1 \in T
  <2>1. ASSUME NEW R \in SUBSET Q, Cardinality(R) = n + 1, R # {}
        PROVE  Has(R)
    <3>1. PICK x0 \in R : TRUE
      BY <2>1
    <3> DEFINE R0 == R \ {x0}
    <3>2. R0 \in SUBSET Q /\ Cardinality(R0) = n
      BY <1>2, <2>1, PartsAreFinite
    <3>3. CASE R0 = {}
      <4>1. R = {x0}
        BY <3>3
      <4> QED
        BY <4>1
    <3>4. CASE R0 # {}
      <4>1. PICK z0 \in R0 : \A y0 \in R0 : g[y0] <= g[z0]
        BY <1>2, <3>2, <3>4
      <4>2. g[z0] \in Int /\ g[x0] \in Int /\ \A y0 \in R : g[y0] \in Int
        OBVIOUS
      <4>3. CASE g[x0] <= g[z0]
        BY <4>1, <4>2, <4>3
      <4>4. CASE g[z0] <= g[x0]
        <5>1. \A y0 \in R : g[y0] <= g[x0]
          BY <4>1, <4>2, <4>4
        <5> QED
          BY <5>1
      <4> QED
        BY <4>2, <4>3, <4>4
    <3> QED
      BY <3>3, <3>4
  <2> QED
    BY <2>1
<1> HIDE DEF T
<1>3. Nat \subseteq T
  BY <1>1, <1>2, NatByStep
<1>4. Cardinality(Q) \in Nat
  BY FS_CardinalityType
<1> QED
  BY <1>3, <1>4 DEF T

(* No group is before the one with the most plays, and of those the longest. *)
LEMMA ForemostOne ==
  ASSUME NEW Q, IsFiniteSet(Q), Q # {}, NEW of, \A y0 \in Q : of[y0].plays \in Int /\ of[y0].watch_s \in Int
  PROVE  \E z0 \in Q : \A y0 \in Q : ~Ranks(TRUE, of[y0], of[z0])
<1> DEFINE g == [y0 \in Q |-> of[y0].plays]
           w == [y0 \in Q |-> of[y0].watch_s]
<1>1. PICK most \in Q : \A y0 \in Q : of[y0].plays <= of[most].plays
  <2>1. \A y0 \in Q : g[y0] \in Int
    OBVIOUS
  <2>2. \E z0 \in Q : \A y0 \in Q : g[y0] <= g[z0]
    BY <2>1, MostExists
  <2> QED
    BY <2>2
<1> DEFINE R == {y0 \in Q : of[y0].plays = of[most].plays}
<1>2. IsFiniteSet(R) /\ R # {} /\ \A y0 \in R : w[y0] \in Int
  BY FS_Subset
<1>3. PICK z0 \in R : \A y0 \in R : w[y0] <= w[z0]
  <2> HIDE DEF R, w
  <2> QED
    BY <1>2, MostExists
<1>4. ASSUME NEW y0 \in Q PROVE ~Ranks(TRUE, of[y0], of[z0])
  BY <1>1, <1>3 DEF Ranks
<1> QED
  BY <1>4

(* There is a head of every length: as many groups as asked for, with none   *)
(* of the rest before one of them.                                           *)
LEMMA HeadExists ==
  ASSUME NEW S, IsFiniteSet(S), NEW of, \A y0 \in S : of[y0].plays \in Int /\ of[y0].watch_s \in Int,
         NEW n \in Nat, n <= Cardinality(S)
  PROVE  \E H \in kSubset(n, S) : \A y0 \in H, z0 \in S \ H : ~Ranks(TRUE, of[z0], of[y0])
<1> DEFINE Has(k) == \E H \in SUBSET S : Cardinality(H) = k /\ \A y0 \in H, z0 \in S \ H : ~Ranks(TRUE, of[z0], of[y0])
           T == {k \in Nat : k <= Cardinality(S) => Has(k)}
<1>0. Cardinality(S) \in Nat
  BY FS_CardinalityType
<1>1. 0 \in T
  <2>1. {} \in SUBSET S /\ Cardinality({}) = 0
    BY FS_EmptySet
  <2> QED
    BY <2>1
<1> HIDE DEF Has
<1>2. ASSUME NEW k \in Nat, k \in T
      PROVE  k + 1 \in T
  <2>1. ASSUME k + 1 <= Cardinality(S)
        PROVE  Has(k + 1)
    <3>0. Has(k)
      BY <1>0, <1>2, <2>1
    <3>1. PICK H \in SUBSET S : Cardinality(H) = k /\ \A y0 \in H, z0 \in S \ H : ~Ranks(TRUE, of[z0], of[y0])
      BY <3>0 DEF Has
    <3>2. S \ H # {} /\ IsFiniteSet(S \ H) /\ IsFiniteSet(H)
      <4>1. H # S
        BY <1>0, <2>1, <3>1
      <4> QED
        BY <4>1, FS_Subset
    <3>3. PICK x0 \in S \ H : \A z0 \in S \ H : ~Ranks(TRUE, of[z0], of[x0])
      <4> DEFINE Q == S \ H
      <4>1. Q # {} /\ IsFiniteSet(Q) /\ \A y0 \in Q : of[y0].plays \in Int /\ of[y0].watch_s \in Int
        BY <3>2
      <4> HIDE DEF Q
      <4>2. \E x0 \in Q : \A z0 \in Q : ~Ranks(TRUE, of[z0], of[x0])
        BY <4>1, ForemostOne
      <4> QED
        BY <4>2 DEF Q
    <3> DEFINE K == H \cup {x0}
    <3>4. K \in SUBSET S /\ Cardinality(K) = k + 1
      BY <3>1, <3>2, FS_AddElement
    <3>5. \A y0 \in K, z0 \in S \ K : ~Ranks(TRUE, of[z0], of[y0])
      BY <3>1, <3>3
    <3> QED
      BY <3>4, <3>5 DEF Has
  <2> QED
    BY <2>1
<1> HIDE DEF T
<1>3. Nat \subseteq T
  BY <1>1, <1>2, NatByStep
<1>4. Has(n)
  BY <1>3 DEF T
<1> QED
  BY <1>4 DEF kSubset, Has

(* The n groups with the most plays (`GROUP BY ... ORDER BY plays DESC LIMIT *)
(* n`).                                                                      *)
HeadOf(of, n) == Foremost(DOMAIN of, n, LAMBDA x0, y0 : Ranks(TRUE, of[x0], of[y0]))

(* They are among the groups.                                                *)
LEMMA ForemostIs ==
  ASSUME NEW of, IsFiniteSet(DOMAIN of), \A y0 \in DOMAIN of : of[y0].plays \in Int /\ of[y0].watch_s \in Int,
         NEW n \in Nat
  PROVE  HeadOf(of, n) \in SUBSET DOMAIN of
<1> DEFINE S == DOMAIN of
<1>0. HeadOf(of, n) = Foremost(S, n, LAMBDA x0, y0 : Ranks(TRUE, of[x0], of[y0])) /\ IsFiniteSet(S)
  BY DEF HeadOf
<1>1. CASE Cardinality(S) <= n
  BY <1>0, <1>1 DEF Foremost
<1>2. CASE ~(Cardinality(S) <= n)
  <2>1. n <= Cardinality(S)
    <3>1. Cardinality(S) \in Nat
      BY <1>0, FS_CardinalityType
    <3> HIDE DEF S
    <3> QED
      BY <1>2, <3>1
  <2>2. \E H \in kSubset(n, S) : \A y0 \in H, z0 \in S \ H : ~Ranks(TRUE, of[z0], of[y0])
    BY <1>0, <2>1, HeadExists
  <2> DEFINE H0 == CHOOSE H \in kSubset(n, S) : \A x0 \in H, y0 \in S \ H : ~Ranks(TRUE, of[y0], of[x0])
  <2>3. H0 \in kSubset(n, S)
    BY <2>2
  <2>4. Foremost(S, n, LAMBDA x0, y0 : Ranks(TRUE, of[x0], of[y0])) = H0
    BY <1>2 DEF Foremost
  <2> HIDE DEF H0
  <2> QED
    BY <1>0, <2>3, <2>4 DEF kSubset
<1> QED
  BY <1>1, <1>2

(* The two columns of a table of tallies, added up over S.                   *)
PlaysOver(t, S) == MapThenSumSet(LAMBDA x0 : t[x0].plays, S)
WatchOver(t, S) == MapThenSumSet(LAMBDA x0 : t[x0].watch_s, S)

(* They are those sums.                                                      *)
LEMMA SumsOver ==
  ASSUME NEW S, IsFiniteSet(S), NEW t, \A x0 \in S : t[x0].plays \in Int /\ t[x0].watch_s \in Int
  PROVE  /\ IsSum([x0 \in S |-> t[x0].plays], S, PlaysOver(t, S))
         /\ IsSum([x0 \in S |-> t[x0].watch_s], S, WatchOver(t, S))
<1> DEFINE f == [x0 \in S |-> t[x0].plays]
           g == [x0 \in S |-> t[x0].watch_s]
           DF(sums) == [Q \in SUBSET S |-> IF Q = {} THEN 0 ELSE t[OneOf(Q)].plays + sums[Q \ {OneOf(Q)}]]
           DG(sums) == [Q \in SUBSET S |-> IF Q = {} THEN 0 ELSE t[OneOf(Q)].watch_s + sums[Q \ {OneOf(Q)}]]
           kf == CHOOSE sums : sums = DF(sums)
           kg == CHOOSE sums : sums = DG(sums)
<1>1. PlaysOver(t, S) = kf[S] /\ WatchOver(t, S) = kg[S]
  BY DEF PlaysOver, WatchOver, MapThenSumSet, MapThenFoldSet, OneOf
<1>2. f \in [S -> Int] /\ g \in [S -> Int]
  OBVIOUS
<1>3. \A Q \in SUBSET S : Q # {} => OneOf(Q) \in S
  BY DEF OneOf
<1>4. ASSUME NEW sums PROVE DF(sums) = SumStep(f, S, sums) /\ DG(sums) = SumStep(g, S, sums)
  BY <1>3 DEF SumStep
<1> HIDE DEF f, g
<1>5. PICK sums : AreSums(f, S, sums)
  BY <1>2, SumsExist
<1>6. PICK others : AreSums(g, S, others)
  BY <1>2, SumsExist
<1>7. sums = DF(sums) /\ others = DG(others)
  BY <1>4, <1>5, <1>6 DEF AreSums
<1> HIDE DEF DF, DG
<1>8. kf = DF(kf) /\ kg = DG(kg)
  BY <1>7
<1>9. AreSums(f, S, kf) /\ AreSums(g, S, kg)
  BY <1>4, <1>8 DEF AreSums
<1> HIDE DEF kf, kg
<1>10. IsSum(f, S, kf[S]) /\ IsSum(g, S, kg[S])
  BY <1>9 DEF IsSum
<1> QED
  BY <1>1, <1>10 DEF f, g

(* A play of another name is told of once, under "Other" if under no name.   *)
LEMMA BucketsTellAll ==
  ASSUME NEW R, IsTable(R), NEW most \in Nat, \A r \in R : r.method # Null
  PROVE  SumOfBuckets(Buckets([r \in R |-> NameOf(r.method)], most)) = Tally(R)
<1> DEFINE names == [r \in R |-> NameOf(r.method)]
           G == {r.method : r \in R}
           of == [n \in UNION {names[r] : r \in DOMAIN names} |-> Tally({r \in DOMAIN names : n \in names[r]})]
           head == Foremost(DOMAIN of, most, LAMBDA x0, y0 : Ranks(TRUE, of[x0], of[y0]))
           rest == DOMAIN of \ head
           other == [plays   |-> MapThenSumSet(LAMBDA x0 : of[x0].plays, rest),
                     watch_s |-> MapThenSumSet(LAMBDA x0 : of[x0].watch_s, rest)]
           I == head \cup {Null}
           t == [n \in I |-> IF n = Null THEN other ELSE of[n]]
           cls == [r \in R |-> IF r.method \in head THEN r.method ELSE Null]
<1>1. Buckets(names, most) = [named |-> [n \in head |-> of[n]], other |-> other]
  BY DEF Buckets
<1>2. SumOfBuckets(Buckets(names, most)) = SumOf(t)
  <2> DEFINE f == [named |-> [n \in head |-> of[n]], other |-> other]
  <2>1. SumOfBuckets(f) = SumOf([n \in DOMAIN f.named \cup {Null} |-> IF n = Null THEN f.other ELSE f.named[n]])
    BY DEF SumOfBuckets
  <2> HIDE DEF of, head, other
  <2>2. DOMAIN f.named = head /\ f.other = other /\ f.named = [n \in head |-> of[n]]
    OBVIOUS
  <2> HIDE DEF f
  <2>3. \A n \in DOMAIN f.named \cup {Null} : (IF n = Null THEN f.other ELSE f.named[n]) = t[n]
    BY <2>2
  <2>4. [n \in DOMAIN f.named \cup {Null} |-> IF n = Null THEN f.other ELSE f.named[n]] = t
    BY <2>2, <2>3
  <2> QED
    BY <1>1, <2>1, <2>4 DEF f
<1>3. \A r \in R : names[r] = {r.method}
  BY DEF NameOf
<1>4. UNION {names[r] : r \in DOMAIN names} = G
  BY <1>3
<1>5. of = [n \in G |-> Tally({r \in R : r.method = n})]
  <2>1. \A n \in G : {r \in DOMAIN names : n \in names[r]} = {r \in R : r.method = n}
    BY <1>3
  <2> QED
    BY <1>4, <2>1
<1> HIDE DEF names
<1>6. IsFiniteSet(R) /\ IsFiniteSet(G) /\ Null \notin G
  <2>1. IsFiniteSet(R)
    BY DEF IsTable
  <2>2. IsFiniteSet(G)
    <3> DEFINE by == [r \in R |-> r.method]
    <3>1. by \in Surjection(R, G)
      BY DEF Surjection
    <3> HIDE DEF by, G
    <3> QED
      BY <2>1, <3>1, FS_Surjection
  <2> QED
    BY <2>1, <2>2
<1> DEFINE ToldBy(n) == Tally({r \in R : r.method = n})
<1>7. ASSUME NEW Q \in SUBSET R
      PROVE  IsTable(Q) /\ Tally(Q).plays \in Int /\ Tally(Q).watch_s \in Int
  <2>1. IsTable(Q)
    BY TablePart
  <2>2. IsFiniteSet(Q) /\ (\A r \in Q : r.duration_s \in Int) /\ Cardinality(Q) \in Nat
    BY <2>1, FS_CardinalityType DEF IsTable, IsPlay
  <2>3. [r \in Q |-> r.duration_s] \in [Q -> Int]
    BY <2>2
  <2>4. Seconds(Q) \in Int
    BY <2>2, <2>3, SecondsIs, SumIsOne
  <2> QED
    BY <2>1, <2>2, <2>4 DEF Tally
<1>8. DOMAIN of = G /\ \A n \in G : of[n] = ToldBy(n) /\ of[n].plays \in Int /\ of[n].watch_s \in Int
  <2>1. \A n \in G : {r \in R : r.method = n} \in SUBSET R
    OBVIOUS
  <2> QED
    BY <1>5, <1>7, <2>1
<1> HIDE DEF of, G
<1>9. head \in SUBSET G /\ rest \in SUBSET G
  <2>1. IsFiniteSet(DOMAIN of) /\ \A n \in DOMAIN of : of[n].plays \in Int /\ of[n].watch_s \in Int
    BY <1>6, <1>8
  <2>2. head \in SUBSET DOMAIN of
    BY <2>1, ForemostIs DEF HeadOf
  <2> QED
    BY <1>8, <2>2
<1> HIDE DEF head, other
<1>10. IsFiniteSet(I) /\ IsFiniteSet(rest) /\ Null \notin head
  <2>1. IsFiniteSet(head) /\ IsFiniteSet(rest)
    BY <1>6, <1>9, FS_Subset
  <2> QED
    BY <1>6, <1>9, <2>1, FS_AddElement
<1>11. cls \in [R -> I]
  OBVIOUS
<1> DEFINE Q == {r \in R : r.method \in rest}
<1>12. other = Tally(Q)
  <2> DEFINE o == [n \in rest |-> ToldBy(n)]
             cl == [r \in Q |-> r.method]
  <2>1. IsTable(Q) /\ Q \in SUBSET R
    BY <1>7
  <2>2. cl \in [Q -> rest] /\ DOMAIN o = rest
    OBVIOUS
  <2>3. \A n \in rest : o[n] = Tally(Classed(Q, cl, {n}))
    <3>1. \A n \in rest : Classed(Q, cl, {n}) = {r \in R : r.method = n}
      BY DEF Classed
    <3> QED
      BY <3>1
  <2> HIDE DEF Q, cl, o, rest
  <2>4. SumOf(o) = Tally(Q)
    BY <1>10, <2>1, <2>2, <2>3, TallyOfParts
  <2>5. \A n \in rest : o[n] = of[n] /\ o[n].plays \in Int /\ o[n].watch_s \in Int
    BY <1>8, <1>9 DEF o
  <2>6. /\ IsSum([n \in rest |-> o[n].plays], rest, SumOf(o).plays)
        /\ IsSum([n \in rest |-> o[n].watch_s], rest, SumOf(o).watch_s)
        /\ SumOf(o) = [plays |-> SumOf(o).plays, watch_s |-> SumOf(o).watch_s]
    BY <1>10, <2>2, <2>5, SumOfIs
  <2>7. /\ IsSum([n \in rest |-> of[n].plays], rest, other.plays)
        /\ IsSum([n \in rest |-> of[n].watch_s], rest, other.watch_s)
    <3>1. \A n \in rest : of[n].plays \in Int /\ of[n].watch_s \in Int
      BY <2>5
    <3>2. /\ IsSum([n \in rest |-> of[n].plays], rest, PlaysOver(of, rest))
          /\ IsSum([n \in rest |-> of[n].watch_s], rest, WatchOver(of, rest))
      BY <1>10, <3>1, SumsOver
    <3> QED
      BY <3>2 DEF other, PlaysOver, WatchOver
  <2>8. [n \in rest |-> o[n].plays] = [n \in rest |-> of[n].plays] /\ [n \in rest |-> o[n].plays] \in [rest -> Int]
    BY <2>5
  <2>9. [n \in rest |-> o[n].watch_s] = [n \in rest |-> of[n].watch_s] /\ [n \in rest |-> o[n].watch_s] \in [rest -> Int]
    BY <2>5
  <2>10. other.plays = SumOf(o).plays
    BY <1>10, <2>6, <2>7, <2>8, SumIsOne
  <2>11. other.watch_s = SumOf(o).watch_s
    BY <1>10, <2>6, <2>7, <2>9, SumIsOne
  <2>12. other = [plays |-> other.plays, watch_s |-> other.watch_s]
    BY DEF other
  <2> QED
    BY <2>4, <2>6, <2>10, <2>11, <2>12
<1>13. \A n \in I : t[n] = Tally(Classed(R, cls, {n}))
  <2>1. \A r \in R : r.method \in G /\ r.method # Null
    BY DEF G
  <2>2. Classed(R, cls, {Null}) = Q
    BY <1>8, <1>10, <2>1 DEF Classed
  <2>3. \A n \in head : Classed(R, cls, {n}) = {r \in R : r.method = n} /\ n \in G /\ n # Null
    BY <1>9, <1>10, <2>1 DEF Classed
  <2>4. \A n \in head : t[n] = ToldBy(n)
    BY <1>8, <2>3
  <2> HIDE DEF cls, Q
  <2> QED
    BY <1>12, <2>2, <2>3, <2>4
<1>14. DOMAIN t = I
  OBVIOUS
<1> HIDE DEF I, t, cls
<1>15. SumOf(t) = Tally(R)
  BY <1>10, <1>11, <1>13, <1>14, TallyOfParts
<1> QED
  BY <1>2, <1>15 DEF names

-----------------------------------------------------------------------------
(* The pages of a person, a library, a title and an actor.                   *)

(* The same, where the groups are written out by what their plays share.     *)
LEMMA ClassesTellAll ==
  ASSUME NEW R, IsTable(R), NEW I, IsFiniteSet(I), NEW cls \in [R -> I]
  PROVE  SumOf([i \in I |-> Tally({r \in R : cls[r] = i})]) = Tally(R)
<1> DEFINE t == [i \in I |-> Tally({r \in R : cls[r] = i})]
<1>1. \A i \in I : t[i] = Tally(Classed(R, cls, {i}))
  <2>1. \A i \in I : {r \in R : cls[r] = i} = Classed(R, cls, {i})
    BY DEF Classed
  <2> QED
    BY <2>1
<1>2. DOMAIN t = I
  OBVIOUS
<1> HIDE DEF t
<1>3. SumOf(t) = Tally(R)
  BY <1>1, <1>2, TallyOfParts
<1> QED
  BY <1>3 DEF t

(* A tally counts rows, each once.                                           *)
LEMMA TallyIs ==
  ASSUME NEW R, IsTable(R)
  PROVE  Tally(R).plays = Cardinality(R) /\ Tally(R).plays \in Nat /\ Tally(R).watch_s \in Int
<1>1. IsFiniteSet(R) /\ (\A r \in R : r.duration_s \in Int) /\ Cardinality(R) \in Nat
  BY FS_CardinalityType DEF IsTable, IsPlay
<1>2. [r \in R |-> r.duration_s] \in [R -> Int]
  BY <1>1
<1>3. Seconds(R) \in Int
  BY <1>1, <1>2, SecondsIs, SumIsOne
<1> QED
  BY <1>1, <1>3 DEF Tally

(* Who watched adds up to what was watched.                                  *)
LEMMA WatchersTellAll ==
  ASSUME NEW R, IsTable(R)
  PROVE  SumOf(PerUser(R)) = Tally(R)
<1> DEFINE I == {r.user : r \in R}
           cls == [r \in R |-> r.user]
<1>1. IsFiniteSet(I)
  <2>1. cls \in Surjection(R, I) /\ IsFiniteSet(R)
    BY DEF Surjection, IsTable
  <2> HIDE DEF cls, I
  <2> QED
    BY <2>1, FS_Surjection
<1>2. cls \in [R -> I] /\ PerUser(R) = [i \in I |-> Tally({r \in R : cls[r] = i})]
  <2>1. \A i \in I : {r \in R : cls[r] = i} = {r \in R : r.user = i}
    OBVIOUS
  <2>2. cls \in [R -> I]
    OBVIOUS
  <2>3. PerUser(R) = [i \in I |-> Tally({r \in R : r.user = i})]
    BY DEF PerUser
  <2> HIDE DEF I, cls
  <2> QED
    BY <2>1, <2>2, <2>3
<1> HIDE DEF I, cls
<1> QED
  BY <1>1, <1>2, ClassesTellAll

(* So do the squares of the heatmap: every play has a weekday and an hour.   *)
LEMMA HeatmapTellsAll ==
  ASSUME NEW R, IsTable(R)
  PROVE  SumOf(Heatmap(R)) = Tally(R)
<1> DEFINE I == (0..WeekLength - 1) \X (0..DayLength - 1)
           row(r) == (((Day(r.start) + 1) % WeekLength) + WeekLength - 1) % WeekLength
           cls == [r \in R |-> <<row(r), r.start % DayLength>>]
<1>0. WeekLength \in Nat \ {0} /\ DayLength \in Nat \ {0}
  BY PagesAssumption
<1>1. IsFiniteSet(I)
  <2>1. IsFiniteSet(0..WeekLength - 1) /\ IsFiniteSet(0..DayLength - 1)
    BY <1>0, FS_Interval
  <2> QED
    BY <2>1, FS_Product
<1>2. cls \in [R -> I]
  <2>1. ASSUME NEW r \in R PROVE <<row(r), r.start % DayLength>> \in I
    <3>1. r.start \in Int
      BY DEF IsTable, IsPlay
    <3>2. Day(r.start) \in Int
      BY <3>1, DaysInOrder
    <3> DEFINE dow == (Day(r.start) + 1) % WeekLength
    <3>3. dow \in Int
      BY <1>0, <3>2
    <3> HIDE DEF dow
    <3>4. (dow + WeekLength - 1) % WeekLength \in 0..WeekLength - 1
      <4> DEFINE z == dow + WeekLength - 1
      <4>1. z \in Int
        BY <1>0, <3>3
      <4> HIDE DEF z
      <4>2. z % WeekLength \in 0..WeekLength - 1
        BY <1>0, <4>1
      <4> QED
        BY <4>2 DEF z
    <3>5. r.start % DayLength \in 0..DayLength - 1
      BY <1>0, <3>1
    <3> QED
      BY <3>4, <3>5 DEF dow
  <2> HIDE DEF I
  <2> QED
    BY <2>1
<1>3. Heatmap(R) = [i \in I |-> Tally({r \in R : cls[r] = i})]
  <2>1. ASSUME NEW i \in I
        PROVE  {r \in R : LET dow == (Day(r.start) + 1) % WeekLength
                          IN (dow + WeekLength - 1) % WeekLength = i[1] /\ r.start % DayLength = i[2]} = {r \in R : cls[r] = i}
    <3>1. i = <<i[1], i[2]>>
      OBVIOUS
    <3>2. ASSUME NEW r \in R PROVE (row(r) = i[1] /\ r.start % DayLength = i[2]) <=> cls[r] = i
      <4>1. cls[r] = <<row(r), r.start % DayLength>>
        OBVIOUS
      <4> HIDE DEF cls, row, I
      <4> QED
        BY <3>1, <4>1
    <3> QED
      BY <3>2
  <2> QED
    BY <2>1 DEF Heatmap
<1> HIDE DEF I, cls
<1> QED
  BY <1>1, <1>2, <1>3, ClassesTellAll

(* A page with a filter of its own: its chart tells what its totals tell.    *)
LEMMA PageTellsAll ==
  ASSUME TableInv, NEW v, NEW q, q.days \in Nat, NEW R \in SUBSET Cond(rows, Scope(v, q))
  PROVE  IsTable(R) /\ SumOfChart(Daily(R, Scope(v, q))) = Tally(R)
<1>1. IsWindow(Scope(v, q))
  BY ScopeIs
<1> DEFINE s == Scope(v, q)
<1> HIDE DEF s
<1>2. ChartOf(R, s) /\ IsTable(R)
  BY <1>1, CondIs DEF s
<1> QED
  BY <1>2, ChartTellsAll DEF s

(* The list of people and the page of one of them tell the same, and so do   *)
(* the heatmap, the chart and the methods on it.                             *)
LEMMA PersonAgrees ==
  ASSUME TableInv, \A r \in PlaysToCome : r.method # Null, NEW v \in Readers, NEW q \in Queries, NEW w \in Accounts, MaySee(v, w)
  PROVE  LET page == user_detail(rows, v, q, w)
         IN  /\ user_list(rows, v, q)[w].plays = page.totals.tally
             /\ SumOf(page.heatmap) = page.totals.tally /\ SumOfChart(page.daily) = page.totals.tally
             /\ SumOfBuckets(page.methods) = page.totals.tally
<1> DEFINE v1 == [v EXCEPT !.see_everyone = TRUE]
           q1 == [q EXCEPT !.user_id = w]
           q0 == [q EXCEPT !.user_id = Null]
           s == Scope(v1, q1)
           s0 == [Scope(v, q0) EXCEPT !.user_id = Null]
           R == Cond(rows, s)
           page == user_detail(rows, v, q, w)
<1>1. /\ q1.days = q.days /\ q1.library_id = q.library_id /\ q1.user_id = w /\ q.days \in Nat
      /\ q0.days = q.days /\ q0.library_id = q.library_id /\ v1.see_everyone /\ w # Null
  BY PagesAssumption DEF Queries, Readers
<1>2. /\ s.user_id = w /\ s.library_id = q.library_id /\ s0.user_id = Null /\ s0.library_id = q.library_id
      /\ s0.since = s.since
  BY <1>1 DEF Scope, pinned_user
<1>3. page.totals.tally = Tally(R) /\ page.heatmap = Heatmap(R) /\ page.daily = Daily(R, s)
      /\ page.methods = Buckets([r \in R |-> NameOf(r.method)], MostNames)
  BY DEF user_detail, Totals
<1> HIDE DEF page, v1, q1, q0
<1>4. IsTable(R) /\ SumOfChart(Daily(R, s)) = Tally(R)
  <2>1. R \in SUBSET Cond(rows, Scope(v1, q1)) /\ q1.days \in Nat
    BY <1>1
  <2> HIDE DEF R
  <2> QED
    BY <2>1, PageTellsAll
<1>5. {r \in Cond(rows, s0) : r.user = w} = R
  <2> HIDE DEF s, s0
  <2> QED
    BY <1>1, <1>2 DEF R, Cond, Base
<1>6. user_list(rows, v, q)[w].plays = Tally({r \in Cond(rows, s0) : r.user = w})
  <2> DEFINE only == IF v.see_everyone THEN Null ELSE v.id
  <2>1. user_list(rows, v, q) = user_rows(rows, s0, only)
    BY DEF user_list, q0
  <2>2. only # Null => w = only
    BY DEF MaySee
  <2> HIDE DEF s0, only
  <2>3. user_rows(rows, s0, only)[w].plays = Tally({r \in Cond(rows, s0) : r.user = w})
    BY <2>2 DEF user_rows
  <2> QED
    BY <2>1, <2>3
<1>7. \A r \in R : r.method # Null
  <2>1. ASSUME NEW r \in rows PROVE r.method # Null
    <3>1. PICK p \in PlaysToCome : r = [p EXCEPT !.active = r.active]
      BY DEF TableInv, RowsInv, PagesTypeOK
    <3>2. r.method = p.method
      BY <3>1, PlaysAssumption
    <3> QED
      BY <3>2
  <2> QED
    BY <2>1 DEF Cond, Base
<1> HIDE DEF R, s, s0
<1>8. MostNames \in Nat
  BY PagesAssumption
<1>9. SumOf(Heatmap(R)) = Tally(R) /\ SumOfBuckets(Buckets([r \in R |-> NameOf(r.method)], MostNames)) = Tally(R)
  BY <1>4, <1>7, <1>8, HeatmapTellsAll, BucketsTellAll
<1> QED
  BY <1>3, <1>4, <1>5, <1>6, <1>9 DEF page

(* So do the list of libraries and the page of one.                          *)
LEMMA ShelfAgrees ==
  ASSUME TableInv, NEW v \in Readers, NEW q \in Queries, NEW l \in Shelves
  PROVE  LET page == library_detail(rows, v, q, l)
         IN  library_list(rows, v, q)[l] = page.library /\ SumOfChart(page.daily) = page.library
<1> DEFINE q1 == [q EXCEPT !.library_id = l]
           q0 == [q EXCEPT !.library_id = Null]
           s == Scope(v, q1)
           s0 == Scope(v, q0)
           sq == [s EXCEPT !.library_id = Null]
           R == Cond(rows, s)
           page == library_detail(rows, v, q, l)
<1>1. /\ q1.days = q.days /\ q1.library_id = l /\ q1.user_id = q.user_id /\ q.days \in Nat
      /\ q0.days = q.days /\ q0.library_id = Null /\ q0.user_id = q.user_id /\ l # Null
  BY PagesAssumption, ColumnsAssumption DEF Queries
<1>2. page.library = library_rows(rows, sq)[l] /\ page.daily = Daily(R, s)
  BY DEF library_detail
<1>3. s0 = sq
  BY <1>1 DEF Scope
<1>4. library_list(rows, v, q) = library_rows(rows, s0)
  BY DEF library_list
<1>5. /\ s.user_id = sq.user_id /\ s.library_id = l /\ sq.library_id = Null /\ sq.since = s.since
  BY <1>1 DEF Scope
<1> HIDE DEF q1, q0, page, s0
<1>6. IsTable(R) /\ SumOfChart(Daily(R, s)) = Tally(R)
  <2>1. R \in SUBSET Cond(rows, Scope(v, q1)) /\ q1.days \in Nat
    BY <1>1
  <2> HIDE DEF R
  <2> QED
    BY <2>1, PageTellsAll
<1> HIDE DEF s, sq
<1>7. {r \in Cond(rows, sq) : r.library = l} = R
  BY <1>1, <1>5 DEF R, Cond, Base
<1>8. library_rows(rows, sq)[l] = Tally(R)
  BY <1>7 DEF library_rows
<1> QED
  BY <1>2, <1>3, <1>4, <1>6, <1>8 DEF page

(* On the page of a title who watched it and when add up to its totals, and  *)
(* its episodes to no more than those.                                       *)
LEMMA TitleAgrees ==
  ASSUME TableInv, NEW v \in Readers, NEW q \in Queries, NEW id
  PROVE  LET page == item_detail(rows, v, q, id)
         IN  /\ SumOf(page.watchers) = page.totals.tally
             /\ SumOfChart(page.daily) = page.totals.tally
             /\ SumOf(page.episodes).plays <= page.totals.tally.plays
<1> DEFINE s == Scope(v, q)
           show == TypeOf(rows, id) = "Series"
           R == {r \in Cond(rows, s) : IF show THEN r.series = id ELSE r.item = id}
           chosen == {e \in Under(id) : ~Catalog[e].removed \/ Catalog[id].removed}
           said == IF show THEN [e \in chosen |-> Tally({r \in R : r.item = e})] ELSE <<>>
           page == item_detail(rows, v, q, id)
<1>1. /\ page.totals.tally = Tally(R) /\ page.watchers = PerUser(R) /\ page.daily = Daily(R, s)
      /\ page.episodes = said
  BY DEF item_detail, Totals
<1>2. IsTable(R) /\ SumOfChart(Daily(R, s)) = Tally(R)
  <2>1. q.days \in Nat
    BY PagesAssumption DEF Queries
  <2>2. R \in SUBSET Cond(rows, Scope(v, q))
    OBVIOUS
  <2> HIDE DEF R
  <2> QED
    BY <2>1, <2>2, PageTellsAll
<1> HIDE DEF page, s
<1>3. SumOf(said).plays <= Tally(R).plays
  <2>1. CASE show
    <3> DEFINE Q == {r \in R : r.item \in chosen}
               cls == [r \in Q |-> r.item]
    <3>1. IsFiniteSet(chosen)
      <4>1. chosen \in SUBSET DOMAIN Catalog
        BY DEF Under
      <4> QED
        BY <4>1, FS_Subset, ColumnsAssumption
    <3>2. cls \in [Q -> chosen] /\ IsTable(Q) /\ Q \in SUBSET R
      BY <1>2, TablePart
    <3>3. said = [e \in chosen |-> Tally({r \in Q : cls[r] = e})]
      <4>1. \A e \in chosen : {r \in Q : cls[r] = e} = {r \in R : r.item = e}
        OBVIOUS
      <4> QED
        BY <2>1, <4>1
    <3> HIDE DEF Q, cls, chosen, said, R
    <3>4. SumOf(said) = Tally(Q)
      BY <3>1, <3>2, <3>3, ClassesTellAll
    <3>5. Cardinality(Q) <= Cardinality(R)
      <4>1. IsFiniteSet(R)
        BY <1>2 DEF IsTable
      <4> QED
        BY <3>2, <4>1, FS_Subset
    <3> QED
      BY <1>2, <3>2, <3>4, <3>5, TallyIs
  <2>2. CASE ~show
    <3>1. said = <<>> /\ DOMAIN said = {}
      BY <2>2
    <3> DEFINE none == [x0 \in {} |-> said[x0].plays]
    <3>2. IsFiniteSet({}) /\ \A x0 \in {} : said[x0].plays \in Int /\ said[x0].watch_s \in Int
      BY FS_EmptySet
    <3> HIDE DEF said, R
    <3>3. IsSum([x0 \in DOMAIN said |-> said[x0].plays], DOMAIN said, SumOf(said).plays)
      BY <3>1, <3>2, SumOfIs
    <3>4. IsSum(none, {}, SumOf(said).plays)
      BY <3>1, <3>3
    <3>5. SumOf(said).plays = 0
      <4> HIDE DEF none
      <4>1. PICK sums : AreSums(none, {}, sums) /\ SumOf(said).plays = sums[{}]
        BY <3>4 DEF IsSum
      <4> QED
        BY <4>1 DEF AreSums, SumStep
    <3> QED
      BY <1>2, <3>5, TallyIs
  <2> QED
    BY <2>1, <2>2
<1> HIDE DEF R, said
<1>4. SumOf(PerUser(R)) = Tally(R)
  BY <1>2, WatchersTellAll
<1> QED
  BY <1>1, <1>2, <1>3, <1>4 DEF page

(* On the page of an actor or director the watchers and the titles add up to *)
(* the totals.                                                               *)
LEMMA CreditAgrees ==
  ASSUME TableInv, NEW v \in Readers, NEW q \in Queries, NEW p
  PROVE  LET page == person_detail(rows, v, q, p)
         IN  SumOf(page.watchers) = page.totals.tally /\ SumOf(page.titles) = page.totals.tally
<1> DEFINE R == {r \in Cond(rows, Scope(v, q)) : Title(r) \in Credits(p)}
           cls == [r \in R |-> Title(r)]
           I == Credits(p)
           said == [i \in I |-> Tally({r \in R : Title(r) = i})]
           page == person_detail(rows, v, q, p)
<1>1. page.totals.tally = Tally(R) /\ page.watchers = PerUser(R) /\ page.titles = said
  BY DEF person_detail, Totals
<1>2. IsTable(R)
  <2>1. q.days \in Nat
    BY PagesAssumption DEF Queries
  <2>2. R \in SUBSET Cond(rows, Scope(v, q))
    OBVIOUS
  <2> HIDE DEF R
  <2> QED
    BY <2>1, <2>2, PageTellsAll
<1>3. IsFiniteSet(I)
  <2>1. I \in SUBSET DOMAIN Catalog
    BY DEF Credits
  <2> QED
    BY <2>1, FS_Subset, ColumnsAssumption
<1>4. cls \in [R -> I] /\ said = [i \in I |-> Tally({r \in R : cls[r] = i})]
  <2>1. \A i \in I : {r \in R : cls[r] = i} = {r \in R : Title(r) = i}
    OBVIOUS
  <2>2. cls \in [R -> I]
    OBVIOUS
  <2> HIDE DEF I, cls, R
  <2> QED
    BY <2>1, <2>2
<1> HIDE DEF R, cls, I, said, page
<1>5. SumOf(said) = Tally(R) /\ SumOf(PerUser(R)) = Tally(R)
  BY <1>2, <1>3, <1>4, ClassesTellAll, WatchersTellAll
<1> QED
  BY <1>1, <1>5 DEF page

(* All four together.                                                        *)
LEMMA DetailsTellAll ==
  ASSUME TableInv, \A r \in PlaysToCome : r.method # Null, NEW v \in Readers, NEW q \in Queries
  PROVE  DetailsAgree(v, q)
  BY PersonAgrees, ShelfAgrees, TitleAgrees, CreditAgrees DEF DetailsAgree

-----------------------------------------------------------------------------
(* How many watch at once: the sweep over the beginnings and ends of plays.  *)

(* f, of the elements of S alone.                                            *)
OnlyOf(f, S) == [z \in S |-> f[z]]

(* A sum over none, over one and over two.                                   *)
LEMMA SumOfFew ==
  ASSUME NEW f
  PROVE  /\ \A n : IsSum(OnlyOf(f, {}), {}, n) <=> n = 0
         /\ \A y0 : f[y0] \in Int => IsSum(OnlyOf(f, {y0}), {y0}, f[y0])
         /\ \A y0, z0 : f[y0] \in Int /\ f[z0] \in Int /\ y0 # z0 => IsSum(OnlyOf(f, {y0, z0}), {y0, z0}, f[y0] + f[z0])
<1>1. ASSUME NEW y0, NEW z0, f[y0] \in Int, f[z0] \in Int
      PROVE  \E sums : /\ AreSums(OnlyOf(f, {y0, z0}), {y0, z0}, sums) /\ sums[{}] = 0 /\ sums[{y0}] = f[y0]
                       /\ y0 # z0 => sums[{y0, z0}] = f[y0] + f[z0]
  <2> DEFINE S == {y0, z0}
             g == OnlyOf(f, S)
  <2>1. IsFiniteSet(S)
    <3>1. IsFiniteSet({y0}) /\ IsFiniteSet({z0}) /\ S = {y0} \cup {z0}
      BY FS_Singleton
    <3> QED
      BY <3>1, FS_Union
  <2>2. g \in [S -> Int] /\ g[y0] = f[y0] /\ g[z0] = f[z0]
    BY <1>1 DEF OnlyOf
  <2>3. {} \in SUBSET S /\ {y0} \in SUBSET S /\ S \in SUBSET S /\ y0 \in S /\ z0 \in S
    OBVIOUS
  <2>4. {y0} \ {y0} = {} /\ (y0 # z0 => S \ {z0} = {y0})
    OBVIOUS
  <2> HIDE DEF g, S
  <2>5. PICK sums : AreSums(g, S, sums)
    BY <2>1, <2>2, SumsExist
  <2>6. AddUp(g, S, sums)
    BY <2>1, <2>2, <2>5, SumsAre
  <2>7. sums[{}] = 0 /\ sums[{y0}] = g[y0] + sums[{}]
    BY <2>3, <2>4, <2>6 DEF AddUp
  <2>8. y0 # z0 => sums[S] = g[z0] + sums[{y0}]
    BY <2>3, <2>4, <2>6 DEF AddUp
  <2>9. sums[{y0}] = f[y0] /\ (y0 # z0 => sums[S] = f[y0] + f[z0])
    BY <1>1, <2>2, <2>7, <2>8
  <2> QED
    BY <2>5, <2>7, <2>9 DEF g, S
<1>2. ASSUME NEW n PROVE IsSum(OnlyOf(f, {}), {}, n) <=> n = 0
  <2> DEFINE none == OnlyOf(f, {})
  <2>1. \A sums : AreSums(none, {}, sums) => sums[{}] = 0
    BY DEF AreSums, SumStep
  <2>2. none \in [{} -> Int] /\ IsFiniteSet({})
    BY FS_EmptySet DEF OnlyOf
  <2> HIDE DEF none
  <2>3. \E sums : AreSums(none, {}, sums)
    BY <2>2, SumsExist
  <2> QED
    BY <2>1, <2>3 DEF IsSum, none
<1>3. ASSUME NEW y0, f[y0] \in Int PROVE IsSum(OnlyOf(f, {y0}), {y0}, f[y0])
  <2>1. {y0, y0} = {y0}
    OBVIOUS
  <2>2. PICK sums : AreSums(OnlyOf(f, {y0}), {y0}, sums) /\ sums[{y0}] = f[y0]
    BY <1>1, <1>3, <2>1
  <2> QED
    BY <2>2 DEF IsSum
<1>4. ASSUME NEW y0, NEW z0, f[y0] \in Int, f[z0] \in Int, y0 # z0
      PROVE  IsSum(OnlyOf(f, {y0, z0}), {y0, z0}, f[y0] + f[z0])
  <2>1. PICK sums : /\ AreSums(OnlyOf(f, {y0, z0}), {y0, z0}, sums) /\ sums[{}] = 0 /\ sums[{y0}] = f[y0]
                    /\ y0 # z0 => sums[{y0, z0}] = f[y0] + f[z0]
    BY <1>1, <1>4
  <2>2. sums[{y0, z0}] = f[y0] + f[z0]
    BY <1>4, <2>1
  <2> QED
    BY <2>1, <2>2 DEF IsSum
<1> QED
  BY <1>2, <1>3, <1>4

(* The plays of R that are on once p, where one of them begins, is passed.   *)
OnAt(R, p) ==
  {r \in R : (r.start < p.at \/ (r.start = p.at /\ r.id <= p.row.id)) /\ p.at < r.end}

(* The sweep adds one where a play begins and takes one away where it ends:  *)
(* what it has when it passes p is how many of the plays in C are on.        *)
LEMMA SweepCounts ==
  ASSUME NEW R, IsTable(R), NEW p \in Points(R), p.delta = 1, NEW C \in SUBSET R,
         NEW f \in [Upto(Points(R), p) -> Int],
         \A z \in Upto(Points(R), p) : f[z] = IF z.row \in C THEN z.delta ELSE 0,
         NEW n, IsSum(f, Upto(Points(R), p), n)
  PROVE  n = Cardinality(OnAt(R, p) \cap C) /\ IsFiniteSet(OnAt(R, p) \cap C)
<1> DEFINE U0 == Upto(Points(R), p)
           W == OnAt(R, p) \cap C
           g == [r \in R |-> IF r \in W THEN 1 ELSE 0]
           cls == [z \in U0 |-> z.row]
           same == [r \in W |-> r]
           ones == [r \in W |-> 1]
<1>1. U0 \subseteq Points(R) /\ IsFiniteSet(R) /\ W \in SUBSET R
  BY DEF Upto, IsTable, OnAt
<1>2. IsFiniteSet(U0) /\ IsFiniteSet(W)
  <2>1. IsFiniteSet(Points(R))
    BY PointFacts
  <2> HIDE DEF U0, W
  <2> QED
    BY <1>1, <2>1, FS_Subset
<1>3. \A z \in U0 : IsPoint(z, R)
  BY <1>1, PointFacts
<1>4. cls \in [U0 -> R] /\ g \in [R -> Int] /\ same \in [W -> R] /\ ones \in [W -> Int]
  BY <1>1, <1>3 DEF IsPoint
<1>5. ASSUME NEW r \in R
      PROVE  IsSum([z \in Classed(U0, cls, {r}) |-> f[z]], Classed(U0, cls, {r}), g[r])
  <2> DEFINE st == [at |-> r.start, delta |-> 1, row |-> r]
             en == [at |-> r.end, delta |-> -1, row |-> r]
             K == Classed(U0, cls, {r})
             t == p.at
             begun == r.start < t \/ (r.start = t /\ r.id <= p.row.id)
  <2>1. r.start \in Nat /\ r.end \in Nat /\ r.id \in Nat /\ t \in Nat /\ p.row.id \in Nat /\ p.row \in R
    <3>1. IsPoint(p, R)
      BY PointFacts
    <3> QED
      BY <3>1 DEF IsTable, IsPlay, IsPoint
  <2>2. K = {z \in U0 : z.row = r}
    BY DEF Classed
  <2>3. \A z \in Points(R) : z.row = r => z = st \/ z = en
    BY PointFacts
  <2>4. (st \in Points(R) <=> r.end > r.start) /\ (en \in Points(R) <=> r.end > r.start)
    <3>1. r.end > r.start => st \in Points(R) /\ en \in Points(R)
      BY PointFacts
    <3>2. ASSUME NEW z \in {st, en}, z \in Points(R) PROVE r.end > r.start
      <4>1. PICK k \in R : k.end > k.start /\ (z = [at |-> k.start, delta |-> 1, row |-> k] \/ z = [at |-> k.end, delta |-> -1, row |-> k])
        BY <3>2, PointFacts
      <4>2. k = r
        BY <4>1
      <4> QED
        BY <4>1, <4>2
    <3> QED
      BY <3>1, <3>2
  <2>5. st \in U0 <=> r.end > r.start /\ begun
    <3>1. st \in U0 <=> st \in Points(R) /\ begun
      BY <2>1 DEF Upto
    <3> QED
      BY <2>4, <3>1
  <2>6. en \in U0 <=> r.end > r.start /\ r.end <= t
    <3>1. en \in U0 <=> en \in Points(R) /\ r.end <= t
      <4>1. (en.at < p.at \/ (en.at = p.at /\ (en.delta < p.delta \/ (en.delta = p.delta /\ en.row.id <= p.row.id)))) <=> r.end <= t
        BY <2>1
      <4> QED
        BY <4>1 DEF Upto
    <3> QED
      BY <2>4, <3>1
  <2>7. st.row = r /\ en.row = r /\ st # en /\ st.delta = 1 /\ en.delta = -1
    OBVIOUS
  <2>8. r \in W <=> begun /\ t < r.end /\ r \in C
    BY DEF OnAt
  <2> HIDE DEF st, en
  <2>9. (st \in U0 => f[st] = IF r \in C THEN 1 ELSE 0) /\ (en \in U0 => f[en] = IF r \in C THEN -1 ELSE 0)
    BY <2>7
  <2>10. g[r] = IF r \in W THEN 1 ELSE 0
    OBVIOUS
  <2> HIDE DEF K, g, W, begun, t
  <2>11. (st \in U0 <=> r.end > r.start /\ begun) /\ (en \in U0 <=> r.end > r.start /\ r.end <= t)
    BY <2>5, <2>6
  <2> HIDE DEF U0
  <2>12. CASE en \in U0
    <3>1. st \in U0 /\ r \notin W
      BY <2>1, <2>8, <2>11, <2>12 DEF begun
    <3>2. K = {st, en}
      BY <1>1, <2>2, <2>3, <2>7, <2>12, <3>1
    <3>3. f[st] + f[en] = 0 /\ f[st] \in Int /\ f[en] \in Int
      BY <2>9, <2>12, <3>1
    <3>4. IsSum([z \in K |-> f[z]], K, f[st] + f[en])
      BY <2>7, <3>2, <3>3, SumOfFew DEF OnlyOf
    <3> QED
      BY <2>10, <3>1, <3>3, <3>4 DEF K
  <2>13. CASE en \notin U0 /\ st \in U0
    <3>1. K = {st}
      BY <1>1, <2>2, <2>3, <2>7, <2>13
    <3>2. f[st] = g[r] /\ f[st] \in Int
      BY <2>1, <2>8, <2>9, <2>10, <2>11, <2>13
    <3>3. IsSum([z \in K |-> f[z]], K, f[st])
      BY <3>1, <3>2, SumOfFew DEF OnlyOf
    <3> QED
      BY <3>2, <3>3 DEF K
  <2>14. CASE en \notin U0 /\ st \notin U0
    <3>1. K = {}
      BY <1>1, <2>2, <2>3, <2>14
    <3>2. r \notin W
      BY <2>1, <2>8, <2>11, <2>14 DEF begun
    <3>3. IsSum([z \in K |-> f[z]], K, 0)
      BY <3>1, SumOfFew DEF OnlyOf
    <3> QED
      BY <2>10, <3>2, <3>3 DEF K
  <2> QED
    BY <2>12, <2>13, <2>14 DEF K
<1>6. ASSUME NEW r \in R
      PROVE  IsSum([z \in Classed(W, same, {r}) |-> ones[z]], Classed(W, same, {r}), g[r])
  <2>1. CASE r \in W
    <3>1. Classed(W, same, {r}) = {r} /\ ones[r] = 1 /\ g[r] = 1
      BY <2>1 DEF Classed
    <3> HIDE DEF ones, W, same, g
    <3>2. ones[r] \in Int
      BY <3>1
    <3>3. \A y0 : ones[y0] \in Int => IsSum(OnlyOf(ones, {y0}), {y0}, ones[y0])
      BY SumOfFew
    <3>4. IsSum(OnlyOf(ones, {r}), {r}, ones[r])
      BY <3>2, <3>3
    <3> QED
      BY <3>1, <3>4 DEF OnlyOf
  <2>2. CASE r \notin W
    <3>1. Classed(W, same, {r}) = {} /\ g[r] = 0
      BY <2>2 DEF Classed
    <3> HIDE DEF ones, W, same, g
    <3> QED
      BY <3>1, SumOfFew DEF OnlyOf
  <2> QED
    BY <2>1, <2>2
<1>7. IsSum(ones, W, Cardinality(W))
  BY <1>2, CountIs
<1> HIDE DEF U0, W, g, cls, same, ones
<1>8. PICK k \in Int : IsSum(g, R, k)
  BY <1>1, <1>4, SumIs
<1>9. Cardinality(W) = k
  <2>1. PartSums(W, ones, R, same, g)
    BY <1>6 DEF PartSums
  <2> QED
    BY <1>1, <1>2, <1>4, <1>7, <1>8, <2>1, SumOfParts
<1>10. n = k
  <2>1. PartSums(U0, f, R, cls, g) /\ IsSum(f, U0, n) /\ f \in [U0 -> Int]
    BY <1>5 DEF PartSums, U0
  <2> QED
    BY <1>1, <1>2, <1>4, <1>8, <2>1, SumOfParts
<1> QED
  BY <1>2, <1>9, <1>10 DEF W

(* Its two counters: the plays that are on, and those of them that are       *)
(* transcoded.                                                               *)
LEMMA LiveIs ==
  ASSUME NEW R, IsTable(R), NEW p \in Points(R), p.delta = 1
  PROVE  /\ LiveAfter(Points(R), p) = Cardinality(OnAt(R, p))
         /\ TranscodesAfter(Points(R), p) \in Nat
         /\ TranscodesAfter(Points(R), p) <= LiveAfter(Points(R), p)
<1> DEFINE U0 == Upto(Points(R), p)
           C == {r \in R : r.method = "Transcode"}
           f == [z \in U0 |-> z.delta]
           g == [z \in U0 |-> IF z.row.method = "Transcode" THEN z.delta ELSE 0]
<1>1. U0 \subseteq Points(R) /\ IsFiniteSet(U0)
  <2>1. IsFiniteSet(Points(R)) /\ U0 \subseteq Points(R)
    BY PointFacts DEF Upto
  <2> HIDE DEF U0
  <2> QED
    BY <2>1, FS_Subset
<1>2. \A z \in U0 : z.delta \in Int /\ z.row \in R
  BY <1>1, PointFacts DEF IsPoint
<1>3. IsSum(f, U0, LiveAfter(Points(R), p)) /\ IsSum(g, U0, TranscodesAfter(Points(R), p))
  BY <1>1, <1>2, LiveAfterIs, TranscodesAre
<1>4. f \in [U0 -> Int] /\ g \in [U0 -> Int]
  BY <1>2
<1>5. /\ \A z \in U0 : f[z] = IF z.row \in R THEN z.delta ELSE 0
      /\ \A z \in U0 : g[z] = IF z.row \in C THEN z.delta ELSE 0
  BY <1>2
<1>6. R \in SUBSET R /\ C \in SUBSET R
  OBVIOUS
<1> HIDE DEF f, g, C
<1>7. LiveAfter(Points(R), p) = Cardinality(OnAt(R, p) \cap R) /\ IsFiniteSet(OnAt(R, p) \cap R)
  BY <1>3, <1>4, <1>5, <1>6, SweepCounts
<1>8. TranscodesAfter(Points(R), p) = Cardinality(OnAt(R, p) \cap C) /\ IsFiniteSet(OnAt(R, p) \cap C)
  BY <1>3, <1>4, <1>5, <1>6, SweepCounts
<1>9. OnAt(R, p) \cap R = OnAt(R, p) /\ OnAt(R, p) \cap C \in SUBSET OnAt(R, p)
  BY DEF OnAt
<1>10. Cardinality(OnAt(R, p) \cap C) <= Cardinality(OnAt(R, p)) /\ Cardinality(OnAt(R, p) \cap C) \in Nat
  BY <1>7, <1>8, <1>9, FS_Subset, FS_CardinalityType
<1> QED
  BY <1>7, <1>8, <1>9, <1>10

(* `HighestOf` is the greatest of a bounded set, 0 if it is empty.           *)
LEMMA HighestIs ==
  ASSUME NEW S \in SUBSET Nat, NEW n \in Nat, \A k \in S : k <= n
  PROVE  /\ HighestOf(S) \in S \cup {0} /\ HighestOf(S) \in Nat /\ \A k \in S : k <= HighestOf(S)
         /\ Max({0} \cup S) = HighestOf(S)
<1> DEFINE T == S \cup {0}
<1>1. T \in SUBSET Nat /\ T # {} /\ \A k \in T : k <= n
  OBVIOUS
<1>2. {0} \cup S = T /\ S \subseteq T
  OBVIOUS
<1> DEFINE z0 == Max(T)
<1>3. HighestOf(S) = z0 /\ Max({0} \cup S) = z0
  BY <1>2 DEF HighestOf
<1> HIDE DEF T
<1>4. z0 \in T /\ \A k \in T : z0 >= k
  BY <1>1, GreatestOf
<1> HIDE DEF z0
<1>5. z0 \in Nat /\ (\A k \in T : k \in Nat) /\ \A k \in T : k <= z0
  BY <1>1, <1>4
<1> QED
  BY <1>2, <1>3, <1>4, <1>5 DEF T

(* The plays of R that run at t, those that end then not among them.         *)
Running(R, t) == {r \in R : r.start <= t /\ t < r.end}

(* They are finitely many.                                                   *)
LEMMA RunningIs ==
  ASSUME NEW R, IsTable(R), NEW t
  PROVE  /\ IsFiniteSet(Running(R, t)) /\ Cardinality(Running(R, t)) \in Nat
         /\ Cardinality(Running(R, t)) <= Cardinality(R) /\ Cardinality(R) \in Nat
<1>1. IsFiniteSet(R) /\ Running(R, t) \subseteq R
  BY DEF Running, IsTable
<1> QED
  BY <1>1, FS_Subset, FS_CardinalityType

(* Of the plays that run at a time, one began last.                          *)
LEMMA LastToBegin ==
  ASSUME NEW Q, IsTable(Q), Q # {}
  PROVE  \E k \in Q : \A r \in Q : r.start < k.start \/ (r.start = k.start /\ r.id <= k.id)
<1> DEFINE g == [r \in Q |-> r.start]
           w == [r \in Q |-> r.id]
<1>1. \A r \in Q : r.start \in Nat /\ r.id \in Nat
  BY DEF IsTable, IsPlay
<1>2. IsFiniteSet(Q)
  BY DEF IsTable
<1>3. PICK last \in Q : \A r \in Q : r.start <= last.start
  <2>1. \A r \in Q : g[r] \in Int
    BY <1>1
  <2>2. \E k \in Q : \A r \in Q : g[r] <= g[k]
    BY <1>2, <2>1, MostExists
  <2> QED
    BY <2>2
<1> DEFINE K == {r \in Q : r.start = last.start}
<1>4. IsFiniteSet(K) /\ K # {} /\ \A r \in K : w[r] \in Int
  BY <1>1, <1>2, FS_Subset
<1>5. PICK k \in K : \A r \in K : w[r] <= w[k]
  <2> HIDE DEF K, w
  <2> QED
    BY <1>4, MostExists
<1>6. ASSUME NEW r \in Q
      PROVE  r.start < k.start \/ (r.start = k.start /\ r.id <= k.id)
  BY <1>1, <1>3, <1>5
<1> QED
  BY <1>6

(* The sweep meets as many as run at any one time, and never more.           *)
LEMMA SweepIsRight ==
  ASSUME NEW R, IsTable(R)
  PROVE  /\ \A p \in Starts(Points(R)) :
               /\ p \in Points(R) /\ p.delta = 1 /\ p.row \in R /\ p.at = p.row.start
               /\ LiveAfter(Points(R), p) \in Nat
               /\ LiveAfter(Points(R), p) <= Cardinality(Running(R, p.at))
         /\ \A t \in Nat : Running(R, t) # {} =>
               \E p \in Starts(Points(R)) : Cardinality(Running(R, t)) <= LiveAfter(Points(R), p)
<1>1. \A r \in R : r.start \in Nat /\ r.end \in Nat /\ r.id \in Nat
  BY DEF IsTable, IsPlay
<1>2. IsFiniteSet(R)
  BY DEF IsTable
<1>3. ASSUME NEW p \in Starts(Points(R))
      PROVE  /\ p \in Points(R) /\ p.delta = 1 /\ p.row \in R /\ p.at = p.row.start
             /\ LiveAfter(Points(R), p) = Cardinality(OnAt(R, p)) /\ LiveAfter(Points(R), p) \in Nat
             /\ LiveAfter(Points(R), p) <= Cardinality(Running(R, p.at))
  <2>1. p \in Points(R) /\ p.delta > 0 /\ IsPoint(p, R)
    BY PointFacts DEF Starts
  <2>2. p.delta = 1 /\ p.row \in R /\ p.at = p.row.start
    BY <2>1 DEF IsPoint
  <2>3. LiveAfter(Points(R), p) = Cardinality(OnAt(R, p))
    BY <2>1, <2>2, LiveIs
  <2>4. OnAt(R, p) \in SUBSET Running(R, p.at)
    BY <1>1, <2>2 DEF OnAt, Running
  <2>5. IsFiniteSet(Running(R, p.at))
    BY RunningIs
  <2>6. Cardinality(OnAt(R, p)) <= Cardinality(Running(R, p.at)) /\ Cardinality(OnAt(R, p)) \in Nat
    BY <2>4, <2>5, FS_Subset, FS_CardinalityType
  <2> QED
    BY <2>1, <2>2, <2>3, <2>6
<1>4. ASSUME NEW t \in Nat, Running(R, t) # {}
      PROVE  \E p \in Starts(Points(R)) : Cardinality(Running(R, t)) <= LiveAfter(Points(R), p)
  <2> DEFINE Q == Running(R, t)
  <2>1. Q \in SUBSET R
    BY DEF Running
  <2>2. IsTable(Q) /\ Q # {}
    BY <1>4, <2>1, TablePart
  <2> HIDE DEF Q
  <2>3. PICK k \in Q : \A r \in Q : r.start < k.start \/ (r.start = k.start /\ r.id <= k.id)
    BY <2>2, LastToBegin
  <2> DEFINE p == [at |-> k.start, delta |-> 1, row |-> k]
  <2>4. k \in R /\ k.start <= t /\ t < k.end /\ k.end > k.start
    BY <1>1, <2>1 DEF Q, Running
  <2>5. p \in Starts(Points(R))
    <3>1. p \in Points(R)
      BY <2>4, PointFacts
    <3> QED
      BY <3>1 DEF Starts
  <2>6. Q \in SUBSET OnAt(R, p)
    <3>1. ASSUME NEW r \in Q PROVE r \in OnAt(R, p)
      <4>1. r \in R /\ t < r.end /\ p.at = k.start /\ p.row.id = k.id
        BY <2>1 DEF Q, Running
      <4>2. p.at < r.end
        BY <1>1, <2>4, <4>1
      <4> QED
        BY <2>3, <4>1, <4>2 DEF OnAt
    <3> QED
      BY <3>1
  <2> HIDE DEF p
  <2>7. LiveAfter(Points(R), p) = Cardinality(OnAt(R, p))
    BY <1>3, <2>5
  <2>8. IsFiniteSet(OnAt(R, p))
    <3>1. OnAt(R, p) \in SUBSET R
      BY DEF OnAt
    <3> QED
      BY <1>2, <3>1, FS_Subset
  <2>9. Cardinality(Q) <= Cardinality(OnAt(R, p))
    BY <2>6, <2>8, FS_Subset
  <2> QED
    BY <2>5, <2>7, <2>9 DEF Q
<1> QED
  BY <1>3, <1>4

(* The peak is the largest number of plays that ever ran at once, it is the  *)
(* highest point of its own chart, and no more of them were transcoded.      *)
LEMMA PeaksAgree ==
  ASSUME NEW R, NEW s, ChartOf(R, s)
  PROVE  LET said == Concurrency(R, s)
         IN  /\ said.peak = Max({0} \cup {Cardinality(Running(R, r.start)) : r \in R})
             /\ said.peak = Max({0} \cup {said.series[d] : d \in DOMAIN said.series})
             /\ said.peak_transcodes <= said.peak
<1> DEFINE P == Points(R)
           live == {LiveAfter(P, p) : p \in Starts(P)}
           coded == {TranscodesAfter(P, p) : p \in Starts(P)}
           ran == {Cardinality(Running(R, r.start)) : r \in R}
           said == Concurrency(R, s)
           n == Cardinality(R)
           On(d) == {LiveAfter(P, p) : p \in {z \in Starts(P) : DateOf(R, s, z.at) = d}}
           shown == {said.series[d] : d \in DOMAIN said.series}
<1>1. IsTable(R)
  BY DEF ChartOf
<1>2. /\ said.peak = HighestOf(live) /\ said.peak_transcodes = HighestOf(coded)
      /\ DOMAIN said.series = ChartDates(R, s)
      /\ \A d \in ChartDates(R, s) : said.series[d] = HighestOf(On(d))
  BY ConcurrencyIs DEF MostOn
<1>3. n \in Nat /\ \A t : Cardinality(Running(R, t)) \in 0 .. n
  BY <1>1, RunningIs
<1>4. \A p \in Starts(P) : /\ LiveAfter(P, p) \in Nat /\ LiveAfter(P, p) <= Cardinality(Running(R, p.at))
                           /\ p.at = p.row.start /\ p.row \in R /\ p \in P /\ p.delta = 1
  BY <1>1, SweepIsRight
<1>5. \A p \in Starts(P) : TranscodesAfter(P, p) \in Nat /\ TranscodesAfter(P, p) <= LiveAfter(P, p)
  BY <1>1, <1>4, LiveIs
<1> HIDE DEF said, n, P
<1>6. \A p \in Starts(P) : LiveAfter(P, p) <= n /\ TranscodesAfter(P, p) <= n
  <2>1. ASSUME NEW p \in Starts(P) PROVE LiveAfter(P, p) <= n /\ TranscodesAfter(P, p) <= n
    <3>1. LiveAfter(P, p) \in Nat /\ LiveAfter(P, p) <= Cardinality(Running(R, p.at)) /\ Cardinality(Running(R, p.at)) \in 0 .. n
      BY <1>3, <1>4
    <3>2. TranscodesAfter(P, p) \in Nat /\ TranscodesAfter(P, p) <= LiveAfter(P, p)
      BY <1>5
    <3> QED
      BY <1>3, <3>1, <3>2
  <2> QED
    BY <2>1
<1>7. live \in SUBSET Nat /\ \A k \in live : k <= n
  BY <1>4, <1>6
<1>8. coded \in SUBSET Nat /\ \A k \in coded : k <= n
  BY <1>5, <1>6
<1>9. ran \in SUBSET Nat /\ \A k \in ran : k <= n
  <2>1. \A t : Cardinality(Running(R, t)) \in Nat /\ Cardinality(Running(R, t)) <= n
    BY <1>3
  <2> QED
    BY <2>1
<1>10. \A d : On(d) \in SUBSET live
  OBVIOUS
<1>11. \A p \in Starts(P) : LiveAfter(P, p) \in live /\ TranscodesAfter(P, p) \in coded
  OBVIOUS
<1>12. \A p \in Starts(P) : Cardinality(Running(R, p.at)) \in ran
  BY <1>4
<1>13. \A k \in live : \E p \in Starts(P) : k = LiveAfter(P, p)
  OBVIOUS
<1>14. \A k \in coded : \E p \in Starts(P) : k = TranscodesAfter(P, p)
  OBVIOUS
<1>15. \A k \in ran : \E r \in R : k = Cardinality(Running(R, r.start))
  OBVIOUS
<1>16. \A p \in Starts(P) : LiveAfter(P, p) \in On(DateOf(R, s, p.at))
  OBVIOUS
<1> HIDE DEF live, coded, ran, On
<1>17. /\ HighestOf(live) \in live \cup {0} /\ HighestOf(live) \in Nat /\ \A k \in live : k <= HighestOf(live)
  BY <1>3, <1>7, HighestIs
<1>18. /\ HighestOf(coded) \in coded \cup {0} /\ HighestOf(coded) \in Nat
  BY <1>3, <1>8, HighestIs
<1>19. /\ HighestOf(ran) \in ran \cup {0} /\ HighestOf(ran) \in Nat /\ (\A k \in ran : k <= HighestOf(ran))
       /\ Max({0} \cup ran) = HighestOf(ran)
  BY <1>3, <1>9, HighestIs
<1>20. HighestOf(live) <= HighestOf(ran)
  <2>1. CASE HighestOf(live) = 0
    BY <1>19, <2>1
  <2>2. CASE HighestOf(live) \in live
    <3>1. PICK p \in Starts(P) : HighestOf(live) = LiveAfter(P, p)
      BY <1>13, <2>2
    <3>2. Cardinality(Running(R, p.at)) \in ran /\ LiveAfter(P, p) <= Cardinality(Running(R, p.at))
      BY <1>4, <1>12
    <3>3. Cardinality(Running(R, p.at)) <= HighestOf(ran) /\ Cardinality(Running(R, p.at)) \in Nat
      BY <1>9, <1>19, <3>2
    <3> QED
      BY <1>17, <1>19, <3>1, <3>2, <3>3
  <2> QED
    BY <1>17, <2>1, <2>2
<1>21. HighestOf(ran) <= HighestOf(live)
  <2>1. CASE HighestOf(ran) = 0
    BY <1>17, <2>1
  <2>2. CASE HighestOf(ran) # 0
    <3>1. PICK r \in R : HighestOf(ran) = Cardinality(Running(R, r.start))
      BY <1>15, <1>19, <2>2
    <3>2. Running(R, r.start) # {}
      BY <2>2, <3>1, FS_EmptySet
    <3>3. r.start \in Nat
      BY <1>1 DEF IsTable, IsPlay
    <3>4. PICK p \in Starts(P) : Cardinality(Running(R, r.start)) <= LiveAfter(P, p)
      BY <1>1, <3>2, <3>3, SweepIsRight DEF P
    <3>5. LiveAfter(P, p) \in Nat /\ LiveAfter(P, p) <= HighestOf(live)
      BY <1>4, <1>11, <1>17
    <3> QED
      BY <1>17, <1>19, <3>1, <3>4, <3>5
  <2> QED
    BY <2>1, <2>2
<1>22. HighestOf(coded) <= HighestOf(live)
  <2>1. CASE HighestOf(coded) = 0
    BY <1>17, <2>1
  <2>2. CASE HighestOf(coded) \in coded
    <3>1. PICK p \in Starts(P) : HighestOf(coded) = TranscodesAfter(P, p)
      BY <1>14, <2>2
    <3>2. LiveAfter(P, p) \in Nat /\ LiveAfter(P, p) <= HighestOf(live) /\ TranscodesAfter(P, p) <= LiveAfter(P, p)
      BY <1>4, <1>5, <1>11, <1>17
    <3> QED
      BY <1>17, <1>18, <3>1, <3>2
  <2> QED
    BY <1>18, <2>1, <2>2
<1>23. \A d : /\ HighestOf(On(d)) \in On(d) \cup {0} /\ HighestOf(On(d)) \in Nat
              /\ \A k \in On(d) : k <= HighestOf(On(d))
  <2>1. ASSUME NEW d
        PROVE  /\ HighestOf(On(d)) \in On(d) \cup {0} /\ HighestOf(On(d)) \in Nat
               /\ \A k \in On(d) : k <= HighestOf(On(d))
    <3>1. On(d) \in SUBSET Nat /\ \A k \in On(d) : k <= n
      BY <1>7, <1>10
    <3> QED
      BY <1>3, <3>1, HighestIs
  <2> QED
    BY <2>1
<1>24. \A d : HighestOf(On(d)) <= HighestOf(live)
  <2>1. ASSUME NEW d PROVE HighestOf(On(d)) <= HighestOf(live)
    <3>1. HighestOf(On(d)) \in live \cup {0}
      BY <1>10, <1>23
    <3> QED
      BY <1>17, <3>1
  <2> QED
    BY <2>1
<1>25. \A k \in shown : \E d \in ChartDates(R, s) : k = HighestOf(On(d))
  BY <1>2
<1>26. \A d \in ChartDates(R, s) : HighestOf(On(d)) \in shown
  BY <1>2
<1>27. shown \in SUBSET Nat /\ \A k \in shown : k <= HighestOf(live)
  <2> HIDE DEF shown
  <2> QED
    BY <1>23, <1>24, <1>25
<1> HIDE DEF shown
<1>28. /\ HighestOf(shown) \in shown \cup {0} /\ HighestOf(shown) \in Nat /\ (\A k \in shown : k <= HighestOf(shown))
       /\ Max({0} \cup shown) = HighestOf(shown)
  BY <1>17, <1>27, HighestIs
<1>29. HighestOf(shown) <= HighestOf(live)
  BY <1>17, <1>27, <1>28
<1>30. HighestOf(live) <= HighestOf(shown)
  <2>1. CASE HighestOf(live) = 0
    BY <1>28, <2>1
  <2>2. CASE HighestOf(live) \in live
    <3>1. PICK p \in Starts(P) : HighestOf(live) = LiveAfter(P, p)
      BY <1>13, <2>2
    <3> DEFINE d == DateOf(R, s, p.at)
    <3>2. d \in ChartDates(R, s)
      BY <1>4, DatesHold
    <3>3. LiveAfter(P, p) \in On(d)
      BY <1>16
    <3> HIDE DEF d
    <3>4. LiveAfter(P, p) <= HighestOf(On(d)) /\ HighestOf(On(d)) \in shown /\ HighestOf(On(d)) \in Nat
      BY <1>23, <1>26, <3>2, <3>3
    <3>5. HighestOf(On(d)) <= HighestOf(shown)
      BY <1>28, <3>4
    <3> QED
      BY <1>17, <1>28, <3>1, <3>4, <3>5
  <2> QED
    BY <1>17, <2>1, <2>2
<1>31. HighestOf(live) = HighestOf(ran)
  BY <1>17, <1>19, <1>20, <1>21
<1>32. HighestOf(live) = HighestOf(shown)
  BY <1>17, <1>28, <1>29, <1>30
<1>33. said.peak = Max({0} \cup ran)
  BY <1>2, <1>19, <1>31
<1>34. said.peak = Max({0} \cup shown)
  BY <1>2, <1>28, <1>32
<1>35. said.peak_transcodes <= said.peak
  BY <1>2, <1>22
<1> QED
  BY <1>33, <1>34, <1>35 DEF said, ran, shown

(* How far a play with a runtime came is one of the four.                    *)
LEMMA SharesTellAll ==
  ASSUME NEW R, IsFiniteSet(R), \A r \in R : r.runtime_s \in Int /\ r.duration_s \in Int /\ r.position_s \in Int \cup {Null}
  PROVE  SumAt(Completion(R), 1..4) = Cardinality({r \in R : r.type \in {"Movie", "Episode"} /\ r.runtime_s > 0})
<1> DEFINE timed == {r \in R : r.type \in {"Movie", "Episode"} /\ r.runtime_s > 0}
           done(r) == Min({r.runtime_s, IF r.position_s # Null THEN r.position_s ELSE r.duration_s})
           share(r) == IF 10 * done(r) < r.runtime_s THEN 1 ELSE IF 2 * done(r) < r.runtime_s THEN 2
                       ELSE IF 10 * done(r) < 9 * r.runtime_s THEN 3 ELSE 4
           cls == [r \in timed |-> share(r)]
           ones == [r \in timed |-> 1]
           said == Completion(R)
           k1 == {r \in timed : 10 * done(r) < r.runtime_s}
           k2 == {r \in timed : 10 * done(r) >= r.runtime_s /\ 2 * done(r) < r.runtime_s}
           k3 == {r \in timed : 2 * done(r) >= r.runtime_s /\ 10 * done(r) < 9 * r.runtime_s}
           k4 == {r \in timed : 10 * done(r) >= 9 * r.runtime_s}
<1>1. said = <<Cardinality(k1), Cardinality(k2), Cardinality(k3), Cardinality(k4)>>
  BY DEF Completion
<1>2. ASSUME NEW y0 \in Int, NEW z0 \in Int
      PROVE  Min({y0, z0}) \in Int
  <2>1. \E x0 \in {y0, z0} : \A k \in {y0, z0} : x0 =< k
    <3>1. CASE y0 <= z0
      BY <3>1
    <3>2. CASE z0 <= y0
      BY <3>2
    <3> QED
      BY <3>1, <3>2
  <2>2. Min({y0, z0}) \in {y0, z0}
    BY <2>1 DEF Min
  <2> QED
    BY <2>2
<1>3. ASSUME NEW r \in timed
      PROVE  r.runtime_s \in Int /\ done(r) \in Int /\ r.runtime_s > 0
  <2> DEFINE z0 == IF r.position_s # Null THEN r.position_s ELSE r.duration_s
             y0 == r.runtime_s
  <2>1. z0 \in Int /\ y0 \in Int /\ y0 > 0
    OBVIOUS
  <2> HIDE DEF z0, y0
  <2>2. Min({y0, z0}) \in Int
    BY <1>2, <2>1
  <2> QED
    BY <2>1, <2>2 DEF z0, y0
<1>4. IsFiniteSet(timed)
  BY FS_Subset
<1> HIDE DEF done
<1>5. \A r \in timed : /\ share(r) \in 1..4
                       /\ (share(r) = 1 <=> 10 * done(r) < r.runtime_s)
                       /\ (share(r) = 2 <=> 10 * done(r) >= r.runtime_s /\ 2 * done(r) < r.runtime_s)
                       /\ (share(r) = 3 <=> 2 * done(r) >= r.runtime_s /\ 10 * done(r) < 9 * r.runtime_s)
                       /\ (share(r) = 4 <=> 10 * done(r) >= 9 * r.runtime_s)
  BY <1>3
<1> HIDE DEF share, timed
<1>6. /\ Classed(timed, cls, {1}) = k1 /\ Classed(timed, cls, {2}) = k2
      /\ Classed(timed, cls, {3}) = k3 /\ Classed(timed, cls, {4}) = k4
  BY <1>5 DEF Classed
<1>7. cls \in [timed -> 1..4] /\ ones \in [timed -> Int]
  BY <1>5
<1>8. \A i \in 1..4 : said[i] = Cardinality(Classed(timed, cls, {i}))
  <2> HIDE DEF said, k1, k2, k3, k4, cls
  <2>1. said[1] = Cardinality(k1) /\ said[2] = Cardinality(k2) /\ said[3] = Cardinality(k3) /\ said[4] = Cardinality(k4)
    BY <1>1
  <2>2. \A i \in 1..4 : i = 1 \/ i = 2 \/ i = 3 \/ i = 4
    OBVIOUS
  <2> QED
    BY <1>6, <2>1, <2>2
<1> HIDE DEF said
<1>9. ASSUME NEW i \in 1..4
      PROVE  /\ said[i] \in Int
             /\ IsSum([r \in Classed(timed, cls, {i}) |-> ones[r]], Classed(timed, cls, {i}), said[i])
  <2> DEFINE Q == Classed(timed, cls, {i})
  <2>1. Q \in SUBSET timed
    BY DEF Classed
  <2> HIDE DEF Q
  <2>2. IsFiniteSet(Q) /\ Cardinality(Q) \in Nat
    BY <1>4, <2>1, FS_Subset, FS_CardinalityType
  <2>3. IsSum([r \in Q |-> 1], Q, Cardinality(Q))
    BY <2>2, CountIs
  <2>4. [r \in Q |-> 1] = [r \in Q |-> ones[r]]
    BY <2>1
  <2> HIDE DEF ones
  <2>5. said[i] = Cardinality(Q)
    BY <1>8 DEF Q
  <2>6. said[i] \in Int
    BY <2>2, <2>5
  <2>7. IsSum([r \in Q |-> ones[r]], Q, said[i])
    BY <2>3, <2>4, <2>5
  <2> QED
    BY <2>6, <2>7 DEF Q
<1>10. said \in [1..4 -> Int]
  <2>1. DOMAIN said = 1..4 /\ said = [i \in 1..4 |-> said[i]]
    BY <1>1
  <2> QED
    BY <1>9, <2>1
<1>11. IsFiniteSet(1..4)
  <2>1. \A i, k \in Int : IsFiniteSet(i..k)
    BY FS_Interval
  <2>2. 1 \in Int /\ 4 \in Int
    OBVIOUS
  <2> QED
    BY <2>1, <2>2
<1>12. IsSum(said, 1..4, SumAt(said, 1..4))
  BY <1>10, <1>11, TotalIs
<1>13. PartSums(timed, ones, 1..4, cls, said)
  BY <1>9 DEF PartSums
<1>14. IsSum(ones, timed, Cardinality(timed))
  BY <1>4, CountIs
<1> HIDE DEF ones, cls
<1>15. Cardinality(timed) = SumAt(said, 1..4)
  BY <1>4, <1>7, <1>10, <1>11, <1>12, <1>13, <1>14, SumOfParts
<1> QED
  BY <1>15 DEF timed, said

(* The figures of the insights page agree with one another.                  *)
LEMMA InsightsTellAll ==
  ASSUME TableInv, NEW v \in Readers, NEW q \in Queries
  PROVE  InsightsAgree(v, q)
<1> DEFINE s == Scope(v, q)
           R == Cond(rows, s)
           page == insights(rows, v, q)
<1>1. page.concurrency = Concurrency(R, s) /\ page.completion = Completion(R)
  BY DEF insights
<1>2. q.days \in Nat
  BY PagesAssumption DEF Queries
<1>3. ChartOf(R, s) /\ R \subseteq rows
  <2>1. IsWindow(s) /\ R \in SUBSET Cond(rows, s)
    BY <1>2, ScopeIs
  <2> HIDE DEF s, R
  <2> QED
    BY <2>1, CondIs
<1> HIDE DEF page, s, R
<1>4. IsFiniteSet(R) /\ \A r \in R : r.runtime_s \in Int /\ r.duration_s \in Int /\ r.position_s \in Int \cup {Null}
  <2>1. ASSUME NEW r \in rows PROVE r.runtime_s \in Int /\ r.duration_s \in Int /\ r.position_s \in Int \cup {Null}
    <3>1. PICK p \in PlaysToCome : r = [p EXCEPT !.active = r.active]
      BY DEF TableInv, RowsInv, PagesTypeOK
    <3>2. r.runtime_s = p.runtime_s /\ r.duration_s = p.duration_s /\ r.position_s = p.position_s
      BY <3>1, PlaysAssumption
    <3> QED
      BY <3>2, PlaysAssumption, ColumnsAssumption
  <2> QED
    BY <1>3, <2>1 DEF ChartOf, IsTable
<1>5. SumAt(page.completion, 1..4) = Cardinality({r \in R : r.type \in {"Movie", "Episode"} /\ r.runtime_s > 0})
  BY <1>1, <1>4, SharesTellAll
<1> DEFINE said == Concurrency(R, s)
<1>6. /\ said.peak = Max({0} \cup {Cardinality(Running(R, r.start)) : r \in R})
      /\ said.peak = Max({0} \cup {said.series[d] : d \in DOMAIN said.series})
      /\ said.peak_transcodes <= said.peak
  BY <1>3, PeaksAgree
<1> HIDE DEF said
<1>7. page.concurrency = said
  BY <1>1 DEF said
<1> QED
  BY <1>5, <1>6, <1>7 DEF InsightsAgree, page, R, s, SumAt, Running

-----------------------------------------------------------------------------
(* Lists, page by page.                                                      *)

(* A play's columns, as far as a list is sorted by them.                     *)
Sortable(r) == /\ r.end \in Int /\ r.id \in Int /\ r.duration_s \in Int /\ r.ip \in Int \cup {Null}

(* Whatever column a list is sorted by, it is a strict order of the plays    *)
(* that leaves no ties: the id is the last resort.                           *)
LEMMA SortIsOrder ==
  ASSUME NEW sort, NEW r, NEW p, NEW k, Sortable(r), Sortable(p), Sortable(k)
  PROVE  /\ Precedes(sort, r, p) /\ Precedes(sort, p, k) => Precedes(sort, r, k)
         /\ Precedes(sort, r, p) /\ Precedes(sort, p, r) => FALSE
         /\ r.id # p.id => Precedes(sort, r, p) \/ Precedes(sort, p, r)
<1> DEFINE newer(x0, y0) == x0.end > y0.end \/ (x0.end = y0.end /\ x0.id > y0.id)
<1>1. Null \notin Int
  BY ColumnsAssumption
<1>2. CASE sort = "watched"
  <2>1. \A x0, y0 : Precedes(sort, x0, y0) <=> x0.duration_s > y0.duration_s \/ (x0.duration_s = y0.duration_s /\ newer(x0, y0))
    BY <1>2 DEF Precedes
  <2> QED
    BY <2>1 DEF Sortable
<1>3. CASE sort = "ip"
  <2>1. \A x0, y0 : Precedes(sort, x0, y0) <=>
          IF x0.ip = Null \/ y0.ip = Null THEN (x0.ip # Null \/ (y0.ip = Null /\ newer(x0, y0)))
          ELSE x0.ip > y0.ip \/ (x0.ip = y0.ip /\ newer(x0, y0))
    BY <1>3 DEF Precedes
  <2>2. /\ newer(r, p) /\ newer(p, k) => newer(r, k)
        /\ newer(r, p) /\ newer(p, r) => FALSE
        /\ r.id # p.id => newer(r, p) \/ newer(p, r)
    BY DEF Sortable
  <2> HIDE DEF newer
  <2>3. /\ r.ip = Null \/ r.ip \in Int
        /\ p.ip = Null \/ p.ip \in Int
        /\ k.ip = Null \/ k.ip \in Int
    BY DEF Sortable
  <2> QED
    BY <1>1, <2>1, <2>2, <2>3
<1>4. CASE sort # "watched" /\ sort # "ip"
  <2>1. \A x0, y0 : Precedes(sort, x0, y0) <=> newer(x0, y0)
    BY <1>4 DEF Precedes
  <2> QED
    BY <2>1 DEF Sortable
<1> QED
  BY <1>2, <1>3, <1>4

(* Every place is on one of the pages.                                       *)
LEMMA PlaceIsOnPage ==
  ASSUME NEW k \in Nat, NEW n \in Nat, k < n
  PROVE  \E number \in 1..n : (number - 1) * PerPage <= k /\ k < number * PerPage
<1> DEFINE q == k \div PerPage
<1>1. PerPage \in Nat \ {0}
  BY PagesAssumption
<1>2. q \in Int /\ k % PerPage \in Int /\ 0 <= k % PerPage /\ k % PerPage < PerPage /\ k = PerPage * q + (k % PerPage)
  BY <1>1, Division
<1> HIDE DEF q
<1>3. /\ PerPage * q \in Int /\ PerPage * (q + 1) \in Int
      /\ (q < 0 => PerPage * q + PerPage <= PerPage * 0)
      /\ PerPage * (q + 1) = PerPage * q + PerPage
  BY <1>1, <1>2, Multiples
<1>4. q >= 0
  BY <1>1, <1>2, <1>3
<1>5. q <= PerPage * q
  <2>1. PerPage - 1 \in Nat /\ PerPage * q = q + (PerPage - 1) * q
    BY <1>1, <1>2
  <2>2. (PerPage - 1) * q \in Nat
    BY <1>2, <1>4, <2>1
  <2> QED
    BY <1>2, <2>1, <2>2
<1> DEFINE number == q + 1
<1>6. number \in 1..n /\ number \in Int /\ number - 1 = q
  BY <1>2, <1>3, <1>4, <1>5
<1>7. PerPage * number = PerPage * q + PerPage
  BY <1>3
<1> HIDE DEF number
<1>8. (number - 1) * PerPage = PerPage * q /\ number * PerPage = PerPage * number
  BY <1>1, <1>2, <1>6
<1>9. PerPage * q <= k /\ k < PerPage * q + PerPage
  BY <1>1, <1>2, <1>3
<1>10. (number - 1) * PerPage <= k /\ k < number * PerPage
  <2> DEFINE low == (number - 1) * PerPage
             high == number * PerPage
             mid0 == PerPage * q
  <2>1. low = mid0 /\ high = mid0 + PerPage /\ mid0 <= k /\ k < mid0 + PerPage
    BY <1>7, <1>8, <1>9
  <2> HIDE DEF low, high, mid0
  <2>2. low <= k /\ k < high
    BY <2>1
  <2> QED
    BY <2>2 DEF low, high
<1> QED
  BY <1>6, <1>10

(* The pages of a list hold every play the filter leaves, once, in order,    *)
(* and their number is the number it says.                                   *)
LEMMA ListTellsAll ==
  ASSUME TableInv, NEW v, NEW q, NEW f
  PROVE  ListIsWhole(v, q, f)
<1> DEFINE R == Filtered(rows, v, q, f)
           sort == IF f.sort = "ip" /\ ~v.see_network THEN "when" ELSE f.sort
           before == [r \in R |-> {p \in R : p # r /\ Precedes(sort, p, r)}]
           place(r) == Cardinality(before[r])
           On(n) == {r \in R : (n - 1) * PerPage <= place(r) /\ place(r) < n * PerPage}
           pages == {Activity(rows, v, q, f, n) : n \in 1..MostPlays}
           found == UNION {p.rows : p \in pages}
           all == {<<place(r), Decorated(v, r)>> : r \in R}
<1>1. R \subseteq rows /\ IsFiniteSet(R) /\ Cardinality(R) \in Nat /\ MostPlays \in Nat /\ Cardinality(R) <= MostPlays
  <2>1. R \subseteq rows
    BY DEF Filtered, Cond, Base
  <2>2. IsFiniteSet(rows) /\ Cardinality(rows) <= MostPlays /\ MostPlays \in Nat
    BY PlaysAssumption DEF TableInv, RowsInv
  <2> HIDE DEF R
  <2>3. IsFiniteSet(R) /\ Cardinality(R) <= Cardinality(rows) /\ Cardinality(rows) \in Nat /\ Cardinality(R) \in Nat
    BY <2>1, <2>2, FS_Subset, FS_CardinalityType
  <2> QED
    BY <2>1, <2>2, <2>3
<1>2. \A r \in R : Sortable(r)
  <2>1. ASSUME NEW r \in rows PROVE Sortable(r)
    <3>1. PICK p \in PlaysToCome : r = [p EXCEPT !.active = r.active]
      BY DEF TableInv, RowsInv, PagesTypeOK
    <3>2. r.end = p.end /\ r.id = p.id /\ r.duration_s = p.duration_s /\ r.ip = p.ip
      BY <3>1, PlaysAssumption
    <3>3. p.end \in Int /\ p.id \in Int /\ p.duration_s \in Int /\ p.ip \in Int \cup {Null}
      BY PlaysAssumption, ColumnsAssumption
    <3> QED
      BY <3>2, <3>3 DEF Sortable
  <2> QED
    BY <1>1, <2>1
<1>3. \A r, p \in R : r.id = p.id => r = p
  BY <1>1 DEF TableInv, RowsInv, PagesTypeOK
<1>4. \A n : Activity(rows, v, q, f, n).rows = {<<place(r), Decorated(v, r)>> : r \in On(n)}
  BY DEF Activity
<1> HIDE DEF R, sort
<1>5. /\ before \in [R -> SUBSET R]
      /\ \A r \in R : r \notin before[r]
      /\ \A r, p \in R : r = p \/ r \in before[p] \/ p \in before[r]
      /\ \A r, p \in R : p \in before[r] => before[p] \subseteq before[r]
  <2>1. \A r, p \in R : r = p \/ r \in before[p] \/ p \in before[r]
    BY <1>2, <1>3, SortIsOrder
  <2>2. ASSUME NEW r \in R, NEW p \in R, p \in before[r], NEW k \in before[p]
        PROVE  k \in before[r]
    <3>1. k \in R /\ k # p /\ p # r /\ Precedes(sort, k, p) /\ Precedes(sort, p, r)
      BY <2>2
    <3>2. Sortable(k) /\ Sortable(p) /\ Sortable(r)
      BY <1>2, <3>1
    <3>3. Precedes(sort, k, r) /\ k # r
      BY <3>1, <3>2, SortIsOrder
    <3> QED
      BY <3>1, <3>3
  <2> QED
    BY <2>1, <2>2
<1> HIDE DEF before
<1>6. /\ \A r \in R : place(r) \in 0 .. Cardinality(R) - 1
      /\ \A k \in 1 .. Cardinality(R) : \E r \in R : place(r) = k - 1
  BY <1>1, <1>5, Places
<1>7. \A r \in R : \E n \in 1..MostPlays : r \in On(n)
  <2>1. ASSUME NEW r \in R PROVE \E n \in 1..MostPlays : r \in On(n)
    <3> DEFINE k == place(r)
    <3>1. k \in Nat /\ k < MostPlays
      BY <1>1, <1>6
    <3> HIDE DEF k
    <3>2. PICK n \in 1..MostPlays : (n - 1) * PerPage <= k /\ k < n * PerPage
      BY <1>1, <3>1, PlaceIsOnPage
    <3> QED
      BY <3>2 DEF k
  <2> QED
    BY <2>1
<1>8. found = all
  <2>1. ASSUME NEW z \in found PROVE z \in all
    <3>1. PICK n \in 1..MostPlays : z \in Activity(rows, v, q, f, n).rows
      OBVIOUS
    <3>2. PICK r \in On(n) : z = <<place(r), Decorated(v, r)>>
      BY <1>4, <3>1
    <3> QED
      BY <3>2
  <2>2. ASSUME NEW r \in R PROVE <<place(r), Decorated(v, r)>> \in found
    <3>1. PICK n \in 1..MostPlays : r \in On(n)
      BY <1>7
    <3>2. <<place(r), Decorated(v, r)>> \in Activity(rows, v, q, f, n).rows
      BY <1>4, <3>1
    <3> QED
      BY <3>2
  <2> HIDE DEF found
  <2> QED
    BY <2>1, <2>2
<1> HIDE DEF found
<1>9. {x0[1] : x0 \in found} = 0 .. Cardinality(R) - 1
  <2>1. \A z \in found : z[1] \in 0 .. Cardinality(R) - 1
    BY <1>6, <1>8
  <2>2. ASSUME NEW k \in 0 .. Cardinality(R) - 1 PROVE \E z \in found : k = z[1]
    <3>1. k + 1 \in 1 .. Cardinality(R) /\ k + 1 - 1 = k
      BY <1>1
    <3>2. PICK r \in R : place(r) = k + 1 - 1
      BY <1>6, <3>1
    <3>3. <<place(r), Decorated(v, r)>> \in found /\ <<place(r), Decorated(v, r)>>[1] = k
      BY <1>8, <3>1, <3>2
    <3> QED
      BY <3>3
  <2> QED
    BY <2>1, <2>2
<1>10. {x0[2] : x0 \in found} = {Decorated(v, r) : r \in R}
  <2>1. \A z \in found : z[2] \in {Decorated(v, r) : r \in R}
    BY <1>8
  <2>2. \A r \in R : <<place(r), Decorated(v, r)>> \in found /\ <<place(r), Decorated(v, r)>>[2] = Decorated(v, r)
    BY <1>8
  <2> QED
    BY <2>1, <2>2
<1> QED
  BY <1>9, <1>10 DEF ListIsWhole, found, R

(* What nobody has watched has an empty page.                                *)
LEMMA UnwatchedIsEmpty ==
  ASSUME TableInv, NEW v, NEW q, NEW t \in library_insights(rows, Null).unwatched
  PROVE  LET page == item_detail(rows, v, q, t) IN page.totals.tally.plays = 0 /\ page.played_by = {}
<1> DEFINE s == Scope(v, q)
           show == TypeOf(rows, t) = "Series"
           R == {r \in Cond(rows, s) : IF show THEN r.series = t ELSE r.item = t}
           flagged == {w \in Accounts : \E e \in {t} \cup Under(t) : <<w, e>> \in PlayedFlags}
           page == item_detail(rows, v, q, t)
<1>1. Never(rows, t)
  BY DEF library_insights
<1>2. page.totals.tally.plays = Cardinality(R) /\ page.played_by = IF v.see_everyone THEN flagged ELSE flagged \cap {s.user_id}
  BY DEF item_detail, Totals, Tally
<1>3. R = {}
  BY <1>1 DEF Never, Cond, Base
<1>4. flagged = {}
  BY <1>1 DEF Never
<1> HIDE DEF page, R, flagged
<1> QED
  BY <1>2, <1>3, <1>4, FS_EmptySet DEF page

(* Everything the pages tell of one table agrees.                            *)
LEMMA PagesTellAll ==
  ASSUME TableInv, \A r \in PlaysToCome : r.method # Null
  PROVE  PagesAgree
<1>1. \A v \in Readers, q \in Queries : ChartsAgree(v, q) /\ DetailsAgree(v, q) /\ InsightsAgree(v, q)
  BY ChartsTellAll, DetailsTellAll, InsightsTellAll
<1>2. \A v, q, f : ListIsWhole(v, q, f)
  BY ListTellsAll
<1> DEFINE q0 == [days |-> 0, user_id |-> Null, library_id |-> Null]
<1>3. \A v \in Readers, t \in library_insights(rows, Null).unwatched :
        item_detail(rows, v, q0, t).totals.tally.plays = 0 /\ item_detail(rows, v, q0, t).played_by = {}
  <2> HIDE DEF q0
  <2> QED
    BY UnwatchedIsEmpty
<1> QED
  BY <1>1, <1>2, <1>3 DEF PagesAgree

-----------------------------------------------------------------------------
(* The specification. *)

(* No part of the program breaks what the pages rest on.                     *)
LEMMA TableKept == TableInv /\ [ReportsNext]_reportsVars => TableInv'
<1> SUFFICES ASSUME TableInv, [ReportsNext]_reportsVars PROVE TableInv'
  OBVIOUS
<1>1. CASE UNCHANGED <<storiesVars, incomingVars>>
  <2>1. UNCHANGED <<rows, today>>
    BY <1>1 DEF storiesVars, pagesVars
  <2> QED
    BY <2>1, TableStep
<1>2. CASE StoriesNext /\ UNCHANGED incomingVars
  <2>1. PagesNext \/ UNCHANGED <<rows, today>>
    BY <1>2 DEF StoriesNext, OpenTrail, TurnTrail, mark_seen, pagesVars
  <2> QED
    BY <2>1, TableStep DEF PagesNext
<1>3. CASE IncomingNext
  BY <1>3, IncomingMovesRows, TableStep
<1>4. CASE AlertsNext /\ UNCHANGED incomingVars
  BY <1>4, AlertsMoveRows, TableStep
<1> QED
  BY <1>1, <1>2, <1>3, <1>4 DEF ReportsNext, reportsVars

(* At any time, for every reader and every filter: the charts, the heatmaps, *)
(* the rankings, the lists and the insights of the pages add up to the       *)
(* totals they stand beside ("The chart's buckets and the totals always      *)
(* describe exactly the same plays"). A play has a method, NULL being left   *)
(* to rows restored from backups of old.                                     *)
THEOREM PagesTellTheSame ==
  ASSUME \A r \in PlaysToCome : r.method # Null
  PROVE  ReportsSpec => []PagesAgree
<1>1. ReportsInit => TableInv
  BY TableInitially DEF ReportsInit, StoriesInit
<1>2. TableInv => PagesAgree
  BY PagesTellAll
<1> QED
  BY <1>1, <1>2, TableKept, PTL DEF ReportsSpec

-----------------------------------------------------------------------------
(* Places.                                                                   *)

(* What a function makes of a finite set is finite.                          *)
LEMMA ImageIsFinite ==
  ASSUME NEW S, IsFiniteSet(S), NEW h
  PROVE  IsFiniteSet({h[x0] : x0 \in S})
<1> DEFINE T == {h[x0] : x0 \in S}
           g == [x0 \in S |-> h[x0]]
<1>1. g \in Surjection(S, T)
  BY DEF Surjection
<1> HIDE DEF g, T
<1>2. IsFiniteSet(T)
  BY <1>1, FS_Surjection
<1> QED
  BY <1>2 DEF T

(* Two parts of a finite set that have nothing in common count together.     *)
LEMMA TwoSidesCount ==
  ASSUME NEW S, IsFiniteSet(S), NEW A \in SUBSET S, NEW B \in SUBSET S, A \cap B = {}
  PROVE  /\ IsFiniteSet(A) /\ IsFiniteSet(B) /\ IsFiniteSet(A \cup B)
         /\ Cardinality(A) \in Nat /\ Cardinality(B) \in Nat /\ Cardinality(S) \in Nat
         /\ Cardinality(A \cup B) = Cardinality(A) + Cardinality(B) /\ Cardinality(A \cup B) <= Cardinality(S)
<1>1. IsFiniteSet(A) /\ IsFiniteSet(B) /\ A \cup B \in SUBSET S
  BY FS_Subset
<1>2. Cardinality({}) = 0
  BY FS_EmptySet
<1>3. Cardinality(A) \in Nat /\ Cardinality(B) \in Nat /\ Cardinality(S) \in Nat
  BY <1>1, FS_CardinalityType
<1>4. IsFiniteSet(A \cup B) /\ Cardinality(A \cup B) = Cardinality(A) + Cardinality(B) - 0
  BY <1>1, <1>2, FS_Union
<1>5. Cardinality(A \cup B) <= Cardinality(S)
  BY <1>1, FS_Subset
<1> QED
  BY <1>1, <1>3, <1>4, <1>5

(* The alerts are finitely many.                                             *)
FewAlerts == IsFiniteSet(alerts) /\ \A al \in alerts : DOMAIN al = AlertFields /\ al.open \in BOOLEAN

(* Nothing that happens to the alerts makes them many, or an answer of one   *)
(* anything but open or not.                                                 *)
LEMMA AlertsStayFew ==
  ASSUME FewAlerts, AlertsNext \/ UNCHANGED alertsVars
  PROVE  FewAlerts'
<1>1. CASE UNCHANGED alerts
  BY <1>1 DEF FewAlerts
<1>2. CASE file_alerts
  <2>1. PICK al : alerts' = alerts \/ (alerts' = alerts \cup {al} /\ DOMAIN al = AlertFields /\ al.open \in BOOLEAN)
    <3>1. PICK f \in check.found :
            alerts' = IF \E k \in alerts : k.dedupe = f.dedupe THEN alerts
                      ELSE alerts \cup {[kind |-> f.kind, user |-> f.user, at |-> f.at, about |-> f.about, dedupe |-> f.dedupe, open |-> TRUE, muted |-> FALSE]}
      BY <1>2 DEF file_alerts
    <3> DEFINE al0 == [kind |-> f.kind, user |-> f.user, at |-> f.at, about |-> f.about, dedupe |-> f.dedupe, open |-> TRUE, muted |-> FALSE]
    <3>2. DOMAIN al0 = AlertFields /\ al0.open \in BOOLEAN
      BY DEF AlertFields
    <3>3. alerts' = alerts \/ alerts' = alerts \cup {al0}
      BY <3>1
    <3> HIDE DEF al0
    <3> QED
      BY <3>2, <3>3
  <2> QED
    BY <2>1, FS_AddElement DEF FewAlerts
<1>3. CASE resolve
  <2>1. PICK k \in alerts, mutes \in BOOLEAN, also \in [alerts -> BOOLEAN] :
          alerts' = {IF y0 = k THEN [y0 EXCEPT !.open = FALSE, !.muted = mutes]
                     ELSE IF also[y0] THEN [y0 EXCEPT !.open = FALSE] ELSE y0 : y0 \in alerts}
    <3>1. PICK k \in alerts, mute \in BOOLEAN :
            LET mutes == mute /\ k.kind = "impossible_travel"
                Also(y0) == mutes /\ y0.user = k.user /\ y0.kind = k.kind /\ y0.about = k.about
            IN  alerts' = {IF y0 = k THEN [y0 EXCEPT !.open = FALSE, !.muted = mutes]
                           ELSE IF Also(y0) THEN [y0 EXCEPT !.open = FALSE] ELSE y0 : y0 \in alerts}
      BY <1>3 DEF resolve, Answer
    <3> DEFINE mutes == mute /\ k.kind = "impossible_travel"
               also == [y0 \in alerts |-> mutes /\ y0.user = k.user /\ y0.kind = k.kind /\ y0.about = k.about]
    <3>2. mutes \in BOOLEAN /\ also \in [alerts -> BOOLEAN]
      OBVIOUS
    <3>3. alerts' = {IF y0 = k THEN [y0 EXCEPT !.open = FALSE, !.muted = mutes]
                     ELSE IF also[y0] THEN [y0 EXCEPT !.open = FALSE] ELSE y0 : y0 \in alerts}
      BY <3>1
    <3> HIDE DEF mutes, also
    <3> QED
      BY <3>2, <3>3
  <2> DEFINE h == [y0 \in alerts |-> IF y0 = k THEN [y0 EXCEPT !.open = FALSE, !.muted = mutes]
                                     ELSE IF also[y0] THEN [y0 EXCEPT !.open = FALSE] ELSE y0]
  <2>2. alerts' = {h[y0] : y0 \in alerts}
    BY <2>1
  <2>3. \A y0 \in alerts : DOMAIN h[y0] = AlertFields /\ h[y0].open \in BOOLEAN
    BY DEF FewAlerts, AlertFields
  <2> HIDE DEF h
  <2> QED
    BY <2>2, <2>3, ImageIsFinite DEF FewAlerts
<1>4. CASE reopen
  <2>1. PICK k \in alerts : alerts' = (alerts \ {k}) \cup {[k EXCEPT !.open = TRUE, !.muted = FALSE]}
    BY <1>4 DEF reopen, Answer
  <2>2. DOMAIN [k EXCEPT !.open = TRUE, !.muted = FALSE] = AlertFields /\ [k EXCEPT !.open = TRUE, !.muted = FALSE].open \in BOOLEAN
    BY DEF FewAlerts, AlertFields
  <2>3. IsFiniteSet(alerts \ {k})
    BY FS_Difference DEF FewAlerts
  <2> QED
    BY <2>1, <2>2, <2>3, FS_AddElement DEF FewAlerts
<1>5. CASE resolve_all
  <2> DEFINE h == [y0 \in alerts |-> [y0 EXCEPT !.open = FALSE]]
  <2>1. alerts' = {h[y0] : y0 \in alerts}
    BY <1>5 DEF resolve_all, Answer
  <2>2. \A y0 \in alerts : DOMAIN h[y0] = AlertFields /\ h[y0].open \in BOOLEAN
    BY DEF FewAlerts, AlertFields
  <2> HIDE DEF h
  <2> QED
    BY <2>1, <2>2, ImageIsFinite DEF FewAlerts
<1> QED
  BY <1>1, <1>2, <1>3, <1>4, <1>5 DEF AlertsNext, alertsVars, PlayIsSeen, LogIsRead, CheckBegins, LookAt

(* The dots and home hold every play that has a place, the countries         *)
(* everybody in one, and the badge no more than the list.                    *)
LEMMA PlacesTellAll ==
  ASSUME TableInv, FewAlerts, logged \in 0 .. Len(Log)
  PROVE  PlacesAgree
<1> DEFINE v == [id |-> CHOOSE w \in Accounts : TRUE, see_everyone |-> TRUE, see_network |-> TRUE]
<1> SUFFICES ASSUME NEW q \in Queries
             PROVE  LET page == places(rows, v, [q EXCEPT !.library_id = Null])
                        s == Scope(v, q)
                        placed == {r \in rows : /\ r.ip # Null /\ Spot(r.ip, r.local) # Null
                                                /\ s.since # Null => r.start >= s.since
                                                /\ s.user_id # Null => r.user = s.user_id}
                    IN  /\ SumOf([p \in DOMAIN page.away |-> page.away[p].plays]).plays + page.home.plays.plays = Cardinality(placed)
                        /\ UNION {page.countries[c] : c \in DOMAIN page.countries} = UNION {page.away[p].users : p \in DOMAIN page.away}
                        /\ page.open_alerts <= alert_list("open", q.user_id).total
  BY DEF PlacesAgree
<1> DEFINE s == Scope(v, q)
           qn == [q EXCEPT !.library_id = Null]
           page == places(rows, v, qn)
           placed == {r \in rows : /\ r.ip # Null /\ Spot(r.ip, r.local) # Null
                                   /\ s.since # Null => r.start >= s.since
                                   /\ s.user_id # Null => r.user = s.user_id}
           plays == {r \in rows : /\ s.since # Null => r.start >= s.since
                                  /\ s.user_id # Null => r.user = s.user_id
                                  /\ r.ip # Null}
           Of(R, S) == [plays |-> Tally(R), users |-> {r.user : r \in R} \cup {e.user : e \in S}, sign_ins |-> Cardinality(S)]
           away == {r \in plays : ~r.local /\ PlaceOf[r.ip] # Null}
           signed == {e \in server_events(logged) :
                       /\ e.type = "AuthenticationSucceeded" /\ ~e.local /\ PlaceOf[e.ip] # Null
                       /\ s.since # Null => e.at >= s.since
                       /\ s.user_id # Null => e.user = s.user_id}
           home == IF Home = Null THEN {} ELSE {r \in plays : r.local}
           P == {PlaceOf[r.ip] : r \in away} \cup {PlaceOf[e.ip] : e \in signed}
           dots == [p \in P |-> Of({r \in away : PlaceOf[r.ip] = p}, {e \in signed : PlaceOf[e.ip] = p})]
           count == Cardinality({al \in alerts : al.open /\ (s.user_id # Null => al.user = s.user_id)})
<1>1. Scope(v, qn).since = s.since /\ Scope(v, qn).user_id = s.user_id /\ s.user_id = q.user_id
  <2>1. qn.days = q.days /\ qn.user_id = q.user_id /\ qn.library_id = Null
    BY DEF Queries
  <2>2. v.see_everyone
    OBVIOUS
  <2> HIDE DEF v, qn
  <2>3. s.user_id = q.user_id
    BY <2>2 DEF Scope, pinned_user
  <2> QED
    BY <2>1, <2>3 DEF Scope
<1>2. page = [away |-> dots, home |-> Of(home, {}),
              countries |-> [c \in {CountryOf[p] : p \in DOMAIN dots} |->
                              UNION {dots[p].users : p \in {y0 \in DOMAIN dots : CountryOf[y0] = c}}],
              open_alerts |-> count]
  <2> HIDE DEF v, qn, s
  <2>1. Scope(v, qn).since = s.since /\ Scope(v, qn).user_id = s.user_id
    BY <1>1
  <2> QED
    BY <2>1 DEF places
<1>3. IsTable(rows)
  BY RowsAreTable DEF TableInv
<1> HIDE DEF page, s, v
<1>4. IsTable(away) /\ IsTable(home) /\ away \in SUBSET rows /\ home \in SUBSET rows
  BY <1>3, TablePart
<1>5. IsFiniteSet(P)
  <2>1. IsFiniteSet(away) /\ IsFiniteSet(signed)
    BY <1>4, EventsAreFinite, FS_Subset DEF IsTable
  <2> DEFINE h == [r \in away |-> PlaceOf[r.ip]]
             g == [e \in signed |-> PlaceOf[e.ip]]
  <2>2. {PlaceOf[r.ip] : r \in away} = {h[r] : r \in away} /\ {PlaceOf[e.ip] : e \in signed} = {g[e] : e \in signed}
    OBVIOUS
  <2> HIDE DEF h, g, away, signed
  <2>3. IsFiniteSet({h[r] : r \in away}) /\ IsFiniteSet({g[e] : e \in signed})
    BY <2>1, ImageIsFinite
  <2> QED
    BY <2>2, <2>3, FS_Union
<1>6. SumOf([p \in P |-> dots[p].plays]) = Tally(away)
  <2> DEFINE cls == [r \in away |-> PlaceOf[r.ip]]
  <2>1. cls \in [away -> P]
    OBVIOUS
  <2>2. \A p \in P : dots[p].plays = Tally({r \in away : cls[r] = p})
    <3> SUFFICES ASSUME NEW p \in P PROVE dots[p].plays = Tally({r \in away : cls[r] = p})
      OBVIOUS
    <3>1. {r \in away : cls[r] = p} = {r \in away : PlaceOf[r.ip] = p}
      OBVIOUS
    <3> HIDE DEF away, signed, P, cls
    <3> QED
      BY <3>1
  <2> HIDE DEF cls, P, dots, away
  <2>3. [p \in P |-> dots[p].plays] = [p \in P |-> Tally({r \in away : cls[r] = p})]
    BY <2>2
  <2> QED
    BY <1>4, <1>5, <2>1, <2>3, ClassesTellAll
<1>7. placed = away \cup home /\ away \cap home = {}
  BY DEF Spot
<1>8. Cardinality(placed) = Cardinality(away) + Cardinality(home) /\ Cardinality(away) \in Nat /\ Cardinality(home) \in Nat
  <2> HIDE DEF placed, away, home
  <2> QED
    BY <1>3, <1>4, <1>7, TwoSidesCount DEF IsTable
<1>9. SumOf([p \in DOMAIN page.away |-> page.away[p].plays]).plays + page.home.plays.plays = Cardinality(placed)
  <2>1. page.away = dots /\ DOMAIN dots = P /\ page.home.plays = Tally(home)
    BY <1>2
  <2> HIDE DEF dots, P, home, away, placed
  <2> QED
    BY <2>1, <1>6, <1>8 DEF Tally
<1>10. UNION {page.countries[c] : c \in DOMAIN page.countries} = UNION {page.away[p].users : p \in DOMAIN page.away}
  <2>1. /\ page.away = dots /\ DOMAIN page.countries = {CountryOf[p] : p \in DOMAIN dots}
        /\ \A c \in DOMAIN page.countries :
             page.countries[c] = UNION {dots[p].users : p \in {y0 \in DOMAIN dots : CountryOf[y0] = c}}
    <3> HIDE DEF dots, home, count
    <3> QED
      BY <1>2
  <2> HIDE DEF dots
  <2>2. ASSUME NEW w \in UNION {page.countries[c] : c \in DOMAIN page.countries}
        PROVE  w \in UNION {page.away[p].users : p \in DOMAIN page.away}
    <3>1. PICK c \in DOMAIN page.countries : w \in page.countries[c]
      OBVIOUS
    <3>2. PICK p \in DOMAIN dots : w \in dots[p].users
      BY <2>1, <3>1
    <3> QED
      BY <2>1, <3>2
  <2>3. ASSUME NEW w \in UNION {page.away[p].users : p \in DOMAIN page.away}
        PROVE  w \in UNION {page.countries[c] : c \in DOMAIN page.countries}
    <3>1. PICK p \in DOMAIN dots : w \in dots[p].users
      BY <2>1
    <3>2. CountryOf[p] \in DOMAIN page.countries /\ w \in page.countries[CountryOf[p]]
      BY <2>1, <3>1
    <3> QED
      BY <3>2
  <2> QED
    BY <2>2, <2>3
<1>11. page.open_alerts <= alert_list("open", q.user_id).total
  <2> DEFINE L == {al \in alerts : /\ "open" # "all" => al.open = ("open" = "open")
                                   /\ q.user_id # Null => al.user = q.user_id}
  <2>1. L = {al \in alerts : al.open /\ (s.user_id # Null => al.user = s.user_id)}
    BY <1>1 DEF FewAlerts
  <2>2. alert_list("open", q.user_id).total = Cardinality(L)
    BY DEF alert_list
  <2>3. page.open_alerts = count
    BY <1>2
  <2>4. Cardinality(L) \in Nat
    BY FS_Subset, FS_CardinalityType DEF FewAlerts
  <2>5. count = Cardinality(L)
    BY <2>1
  <2> HIDE DEF L, count
  <2> QED
    BY <2>2, <2>3, <2>4, <2>5
<1> QED
  BY <1>9, <1>10, <1>11 DEF page, s, v

-----------------------------------------------------------------------------
(* What is coming in.                                                        *)

(* A request made by a time, whose poster is that of one title; an entry     *)
(* announced for a day that is in sight.                                     *)
AskedBefore(r, t) == r.requested_at <= t /\ (r.media_id # Null => r.media_id = <<r.media_id[1], r.media_id[2]>>)
Announced(e, d) == e.day \in Nat /\ e.day <= d /\ (e.release = "physical" => e.kind = "movie")

(* What is known of requests, announcements and grabs: none is from the      *)
(* future, and nothing is announced beyond what is read.                     *)
ComingInv ==
  /\ \A r \in requests : AskedBefore(r, Now)
  /\ \A e \in calendar : Announced(e, today + Ahead)
  /\ \A g \in happened : g.at <= Now

(* `link` leaves alone when something was asked for, its poster and what the *)
(* calendar announces.                                                       *)
LEMMA LinkKeeps ==
  ASSUME NEW R, NEW C, link(R, C), NEW t, NEW d,
         \A r \in R : IsRequest(r) /\ AskedBefore(r, t), \A e \in C : IsEntry(e) /\ Announced(e, d)
  PROVE  (\A r \in requests' : AskedBefore(r, t)) /\ (\A e \in calendar' : Announced(e, d))
<1>1. ASSUME NEW r \in R, NEW ext PROVE AskedBefore(Linked(r, ext), t)
  <2>1. DOMAIN r = RequestFields
    BY DEF IsRequest
  <2>2. PICK y0, z0, w0 : Linked(r, ext) = [r EXCEPT !.user_id = y0, !.item_id = z0, !.available_at = w0]
    BY DEF Linked
  <2>3. Linked(r, ext).requested_at = r.requested_at /\ Linked(r, ext).media_id = r.media_id
    BY <2>1, <2>2 DEF RequestFields
  <2> QED
    BY <2>3 DEF AskedBefore
<1>2. ASSUME NEW e \in C, NEW n PROVE Announced([e EXCEPT !.item_id = n], d)
  <2>1. [e EXCEPT !.item_id = n].day = e.day /\ [e EXCEPT !.item_id = n].release = e.release /\ [e EXCEPT !.item_id = n].kind = e.kind
    BY DEF IsEntry, EntryFields
  <2> QED
    BY <2>1 DEF Announced
<1>3. /\ requests' = {Linked(r, rebuild_external) : r \in R}
      /\ calendar' = {[e EXCEPT !.item_id = Landing(rebuild_external, e.numbers)] : e \in C}
  BY DEF link
<1> QED
  BY <1>1, <1>2, <1>3

(* As days pass, what was asked for and what happened stays in the past.     *)
LEMMA TimeGoesOn ==
  ASSUME RowsInv, today' \in {today, today + 1}, ComingInv
  PROVE  /\ Now \in Int /\ Now' \in Int /\ Now <= Now' /\ today \in Nat /\ today' \in Nat /\ today <= today' /\ Ahead \in Nat
         /\ UNCHANGED <<requests, calendar, happened>> /\ RequestsInv /\ HistoryInv => ComingInv'
<1>1. today \in Nat /\ (today' = today \/ today' = today + 1) /\ Ahead \in Nat
  BY IncomingAssumption DEF RowsInv, PagesTypeOK
<1>2. Midnight(today + 1) \in Int /\ Midnight(today' + 1) \in Int /\ Midnight(today + 1) <= Midnight(today' + 1)
  <2>1. DayLength \in Nat \ {0}
    BY PagesAssumption
  <2>2. Midnight(today + 1) \in Int /\ Midnight(today + 2) \in Int
    BY <1>1, DaysInOrder
  <2>3. Midnight(today + 1) <= Midnight(today + 2)
    BY <1>1, <2>1, Multiples DEF Midnight
  <2> QED
    BY <1>1, <2>2, <2>3
<1>3. Now \in Int /\ Now' \in Int /\ Now <= Now'
  BY <1>2 DEF Now
<1>4. ASSUME UNCHANGED <<requests, calendar, happened>>, RequestsInv, HistoryInv PROVE ComingInv'
  <2>1. \A r \in requests : AskedBefore(r, Now')
    BY <1>3, <1>4 DEF ComingInv, AskedBefore, RequestsInv, IsRequest
  <2>2. \A e \in calendar : Announced(e, today' + Ahead)
    BY <1>1 DEF ComingInv, Announced
  <2>3. \A g \in happened : g.at <= Now'
    BY <1>3, <1>4, IncomingAssumption DEF ComingInv, HistoryInv
  <2> QED
    BY <1>4, <2>1, <2>2, <2>3 DEF ComingInv
<1> QED
  BY <1>1, <1>3, <1>4

(* No step of what is coming in breaks that.                                 *)
LEMMA ComingStep ==
  ASSUME RowsInv, RequestsInv, HistoryInv, ComingInv, IncomingNext
  PROVE  ComingInv'
<1>1. today' \in {today, today + 1}
  BY IncomingMovesRows DEF Recorded, DayPasses
<1>2. /\ Now \in Int /\ Now' \in Int /\ Now <= Now' /\ today \in Nat /\ today' \in Nat /\ today <= today' /\ Ahead \in Nat
      /\ UNCHANGED <<requests, calendar, happened>> => ComingInv'
  BY <1>1, TimeGoesOn
<1>3. ASSUME NEW R, NEW C, link(R, C), UNCHANGED <<today, happened>>,
             \A r \in R : IsRequest(r) /\ AskedBefore(r, Now), \A e \in C : IsEntry(e) /\ Announced(e, today + Ahead)
      PROVE  ComingInv'
  <2>1. (\A r \in requests' : AskedBefore(r, Now)) /\ (\A e \in calendar' : Announced(e, today + Ahead))
    BY <1>3, LinkKeeps
  <2>2. Now' = Now
    BY <1>3 DEF Now
  <2> QED
    BY <1>3, <2>1, <2>2 DEF ComingInv
<1>4. /\ \A r \in requests : IsRequest(r) /\ AskedBefore(r, Now)
      /\ \A e \in calendar : IsEntry(e) /\ Announced(e, today + Ahead)
  BY DEF RequestsInv, ComingInv
<1>5. CASE StoreRequest
  <2>1. PICK r \in RequestsToCome, seen \in Int \cup {Null}, R0 \in SUBSET requests :
          /\ r.requested_at <= Now
          /\ link(R0 \cup {[r EXCEPT !.seen_available_at = seen]}, calendar)
          /\ UNCHANGED <<today, happened>>
    <3>1. PICK r \in RequestsToCome :
            LET known == {q \in requests : q.service = r.service /\ q.id = r.id}
                first_seen == IF known = {} THEN Null ELSE (CHOOSE q \in known : TRUE).seen_available_at
            IN  /\ r.requested_at <= Now
                /\ Tells(link((requests \ known) \cup
                     {[r EXCEPT !.seen_available_at = IF r.media_status = AVAILABLE THEN First(first_seen, Now) ELSE Null]}, calendar))
                /\ Elsewhere /\ UNCHANGED <<enabled, gone, history>>
      BY <1>5 DEF StoreRequest
    <3> DEFINE known == {q \in requests : q.service = r.service /\ q.id = r.id}
               first_seen == IF known = {} THEN Null ELSE (CHOOSE q \in known : TRUE).seen_available_at
               seen == IF r.media_status = AVAILABLE THEN First(first_seen, Now) ELSE Null
    <3>2. first_seen \in Int \cup {Null}
      BY DEF RequestsInv, IsRequest
    <3>3. seen \in Int \cup {Null}
      BY <1>2, <3>2 DEF First
    <3>4. /\ r.requested_at <= Now
          /\ link((requests \ known) \cup {[r EXCEPT !.seen_available_at = seen]}, calendar)
          /\ UNCHANGED <<today, happened>>
      BY <3>1 DEF Tells, Elsewhere, history
    <3>5. requests \ known \in SUBSET requests
      OBVIOUS
    <3> HIDE DEF seen, known
    <3> QED
      BY <3>3, <3>4, <3>5
  <2> DEFINE stored == [r EXCEPT !.seen_available_at = seen]
  <2>2. /\ DOMAIN r = RequestFields /\ DOMAIN r.numbers \subseteq Nat /\ r.requested_at \in Nat /\ r.media_added_at \in Nat \cup {Null}
        /\ r.media_id # Null => r.media_id = <<r.media_id[1], r.media_id[2]>>
    BY IncomingAssumption
  <2>3. /\ DOMAIN stored = RequestFields /\ stored.numbers = r.numbers /\ stored.requested_at = r.requested_at
        /\ stored.media_added_at = r.media_added_at /\ stored.seen_available_at = seen /\ stored.media_id = r.media_id
    BY <2>2 DEF RequestFields
  <2> HIDE DEF stored
  <2>4. IsRequest(stored) /\ AskedBefore(stored, Now)
    BY <2>1, <2>2, <2>3 DEF IsRequest, AskedBefore
  <2>5. \A k \in R0 \cup {stored} : IsRequest(k) /\ AskedBefore(k, Now)
    BY <1>4, <2>4
  <2>6. link(R0 \cup {stored}, calendar) /\ UNCHANGED <<today, happened>>
    BY <2>1 DEF stored
  <2> QED
    BY <1>3, <1>4, <2>5, <2>6
<1>6. CASE DropRequest
  <2>1. PICK r \in requests : link((requests \ {r}) \cup {[r EXCEPT !.removed = TRUE]}, calendar) /\ UNCHANGED <<today, happened>>
    BY <1>6 DEF DropRequest, Tells, Elsewhere, history
  <2> DEFINE dropped == [r EXCEPT !.removed = TRUE]
  <2>2. IsRequest(r) /\ AskedBefore(r, Now)
    BY <1>4
  <2>3. /\ DOMAIN dropped = RequestFields /\ dropped.numbers = r.numbers /\ dropped.requested_at = r.requested_at
        /\ dropped.media_added_at = r.media_added_at /\ dropped.seen_available_at = r.seen_available_at
        /\ dropped.media_id = r.media_id
    BY <2>2 DEF RequestFields, IsRequest
  <2>4. link((requests \ {r}) \cup {dropped}, calendar)
    BY <2>1
  <2> HIDE DEF dropped
  <2>5. IsRequest(dropped) /\ AskedBefore(dropped, Now)
    BY <2>2, <2>3 DEF IsRequest, AskedBefore
  <2>6. \A k \in (requests \ {r}) \cup {dropped} : IsRequest(k) /\ AskedBefore(k, Now)
    BY <1>4, <2>5
  <2> QED
    BY <1>3, <1>4, <2>1, <2>4, <2>6
<1>7. CASE StoreCalendar
  <2>1. PICK s \in enabled, announced \in SUBSET CalendarToCome :
          /\ link(requests, {e \in calendar : e.service # s} \cup {e \in announced : today - Behind <= e.day /\ e.day <= today + Ahead})
          /\ UNCHANGED <<today, happened>>
    BY <1>7 DEF StoreCalendar, Tells, Elsewhere, history
  <2> DEFINE C == {e \in calendar : e.service # s} \cup {e \in announced : today - Behind <= e.day /\ e.day <= today + Ahead}
  <2>2. \A e \in C : IsEntry(e) /\ Announced(e, today + Ahead)
    BY <1>4, IncomingAssumption DEF IsEntry, Announced
  <2>3. link(requests, C)
    BY <2>1
  <2> HIDE DEF C
  <2> QED
    BY <1>3, <1>4, <2>1, <2>2, <2>3
<1>8. CASE LibraryLinked
  BY <1>3, <1>4, <1>8 DEF LibraryLinked, Elsewhere, history
<1>9. CASE GrabHappens
  <2>1. PICK g \in GrabsToCome : g.at <= Now /\ happened' = happened \cup {g} /\ UNCHANGED <<requests, calendar, today>>
    BY <1>9 DEF GrabHappens, Tells, Elsewhere
  <2>2. Now' = Now
    BY <2>1 DEF Now
  <2> QED
    BY <2>1, <2>2 DEF ComingInv
<1>10. CASE read_history \/ sync_grabs \/ GrabsFail
  BY <1>2, <1>10 DEF read_history, sync_grabs, GrabsFail, Quiet
<1>11. CASE LibraryChanges \/ SwitchService \/ UNCHANGED incomingVars
  BY <1>2, <1>11 DEF LibraryChanges, SwitchService, incomingVars, history
<1> QED
  BY <1>5, <1>6, <1>7, <1>8, <1>9, <1>10, <1>11 DEF IncomingNext

(* The sizes of the classes of a finite set add up to its size.              *)
LEMMA CountOfClasses ==
  ASSUME NEW S, IsFiniteSet(S), NEW I, IsFiniteSet(I), NEW cls \in [S -> I],
         NEW f \in [I -> Int], \A i \in I : f[i] = Cardinality({y0 \in S : cls[y0] = i})
  PROVE  SumAt(f, I) = Cardinality(S) /\ Cardinality(S) \in Nat
<1> DEFINE ones == [y0 \in S |-> 1]
           g == [i \in I |-> f[i]]
<1>1. ones \in [S -> Int] /\ IsSum(ones, S, Cardinality(S))
  BY CountIs
<1>2. \A i \in I : f[i] \in Int /\ {y0 \in S : cls[y0] = i} = Classed(S, cls, {i}) /\ IsFiniteSet(Classed(S, cls, {i}))
  BY FS_Subset, FS_CardinalityType DEF Classed
<1>3. PartSums(S, ones, I, cls, g)
  <2> SUFFICES ASSUME NEW i \in I PROVE IsSum([y0 \in Classed(S, cls, {i}) |-> ones[y0]], Classed(S, cls, {i}), g[i])
    BY DEF PartSums
  <2>1. [y0 \in Classed(S, cls, {i}) |-> ones[y0]] = [y0 \in Classed(S, cls, {i}) |-> 1]
    BY DEF Classed
  <2>2. g[i] = Cardinality(Classed(S, cls, {i}))
    BY <1>2
  <2> HIDE DEF ones, g
  <2> QED
    BY <1>2, <2>1, <2>2, CountIs
<1>4. g \in [I -> Int] /\ g = f
  OBVIOUS
<1> HIDE DEF ones, g
<1>6. IsSum(g, I, SumAt(g, I))
  BY <1>4, TotalIs
<1>7. SumAt(g, I) = Cardinality(S)
  BY <1>1, <1>3, <1>4, <1>6, SumOfParts
<1> QED
  BY <1>4, <1>6, <1>7, FS_CardinalityType

(* One column of a table of records, added up.                               *)
ColumnAt(t, y0, S) == MapThenSumSet(LAMBDA d0 : t[d0][y0], S)

(* A column of a table of records is added up as any other sum.              *)
LEMMA ColumnIs ==
  ASSUME NEW t, NEW y0, NEW S, IsFiniteSet(S)
  PROVE  ColumnAt(t, y0, S) = SumAt([d0 \in S |-> t[d0][y0]], S)
<1> DEFINE f == [d0 \in S |-> t[d0][y0]]
           D(sums) == [Q \in SUBSET S |-> IF Q = {} THEN 0 ELSE f[OneOf(Q)] + sums[Q \ {OneOf(Q)}]]
           DC(sums) == [Q \in SUBSET S |-> IF Q = {} THEN 0 ELSE t[OneOf(Q)][y0] + sums[Q \ {OneOf(Q)}]]
<1>1. SumAt(f, S) = (CHOOSE sums : sums = D(sums))[S]
  BY DEF SumAt, MapThenSumSet, MapThenFoldSet, OneOf
<1>2. ColumnAt(t, y0, S) = (CHOOSE sums : sums = DC(sums))[S]
  BY DEF ColumnAt, MapThenSumSet, MapThenFoldSet, OneOf
<1>3. \A Q \in SUBSET S : Q # {} => OneOf(Q) \in S
  BY DEF OneOf
<1>4. \A sums : D(sums) = DC(sums)
  BY <1>3
<1> HIDE DEF D, DC
<1>5. (CHOOSE sums : sums = D(sums)) = (CHOOSE sums : sums = DC(sums))
  BY <1>4
<1> QED
  BY <1>1, <1>2, <1>5

(* Among entries with days one is first.                                     *)
LEMMA FirstOfDays ==
  ASSUME NEW Q, Q # {}, \A e \in Q : e.day \in Nat
  PROVE  (CHOOSE e \in Q : \A k \in Q : e.day <= k.day) \in Q
<1>1. {e.day : e \in Q} \in SUBSET Nat /\ {e.day : e \in Q} # {}
  OBVIOUS
<1>2. PICK d \in {e.day : e \in Q} : \A k \in {e.day : e \in Q} : d <= k
  BY <1>1, LeastOf
<1>3. \E e \in Q : \A k \in Q : e.day <= k.day
  BY <1>2
<1> QED
  BY <1>3

(* The entries of one thing, and what `fold` makes of them.                  *)
SameOf(E, k) == {e \in E : EntryKey(e) = k}
FoldedAt(E, k) ==
  LET there == {e \in SameOf(E, k) : e.item_id # Null}
  IN  [CHOOSE e \in SameOf(E, k) : \A f \in SameOf(E, k) : e.day <= f.day EXCEPT !.has_file = \E e \in SameOf(E, k) : e.has_file,
                                        !.service = Null,
                                        !.item_id = IF there = {} THEN Null ELSE (CHOOSE e \in there : TRUE).item_id]

(* `fold` makes one entry for each thing, on disk if any of its entries is,  *)
(* of the kind and release of one of them.                                   *)
LEMMA FoldIs ==
  ASSUME NEW E, \A e \in E : IsEntry(e) /\ e.day \in Nat
  PROVE  /\ \A y \in fold(E) : \E k \in {EntryKey(e) : e \in E} : y = FoldedAt(E, k)
         /\ \A k \in {EntryKey(e) : e \in E} :
              LET y == FoldedAt(E, k)
              IN  /\ EntryKey(y) = k
                  /\ y.has_file <=> \E e \in E : EntryKey(e) = k /\ e.has_file
                  /\ \E e \in E : EntryKey(e) = k /\ e.kind = y.kind /\ e.release = y.release
<1>1. \A y \in fold(E) : \E k \in {EntryKey(e) : e \in E} : y = FoldedAt(E, k)
  BY DEF fold, FoldedAt, SameOf
<1>2. ASSUME NEW k \in {EntryKey(e) : e \in E}
      PROVE  LET y == FoldedAt(E, k)
             IN  /\ EntryKey(y) = k
                 /\ y.has_file <=> \E e \in E : EntryKey(e) = k /\ e.has_file
                 /\ \E e \in E : EntryKey(e) = k /\ e.kind = y.kind /\ e.release = y.release
  <2> DEFINE first == CHOOSE e \in SameOf(E, k) : \A f \in SameOf(E, k) : e.day <= f.day
             there == {e \in SameOf(E, k) : e.item_id # Null}
             item == IF there = {} THEN Null ELSE (CHOOSE e \in there : TRUE).item_id
             disk == \E e \in SameOf(E, k) : e.has_file
             y == FoldedAt(E, k)
  <2>1. SameOf(E, k) # {} /\ \A e \in SameOf(E, k) : e.day \in Nat
    BY DEF SameOf
  <2>2. first \in SameOf(E, k)
    BY <2>1, FirstOfDays
  <2>3. y = [first EXCEPT !.has_file = disk, !.service = Null, !.item_id = item]
    BY DEF FoldedAt
  <2>4. DOMAIN first = EntryFields /\ first \in E /\ EntryKey(first) = k
    BY <2>2 DEF SameOf, IsEntry
  <2>5. disk <=> \E e \in E : EntryKey(e) = k /\ e.has_file
    BY DEF SameOf
  <2>6. disk \in BOOLEAN
    OBVIOUS
  <2> HIDE DEF first, item, disk, y
  <2>7. /\ y.numbers = first.numbers /\ y.kind = first.kind /\ y.episode = first.episode /\ y.release = first.release
        /\ y.has_file = disk
    BY <2>3, <2>4 DEF EntryFields
  <2>8. EntryKey(y) = EntryKey(first)
    BY <2>7 DEF EntryKey
  <2>9. y.has_file <=> \E e \in E : EntryKey(e) = k /\ e.has_file
    BY <2>5, <2>6, <2>7
  <2> QED
    BY <2>4, <2>7, <2>8, <2>9 DEF y
<1> QED
  BY <1>1, <1>2

(* A thing is on the calendar once, a film that is on disc anywhere on no    *)
(* disc date, and the history's days add up.                                 *)
LEMMA CalendarTellsAll ==
  ASSUME RowsInv, RequestsInv, HistoryInv, ComingInv
  PROVE  CalendarAgrees
<1> DEFINE E == {e \in calendar : e.service \in enabled /\ today <= e.day /\ e.day < today + (Ahead + 1)}
<1>1. today \in Nat /\ Ahead \in Nat
  BY IncomingAssumption DEF RowsInv, PagesTypeOK
<1>2. entries(Ahead + 1, Null) = {e \in fold(E) : still_to_come(e)}
  BY DEF entries
<1>3. \A e \in E : IsEntry(e) /\ e.day \in Nat
  BY DEF RequestsInv, ComingInv, Announced
<1>4. \A f \in calendar : f.service \in enabled /\ today <= f.day => f \in E
  BY <1>1 DEF ComingInv, Announced
<1>5. \A e \in E : e.release = "physical" => e.kind = "movie"
  BY DEF ComingInv, Announced
<1> HIDE DEF E
<1>6. ASSUME NEW e \in entries(Ahead + 1, Null), NEW f \in entries(Ahead + 1, Null), EntryKey(e) = EntryKey(f)
      PROVE  e = f
  BY <1>2, <1>3, <1>6, FoldIs
<1>7. ASSUME NEW e \in entries(Ahead + 1, Null), NEW f \in calendar,
             EntryKey(e) = EntryKey(f), f.service \in enabled, today <= f.day, e.release = "physical"
      PROVE  ~f.has_file
  <2>1. PICK k \in {EntryKey(y0) : y0 \in E} : e = FoldedAt(E, k)
    BY <1>2, <1>3, FoldIs
  <2>2. /\ EntryKey(e) = k
        /\ e.has_file <=> \E y0 \in E : EntryKey(y0) = k /\ y0.has_file
        /\ \E y0 \in E : EntryKey(y0) = k /\ y0.kind = e.kind /\ y0.release = e.release
    BY <1>3, <2>1, FoldIs
  <2>3. e.kind = "movie"
    BY <1>5, <1>7, <2>2
  <2>4. ~e.has_file
    BY <1>2, <1>7, <2>3 DEF still_to_come
  <2> QED
    BY <1>4, <1>7, <2>2, <2>4
<1>8. ASSUME NEW days \in 1..2
      PROVE  LET page == download_history(days)
             IN  \A y0 \in DOMAIN page.totals : page.totals[y0] = MapThenSumSet(LAMBDA d : page.daily[d][y0], DOMAIN page.daily)
  <2> DEFINE since == Midnight(today - (days - 1))
             G == {g \in grabs : g.at >= since}
             Kinds0 == {"imported", "grabbed", "failed"}
             Of(S) == [e \in Kinds0 |-> Cardinality({g \in S : g.event = e})]
             page == download_history(days)
             I == Day(since)..today
             daily == [d \in I |-> Of({g \in G : Day(g.at) = d})]
  <2>1. page.totals = Of(G) /\ page.daily = daily
    BY DEF download_history
  <2>2. /\ since \in Int /\ Day(since) \in Int /\ IsFiniteSet(I)
        /\ \A g \in G : g.at \in Nat /\ Day(g.at) \in I
    <3>1. today - (days - 1) \in Int /\ today + 1 \in Int
      BY <1>1
    <3>2. since \in Int /\ Day(since) = today - (days - 1)
      BY <3>1, DaysInOrder
    <3>3. ASSUME NEW g \in G PROVE g.at \in Nat /\ Day(g.at) \in I
      <4>1. g.at \in Nat /\ g.at <= Now /\ g.at >= since
        BY IncomingAssumption DEF HistoryInv, ComingInv
      <4>2. Day(g.at) \in Int /\ today - (days - 1) <= Day(g.at)
        BY <3>1, <4>1, DaysInOrder
      <4>3. ~(today + 1 <= Day(g.at))
        <5>1. today + 1 <= Day(g.at) <=> Midnight(today + 1) <= g.at
          BY <3>1, <4>1, DaysInOrder
        <5>2. Midnight(today + 1) \in Int
          BY <3>1, DaysInOrder
        <5> QED
          BY <4>1, <5>1, <5>2 DEF Now
      <4> HIDE DEF since
      <4> QED
        BY <1>1, <3>2, <4>1, <4>2, <4>3
    <3> HIDE DEF since
    <3>4. IsFiniteSet(I)
      BY <1>1, <3>1, <3>2, FS_Interval
    <3> QED
      BY <3>1, <3>2, <3>3, <3>4
  <2>3. IsFiniteSet(G)
    BY FS_Subset DEF HistoryInv
  <2>4. ASSUME NEW y0 \in Kinds0
        PROVE  page.totals[y0] = ColumnAt(page.daily, y0, DOMAIN page.daily)
    <3> DEFINE S == {g \in G : g.event = y0}
               cls == [g \in S |-> Day(g.at)]
               f == [d \in I |-> daily[d][y0]]
    <3>1. IsFiniteSet(S)
      BY <2>3, FS_Subset
    <3>2. cls \in [S -> I]
      BY <2>2
    <3>3. \A d \in I : f[d] = Cardinality({g \in S : cls[g] = d})
      <4> SUFFICES ASSUME NEW d \in I PROVE f[d] = Cardinality({g \in S : cls[g] = d})
        OBVIOUS
      <4>1. {g \in S : cls[g] = d} = {g \in {k \in G : Day(k.at) = d} : g.event = y0}
        OBVIOUS
      <4> HIDE DEF G, I, S, cls
      <4> QED
        BY <4>1
    <3>4. page.totals[y0] = Cardinality(S)
      <4> HIDE DEF G, page
      <4> QED
        BY <2>1
    <3>5. DOMAIN daily = I
      OBVIOUS
    <3> HIDE DEF S, cls, G, I, daily, page
    <3>6. SumAt(f, I) = Cardinality(S)
      <4>1. \A d \in I : Cardinality({g \in S : cls[g] = d}) \in Int
        BY <3>1, FS_Subset, FS_CardinalityType
      <4>2. f \in [I -> Int]
        BY <3>3, <4>1
      <4> HIDE DEF f
      <4> QED
        BY <2>2, <3>1, <3>2, <3>3, <4>2, CountOfClasses
    <3>7. ColumnAt(daily, y0, I) = SumAt(f, I)
      BY <2>2, ColumnIs
    <3> QED
      BY <2>1, <3>4, <3>5, <3>6, <3>7
  <2>5. DOMAIN page.totals = Kinds0
    <3> HIDE DEF G, page
    <3> QED
      BY <2>1
  <2> HIDE DEF page
  <2>6. \A y0 \in DOMAIN page.totals : page.totals[y0] = ColumnAt(page.daily, y0, DOMAIN page.daily)
    BY <2>4, <2>5
  <2> QED
    BY <2>6 DEF ColumnAt, page
<1> QED
  BY <1>6, <1>7, <1>8 DEF CalendarAgrees

-----------------------------------------------------------------------------
(* Requests.                                                                 *)

(* Months do not run backwards.                                              *)
LEMMA MonthsInOrder ==
  ASSUME NEW d \in Int, NEW e \in Int, d <= e
  PROVE  Month(d) \in Int /\ Month(e) \in Int /\ Month(d) <= Month(e)
<1>1. MonthLength \in Nat \ {0}
  BY PagesAssumption
<1> DEFINE k == d \div MonthLength
           s == d % MonthLength
           n == e \div MonthLength
           p == e % MonthLength
<1>2. /\ k \in Int /\ s \in Int /\ 0 <= s /\ s < MonthLength /\ d = MonthLength * k + s
      /\ n \in Int /\ p \in Int /\ 0 <= p /\ p < MonthLength /\ e = MonthLength * n + p
  BY <1>1, Division
<1>3. Month(d) = k /\ Month(e) = n
  BY DEF Month
<1> HIDE DEF k, s, n, p
<1>4. (n < k => MonthLength * n + MonthLength <= MonthLength * k) /\ MonthLength * n \in Int /\ MonthLength * k \in Int
  BY <1>1, <1>2, Multiples
<1> QED
  BY <1>1, <1>2, <1>3, <1>4

(* The titles of the people, added up.                                       *)
TitlesAt(t, S) == MapThenSumSet(LAMBDA p : t[p].titles, S)

(* ... and so are the titles of the people.                                  *)
LEMMA TitlesIs ==
  ASSUME NEW t, NEW S, IsFiniteSet(S)
  PROVE  TitlesAt(t, S) = SumAt([p \in S |-> t[p].titles], S)
<1> DEFINE f == [p \in S |-> t[p].titles]
           D(sums) == [Q \in SUBSET S |-> IF Q = {} THEN 0 ELSE f[OneOf(Q)] + sums[Q \ {OneOf(Q)}]]
           DC(sums) == [Q \in SUBSET S |-> IF Q = {} THEN 0 ELSE t[OneOf(Q)].titles + sums[Q \ {OneOf(Q)}]]
<1>1. SumAt(f, S) = (CHOOSE sums : sums = D(sums))[S]
  BY DEF SumAt, MapThenSumSet, MapThenFoldSet, OneOf
<1>2. TitlesAt(t, S) = (CHOOSE sums : sums = DC(sums))[S]
  BY DEF TitlesAt, MapThenSumSet, MapThenFoldSet, OneOf
<1>3. \A Q \in SUBSET S : Q # {} => OneOf(Q) \in S
  BY DEF OneOf
<1>4. \A sums : D(sums) = DC(sums)
  BY <1>3
<1> HIDE DEF D, DC
<1>5. (CHOOSE sums : sums = D(sums)) = (CHOOSE sums : sums = DC(sums))
  BY <1>4
<1> QED
  BY <1>1, <1>2, <1>5

(* The parts of the figures of all time, over the requests R.                *)
WishesOf(R) == {WishOf(r) : r \in R}
OpenIn(R) == {w \in WishesOf(R) : (\E r \in R : WishOf(r) = w /\ State(r) \in Open) /\ ~ArrivedIn(R, w)}
ArrivedOf(R) == {w \in WishesOf(R) : ArrivedIn(R, w)}
WatchedOf(T, R) == {w \in WishesOf(R) : ArrivedIn(R, w) /\ \E r \in R : WishOf(r) = w /\ Mine(T, r) # {}}
PlayedOf(T, R) == {w \in WishesOf(R) : ArrivedIn(R, w) /\ \E r \in R : WishOf(r) = w /\ PlaysOf(T, r) # {}}
PeopleOf(R) ==
  [p \in {w[1] : w \in WishesOf(R)} |->
     [titles |-> Cardinality({w \in WishesOf(R) : w[1] = p}),
      arrived |-> Cardinality({w \in WishesOf(R) : w[1] = p /\ ArrivedIn(R, w)})]]

(* What the figures above the list are, when they are asked for of all time. *)
LEMMA SummaryTold ==
  ASSUME NEW T, NEW v, NEW who
  PROVE  LET R == SeenBy(v, who)
             all == summary_of(T, v, who, 0)
         IN  /\ all.requests = Cardinality(R) /\ all.titles = Cardinality(WishesOf(R))
             /\ all.open = Cardinality(OpenIn(R)) /\ all.arrived = Cardinality(ArrivedOf(R))
             /\ all.watched = Cardinality(WatchedOf(T, R))
             /\ v.see_everyone => all.by_anyone = Cardinality(PlayedOf(T, R))
             /\ DOMAIN all.trend = {Month(Day(r.requested_at)) : r \in {z \in R : z.available_at # Null}}
             /\ all.people = IF v.see_everyone /\ pinned_user(v, who) = Null THEN PeopleOf(R) ELSE <<>>
<1> DEFINE R == {r \in SeenBy(v, who) : 0 > 0 => r.requested_at >= Now - 0 * DayLength}
           all == summary_of(T, v, who, 0)
<1>1. all =
        [requests |-> Cardinality(R), titles |-> Cardinality(WishesOf(R)),
         open |-> Cardinality(OpenIn(R)), arrived |-> Cardinality(ArrivedOf(R)), watched |-> Cardinality(WatchedOf(T, R)),
         by_anyone |-> IF v.see_everyone THEN Cardinality(PlayedOf(T, R)) ELSE Null,
         trend |-> [k \in {Month(Day(r.requested_at)) : r \in {z \in R : z.available_at # Null}} |->
                      Cardinality({r \in {z \in R : z.available_at # Null} : Month(Day(r.requested_at)) = k})],
         never |-> NeverIn(T, v, R),
         people |-> IF v.see_everyone /\ pinned_user(v, who) = Null THEN PeopleOf(R) ELSE <<>>]
  BY DEF summary_of, WishesOf, OpenIn, ArrivedOf, WatchedOf, PlayedOf, PeopleOf, NeverIn, SettledIn, ArrivedIn
<1>2. R = SeenBy(v, who)
  OBVIOUS
<1> HIDE DEF R
<1>3. /\ all.requests = Cardinality(R) /\ all.titles = Cardinality(WishesOf(R))
      /\ all.open = Cardinality(OpenIn(R)) /\ all.arrived = Cardinality(ArrivedOf(R))
      /\ all.watched = Cardinality(WatchedOf(T, R))
      /\ v.see_everyone => all.by_anyone = Cardinality(PlayedOf(T, R))
      /\ DOMAIN all.trend = {Month(Day(r.requested_at)) : r \in {z \in R : z.available_at # Null}}
      /\ all.people = IF v.see_everyone /\ pinned_user(v, who) = Null THEN PeopleOf(R) ELSE <<>>
  <2> HIDE DEF all
  <2> QED
    BY <1>1
<1> HIDE DEF all
<1> QED
  BY <1>2, <1>3 DEF all

(* A request is open, arrived or turned down, and only one of them.          *)
LEMMA StatesPart ==
  ASSUME NEW r
  PROVE  /\ State(r) \in {"removed", "declined", "failed", "available", "partial", "pending", "processing", "approved"}
         /\ \E s \in {"open", "arrived", "declined"} : State(r) \in StatesOf(s)
         /\ \A s, z \in {"open", "arrived", "declined"} : State(r) \in StatesOf(s) /\ State(r) \in StatesOf(z) => s = z
<1>1. State(r) \in {"removed", "declined", "failed", "available", "partial", "pending", "processing", "approved"}
  BY DEF State
<1>2. StatesOf("open") = Open /\ StatesOf("arrived") = {"available"} /\ StatesOf("declined") = {"declined", "failed", "removed"}
  BY DEF StatesOf
<1> QED
  BY <1>1, <1>2 DEF Open

(* The requests of a status, and the rows of a page of them.                 *)
RequestsWith(v, who, status) == {r \in SeenBy(v, who) : status # Null => State(r) \in StatesOf(status)}
PageRows(T, v, R, sort, page) ==
  {<<RequestPlace(T, R, sort, r), request_json(T, r, v.see_everyone)>> : r \in RequestsOn(T, R, sort, page)}

(* What a page of the list is.                                               *)
LEMMA RequestPageIs ==
  ASSUME NEW T, NEW v, NEW who, NEW status, NEW sort, NEW page
  PROVE  /\ requests_page(T, v, who, status, sort, page).total = Cardinality(RequestsWith(v, who, status))
         /\ requests_page(T, v, who, status, sort, page).rows = PageRows(T, v, RequestsWith(v, who, status), sort, page)
<1> DEFINE R == RequestsWith(v, who, status)
<1>1. requests_page(T, v, who, status, sort, page) = [total |-> Cardinality(R), rows |-> PageRows(T, v, R, sort, page)]
  BY DEF requests_page, RequestsWith, PageRows, RequestsOn, RequestPlace, Leads, LaterAsked, FirstPlay
<1> HIDE DEF R
<1> QED
  BY <1>1 DEF R

(* The three totals of the list add up to that of all of it.                 *)
LEMMA TotalsTell ==
  ASSUME NEW T, NEW v, NEW who, IsFiniteSet(SeenBy(v, who))
  PROVE  LET Total(status) == requests_page(T, v, who, status, "when", 1).total
         IN  /\ Total(Null) = Cardinality(SeenBy(v, who))
             /\ Total(Null) = Total("open") + Total("arrived") + Total("declined")
<1> DEFINE Total(status) == requests_page(T, v, who, status, "when", 1).total
           R == SeenBy(v, who)
           InState(s) == {r \in R : State(r) \in StatesOf(s)}
<1>1. Total(Null) = Cardinality(R)
  <2>1. RequestsWith(v, who, Null) = R
    BY DEF RequestsWith
  <2> QED
    BY <2>1, RequestPageIs
<1>2. \A s \in {"open", "arrived", "declined"} : Total(s) = Cardinality(InState(s))
  <2> SUFFICES ASSUME NEW s \in {"open", "arrived", "declined"} PROVE Total(s) = Cardinality(InState(s))
    OBVIOUS
  <2>1. RequestsWith(v, who, s) = InState(s)
    BY IncomingAssumption DEF RequestsWith
  <2>2. Total(s) = Cardinality(RequestsWith(v, who, s))
    BY RequestPageIs
  <2> QED
    BY <2>1, <2>2
<1>3. /\ R = (InState("open") \cup InState("arrived")) \cup InState("declined")
      /\ InState("open") \cap InState("arrived") = {} /\ (InState("open") \cup InState("arrived")) \cap InState("declined") = {}
      /\ InState("open") \in SUBSET R /\ InState("arrived") \in SUBSET R /\ InState("declined") \in SUBSET R
  BY StatesPart
<1>4. IsFiniteSet(R)
  OBVIOUS
<1> HIDE DEF InState, Total, R
<1>5. Cardinality(R) = Cardinality(InState("open") \cup InState("arrived")) + Cardinality(InState("declined"))
  BY <1>3, <1>4, TwoSidesCount
<1>6. Cardinality(InState("open") \cup InState("arrived")) = Cardinality(InState("open")) + Cardinality(InState("arrived"))
  BY <1>3, <1>4, TwoSidesCount
<1>7. Total(Null) = Total("open") + Total("arrived") + Total("declined")
  BY <1>1, <1>2, <1>5, <1>6
<1> QED
  BY <1>1, <1>7 DEF Total, R

(* A wish is one person's, so the people's titles add up to the titles.      *)
LEMMA PeopleAddUp ==
  ASSUME NEW R, IsFiniteSet(R)
  PROVE  TitlesAt(PeopleOf(R), DOMAIN PeopleOf(R)) = Cardinality(WishesOf(R))
<1> DEFINE W == WishesOf(R)
           P == {w[1] : w \in W}
           cls == [w \in W |-> w[1]]
           t == PeopleOf(R)
           f == [p \in P |-> t[p].titles]
<1>1. IsFiniteSet(W) /\ IsFiniteSet(P)
  <2> DEFINE h == [r \in R |-> WishOf(r)]
  <2>1. W = {h[r] : r \in R}
    BY DEF WishesOf
  <2> HIDE DEF h
  <2>2. IsFiniteSet(W)
    BY <2>1, ImageIsFinite
  <2>3. P = {cls[w] : w \in W}
    OBVIOUS
  <2> HIDE DEF cls, W
  <2>4. IsFiniteSet({cls[w] : w \in W})
    BY <2>2, ImageIsFinite
  <2> QED
    BY <2>2, <2>3, <2>4
<1>2. cls \in [W -> P]
  OBVIOUS
<1>3. DOMAIN t = P /\ \A p \in P : t[p].titles = Cardinality({w \in W : cls[w] = p})
  <2>1. DOMAIN t = P
    BY DEF PeopleOf
  <2>2. ASSUME NEW p \in P PROVE t[p].titles = Cardinality({w \in W : cls[w] = p})
    <3>1. {w \in W : cls[w] = p} = {w \in W : w[1] = p}
      OBVIOUS
    <3>2. t[p].titles = Cardinality({w \in WishesOf(R) : w[1] = p})
      BY DEF PeopleOf
    <3> HIDE DEF t, P, cls
    <3> QED
      BY <3>1, <3>2
  <2> QED
    BY <2>1, <2>2
<1> HIDE DEF W, P, cls, t
<1>4. f \in [P -> Int] /\ \A p \in P : f[p] = Cardinality({w \in W : cls[w] = p})
  <2>1. \A p \in P : Cardinality({w \in W : cls[w] = p}) \in Int
    BY <1>1, FS_Subset, FS_CardinalityType
  <2> QED
    BY <1>3, <2>1
<1>5. TitlesAt(t, P) = SumAt(f, P)
  BY <1>1, TitlesIs
<1> HIDE DEF f
<1>6. SumAt(f, P) = Cardinality(W)
  BY <1>1, <1>2, <1>4, CountOfClasses
<1> QED
  BY <1>3, <1>5, <1>6 DEF t, W

(* Turning the pages shows every request, and no other.                      *)
LEMMA RequestsOnceEach ==
  ASSUME NEW T, NEW v, NEW who, NEW sort, IsFiniteSet(requests)
  PROVE  {x0[2].request : x0 \in UNION {requests_page(T, v, who, Null, sort, n).rows : n \in 1..Cardinality(requests)}} = SeenBy(v, who)
<1> DEFINE R == SeenBy(v, who)
           N == Cardinality(requests)
           RowOf(r) == <<RequestPlace(T, R, sort, r), request_json(T, r, v.see_everyone)>>
           found == UNION {requests_page(T, v, who, Null, sort, n).rows : n \in 1..N}
<1>1. \A n : requests_page(T, v, who, Null, sort, n).rows = {RowOf(r) : r \in RequestsOn(T, R, sort, n)}
  <2>1. RequestsWith(v, who, Null) = R
    BY DEF RequestsWith
  <2>2. \A n : requests_page(T, v, who, Null, sort, n).rows = PageRows(T, v, R, sort, n)
    BY <2>1, RequestPageIs
  <2> QED
    BY <2>2 DEF PageRows
<1>2. \A r : RowOf(r)[2].request = r
  BY DEF request_json
<1>3. R \in SUBSET requests /\ N \in Nat
  BY FS_CardinalityType DEF SeenBy
<1>4. ASSUME NEW r \in R PROVE \E n \in 1..N : r \in RequestsOn(T, R, sort, n)
  <2> DEFINE before == {k \in R : k # r /\ Leads(T, sort, k, r)}
             k == RequestPlace(T, R, sort, r)
  <2>1. before \in SUBSET requests /\ {r} \in SUBSET requests /\ before \cap {r} = {} /\ IsFiniteSet({r}) /\ Cardinality({r}) = 1
    BY <1>3, FS_Singleton
  <2>2. k = Cardinality(before)
    BY DEF RequestPlace
  <2> HIDE DEF before, k
  <2>3. /\ Cardinality(before) \in Nat /\ Cardinality(before \cup {r}) = Cardinality(before) + Cardinality({r})
        /\ Cardinality(before \cup {r}) <= Cardinality(requests)
    BY <2>1, TwoSidesCount
  <2>5. k \in Nat /\ k < N
    BY <1>3, <2>1, <2>2, <2>3
  <2>4. PICK n \in 1..N : (n - 1) * PerPage <= k /\ k < n * PerPage
    BY <1>3, <2>5, PlaceIsOnPage
  <2> QED
    BY <2>4 DEF k, RequestsOn
<1> HIDE DEF RowOf, R, N
<1>5. \A r, n : r \in RequestsOn(T, R, sort, n) => r \in R
  BY DEF RequestsOn
<1>6. \A y0 \in found : y0[2].request \in R
  BY <1>1, <1>2, <1>5
<1>7. \A r \in R : RowOf(r) \in found
  BY <1>1, <1>4
<1> HIDE DEF found
<1>8. {x0[2].request : x0 \in found} = R
  BY <1>2, <1>6, <1>7
<1> QED
  BY <1>8 DEF found, R, N

(* A title's page tells of a request that the list has.                      *)
LEMMA FirstAskedIsListed ==
  ASSUME NEW T, NEW v, NEW i, \A r \in requests : r.requested_at \in Nat
  PROVE  \A y0 \in request_for_item(T, v, i) : y0.request \in SeenBy(v, Null)
<1> DEFINE R == {r \in SeenBy(v, Null) : i \in CopiesOf(r)}
           first == CHOOSE r \in R : \A k \in R : r.requested_at <= k.requested_at
<1>1. request_for_item(T, v, i) = IF R = {} THEN {} ELSE {request_json(T, first, v.see_everyone)}
  BY DEF request_for_item
<1>2. \A r : request_json(T, r, v.see_everyone).request = r
  BY DEF request_json
<1>3. CASE R # {}
  <2> DEFINE asked == {r.requested_at : r \in R}
  <2>1. asked # {} /\ asked \in SUBSET Nat
    BY <1>3 DEF SeenBy
  <2> HIDE DEF asked
  <2>2. PICK n \in asked : \A k \in asked : n <= k
    BY <2>1, LeastOf
  <2>3. PICK r \in R : \A k \in R : r.requested_at <= k.requested_at
    BY <2>2 DEF asked
  <2>4. first \in R
    BY <2>3
  <2>5. R \in SUBSET SeenBy(v, Null)
    OBVIOUS
  <2> HIDE DEF R, first
  <2> QED
    BY <1>1, <1>2, <1>3, <2>4, <2>5
<1>4. CASE R = {}
  BY <1>1, <1>4
<1> QED
  BY <1>3, <1>4

(* The figures, the list, the people and the title's page tell of the same   *)
(* requests.                                                                 *)
LEMMA RequestsTellAll ==
  ASSUME RowsInv, RequestsInv, ComingInv
  PROVE  RequestsAgree
<1> SUFFICES ASSUME NEW v \in Asking, NEW asked_for \in Accounts \cup {Null}
             PROVE  LET all == summary_of(rows, v, asked_for, 0)
                        Total(status) == requests_page(rows, v, asked_for, status, "when", 1).total
                        Pages(sort) == UNION {requests_page(rows, v, asked_for, Null, sort, n).rows : n \in 1..Cardinality(requests)}
                    IN  /\ all.requests = Total(Null)
                        /\ Total(Null) = Total("open") + Total("arrived") + Total("declined")
                        /\ all.open + all.arrived <= all.titles /\ all.watched <= all.arrived
                        /\ v.see_everyone => all.watched <= all.by_anyone
                        /\ MapThenSumSet(LAMBDA p : all.people[p].titles, DOMAIN all.people) \in {0, all.titles}
                        /\ \A k \in DOMAIN all.trend : k <= Month(today)
                        /\ \A sort \in {"when", "watched"} : {x0[2].request : x0 \in Pages(sort)} = SeenBy(v, asked_for)
                        /\ \A i \in DOMAIN NumbersOf : \A x0 \in request_for_item(rows, v, i) : x0.request \in SeenBy(v, Null)
                        /\ \A r \in SeenBy(v, asked_for) :
                             /\ r.available_at # Null => r.requested_at <= r.available_at
                             /\ r.media_id # Null => poster_is_listed(v, r.media_id[1], r.media_id[2])
  BY DEF RequestsAgree
<1> DEFINE R == SeenBy(v, asked_for)
           all == summary_of(rows, v, asked_for, 0)
           Total(status) == requests_page(rows, v, asked_for, status, "when", 1).total
           Pages(sort) == UNION {requests_page(rows, v, asked_for, Null, sort, n).rows : n \in 1..Cardinality(requests)}
<1>1. R \in SUBSET requests /\ IsFiniteSet(requests) /\ IsFiniteSet(R)
  BY FS_Subset DEF RequestsInv, SeenBy
<1>2. Total(Null) = Cardinality(R) /\ Total(Null) = Total("open") + Total("arrived") + Total("declined")
  BY <1>1, TotalsTell
<1>3. /\ all.requests = Cardinality(R) /\ all.titles = Cardinality(WishesOf(R))
      /\ all.open = Cardinality(OpenIn(R)) /\ all.arrived = Cardinality(ArrivedOf(R))
      /\ all.watched = Cardinality(WatchedOf(rows, R))
      /\ v.see_everyone => all.by_anyone = Cardinality(PlayedOf(rows, R))
      /\ DOMAIN all.trend = {Month(Day(r.requested_at)) : r \in {z \in R : z.available_at # Null}}
      /\ all.people = IF v.see_everyone /\ pinned_user(v, asked_for) = Null THEN PeopleOf(R) ELSE <<>>
  BY SummaryTold
<1>4. \A sort : {x0[2].request : x0 \in Pages(sort)} = R
  BY <1>1, RequestsOnceEach
<1>5. \A i : \A x0 \in request_for_item(rows, v, i) : x0.request \in SeenBy(v, Null)
  BY FirstAskedIsListed DEF RequestsInv, IsRequest
<1>6. ASSUME NEW r \in R
      PROVE  /\ r.available_at # Null => r.requested_at <= r.available_at
             /\ r.media_id # Null => poster_is_listed(v, r.media_id[1], r.media_id[2])
  <2>1. r \in requests /\ (r.available_at # Null => r.available_at >= r.requested_at)
        /\ (r.media_id # Null => r.media_id = <<r.media_id[1], r.media_id[2]>>)
    BY <1>1 DEF RequestsInv, IsLinked, ComingInv, AskedBefore
  <2>2. MaySee(v, r.user_id)
    BY PagesAssumption DEF SeenBy, pinned_user, MaySee, Asking
  <2> HIDE DEF R
  <2>3. r.available_at # Null => r.requested_at <= r.available_at
    BY <2>1
  <2>4. r.media_id # Null => poster_is_listed(v, r.media_id[1], r.media_id[2])
    BY <2>1, <2>2 DEF poster_is_listed
  <2> QED
    BY <2>3, <2>4
<1> HIDE DEF R, all
<1>7. IsFiniteSet(WishesOf(R))
  <2> DEFINE h == [r \in R |-> WishOf(r)]
  <2>1. WishesOf(R) = {h[r] : r \in R}
    BY DEF WishesOf
  <2> HIDE DEF h
  <2> QED
    BY <1>1, <2>1, ImageIsFinite
<1>8. all.open + all.arrived <= all.titles
  <2>1. OpenIn(R) \in SUBSET WishesOf(R) /\ ArrivedOf(R) \in SUBSET WishesOf(R) /\ OpenIn(R) \cap ArrivedOf(R) = {}
    BY DEF OpenIn, ArrivedOf
  <2>2. /\ Cardinality(OpenIn(R)) \in Nat /\ Cardinality(ArrivedOf(R)) \in Nat /\ Cardinality(WishesOf(R)) \in Nat
        /\ Cardinality(OpenIn(R) \cup ArrivedOf(R)) = Cardinality(OpenIn(R)) + Cardinality(ArrivedOf(R))
        /\ Cardinality(OpenIn(R) \cup ArrivedOf(R)) <= Cardinality(WishesOf(R))
    BY <1>7, <2>1, TwoSidesCount
  <2> QED
    BY <1>3, <2>2
<1>9. all.watched <= all.arrived /\ (v.see_everyone => all.watched <= all.by_anyone)
  <2>1. ArrivedOf(R) \in SUBSET WishesOf(R) /\ PlayedOf(rows, R) \in SUBSET WishesOf(R)
    BY DEF ArrivedOf, PlayedOf
  <2>2. WatchedOf(rows, R) \in SUBSET ArrivedOf(R) /\ WatchedOf(rows, R) \in SUBSET PlayedOf(rows, R)
    BY DEF WatchedOf, ArrivedOf, PlayedOf, Mine
  <2>3. /\ Cardinality(WatchedOf(rows, R)) <= Cardinality(ArrivedOf(R))
        /\ Cardinality(WatchedOf(rows, R)) <= Cardinality(PlayedOf(rows, R))
    BY <1>7, <2>1, <2>2, FS_Subset
  <2> QED
    BY <1>3, <2>3
<1>10. TitlesAt(all.people, DOMAIN all.people) \in {0, all.titles}
  <2>1. CASE v.see_everyone /\ pinned_user(v, asked_for) = Null
    BY <1>1, <1>3, <2>1, PeopleAddUp
  <2>2. CASE ~(v.see_everyone /\ pinned_user(v, asked_for) = Null)
    <3>1. all.people = <<>> /\ DOMAIN all.people = {}
      BY <1>3, <2>2
    <3>2. TitlesAt(all.people, {}) = SumAt([p \in {} |-> all.people[p].titles], {})
      BY FS_EmptySet, TitlesIs
    <3> DEFINE f == [p \in {} |-> all.people[p].titles]
    <3>3. f \in [{} -> Int]
      OBVIOUS
    <3> HIDE DEF f
    <3>4. IsSum(f, {}, SumAt(f, {}))
      BY <3>3, FS_EmptySet, TotalIs
    <3>5. SumAt(f, {}) = 0
      BY <3>4 DEF IsSum, AreSums, SumStep
    <3> QED
      BY <3>1, <3>2, <3>5 DEF f
  <2> QED
    BY <2>1, <2>2
<1>11. ASSUME NEW k \in DOMAIN all.trend PROVE k <= Month(today)
  <2>1. PICK r \in R : k = Month(Day(r.requested_at))
    BY <1>3
  <2>2. r.requested_at \in Nat /\ r.requested_at <= Now /\ today \in Nat
    BY <1>1, <2>1 DEF RequestsInv, IsRequest, ComingInv, AskedBefore, RowsInv, PagesTypeOK
  <2>3. Day(r.requested_at) \in Int /\ Day(r.requested_at) <= today
    <3>1. today + 1 \in Int /\ r.requested_at \in Int
      BY <2>2
    <3>2. Midnight(today + 1) \in Int /\ Day(r.requested_at) \in Int
          /\ (today + 1 <= Day(r.requested_at) <=> Midnight(today + 1) <= r.requested_at)
      BY <3>1, DaysInOrder
    <3>3. r.requested_at < Midnight(today + 1)
      BY <2>2, <3>1, <3>2 DEF Now
    <3> QED
      BY <2>2, <3>1, <3>2, <3>3
  <2> QED
    BY <2>1, <2>2, <2>3, MonthsInOrder
<1>12. all.requests = Total(Null) /\ Total(Null) = Total("open") + Total("arrived") + Total("declined")
  BY <1>2, <1>3
<1>13. /\ \A sort \in {"when", "watched"} : {x0[2].request : x0 \in Pages(sort)} = R
       /\ \A i \in DOMAIN NumbersOf : \A x0 \in request_for_item(rows, v, i) : x0.request \in SeenBy(v, Null)
       /\ \A r \in R : /\ r.available_at # Null => r.requested_at <= r.available_at
                       /\ r.media_id # Null => poster_is_listed(v, r.media_id[1], r.media_id[2])
  BY <1>4, <1>5, <1>6
<1> HIDE DEF Total, Pages
<1> QED
  BY <1>8, <1>9, <1>10, <1>11, <1>12, <1>13 DEF R, all, Total, Pages, TitlesAt

-----------------------------------------------------------------------------
(* The specification, of the lists.                                          *)

(* What all the lists rest on: the invariants of the parts, and that nothing *)
(* comes from the future.                                                    *)
ToldInv == PartsInv /\ TableInv /\ ComingInv /\ FewAlerts

(* It holds at first,                                                        *)
LEMMA ToldInitially == ReportsInit => ToldInv
<1> SUFFICES ASSUME ReportsInit PROVE ToldInv
  OBVIOUS
<1>1. TableInv
  BY TableInitially DEF ReportsInit, StoriesInit
<1>2. ComingInv /\ FewAlerts
  BY FS_EmptySet DEF ReportsInit, IncomingInit, AlertsInit, ComingInv, FewAlerts
<1> QED
  BY <1>1, <1>2, PartsInitially DEF ToldInv

(* and no step of any part breaks it.                                        *)
LEMMA ToldStep == ToldInv /\ [ReportsNext]_reportsVars => ToldInv'
<1> SUFFICES ASSUME ToldInv, [ReportsNext]_reportsVars PROVE ToldInv'
  OBVIOUS
<1>1. PartsInv' /\ TableInv'
  BY PartsStep, TableKept DEF ToldInv
<1>2. RowsInv /\ RequestsInv /\ HistoryInv /\ ComingInv /\ FewAlerts
  BY DEF ToldInv, PartsInv, RowsKnown
<1>3. ASSUME UNCHANGED incomingVars, today' \in {today, today + 1} PROVE ComingInv'
  <2>1. UNCHANGED <<requests, calendar, happened>>
    BY <1>3 DEF incomingVars, history
  <2> QED
    BY <1>2, <1>3, <2>1, TimeGoesOn
<1>4. CASE UNCHANGED <<storiesVars, incomingVars, alertsVars>>
  <2>1. today' = today
    BY <1>4 DEF storiesVars, pagesVars
  <2> QED
    BY <1>1, <1>2, <1>3, <1>4, <2>1, AlertsStayFew DEF ToldInv
<1>5. CASE StoriesNext /\ UNCHANGED <<incomingVars, alertsVars>>
  <2>1. today' \in {today, today + 1}
    BY <1>5 DEF StoriesNext, PagesNext, Recorded, Ended, activity_delete, DayPasses, OpenTrail, TurnTrail, mark_seen, pagesVars
  <2> QED
    BY <1>1, <1>2, <1>3, <1>5, <2>1, AlertsStayFew DEF ToldInv
<1>6. CASE IncomingNext /\ UNCHANGED alertsVars
  BY <1>1, <1>2, <1>6, ComingStep, AlertsStayFew DEF ToldInv
<1>7. CASE AlertsNext /\ UNCHANGED incomingVars
  <2>1. today' \in {today, today + 1}
    BY <1>7, AlertsMoveRows DEF Recorded, DayPasses
  <2> QED
    BY <1>1, <1>2, <1>3, <1>7, <2>1, AlertsStayFew DEF ToldInv
<1> QED
  BY <1>4, <1>5, <1>6, <1>7 DEF ReportsNext, reportsVars

(* At any time: the map and its countries tell of the same plays and people, *)
(* the badge of the alerts the list has; a thing is on the calendar once, a  *)
(* film that is on disc anywhere on no disc date, and the download history's *)
(* days add up to its totals; and the figures of the requests are those of   *)
(* the list under them, which shows each request once.                       *)
THEOREM ListsTellTheSame ==
  ReportsSpec => [](PlacesAgree /\ CalendarAgrees /\ RequestsAgree)
<1>1. ToldInv => PlacesAgree /\ CalendarAgrees /\ RequestsAgree
  BY PlacesTellAll, CalendarTellsAll, RequestsTellAll DEF ToldInv, PartsInv, RowsKnown, AlertsOK
<1> QED
  BY ToldInitially, ToldStep, <1>1, PTL DEF ReportsSpec

-----------------------------------------------------------------------------
(* The shelf of new arrivals.                                                *)

(* When an item arrived.                                                     *)
When(i) == Catalog[i].created

(* The items of the shelf are read newest first, each once.                  *)
LEMMA ArrivedInOrder ==
  ASSUME NEW S \in SUBSET Arrivals
  PROVE  LET w == InOrder(S, NewerItem)
             N == Cardinality(S)
         IN  /\ IsFiniteSet(S) /\ N \in Nat /\ w \in [1 .. N -> S] /\ w \in Seq(S) /\ Len(w) = N
             /\ \A i \in S : \E k \in 1 .. N : w[k] = i
             /\ \A i, j \in 1 .. N : i < j => w[i] # w[j] /\ When(w[j]) <= When(w[i])
             /\ \A i \in S : When(i) \in Nat
<1> DEFINE N == Cardinality(S)
           before == [j \in S |-> {i \in S : NewerItem(i, j)}]
           w == InOrder(S, NewerItem)
<1>1. S \subseteq DOMAIN Catalog /\ IsFiniteSet(S)
  BY FS_Subset, ColumnsAssumption DEF Arrivals
<1>2. \A i \in S : When(i) \in Nat /\ Rowid[i] \in Nat
  BY <1>1, StoriesAssumption DEF When
<1>3. \A i, j \in S : Rowid[i] = Rowid[j] => i = j
  BY <1>1, StoriesAssumption
<1>4. \A i, j \in S : NewerItem(i, j) <=> When(i) > When(j) \/ (When(i) = When(j) /\ Rowid[i] < Rowid[j])
  BY DEF NewerItem, When
<1>5. w = [k \in 1 .. N |-> CHOOSE x0 \in S : Cardinality({y0 \in S : NewerItem(y0, x0)}) = k - 1]
  BY DEF InOrder
<1> HIDE DEF w
<1>6. \A i, j \in S : i \in before[j] <=> NewerItem(i, j)
  OBVIOUS
<1>7. /\ before \in [S -> SUBSET S]
      /\ \A j \in S : j \notin before[j]
      /\ \A i, j \in S : i \in before[j] => before[i] \subseteq before[j]
      /\ \A i, j \in S : i = j \/ i \in before[j] \/ j \in before[i]
  BY <1>2, <1>3, <1>4
<1>8. \A j \in S : before[j] = {i \in S : NewerItem(i, j)}
  OBVIOUS
<1> HIDE DEF before
<1>9. /\ N \in Nat
      /\ \A j \in S : Cardinality(before[j]) \in 0 .. N - 1
      /\ \A i, j \in S : i \in before[j] <=> Cardinality(before[i]) < Cardinality(before[j])
      /\ \A k \in 1 .. N : \E j \in S : Cardinality(before[j]) = k - 1
  BY <1>1, <1>7, Places
<1>10. ASSUME NEW k \in 1 .. N
       PROVE  w[k] \in S /\ Cardinality(before[w[k]]) = k - 1
  <2>1. \E j \in S : Cardinality({i \in S : NewerItem(i, j)}) = k - 1
    BY <1>8, <1>9
  <2>2. w[k] \in S /\ Cardinality({i \in S : NewerItem(i, w[k])}) = k - 1
    BY <1>5, <2>1
  <2> QED
    BY <1>8, <2>2
<1>11. w \in [1 .. N -> S]
  BY <1>5, <1>10
<1>12. ASSUME NEW i \in S
       PROVE  \E k \in 1 .. N : w[k] = i
  <2> DEFINE k == Cardinality(before[i]) + 1
  <2>1. k \in 1 .. N
    BY <1>9
  <2>2. w[k] \in S /\ Cardinality(before[w[k]]) = Cardinality(before[i])
    BY <1>9, <1>10, <2>1
  <2>3. w[k] \notin before[i] /\ i \notin before[w[k]]
    BY <1>9, <2>2
  <2> QED
    BY <1>7, <2>1, <2>2, <2>3
<1>13. ASSUME NEW i \in 1 .. N, NEW j \in 1 .. N, i < j
       PROVE  w[i] # w[j] /\ When(w[j]) <= When(w[i])
  <2>1. w[i] \in S /\ w[j] \in S /\ Cardinality(before[w[i]]) < Cardinality(before[w[j]])
    BY <1>9, <1>10, <1>13
  <2>2. w[i] \in before[w[j]]
    BY <1>9, <2>1
  <2> QED
    BY <1>2, <1>4, <1>6, <2>1, <2>2
<1>14. w \in Seq(S) /\ Len(w) = N
  BY <1>9, <1>11
<1> QED
  BY <1>1, <1>2, <1>9, <1>11, <1>12, <1>13, <1>14 DEF w

(* Two of one entry arrived on one day.                                      *)
LEMMA OneEntryOneDay ==
  ASSUME NEW i, NEW j, EntryOf(i) = EntryOf(j), i # j
  PROVE  Day(When(i)) = Day(When(j))
<1> DEFINE pair(k) == <<Catalog[k].series, Day(Catalog[k].created)>>
<1>1. \A k : EntryOf(k) = IF Catalog[k].type = "Episode" THEN pair(k) ELSE <<k>>
  BY DEF EntryOf
<1>2. \A k, n : pair(k) # <<n>>
  <2>1. \A k, n : Len(pair(k)) = 2 /\ Len(<<n>>) = 1
    OBVIOUS
  <2> QED
    BY <2>1
<1>3. \A k, n : <<k>> = <<n>> => k = n
  OBVIOUS
<1>4. \A k, n : pair(k) = pair(n) => Day(Catalog[k].created) = Day(Catalog[n].created)
  OBVIOUS
<1> HIDE DEF pair
<1> QED
  BY <1>1, <1>2, <1>3, <1>4 DEF When

(* What has been read, step by step: at first nothing is on the shelf,       *)
NothingShelved == [list |-> <<>>, over |-> FALSE]

(* one more item is read,                                                    *)
Shelved(so_far, i, limit) ==
  LET stays == so_far.over \/ (/\ Len(so_far.list) = limit
                               /\ \A n \in DOMAIN so_far.list : so_far.list[n].key # EntryOf(i)
                               /\ \A x0 \in so_far.list[limit].items : Day(Catalog[i].created) < Day(Catalog[x0].created))
  IN  IF stays THEN [so_far EXCEPT !.over = TRUE] ELSE [so_far EXCEPT !.list = Fold(@, i, limit)]

(* and so on through the first n of w.                                       *)
IsShelving(g, n, w, limit) ==
  /\ g = [k \in 0 .. n |-> g[k]] /\ g[0] = NothingShelved
  /\ \A k \in 1 .. n : g[k] = Shelved(g[k - 1], w[k], limit)

(* There is such a reading of every sequence of items,                       *)
LEMMA ShelvingExists ==
  ASSUME NEW N \in Nat, NEW w, NEW limit
  PROVE  \E g : IsShelving(g, N, w, limit)
<1> DEFINE T == {n \in Nat : \E g : IsShelving(g, n, w, limit)}
<1>1. 0 \in T
  <2> DEFINE g == [k \in 0 .. 0 |-> NothingShelved]
  <2>1. g = [k \in 0 .. 0 |-> g[k]] /\ g[0] = NothingShelved
    OBVIOUS
  <2>2. \A k \in 1 .. 0 : FALSE
    OBVIOUS
  <2> HIDE DEF g
  <2>3. IsShelving(g, 0, w, limit)
    BY <2>1, <2>2 DEF IsShelving
  <2> QED
    BY <2>3
<1>2. ASSUME NEW n \in Nat, n \in T
      PROVE  n + 1 \in T
  <2>1. PICK f : IsShelving(f, n, w, limit)
    BY <1>2
  <2> DEFINE last == Shelved(f[n], w[n + 1], limit)
             g == [k \in 0 .. n + 1 |-> IF k = n + 1 THEN last ELSE f[k]]
  <2> HIDE DEF last
  <2>2. g = [k \in 0 .. n + 1 |-> g[k]]
    OBVIOUS
  <2>3. /\ g[0] = f[0] /\ g[n + 1] = last /\ g[n] = f[n]
        /\ \A k \in 0 .. n : g[k] = f[k]
    OBVIOUS
  <2> HIDE DEF g
  <2>4. ASSUME NEW k \in 1 .. n + 1
        PROVE  g[k] = Shelved(g[k - 1], w[k], limit)
    <3>1. CASE k = n + 1
      <4>1. k - 1 = n
        BY <3>1
      <4> QED
        BY <2>3, <3>1, <4>1 DEF last
    <3>2. CASE k # n + 1
      <4>1. k \in 1 .. n /\ k - 1 \in 0 .. n /\ k \in 0 .. n
        BY <3>2
      <4>2. f[k] = Shelved(f[k - 1], w[k], limit)
        BY <2>1, <4>1 DEF IsShelving
      <4>3. g[k] = f[k] /\ g[k - 1] = f[k - 1]
        BY <2>3, <4>1
      <4> QED
        BY <4>2, <4>3
    <3> QED
      BY <3>1, <3>2
  <2>5. IsShelving(g, n + 1, w, limit)
    BY <2>1, <2>2, <2>3, <2>4 DEF IsShelving
  <2> QED
    BY <2>5
<1> HIDE DEF T
<1>3. Nat \subseteq T
  BY <1>1, <1>2, NatByStep
<1> QED
  BY <1>3 DEF T

(* and it is what `recent` computes.                                         *)
LEMMA RecentIs ==
  ASSUME NEW S, NEW limit, Len(InOrder(S, NewerItem)) \in Nat
  PROVE  LET w == InOrder(S, NewerItem)
         IN  \E g : IsShelving(g, Len(w), w, limit) /\ recent(S, limit) = g[Len(w)].list
<1> DEFINE w == InOrder(S, NewerItem)
           N == Len(w)
           Goes(f) == [i \in 0 .. N |-> IF i = 0 THEN NothingShelved ELSE Shelved(f[i - 1], w[i], limit)]
           kept == CHOOSE f : f = Goes(f)
<1>1. recent(S, limit) = kept[N].list
  BY DEF recent, NothingShelved, Shelved
<1> HIDE DEF w
<1>2. PICK g : IsShelving(g, N, w, limit)
  BY ShelvingExists DEF w
<1>3. \A f : f = Goes(f) <=> IsShelving(f, N, w, limit)
  <2>0. N \in Nat
    BY DEF w
  <2> SUFFICES ASSUME NEW f PROVE f = Goes(f) <=> IsShelving(f, N, w, limit)
    OBVIOUS
  <2>1. ASSUME f = Goes(f) PROVE IsShelving(f, N, w, limit)
    <3>1. \A i \in 0 .. N : f[i] = IF i = 0 THEN NothingShelved ELSE Shelved(f[i - 1], w[i], limit)
      BY <2>1
    <3>2. f = [i \in 0 .. N |-> f[i]]
      BY <2>1
    <3>3. 0 \in 0 .. N /\ \A i \in 1 .. N : i \in 0 .. N /\ i # 0
      BY <2>0
    <3> QED
      BY <3>1, <3>2, <3>3 DEF IsShelving
  <2>2. ASSUME IsShelving(f, N, w, limit) PROVE f = Goes(f)
    <3>1. \A i \in 0 .. N : i = 0 \/ i \in 1 .. N
      BY <2>0
    <3>2. \A i \in 0 .. N : f[i] = IF i = 0 THEN NothingShelved ELSE Shelved(f[i - 1], w[i], limit)
      BY <2>2, <3>1 DEF IsShelving
    <3>3. f = [i \in 0 .. N |-> f[i]]
      BY <2>2 DEF IsShelving
    <3> QED
      BY <3>2, <3>3
  <2> QED
    BY <2>1, <2>2
<1> HIDE DEF Goes
<1>4. kept = Goes(kept)
  BY <1>2, <1>3
<1> HIDE DEF kept
<1>5. IsShelving(kept, N, w, limit)
  BY <1>3, <1>4
<1> QED
  BY <1>1, <1>5 DEF w

(* An entry has some of the items, and a shelf is of entries.                *)
Entries(S) == [key : {EntryOf(i) : i \in S}, items : SUBSET S]

IsShelf(st, S) == st \in [list : Seq(Entries(S)), over : BOOLEAN]

(* What is on the shelf when the first k of w have been read: one entry of   *)
(* each key;                                                                 *)
OneEach(L) == \A n, p \in DOMAIN L : L[n].key = L[p].key => n = p
(* of every entry all that has been read of it;                              *)
AllOfEach(L, w, k) ==
  \A n \in DOMAIN L : /\ L[n].items # {}
                      /\ \A i \in L[n].items : \E j \in 1 .. k : w[j] = i
                      /\ \A j \in 1 .. k : w[j] \in L[n].items <=> EntryOf(w[j]) = L[n].key
(* what has no entry came when there was no room, all entries having begun;  *)
NoRoom(L, w, k, limit) ==
  \A j \in 1 .. k : (\A n \in DOMAIN L : L[n].key # EntryOf(w[j])) =>
     Len(L) = limit /\ \A n \in DOMAIN L : \E p \in 1 .. j : w[p] \in L[n].items
(* the last entry is the oldest;                                             *)
LastIsOldest(L) ==
  \A n \in DOMAIN L : \E i \in L[n].items : \A j \in L[Len(L)].items : When(j) <= When(i)
(* and reading stopped at something older than the day of any entry.         *)
PastIt(L, w, k, limit) ==
  Len(L) = limit /\ \E j \in 1 .. k : \A n \in DOMAIN L : \E i \in L[n].items : Day(When(w[j])) < Day(When(i))

(* The invariant of the reading.                                             *)
ShelfSoFar(st, S, w, k, limit) ==
  /\ IsShelf(st, S) /\ Len(st.list) <= limit
  /\ OneEach(st.list) /\ AllOfEach(st.list, w, k) /\ NoRoom(st.list, w, k, limit) /\ LastIsOldest(st.list)
  /\ st.over => PastIt(st.list, w, k, limit)

(* w has all of S, newest first.                                             *)
IsReading(S, w) ==
  /\ IsFiniteSet(S) /\ w \in [1 .. Cardinality(S) -> S] /\ Cardinality(S) \in Nat
  /\ \A i \in S : \E k \in 1 .. Cardinality(S) : w[k] = i
  /\ \A i, j \in 1 .. Cardinality(S) : i < j => w[i] # w[j] /\ When(w[j]) <= When(w[i])
  /\ \A i \in S : When(i) \in Nat

(* Days follow one another as times do.                                      *)
LEMMA DaysFollow ==
  ASSUME NEW s0 \in Int, NEW t0 \in Int, s0 <= t0
  PROVE  Day(s0) \in Int /\ Day(t0) \in Int /\ Day(s0) <= Day(t0)
<1> DEFINE d == Day(s0)
           e == Day(t0)
<1>1. d \in Int /\ e \in Int
  BY DaysInOrder
<1> HIDE DEF d, e
<1>2. d <= Day(s0) <=> Midnight(d) <= s0
  BY <1>1, DaysInOrder
<1>3. d <= Day(t0) <=> Midnight(d) <= t0
  BY <1>1, DaysInOrder
<1>4. Midnight(d) \in Int
  BY <1>1, DaysInOrder
<1>5. d <= d
  BY <1>1
<1>6. Midnight(d) <= s0
  BY <1>2, <1>5 DEF d
<1>7. d <= Day(t0)
  BY <1>3, <1>4, <1>6
<1> QED
  BY <1>1, <1>7 DEF d, e

(* Nothing that has no entry yet, or comes when reading has stopped, has     *)
(* one.                                                                      *)
LEMMA NothingIsMissed ==
  ASSUME NEW S, NEW w, IsReading(S, w), NEW limit \in Nat \ {0}, NEW k \in Nat, k + 1 <= Cardinality(S),
         NEW st, ShelfSoFar(st, S, w, k, limit), PastIt(st.list, w, k, limit)
  PROVE  \A n \in DOMAIN st.list : st.list[n].key # EntryOf(w[k + 1])
<1> DEFINE L == st.list
           x0 == w[k + 1]
<1>1. PICK j \in 1 .. k : \A n \in DOMAIN L : \E i \in L[n].items : Day(When(w[j])) < Day(When(i))
  BY DEF PastIt
<1>2. SUFFICES ASSUME NEW n \in DOMAIN L, L[n].key = EntryOf(x0) PROVE FALSE
  OBVIOUS
<1>3. PICK i \in L[n].items : Day(When(w[j])) < Day(When(i))
  BY <1>1
<1>4. PICK p \in 1 .. k : w[p] = i
  BY DEF ShelfSoFar, AllOfEach
<1>5. EntryOf(w[p]) = EntryOf(x0)
  BY <1>2, <1>3, <1>4 DEF ShelfSoFar, AllOfEach
<1>6. /\ p \in 1 .. Cardinality(S) /\ j \in 1 .. Cardinality(S) /\ k + 1 \in 1 .. Cardinality(S)
      /\ p < k + 1 /\ j < k + 1
  BY DEF IsReading
<1>7. w[p] # x0 /\ When(x0) <= When(w[j]) /\ When(x0) \in Nat /\ When(w[j]) \in Nat
  BY <1>6 DEF IsReading
<1>8. Day(When(w[p])) = Day(When(x0))
  BY <1>5, <1>7, OneEntryOneDay
<1>9. Day(When(x0)) <= Day(When(w[j])) /\ Day(When(x0)) \in Int /\ Day(When(w[j])) \in Int
  BY <1>7, DaysFollow
<1> QED
  BY <1>3, <1>4, <1>8, <1>9

(* An item for which there is no entry and no room changes nothing;          *)
LEMMA ShelfPassesBy ==
  ASSUME NEW S, NEW w, IsReading(S, w), NEW limit \in Nat \ {0}, NEW k \in Nat, k + 1 <= Cardinality(S),
         NEW st, ShelfSoFar(st, S, w, k, limit), Len(st.list) = limit,
         \A n \in DOMAIN st.list : st.list[n].key # EntryOf(w[k + 1])
  PROVE  /\ AllOfEach(st.list, w, k + 1) /\ NoRoom(st.list, w, k + 1, limit)
         /\ st.over => PastIt(st.list, w, k + 1, limit)
<1> DEFINE L == st.list
<1>1. \A j \in 1 .. k + 1 : j \in 1 .. k \/ j = k + 1
  OBVIOUS
<1>2. \A j \in 1 .. k : j \in 1 .. k + 1
  OBVIOUS
<1>3. \A n \in DOMAIN L : \E p \in 1 .. k : w[p] \in L[n].items
  BY DEF ShelfSoFar, AllOfEach
<1>4. \A n \in DOMAIN L : w[k + 1] \notin L[n].items
  <2> SUFFICES ASSUME NEW n \in DOMAIN L, w[k + 1] \in L[n].items PROVE FALSE
    OBVIOUS
  <2>1. PICK p \in 1 .. k : w[p] = w[k + 1]
    BY DEF ShelfSoFar, AllOfEach
  <2>2. p \in 1 .. Cardinality(S) /\ k + 1 \in 1 .. Cardinality(S) /\ p < k + 1
    BY DEF IsReading
  <2> QED
    BY <2>1, <2>2 DEF IsReading
<1>5. AllOfEach(L, w, k + 1)
  BY <1>1, <1>2, <1>4 DEF AllOfEach, ShelfSoFar
<1>6. NoRoom(L, w, k + 1, limit)
  BY <1>1, <1>2, <1>3 DEF NoRoom, ShelfSoFar
<1>7. st.over => PastIt(L, w, k + 1, limit)
  BY <1>2 DEF PastIt, ShelfSoFar
<1> QED
  BY <1>5, <1>6, <1>7

(* one for which there is an entry joins it,                                 *)
LEMMA ShelfJoins ==
  ASSUME NEW S, NEW w, IsReading(S, w), NEW limit \in Nat \ {0}, NEW k \in Nat, k + 1 <= Cardinality(S),
         NEW st, ShelfSoFar(st, S, w, k, limit), ~st.over,
         NEW n0 \in DOMAIN st.list, st.list[n0].key = EntryOf(w[k + 1]),
         NEW new, new = [st EXCEPT !.list = [st.list EXCEPT ![n0].items = @ \cup {w[k + 1]}]]
  PROVE  ShelfSoFar(new, S, w, k + 1, limit)
<1> DEFINE L == st.list
           x0 == w[k + 1]
           L1 == [L EXCEPT ![n0].items = @ \cup {x0}]
<1>1. IsShelf(st, S) /\ Len(L) <= limit /\ OneEach(L) /\ AllOfEach(L, w, k) /\ NoRoom(L, w, k, limit) /\ LastIsOldest(L)
  BY DEF ShelfSoFar
<1>2. L \in Seq(Entries(S))
  BY <1>1 DEF IsShelf
<1>3. /\ DOMAIN L1 = DOMAIN L /\ L1[n0].items = L[n0].items \cup {x0} /\ L1[n0].key = L[n0].key
      /\ \A n \in DOMAIN L : n # n0 => L1[n] = L[n]
  BY <1>2 DEF Entries
<1>4. /\ x0 \in S /\ \A j \in 1 .. k : /\ j \in 1 .. k + 1 /\ w[j] # x0 /\ When(x0) <= When(w[j])
                                       /\ When(x0) \in Nat /\ When(w[j]) \in Nat
  <2>1. \A j \in 1 .. k : j \in 1 .. Cardinality(S) /\ k + 1 \in 1 .. Cardinality(S) /\ j < k + 1 /\ j \in 1 .. k + 1
    BY DEF IsReading
  <2>2. k + 1 \in 1 .. Cardinality(S)
    BY DEF IsReading
  <2> QED
    BY <2>1, <2>2 DEF IsReading
<1>5. L1 \in Seq(Entries(S)) /\ Len(L1) = Len(L)
  <2>0. L[n0] \in Entries(S)
    <3> HIDE DEF L, Entries
    <3> QED
      BY <1>2 DEF L
  <2>1. L1[n0] \in Entries(S)
    <3>1. L[n0] = [key |-> L[n0].key, items |-> L[n0].items] /\ L[n0].items \in SUBSET S
      BY <2>0 DEF Entries
    <3>2. L1[n0] = [L[n0] EXCEPT !.items = @ \cup {x0}]
      BY <1>2
    <3>3. L1[n0] = [key |-> L[n0].key, items |-> L[n0].items \cup {x0}]
      BY <3>1, <3>2
    <3> QED
      BY <1>4, <2>0, <3>1, <3>3 DEF Entries
  <2>2. \A n \in DOMAIN L1 : L1[n] \in Entries(S)
    BY <1>2, <1>3, <2>1
  <2> HIDE DEF Entries
  <2> QED
    BY <1>2, <2>1
<1> HIDE DEF L1
<1>6. \A j \in 1 .. k + 1 : j \in 1 .. k \/ j = k + 1
  OBVIOUS
<1>7. \A n \in DOMAIN L : L[n].items \subseteq L1[n].items /\ L1[n].key = L[n].key
  BY <1>3
<1>8. OneEach(L1)
  BY <1>1, <1>3, <1>7 DEF OneEach
<1>9. AllOfEach(L1, w, k + 1)
  <2>1. ASSUME NEW n \in DOMAIN L, n # n0
        PROVE  L[n].key # EntryOf(x0) /\ x0 \notin L[n].items
    BY <1>1, <1>4, <2>1 DEF OneEach, AllOfEach
  <2> SUFFICES ASSUME NEW n \in DOMAIN L1
               PROVE /\ L1[n].items # {}
                     /\ \A i \in L1[n].items : \E j \in 1 .. k + 1 : w[j] = i
                     /\ \A j \in 1 .. k + 1 : w[j] \in L1[n].items <=> EntryOf(w[j]) = L1[n].key
    BY DEF AllOfEach
  <2>2. CASE n = n0
    BY <1>1, <1>3, <1>4, <1>6, <2>2 DEF AllOfEach
  <2>3. CASE n # n0
    <3>1. n \in DOMAIN L /\ L1[n] = L[n] /\ L[n].key # EntryOf(x0) /\ x0 \notin L[n].items
      BY <1>3, <2>1, <2>3
    <3> QED
      BY <1>1, <1>4, <1>6, <3>1 DEF AllOfEach
  <2> QED
    BY <2>2, <2>3
<1>10. NoRoom(L1, w, k + 1, limit)
  <2> SUFFICES ASSUME NEW j \in 1 .. k + 1, \A n \in DOMAIN L1 : L1[n].key # EntryOf(w[j])
               PROVE  Len(L1) = limit /\ \A n \in DOMAIN L1 : \E p \in 1 .. j : w[p] \in L1[n].items
    BY DEF NoRoom
  <2>1. \A n \in DOMAIN L : L[n].key # EntryOf(w[j])
    BY <1>3, <1>7
  <2>2. j \in 1 .. k
    BY <1>6, <2>1
  <2>3. Len(L) = limit /\ \A n \in DOMAIN L : \E p \in 1 .. j : w[p] \in L[n].items
    BY <1>1, <2>1, <2>2 DEF NoRoom
  <2> QED
    BY <1>3, <1>5, <1>7, <2>3
<1>11. LastIsOldest(L1)
  <2> SUFFICES ASSUME NEW n \in DOMAIN L1
               PROVE \E i \in L1[n].items : \A j \in L1[Len(L1)].items : When(j) <= When(i)
    BY DEF LastIsOldest
  <2>1. n \in DOMAIN L /\ Len(L) \in DOMAIN L
    BY <1>2, <1>3
  <2>2. PICK i \in L[n].items : \A j \in L[Len(L)].items : When(j) <= When(i)
    BY <1>1, <2>1 DEF LastIsOldest
  <2>3. PICK p \in 1 .. k : w[p] = i
    BY <1>1, <2>1 DEF AllOfEach
  <2>4. \A j \in L1[Len(L)].items : j \in L[Len(L)].items \/ j = x0
    BY <1>3, <2>1
  <2> QED
    BY <1>4, <1>5, <1>7, <2>1, <2>2, <2>3, <2>4
<1>12. new.list = L1 /\ new.over = st.over /\ IsShelf(new, S)
  <2>1. new = [st EXCEPT !.list = L1]
    BY DEF L1
  <2>2. st \in [list : Seq(Entries(S)), over : BOOLEAN]
    BY <1>1 DEF IsShelf
  <2> HIDE DEF Entries
  <2> QED
    BY <1>5, <2>1, <2>2 DEF IsShelf
<1> QED
  BY <1>1, <1>5, <1>8, <1>9, <1>10, <1>11, <1>12 DEF ShelfSoFar

(* and one for which there is none, but room, makes one.                     *)
LEMMA ShelfGrows ==
  ASSUME NEW S, NEW w, IsReading(S, w), NEW limit \in Nat \ {0}, NEW k \in Nat, k + 1 <= Cardinality(S),
         NEW st, ShelfSoFar(st, S, w, k, limit), ~st.over, Len(st.list) < limit,
         \A n \in DOMAIN st.list : st.list[n].key # EntryOf(w[k + 1]),
         NEW new, new = [st EXCEPT !.list = Append(st.list, [key |-> EntryOf(w[k + 1]), items |-> {w[k + 1]}])]
  PROVE  ShelfSoFar(new, S, w, k + 1, limit)
<1> DEFINE L == st.list
           x0 == w[k + 1]
           entry == [key |-> EntryOf(x0), items |-> {x0}]
           L1 == Append(L, entry)
<1>1. IsShelf(st, S) /\ Len(L) <= limit /\ OneEach(L) /\ AllOfEach(L, w, k) /\ NoRoom(L, w, k, limit) /\ LastIsOldest(L)
  BY DEF ShelfSoFar
<1>2. L \in Seq(Entries(S))
  BY <1>1 DEF IsShelf
<1>4. /\ x0 \in S /\ \A j \in 1 .. k : /\ j \in 1 .. k + 1 /\ w[j] # x0 /\ When(x0) <= When(w[j])
                                       /\ When(x0) \in Nat /\ When(w[j]) \in Nat
  <2>1. \A j \in 1 .. k : j \in 1 .. Cardinality(S) /\ k + 1 \in 1 .. Cardinality(S) /\ j < k + 1 /\ j \in 1 .. k + 1
    BY DEF IsReading
  <2>2. k + 1 \in 1 .. Cardinality(S)
    BY DEF IsReading
  <2> QED
    BY <2>1, <2>2 DEF IsReading
<1>5. entry \in Entries(S) /\ entry.key = EntryOf(x0) /\ entry.items = {x0}
  BY <1>4 DEF Entries
<1> HIDE DEF entry
<1>6. /\ L1 \in Seq(Entries(S)) /\ Len(L1) = Len(L) + 1 /\ DOMAIN L1 = 1 .. Len(L) + 1 /\ DOMAIN L = 1 .. Len(L)
      /\ Len(L) \in Nat
      /\ L1[Len(L) + 1] = entry /\ \A n \in 1 .. Len(L) : L1[n] = L[n]
  <2> HIDE DEF L
  <2> QED
    BY <1>2, <1>5
<1> HIDE DEF L1
<1>7. \A j \in 1 .. k + 1 : j \in 1 .. k \/ j = k + 1
  OBVIOUS
<1>8. \A n \in DOMAIN L1 : (n \in DOMAIN L /\ L1[n] = L[n]) \/ (n = Len(L) + 1 /\ L1[n] = entry)
  BY <1>6
<1>9. OneEach(L1)
  BY <1>1, <1>5, <1>8 DEF OneEach
<1>10. \A j \in 1 .. k : EntryOf(w[j]) # EntryOf(x0)
  <2> SUFFICES ASSUME NEW j \in 1 .. k, EntryOf(w[j]) = EntryOf(x0) PROVE FALSE
    OBVIOUS
  <2>1. Len(L) = limit
    BY <1>1 DEF NoRoom
  <2> QED
    BY <2>1
<1>11. AllOfEach(L1, w, k + 1)
  <2>1. \A n \in DOMAIN L : x0 \notin L[n].items
    BY <1>1, <1>4 DEF AllOfEach
  <2> SUFFICES ASSUME NEW n \in DOMAIN L1
               PROVE /\ L1[n].items # {}
                     /\ \A i \in L1[n].items : \E j \in 1 .. k + 1 : w[j] = i
                     /\ \A j \in 1 .. k + 1 : w[j] \in L1[n].items <=> EntryOf(w[j]) = L1[n].key
    BY DEF AllOfEach
  <2>2. CASE n \in DOMAIN L /\ L1[n] = L[n]
    BY <1>1, <1>4, <1>7, <2>1, <2>2 DEF AllOfEach
  <2>3. CASE L1[n] = entry
    <3>1. L1[n].items = {x0} /\ L1[n].key = EntryOf(x0) /\ k + 1 \in 1 .. k + 1
      BY <1>5, <2>3
    <3>2. \A j \in 1 .. k + 1 : w[j] = x0 <=> EntryOf(w[j]) = EntryOf(x0)
      BY <1>4, <1>7, <1>10
    <3> QED
      BY <3>1, <3>2
  <2> QED
    BY <1>8, <2>2, <2>3
<1>12. NoRoom(L1, w, k + 1, limit)
  <2> SUFFICES ASSUME NEW j \in 1 .. k + 1, \A n \in DOMAIN L1 : L1[n].key # EntryOf(w[j]) PROVE FALSE
    BY DEF NoRoom
  <2>1. \A n \in DOMAIN L : L[n].key # EntryOf(w[j])
    BY <1>6
  <2>2. j # k + 1
    <3>1. Len(L) + 1 \in DOMAIN L1
      BY <1>6
    <3> QED
      BY <1>5, <1>6, <3>1
  <2>3. Len(L) = limit
    BY <1>1, <1>7, <2>1, <2>2 DEF NoRoom
  <2> QED
    BY <2>3
<1>13. LastIsOldest(L1)
  <2> SUFFICES ASSUME NEW n \in DOMAIN L1
               PROVE \E i \in L1[n].items : \A j \in L1[Len(L1)].items : When(j) <= When(i)
    BY DEF LastIsOldest
  <2>1. \A j \in L1[Len(L1)].items : j = x0
    BY <1>5, <1>6
  <2>2. CASE n \in DOMAIN L /\ L1[n] = L[n]
    <3>1. PICK i \in L[n].items : TRUE
      BY <1>1, <2>2 DEF AllOfEach
    <3>2. PICK p \in 1 .. k : w[p] = i
      BY <1>1, <2>2 DEF AllOfEach
    <3>3. When(x0) <= When(i)
      BY <1>4, <3>2
    <3> QED
      BY <2>1, <2>2, <3>1, <3>3
  <2>3. CASE L1[n] = entry
    <3>1. x0 \in L1[n].items /\ When(x0) <= When(x0)
      <4>1. When(x0) \in Nat
        BY <1>4 DEF IsReading
      <4> QED
        BY <1>5, <2>3, <4>1
    <3> QED
      BY <2>1, <3>1
  <2> QED
    BY <1>8, <2>2, <2>3
<1>14. Len(L1) <= limit
  BY <1>6
<1>15. new.list = L1 /\ new.over = st.over /\ IsShelf(new, S)
  <2>1. new = [st EXCEPT !.list = L1]
    BY DEF L1, entry
  <2>2. st \in [list : Seq(Entries(S)), over : BOOLEAN]
    BY <1>1 DEF IsShelf
  <2> HIDE DEF Entries
  <2> QED
    BY <1>6, <2>1, <2>2 DEF IsShelf
<1> QED
  BY <1>6, <1>9, <1>11, <1>12, <1>13, <1>14, <1>15 DEF ShelfSoFar

(* So each item that is read keeps the invariant,                            *)
LEMMA ShelfStep ==
  ASSUME NEW S, NEW w, IsReading(S, w), NEW limit \in Nat \ {0}, NEW k \in Nat, k + 1 <= Cardinality(S),
         NEW st, ShelfSoFar(st, S, w, k, limit)
  PROVE  ShelfSoFar(Shelved(st, w[k + 1], limit), S, w, k + 1, limit)
<1> DEFINE L == st.list
           x0 == w[k + 1]
           missing == \A n \in DOMAIN L : L[n].key # EntryOf(x0)
           past == /\ Len(L) = limit /\ missing
                   /\ \A i \in L[limit].items : Day(Catalog[x0].created) < Day(Catalog[i].created)
           new == Shelved(st, x0, limit)
<1>1. IsShelf(st, S) /\ Len(L) <= limit /\ OneEach(L) /\ AllOfEach(L, w, k) /\ NoRoom(L, w, k, limit) /\ LastIsOldest(L)
      /\ (st.over => PastIt(L, w, k, limit))
  BY DEF ShelfSoFar
<1>2. L \in Seq(Entries(S)) /\ st.over \in BOOLEAN /\ DOMAIN L = 1 .. Len(L) /\ Len(L) \in Nat
  BY <1>1 DEF IsShelf
<1>3. new = IF st.over \/ past THEN [st EXCEPT !.over = TRUE] ELSE [st EXCEPT !.list = Fold(L, x0, limit)]
  BY DEF Shelved
<1>4. ASSUME Len(L) = limit, missing, NEW far0 \in BOOLEAN, NEW st1, st1 = [st EXCEPT !.over = far0],
             far0 => PastIt(L, w, k + 1, limit)
      PROVE  ShelfSoFar(st1, S, w, k + 1, limit)
  <2>1. AllOfEach(L, w, k + 1) /\ NoRoom(L, w, k + 1, limit)
    BY <1>4, ShelfPassesBy
  <2>2. st1.list = L /\ st1.over = far0 /\ IsShelf(st1, S)
    BY <1>1, <1>4 DEF IsShelf
  <2> QED
    BY <1>1, <1>4, <2>1, <2>2 DEF ShelfSoFar
<1>5. CASE st.over
  <2>1. PastIt(L, w, k, limit)
    BY <1>1, <1>5
  <2>2. missing /\ Len(L) = limit
    <3>1. Len(L) = limit
      BY <2>1 DEF PastIt
    <3> QED
      BY <2>1, <3>1, NothingIsMissed
  <2>3. PastIt(L, w, k + 1, limit)
    BY <1>5, <2>2, ShelfPassesBy
  <2> QED
    BY <1>3, <1>4, <1>5, <2>2, <2>3
<1>6. CASE past
  <2>1. PastIt(L, w, k + 1, limit)
    <3> SUFFICES ASSUME NEW n \in DOMAIN L PROVE \E i \in L[n].items : Day(When(x0)) < Day(When(i))
      BY <1>6 DEF PastIt
    <3>1. PICK i \in L[n].items : \A j \in L[Len(L)].items : When(j) <= When(i)
      BY <1>1 DEF LastIsOldest
    <3>2. PICK j \in L[limit].items : Day(When(x0)) < Day(When(j))
      <4>1. limit \in DOMAIN L
        BY <1>2, <1>6
      <4>2. L[limit].items # {}
        BY <1>1, <4>1 DEF AllOfEach
      <4> QED
        BY <1>6, <4>2 DEF When
    <3>3. When(j) <= When(i)
      BY <1>6, <3>1, <3>2
    <3>4. When(j) \in Nat /\ When(i) \in Nat /\ When(x0) \in Nat
      <4>1. limit \in DOMAIN L
        BY <1>2, <1>6
      <4>2. PICK p \in 1 .. k : w[p] = i
        BY <1>1 DEF AllOfEach
      <4>3. PICK q \in 1 .. k : w[q] = j
        BY <1>1, <3>2, <4>1 DEF AllOfEach
      <4>4. p \in 1 .. Cardinality(S) /\ q \in 1 .. Cardinality(S) /\ k + 1 \in 1 .. Cardinality(S)
        BY DEF IsReading
      <4> QED
        BY <4>2, <4>3, <4>4 DEF IsReading
    <3>5. /\ Day(When(j)) \in Int /\ Day(When(i)) \in Int /\ Day(When(x0)) \in Int
          /\ Day(When(j)) <= Day(When(i))
      <4>1. Day(When(j)) \in Int /\ Day(When(i)) \in Int /\ Day(When(j)) <= Day(When(i))
        BY <3>3, <3>4, DaysFollow
      <4>2. Day(When(x0)) \in Int
        BY <3>4, DaysInOrder
      <4> QED
        BY <4>1, <4>2
    <3> QED
      BY <3>2, <3>5
  <2> QED
    BY <1>3, <1>4, <1>6, <2>1
<1>7. CASE ~st.over /\ ~past
  <2>0. new = [st EXCEPT !.list = Fold(L, x0, limit)]
    BY <1>3, <1>7
  <2>1. CASE ~missing
    <3> DEFINE at == {n \in DOMAIN L : L[n].key = EntryOf(x0)}
    <3>1. at # {} /\ at \in SUBSET Nat
      BY <1>2, <2>1
    <3>2. Fold(L, x0, limit) = [L EXCEPT ![Min(at)].items = @ \cup {x0}]
      BY <3>1 DEF Fold
    <3> DEFINE n0 == Min(at)
    <3>3. n0 \in DOMAIN L /\ L[n0].key = EntryOf(x0)
      <4>1. n0 \in at
        <5> HIDE DEF at
        <5> QED
          BY <3>1, SmallestOf
      <4> QED
        BY <4>1
    <3> HIDE DEF n0
    <3>4. new = [st EXCEPT !.list = [L EXCEPT ![n0].items = @ \cup {x0}]]
      BY <2>0, <3>2 DEF n0
    <3> QED
      BY <1>7, <3>3, <3>4, ShelfJoins
  <2>2. CASE missing /\ Len(L) < limit
    <3>1. {n \in DOMAIN L : L[n].key = EntryOf(x0)} = {}
      BY <2>2
    <3>2. Fold(L, x0, limit) = Append(L, [key |-> EntryOf(x0), items |-> {x0}])
      BY <2>2, <3>1 DEF Fold
    <3>3. new = [st EXCEPT !.list = Append(L, [key |-> EntryOf(x0), items |-> {x0}])]
      BY <2>0, <3>2
    <3> QED
      BY <1>7, <2>2, <3>3, ShelfGrows
  <2>3. CASE missing /\ ~(Len(L) < limit)
    <3>1. {n \in DOMAIN L : L[n].key = EntryOf(x0)} = {}
      BY <2>3
    <3>2. Fold(L, x0, limit) = L /\ Len(L) = limit
      BY <1>1, <1>2, <2>3, <3>1 DEF Fold
    <3>3. new = [st EXCEPT !.over = FALSE]
      <4>1. st \in [list : Seq(Entries(S)), over : BOOLEAN] /\ new = [st EXCEPT !.list = L]
        BY <1>1, <2>0, <3>2 DEF IsShelf
      <4>2. new = st /\ st.over = FALSE
        BY <1>7, <4>1
      <4> HIDE DEF new, L
      <4> QED
        BY <4>1, <4>2
    <3> QED
      BY <1>4, <2>3, <3>2, <3>3
  <2> QED
    BY <2>1, <2>2, <2>3
<1> QED
  BY <1>5, <1>6, <1>7

(* which holds when all have been read, or reading has stopped.              *)
LEMMA ShelfIsRead ==
  ASSUME NEW S, NEW w, IsReading(S, w), NEW limit \in Nat \ {0}, NEW g, IsShelving(g, Cardinality(S), w, limit)
  PROVE  ShelfSoFar(g[Cardinality(S)], S, w, Cardinality(S), limit)
<1> DEFINE N == Cardinality(S)
           T == {k \in Nat : k <= N => ShelfSoFar(g[k], S, w, k, limit)}
<1>0. N \in Nat
  BY DEF IsReading
<1>1. 0 \in T
  <2>1. g[0] = [list |-> <<>>, over |-> FALSE]
    BY DEF IsShelving, NothingShelved
  <2>2. g[0].list = <<>> /\ ~g[0].over /\ IsShelf(g[0], S)
    <3>1. g[0].list = <<>>
      BY <2>1
    <3>2. <<>> \in Seq(Entries(S))
      OBVIOUS
    <3>3. g[0] \in [list : Seq(Entries(S)), over : BOOLEAN]
      <4> HIDE DEF Entries
      <4> QED
        BY <2>1, <3>2
    <3> QED
      BY <2>1, <3>1, <3>3 DEF IsShelf
  <2>3. Len(<<>>) <= limit /\ (\A n \in DOMAIN <<>> : FALSE) /\ \A j \in 1 .. 0 : FALSE
    OBVIOUS
  <2> QED
    BY <2>2, <2>3 DEF ShelfSoFar, OneEach, AllOfEach, NoRoom, LastIsOldest
<1>2. ASSUME NEW k \in Nat, k \in T
      PROVE  k + 1 \in T
  <2> SUFFICES ASSUME k + 1 <= N PROVE ShelfSoFar(g[k + 1], S, w, k + 1, limit)
    OBVIOUS
  <2>1. ShelfSoFar(g[k], S, w, k, limit)
    BY <1>0, <1>2
  <2>2. k + 1 \in 1 .. N /\ (k + 1) - 1 = k
    BY <1>0
  <2>3. g[k + 1] = Shelved(g[k], w[k + 1], limit)
    BY <2>2 DEF IsShelving
  <2> QED
    BY <2>1, <2>3, ShelfStep
<1> HIDE DEF T
<1>3. Nat \subseteq T
  BY <1>1, <1>2, NatByStep
<1> QED
  BY <1>0, <1>3 DEF T

(* When the newest of an entry arrived.                                      *)
Newest(E) == Max({Catalog[i].created : i \in E})

(* It is that of one of them, and of none before.                            *)
LEMMA NewestIs ==
  ASSUME NEW E, IsFiniteSet(E), E # {}, \A i \in E : When(i) \in Nat
  PROVE  (\E i \in E : Newest(E) = When(i)) /\ \A i \in E : When(i) <= Newest(E)
<1> DEFINE h == [i \in E |-> When(i)]
           Q == {h[x0] : x0 \in E}
<1>1. Q = {Catalog[i].created : i \in E}
  BY DEF When
<1>2. IsFiniteSet(Q)
  <2> HIDE DEF h
  <2> QED
    BY ImageIsFinite
<1>3. Q \in SUBSET Nat /\ Q # {}
  OBVIOUS
<1>4. \A i \in E : When(i) \in Q
  OBVIOUS
<1>5. \A n \in Q : \E i \in E : n = When(i)
  OBVIOUS
<1> HIDE DEF Q
<1>6. PICK n \in Nat : \A k \in Q : k <= n
  BY <1>2, <1>3, BoundOf
<1>7. Max(Q) \in Q /\ \A k \in Q : Max(Q) >= k
  BY <1>3, <1>6, GreatestOf
<1>8. Newest(E) \in Q /\ \A k \in Q : Newest(E) >= k
  BY <1>1, <1>7 DEF Newest
<1> QED
  BY <1>3, <1>4, <1>5, <1>8

(* What is on the shelf, and what of S there is to put on it.                *)
OnShelf(L) == {L[n].items : n \in DOMAIN L}
OfEntry(S, e) == {i \in S : EntryOf(i) = e}
Whole(S) == {OfEntry(S, e) : e \in {EntryOf(i) : i \in S}}

(* There are as many entries as are different, and as there is room for.     *)
LEMMA ShelfCounts ==
  ASSUME NEW L, NEW N \in Nat, DOMAIN L = 1 .. N, Len(L) = N, NEW W, IsFiniteSet(W), OnShelf(L) \subseteq W,
         \A n, p \in DOMAIN L : L[n].items = L[p].items => n = p,
         NEW limit \in Nat, N <= limit, N < limit => W \subseteq OnShelf(L)
  PROVE  Cardinality(OnShelf(L)) = Len(L) /\ Len(L) = Min({limit, Cardinality(W)})
<1> DEFINE h == [n \in 1 .. N |-> L[n].items]
<1>1. Image(h, 1 .. N) = OnShelf(L)
  BY DEF Image, OnShelf
<1>2. h \in [1 .. N -> W] /\ \A n, p \in 1 .. N : h[n] = h[p] => n = p
  BY DEF OnShelf
<1> HIDE DEF h
<1>3. IsFiniteSet(1 .. N) /\ Cardinality(1 .. N) = N
  BY FS_Interval
<1>4. Cardinality(OnShelf(L)) = N
  <2> DEFINE I == 1 .. N
  <2>1. h \in [I -> W] /\ (\A n, p \in I : h[n] = h[p] => n = p) /\ I \in SUBSET I /\ IsFiniteSet(I)
    BY <1>2, <1>3
  <2> HIDE DEF I
  <2>2. Cardinality(Image(h, I)) = Cardinality(I)
    BY <2>1, ImageFacts
  <2> QED
    BY <1>1, <1>3, <2>2 DEF I
<1>5. Cardinality(OnShelf(L)) <= Cardinality(W) /\ Cardinality(W) \in Nat
  BY FS_Subset, FS_CardinalityType
<1>6. N < limit => N = Cardinality(W)
  <2> SUFFICES ASSUME N < limit PROVE N = Cardinality(W)
    OBVIOUS
  <2>1. W = OnShelf(L)
    OBVIOUS
  <2> QED
    BY <1>4, <2>1
<1>7. Min({limit, Cardinality(W)}) = N
  <2> DEFINE Q == {limit, Cardinality(W)}
  <2>1. Q \in SUBSET Nat /\ Q # {}
    BY <1>5
  <2>2. Min(Q) \in Q /\ \A k \in Q : Min(Q) <= k
    <3> HIDE DEF Q
    <3> QED
      BY <2>1, SmallestOf
  <2> HIDE DEF h
  <2> QED
    BY <1>4, <1>5, <1>6, <2>2
<1> QED
  BY <1>4, <1>7

(* The shelf has as many whole entries as there is room for, and the newest  *)
(* ones (`recent`).                                                          *)
LEMMA ShelfTellsAll ==
  ASSUME NEW S \in SUBSET Arrivals, NEW limit \in Nat \ {0}
  PROVE  ShelfIsWhole(S, limit)
<1> DEFINE w == InOrder(S, NewerItem)
           N == Cardinality(S)
           L == recent(S, limit)
<1>1. IsReading(S, w) /\ Len(w) = N /\ N \in Nat
  BY ArrivedInOrder DEF IsReading
<1>2. PICK g : IsShelving(g, N, w, limit) /\ L = g[N].list
  BY <1>1, RecentIs
<1> HIDE DEF w, L
<1>3. ShelfSoFar(g[N], S, w, N, limit)
  BY <1>1, <1>2, ShelfIsRead
<1>4. Len(L) <= limit /\ OneEach(L) /\ AllOfEach(L, w, N) /\ NoRoom(L, w, N, limit)
  BY <1>2, <1>3 DEF ShelfSoFar
<1>5. L \in Seq(Entries(S)) /\ DOMAIN L = 1 .. Len(L) /\ Len(L) \in Nat
  BY <1>2, <1>3 DEF ShelfSoFar, IsShelf
<1>6. \A n \in DOMAIN L : L[n].items \subseteq S
  <2> SUFFICES ASSUME NEW n \in DOMAIN L PROVE L[n].items \subseteq S
    OBVIOUS
  <2>1. L[n] \in Entries(S)
    <3> HIDE DEF Entries
    <3> QED
      BY <1>5
  <2> QED
    BY <2>1 DEF Entries
<1>7. ASSUME NEW n \in DOMAIN L
      PROVE  /\ L[n].items = OfEntry(S, L[n].key) /\ L[n].items # {}
             /\ L[n].key \in {EntryOf(i) : i \in S} /\ \A i \in L[n].items : EntryOf(i) = L[n].key
  <2>1. ASSUME NEW i \in S PROVE i \in L[n].items <=> EntryOf(i) = L[n].key
    <3>1. PICK k \in 1 .. N : w[k] = i
      BY <1>1 DEF IsReading
    <3> QED
      BY <1>4, <3>1 DEF AllOfEach
  <2>2. L[n].items # {}
    BY <1>4 DEF AllOfEach
  <2> QED
    BY <1>6, <2>1, <2>2 DEF OfEntry
<1>8. OnShelf(L) \subseteq Whole(S)
  BY <1>7 DEF OnShelf, Whole
<1>9. \A n, p \in DOMAIN L : L[n].items = L[p].items => n = p
  <2> SUFFICES ASSUME NEW n \in DOMAIN L, NEW p \in DOMAIN L, L[n].items = L[p].items PROVE n = p
    OBVIOUS
  <2>1. PICK i \in L[n].items : TRUE
    BY <1>7
  <2>2. L[n].key = L[p].key
    BY <1>7, <2>1
  <2> QED
    BY <1>4, <2>2 DEF OneEach
<1>10. ASSUME NEW E \in Whole(S) \ OnShelf(L)
       PROVE  /\ Len(L) = limit /\ E # {} /\ E \subseteq S
              /\ \A i \in E : \A n \in DOMAIN L : \E j \in L[n].items : When(i) <= When(j)
  <2>1. PICK e \in {EntryOf(i) : i \in S} : E = OfEntry(S, e)
    BY DEF Whole
  <2>2. \A n \in DOMAIN L : L[n].key # e
    BY <1>7, <2>1 DEF OnShelf
  <2>3. E # {} /\ E \subseteq S
    BY <2>1 DEF OfEntry
  <2>4. ASSUME NEW i \in E
        PROVE  Len(L) = limit /\ \A n \in DOMAIN L : \E j \in L[n].items : When(i) <= When(j)
    <3>1. PICK k \in 1 .. N : w[k] = i
      BY <1>1, <2>3 DEF IsReading
    <3>2. \A n \in DOMAIN L : L[n].key # EntryOf(w[k])
      BY <2>1, <2>2, <3>1 DEF OfEntry
    <3>3. Len(L) = limit /\ \A n \in DOMAIN L : \E p \in 1 .. k : w[p] \in L[n].items
      BY <1>4, <3>2 DEF NoRoom
    <3> SUFFICES ASSUME NEW n \in DOMAIN L PROVE \E j \in L[n].items : When(i) <= When(j)
      BY <3>3
    <3>4. PICK p \in 1 .. k : w[p] \in L[n].items
      BY <3>3
    <3>5. p \in 1 .. N /\ (p < k \/ p = k)
      BY <1>1
    <3>6. When(w[k]) <= When(w[p])
      <4>1. CASE p < k
        BY <1>1, <3>5, <4>1 DEF IsReading
      <4>2. CASE p = k
        <5>1. When(w[k]) \in Nat
          BY <1>1 DEF IsReading
        <5> QED
          BY <4>2, <5>1
      <4> QED
        BY <3>5, <4>1, <4>2
    <3> QED
      BY <3>1, <3>4, <3>6
  <2> QED
    BY <2>3, <2>4
<1>11. Len(L) < limit => Whole(S) \subseteq OnShelf(L)
  BY <1>5, <1>10
<1>12. IsFiniteSet(Whole(S))
  <2> DEFINE h == [i \in S |-> OfEntry(S, EntryOf(i))]
  <2>1. IsFiniteSet(S)
    BY <1>1 DEF IsReading
  <2>2. Whole(S) = {h[x0] : x0 \in S}
    BY DEF Whole
  <2> HIDE DEF h
  <2> QED
    BY <2>1, <2>2, ImageIsFinite
<1>13. Cardinality(OnShelf(L)) = Len(L) /\ Len(L) = Min({limit, Cardinality(Whole(S))})
  <2> DEFINE n == Len(L)
             W == Whole(S)
  <2>1. /\ n \in Nat /\ DOMAIN L = 1 .. n /\ Len(L) = n /\ IsFiniteSet(W) /\ OnShelf(L) \subseteq W
        /\ limit \in Nat /\ n <= limit /\ (n < limit => W \subseteq OnShelf(L))
    BY <1>4, <1>5, <1>8, <1>11, <1>12
  <2> HIDE DEF n, W
  <2>2. Cardinality(OnShelf(L)) = Len(L) /\ Len(L) = Min({limit, Cardinality(W)})
    BY <1>9, <2>1, ShelfCounts
  <2> QED
    BY <2>2 DEF W
<1>14. ASSUME NEW E \in OnShelf(L), NEW F \in Whole(S) \ OnShelf(L)
       PROVE  Newest(E) >= Newest(F)
  <2>1. PICK n \in DOMAIN L : E = L[n].items
    BY DEF OnShelf
  <2>2. IsFiniteSet(E) /\ E # {} /\ E \subseteq S /\ IsFiniteSet(F) /\ F # {} /\ F \subseteq S
    BY <1>1, <1>6, <1>7, <1>10, <2>1, FS_Subset DEF IsReading
  <2>3. (\A i \in E : When(i) \in Nat) /\ \A i \in F : When(i) \in Nat
    BY <1>1, <2>2 DEF IsReading
  <2>4. PICK i \in F : Newest(F) = When(i)
    BY <2>2, <2>3, NewestIs
  <2>5. PICK j \in E : When(i) <= When(j)
    BY <1>10, <2>1
  <2>6. When(j) <= Newest(E) /\ Newest(E) \in Nat
    BY <2>2, <2>3, NewestIs
  <2> QED
    BY <2>3, <2>4, <2>5, <2>6
<1>15. OnShelf(L) = {recent(S, limit)[n].items : n \in DOMAIN recent(S, limit)}
  BY DEF OnShelf, L
<1>16. Whole(S) = {{i \in S : EntryOf(i) = e} : e \in {EntryOf(i) : i \in S}}
  BY DEF Whole, OfEntry
<1> QED
  BY <1>8, <1>13, <1>14, <1>15, <1>16 DEF ShelfIsWhole, Newest, L

-----------------------------------------------------------------------------
(* Streaks.                                                                  *)

(* The longest run is as long as any run of days, and no longer than there   *)
(* are days.                                                                 *)
LEMMA LongestRunIs ==
  ASSUME NEW days \in SUBSET Int, IsFiniteSet(days)
  PROVE  /\ LongestRun(days) \in Nat /\ LongestRun(days) <= Cardinality(days) /\ Cardinality(days) \in Nat
         /\ \A d, e \in days : d <= e /\ d..e \subseteq days => e - d + 1 <= LongestRun(days)
<1> DEFINE runs == {y \in days \X days : y[2] <= y[1] /\ y[2]..y[1] \subseteq days}
           lengths == {y[1] - y[2] + 1 : y \in runs}
           n == Cardinality(days)
<1>1. LongestRun(days) = Max({0} \cup lengths)
  BY DEF LongestRun
<1>2. n \in Nat
  BY FS_CardinalityType
<1>3. ASSUME NEW y \in runs PROVE y[1] - y[2] + 1 \in Nat /\ y[1] - y[2] + 1 <= n
  <2>1. y[1] \in Int /\ y[2] \in Int /\ y[2] <= y[1] /\ y[2]..y[1] \subseteq days
    OBVIOUS
  <2>2. Cardinality(y[2]..y[1]) = y[1] - y[2] + 1
    BY <2>1, FS_Interval
  <2>3. Cardinality(y[2]..y[1]) <= n
    BY <2>1, FS_Subset
  <2> QED
    BY <1>2, <2>1, <2>2, <2>3
<1>4. ASSUME NEW d \in days, NEW e \in days, d <= e, d..e \subseteq days PROVE e - d + 1 \in lengths
  <2>1. <<e, d>> \in runs
    BY <1>4
  <2>2. e - d + 1 = <<e, d>>[1] - <<e, d>>[2] + 1
    OBVIOUS
  <2> QED
    BY <2>1, <2>2
<1>5. lengths \in SUBSET Nat /\ \A k \in lengths : k <= n
  BY <1>3
<1> HIDE DEF lengths, n
<1>6. Max({0} \cup lengths) \in lengths \cup {0} /\ Max({0} \cup lengths) \in Nat /\ \A k \in lengths : k <= Max({0} \cup lengths)
  BY <1>2, <1>5, HighestIs
<1> QED
  BY <1>1, <1>2, <1>4, <1>5, <1>6 DEF n

(* The days that run up to `end` without a gap                               *)
RunTo(days, end) == {d \in days : d <= end /\ d..end \subseteq days}

(* are an interval.                                                          *)
LEMMA RunUpTo ==
  ASSUME NEW days \in SUBSET Nat, NEW end \in Int, RunTo(days, end) # {}
  PROVE  \E d \in days : d <= end /\ d..end \subseteq days /\ end \in days /\ Cardinality(RunTo(days, end)) = end - d + 1
<1> DEFINE run == RunTo(days, end)
<1>0. run = {d \in days : d <= end /\ d..end \subseteq days}
  BY DEF RunTo
<1> HIDE DEF run
<1>1. run \in SUBSET Nat /\ run # {}
  BY <1>0 DEF run
<1>2. PICK d \in run : \A e \in run : d <= e
  BY <1>1, LeastOf
<1>3. d \in Nat /\ d <= end /\ d..end \subseteq days /\ d \in days
  BY <1>0
<1>4. run \subseteq d..end
  <2> SUFFICES ASSUME NEW e \in run PROVE e \in d..end
    OBVIOUS
  <2>1. e \in Nat /\ e <= end /\ d <= e
    BY <1>0, <1>2
  <2> QED
    BY <1>3, <2>1
<1>5. ASSUME NEW e \in d..end PROVE e \in run
  <2>1. e..end \subseteq d..end /\ e \in days /\ e <= end
    BY <1>3
  <2> QED
    BY <1>0, <1>3, <2>1
<1>6. run = d..end
  BY <1>4, <1>5
<1>7. Cardinality(d..end) = end - d + 1
  BY <1>3, FS_Interval
<1>8. end \in days
  BY <1>3
<1> QED
  BY <1>3, <1>6, <1>7, <1>8 DEF run

(* The days somebody played something are finitely many.                     *)
LEMMA DaysAre ==
  ASSUME NEW R, IsTable(R)
  PROVE  LET days == {Day(r.start) : r \in R}
         IN  days \in SUBSET Nat /\ IsFiniteSet(days)
<1> DEFINE h == [r \in R |-> Day(r.start)]
<1>1. \A r \in R : Day(r.start) \in Nat
  <2> SUFFICES ASSUME NEW r \in R PROVE Day(r.start) \in Nat
    OBVIOUS
  <2>1. r.start \in Nat
    BY DEF IsTable, IsPlay
  <2>2. Day(0) \in Int /\ Day(r.start) \in Int /\ Day(0) <= Day(r.start)
    BY <2>1, DaysFollow
  <2>3. Day(0) = 0
    <3>1. Midnight(0) = 0 /\ Day(Midnight(0)) = 0
      BY DaysInOrder, PagesAssumption DEF Midnight
    <3> QED
      BY <3>1
  <2> QED
    BY <2>2, <2>3
<1>2. {Day(r.start) : r \in R} = {h[x0] : x0 \in R}
  OBVIOUS
<1>3. IsFiniteSet({h[x0] : x0 \in R})
  <2>1. IsFiniteSet(R)
    BY DEF IsTable
  <2> HIDE DEF h
  <2> QED
    BY <2>1, ImageIsFinite
<1> QED
  BY <1>1, <1>2, <1>3

(* An episode is seen or begun, and not both.                                *)
LEMMA ShowsAgree ==
  ASSUME NEW T, NEW marks, NEW w, NEW n \in DOMAIN user_shows(T, marks, w)
  PROVE  LET show == user_shows(T, marks, w)[n] IN show.seen + show.started <= show.total
<1> DEFINE Seasons(k) == [total |-> Cardinality(EpisodesOf(k)), seen |-> CountedIn(T, marks, w, k, "seen"),
                          started |-> CountedIn(T, marks, w, k, "started")]
           begun == {k \in {i \in DOMAIN Catalog : Catalog[i].type = "Series"} :
                       CountedIn(T, marks, w, k, "seen") + CountedIn(T, marks, w, k, "started") > 0}
           states == [k \in EpisodesOf(n) |-> EpisodeState(T, marks, w, k)]
           S == EpisodesOf(n)
           A == {e \in S : states[e] = "seen"}
           B == {e \in S : states[e] = "started"}
<1>1. user_shows(T, marks, w) = [k \in begun |-> Seasons(k)]
  BY DEF user_shows, CountedIn
<1>2. user_shows(T, marks, w)[n] = Seasons(n)
  <2> HIDE DEF begun, Seasons
  <2> QED
    BY <1>1
<1>3. CountedIn(T, marks, w, n, "seen") = Cardinality(A) /\ CountedIn(T, marks, w, n, "started") = Cardinality(B)
  BY DEF CountedIn
<1>4. A \in SUBSET S /\ B \in SUBSET S /\ A \cap B = {}
  OBVIOUS
<1>5. IsFiniteSet(S)
  <2>1. S \subseteq DOMAIN Catalog
    BY DEF EpisodesOf, Under
  <2> QED
    BY <2>1, ColumnsAssumption, FS_Subset
<1> HIDE DEF A, B, S
<1>6. /\ Cardinality(A) \in Nat /\ Cardinality(B) \in Nat /\ Cardinality(S) \in Nat
      /\ Cardinality(A \cup B) = Cardinality(A) + Cardinality(B) /\ Cardinality(A \cup B) <= Cardinality(S)
  BY <1>4, <1>5, TwoSidesCount
<1>7. Seasons(n).seen = Cardinality(A) /\ Seasons(n).started = Cardinality(B) /\ Seasons(n).total = Cardinality(S)
  BY <1>3 DEF S
<1> HIDE DEF Seasons
<1> QED
  BY <1>2, <1>6, <1>7

(* A streak is no longer than the longest one, every day of it was active,   *)
(* and a show has no more episodes seen and begun than episodes.             *)
LEMMA StreaksTellAll ==
  ASSUME TableInv, NEW who
  PROVE  StreaksAgree(who)
<1> DEFINE R == {r \in rows : r.user = who /\ r.duration_s >= MinPlay}
           day == DaysOf(rows, who)
           end == IF today \in day THEN today ELSE today - 1
           run == RunTo(day, end)
           s == streaks(rows, who)
<1>1. IsTable(R) /\ today \in Nat
  <2>1. IsTable(rows) /\ R \in SUBSET rows
    BY RowsAreTable DEF TableInv
  <2> HIDE DEF R
  <2> QED
    BY <2>1, TablePart DEF TableInv, RowsInv, PagesTypeOK
<1>2. day = {Day(r.start) : r \in R}
  BY DEF DaysOf
<1> HIDE DEF R
<1>3. day \in SUBSET Nat /\ IsFiniteSet(day)
  BY <1>1, <1>2, DaysAre
<1>4. s = [longest |-> LongestRun(day), current |-> Cardinality(run), active_days |-> Cardinality(day)]
  BY DEF streaks, RunTo
<1>5. s.longest = LongestRun(day) /\ s.current = Cardinality(run) /\ s.active_days = Cardinality(day)
  BY <1>4
<1> HIDE DEF s, day
<1>6. /\ LongestRun(day) \in Nat /\ LongestRun(day) <= Cardinality(day) /\ Cardinality(day) \in Nat
      /\ \A d, e \in day : d <= e /\ d..e \subseteq day => e - d + 1 <= LongestRun(day)
  <2>1. day \in SUBSET Int
    BY <1>3
  <2> QED
    BY <1>3, <2>1, LongestRunIs
<1>7. end \in {today, today - 1} /\ end \in Int
  BY <1>1
<1> HIDE DEF end
<1>8. /\ s.current <= s.longest /\ s.longest <= s.active_days
      /\ s.current > 0 => \E d \in {today, today - 1} : d - s.current + 1..d \subseteq day
  <2>1. CASE run = {}
    <3>1. Cardinality(run) = 0
      BY <2>1, FS_EmptySet
    <3> QED
      BY <1>5, <1>6, <3>1
  <2>2. CASE run # {}
    <3>1. PICK d \in day : d <= end /\ d..end \subseteq day /\ end \in day /\ Cardinality(run) = end - d + 1
      BY <1>3, <1>7, <2>2, RunUpTo
    <3>2. end - d + 1 <= LongestRun(day)
      BY <1>6, <3>1
    <3>3. d \in Nat /\ end - s.current + 1 = d
      BY <1>3, <1>5, <1>7, <3>1
    <3> HIDE DEF run
    <3> QED
      BY <1>5, <1>6, <1>7, <3>1, <3>2, <3>3
  <2> QED
    BY <2>1, <2>2
<1>9. \A n \in DOMAIN user_shows(rows, manual_seen, who) :
         LET show == user_shows(rows, manual_seen, who)[n] IN show.seen + show.started <= show.total
  BY ShowsAgree
<1> QED
  <2>1. StreaksAgree(who) <=>
          /\ s.current <= s.longest /\ s.longest <= s.active_days
          /\ s.current > 0 => \E d \in {today, today - 1} : d - s.current + 1..d \subseteq day
          /\ \A n \in DOMAIN user_shows(rows, manual_seen, who) :
               LET show == user_shows(rows, manual_seen, who)[n] IN show.seen + show.started <= show.total
    BY DEF StreaksAgree, s, day
  <2> HIDE DEF run, end
  <2> QED
    BY <1>8, <1>9, <2>1, Zenon

-----------------------------------------------------------------------------
(* Evenings.                                                                 *)

(* What is nowhere below 0 adds up to no less than any of it.                *)
LEMMA SumIsLeast ==
  ASSUME NEW S, IsFiniteSet(S), NEW f \in [S -> Nat], NEW n, IsSum(f, S, n)
  PROVE  n \in Nat /\ \A y0 \in S : f[y0] <= n
<1>0. f \in [S -> Int]
  OBVIOUS
<1>1. PICK sums : AreSums(f, S, sums) /\ n = sums[S]
  BY DEF IsSum
<1>2. AddUp(f, S, sums)
  BY <1>0, <1>1, SumsAre
<1> DEFINE T == {j \in Nat : \A R \in SUBSET S : Cardinality(R) = j => sums[R] \in Nat}
<1>3. 0 \in T
  <2> SUFFICES ASSUME NEW R \in SUBSET S, Cardinality(R) = 0 PROVE sums[R] \in Nat
    OBVIOUS
  <2>1. R = {}
    BY PartsAreFinite
  <2> QED
    BY <1>2, <2>1 DEF AddUp
<1>4. ASSUME NEW j \in Nat, j \in T
      PROVE  j + 1 \in T
  <2> SUFFICES ASSUME NEW R \in SUBSET S, Cardinality(R) = j + 1 PROVE sums[R] \in Nat
    OBVIOUS
  <2>1. PICK y0 \in R : TRUE
    BY PartsAreFinite
  <2>2. R \ {y0} \in SUBSET S /\ Cardinality(R \ {y0}) = j
    BY PartsAreFinite
  <2>3. sums[R \ {y0}] \in Nat
    BY <1>4, <2>2
  <2>4. sums[R] = f[y0] + sums[R \ {y0}] /\ f[y0] \in Nat
    BY <1>2 DEF AddUp
  <2> QED
    BY <2>3, <2>4
<1> HIDE DEF T
<1>5. Nat \subseteq T
  BY <1>3, <1>4, NatByStep
<1>6. \A R \in SUBSET S : sums[R] \in Nat
  BY <1>5, PartsAreFinite DEF T
<1>7. ASSUME NEW y0 \in S PROVE f[y0] <= n
  <2>1. sums[S] = f[y0] + sums[S \ {y0}] /\ sums[S \ {y0}] \in Nat /\ f[y0] \in Nat
    BY <1>2, <1>6 DEF AddUp
  <2> QED
    BY <1>1, <2>1
<1> QED
  BY <1>1, <1>6, <1>7

(* No play is longer than all of them.                                       *)
LEMMA SecondsHold ==
  ASSUME NEW R, IsTable(R)
  PROVE  Seconds(R) \in Nat /\ \A r \in R : r.duration_s <= Seconds(R)
<1> DEFINE f == [r \in R |-> r.duration_s]
<1>1. IsFiniteSet(R) /\ \A r \in R : r.duration_s \in Nat /\ r.duration_s \in Int
  BY DEF IsTable, IsPlay
<1>2. f \in [R -> Nat] /\ \A r \in R : f[r] = r.duration_s
  BY <1>1
<1>3. IsSum(f, R, Seconds(R))
  BY <1>1, SecondsIs
<1> HIDE DEF f
<1> QED
  BY <1>1, <1>2, <1>3, SumIsLeast

(* t comes after the one and not after the other.                            *)
Amid(t, r, p) == (r.start < t /\ t <= p.start) \/ (p.start < t /\ t <= r.start)

(* Two plays are chained when none of the times amid them is far from a      *)
(* start.                                                                    *)
LEMMA ChainedIs ==
  ASSUME NEW S, NEW r, NEW p, r.start \in Nat, p.start \in Nat
  PROVE  Chained(S, r, p) <=> \A t \in Nat : Amid(t, r, p) => \E y0 \in S : t - GroupWindow <= y0.start /\ y0.start < t
<1> DEFINE Q == {r.start, p.start}
           low == Min(Q)
           high == Max(Q)
           Near(t) == \E y0 \in S : t - GroupWindow <= y0.start /\ y0.start < t
<1>1. Q \in SUBSET Nat /\ Q # {}
  OBVIOUS
<1>2. \A k \in Q : k <= r.start + p.start
  OBVIOUS
<1>3. low \in Q /\ high \in Q /\ \A k \in Q : low <= k /\ high >= k
  <2>1. r.start + p.start \in Nat
    OBVIOUS
  <2> DEFINE n == r.start + p.start
  <2> HIDE DEF Q, n
  <2>2. n \in Nat /\ \A k \in Q : k <= n
    BY <1>2, <2>1 DEF n
  <2> QED
    BY <1>1, <2>2, SmallestOf, GreatestOf
<1>4. Chained(S, r, p) <=> \A t \in low + 1..high : Near(t)
  BY DEF Chained
<1> HIDE DEF low, high, Near
<1>5. \A t : t \in low + 1..high <=> t \in Nat /\ Amid(t, r, p)
  BY <1>3 DEF Amid
<1>6. (\A t \in low + 1..high : Near(t)) <=> \A t \in Nat : Amid(t, r, p) => Near(t)
  BY <1>5
<1> QED
  BY <1>4, <1>6 DEF Near

(* To be chained is an equivalence, so the chain of a play is that of every  *)
(* play in it.                                                               *)
LEMMA OneChain ==
  ASSUME NEW T, IsTable(T), NEW r \in T
  PROVE  /\ r \in Chain(T, r)
         /\ \A p \in Chain(T, r) : p \in T /\ p.item = r.item /\ Chain(T, p) = Chain(T, r)
<1> DEFINE SameItem(p) == {y0 \in T : y0.item = p.item}
<1>0. \A p \in T : p.start \in Nat
  BY DEF IsTable, IsPlay
<1>1. \A p \in T : Chain(T, p) = {q \in SameItem(p) : Chained(SameItem(p), p, q)}
  BY DEF Chain
<1>2. \A p \in T, q \in T, y0 \in T, t \in Nat : /\ ~Amid(t, p, p)
                                                 /\ Amid(t, p, q) <=> Amid(t, q, p)
                                                 /\ Amid(t, p, q) => Amid(t, p, y0) \/ Amid(t, y0, q)
  BY <1>0 DEF Amid
<1>3. \A p \in T, q \in T, y0 \in T : \A S : /\ Chained(S, p, p)
                                             /\ Chained(S, p, q) <=> Chained(S, q, p)
                                             /\ Chained(S, p, y0) /\ Chained(S, y0, q) => Chained(S, p, q)
  <2> SUFFICES ASSUME NEW p \in T, NEW q \in T, NEW y0 \in T, NEW S
               PROVE  /\ Chained(S, p, p)
                      /\ Chained(S, p, q) <=> Chained(S, q, p)
                      /\ Chained(S, p, y0) /\ Chained(S, y0, q) => Chained(S, p, q)
    OBVIOUS
  <2> DEFINE Near(t) == \E z0 \in S : t - GroupWindow <= z0.start /\ z0.start < t
  <2>1. p.start \in Nat /\ q.start \in Nat /\ y0.start \in Nat
    BY <1>0
  <2>2. /\ Chained(S, p, p) <=> \A t \in Nat : Amid(t, p, p) => Near(t)
        /\ Chained(S, p, q) <=> \A t \in Nat : Amid(t, p, q) => Near(t)
        /\ Chained(S, q, p) <=> \A t \in Nat : Amid(t, q, p) => Near(t)
        /\ Chained(S, p, y0) <=> \A t \in Nat : Amid(t, p, y0) => Near(t)
        /\ Chained(S, y0, q) <=> \A t \in Nat : Amid(t, y0, q) => Near(t)
    BY <2>1, ChainedIs
  <2> HIDE DEF Near
  <2> QED
    BY <1>2, <2>2
<1>4. r \in Chain(T, r)
  BY <1>1, <1>3
<1>5. ASSUME NEW p \in Chain(T, r) PROVE p \in T /\ p.item = r.item /\ Chain(T, p) = Chain(T, r)
  <2>1. p \in T /\ p.item = r.item /\ SameItem(p) = SameItem(r) /\ Chained(SameItem(r), r, p)
    BY <1>1
  <2>2. \A q \in SameItem(r) : Chained(SameItem(r), r, q) <=> Chained(SameItem(r), p, q)
    BY <1>3, <2>1
  <2>3. Chain(T, p) = {q \in SameItem(r) : Chained(SameItem(r), p, q)}
    BY <1>1, <2>1
  <2>4. Chain(T, r) = {q \in SameItem(r) : Chained(SameItem(r), r, q)}
    BY <1>1
  <2> QED
    BY <2>1, <2>2, <2>3, <2>4
<1> QED
  BY <1>4, <1>5

(* Who overlaps with somebody is overlapped with.                            *)
LEMMA OverlapsBoth ==
  ASSUME NEW r, NEW p
  PROVE  Overlaps(r, p) <=> Overlaps(p, r)
<1>1. {r.end, p.end} = {p.end, r.end} /\ {r.start, p.start} = {p.start, r.start}
  OBVIOUS
<1> QED
  BY <1>1 DEF Overlaps

(* Who is in a group is in it beside somebody else.                          *)
LEMMA GroupIsShared ==
  ASSUME NEW T, IsTable(T), NEW r \in T, GroupOf(T, r) # Null
  PROVE  \E p \in T : /\ p.user # r.user /\ r.item = p.item /\ Overlaps(r, p) /\ GroupOf(T, p) = GroupOf(T, r)
<1> DEFINE C == Chain(T, r)
<1>1. r \in Company(C) /\ GroupOf(T, r) = Min(Ids(Company(C)))
  BY DEF GroupOf
<1>2. PICK p \in C : p.user # r.user /\ Overlaps(r, p)
  BY <1>1 DEF Company
<1>3. r \in C /\ p \in T /\ p.item = r.item /\ Chain(T, p) = C
  BY OneChain
<1>4. Overlaps(p, r)
  BY <1>2, OverlapsBoth
<1> HIDE DEF C
<1>5. p \in Company(C)
  BY <1>2, <1>3, <1>4 DEF Company
<1>6. GroupOf(T, p) = Min(Ids(Company(C)))
  BY <1>3, <1>5 DEF GroupOf
<1> QED
  BY <1>1, <1>2, <1>3, <1>6

(* At least two of two or more stay as long as the second longest.           *)
LEMMA TwoStay ==
  ASSUME NEW session, IsFiniteSet(DOMAIN session), Cardinality(DOMAIN session) >= 2,
         \A w \in DOMAIN session : session[w].watch_s \in Nat
  PROVE  Cardinality({w \in DOMAIN session : session[w].watch_s >= Together(session)}) >= 2
<1> DEFINE D == DOMAIN session
           h == [w \in D |-> session[w].watch_s]
           Stay(n) == {w \in D : session[w].watch_s >= n}
           second == {w \in D : Cardinality(Stay(session[w].watch_s)) >= 2}
           Q == {session[w].watch_s : w \in second}
<1>1. Together(session) = Max({0} \cup Q)
  BY DEF Together
<1>2. IsFiniteSet({h[x0] : x0 \in D})
  <2> HIDE DEF h
  <2> QED
    BY ImageIsFinite
<1>3. Q \in SUBSET Nat /\ Q \subseteq {h[x0] : x0 \in D}
  OBVIOUS
<1>4. IsFiniteSet(Q)
  BY <1>2, <1>3, FS_Subset
<1>5. \A n \in Q : Cardinality(Stay(n)) >= 2
  OBVIOUS
<1>6. Stay(0) = D
  OBVIOUS
<1> HIDE DEF Q, Stay
<1>7. PICK k \in Nat : \A n \in Q : n <= k
  BY <1>3, <1>4, BoundOf
<1>8. Max({0} \cup Q) \in Q \cup {0}
  BY <1>3, <1>7, HighestIs
<1>9. Cardinality(Stay(Together(session))) >= 2
  BY <1>1, <1>5, <1>6, <1>8
<1> QED
  BY <1>9 DEF Stay

(* Two who are not the same are two.                                         *)
LEMMA TwoAreTwo ==
  ASSUME NEW S, IsFiniteSet(S), NEW y0 \in S, NEW z0 \in S, y0 # z0
  PROVE  Cardinality(S) >= 2 /\ Cardinality(S) \in Nat
<1>1. IsFiniteSet({y0}) /\ Cardinality({y0}) = 1 /\ z0 \notin {y0}
  BY FS_Singleton
<1>2. IsFiniteSet({y0} \cup {z0}) /\ Cardinality({y0} \cup {z0}) = 2
  BY <1>1, FS_AddElement
<1>3. {y0} \cup {z0} \in SUBSET S
  OBVIOUS
<1>4. Cardinality({y0} \cup {z0}) <= Cardinality(S)
  BY <1>3, FS_Subset
<1> QED
  BY <1>2, <1>4, FS_CardinalityType

(* The plays of a group,                                                     *)
InGroup(T, n) == {r \in T : GroupOf(T, r) = n}

(* which a page of evenings shows whole.                                     *)
LEMMA EveningIs ==
  ASSUME NEW T, NEW v \in Readers,
         NEW n \in DOMAIN groups(T, v, [days |-> 0, user_id |-> Null, library_id |-> Null])
  PROVE  LET page == groups(T, v, [days |-> 0, user_id |-> Null, library_id |-> Null])
         IN  /\ page[n] = PerUser(InGroup(T, n)) /\ n # Null /\ InGroup(T, n) # {}
             /\ v.see_everyone \/ \E r \in InGroup(T, n) : r.user = v.id
<1> DEFINE q == [days |-> 0, user_id |-> Null, library_id |-> Null]
           s == Scope(v, q)
           grouped == {r \in T : GroupOf(T, r) # Null}
           mine == {GroupOf(T, r) : r \in {y0 \in grouped : s.user_id # Null => y0.user = s.user_id}}
           shown == {r \in grouped : /\ GroupOf(T, r) \in mine
                                     /\ s.since # Null => r.start >= s.since
                                     /\ s.library_id # Null => r.library = s.library_id}
           page == groups(T, v, q)
           Here(k) == {r \in shown : GroupOf(T, r) = k}
<1>1. page = [k \in {GroupOf(T, r) : r \in shown} |-> PerUser(Here(k))]
  BY DEF groups
<1>2. s.user_id = pinned_user(v, Null) /\ s.since = Null /\ s.library_id = Null
  BY DEF Scope
<1> HIDE DEF s
<1>3. shown = {r \in grouped : GroupOf(T, r) \in mine}
  BY <1>2
<1>4. \E r \in shown : n = GroupOf(T, r)
  <2> HIDE DEF shown, Here
  <2> QED
    BY <1>1
<1>5. n # Null /\ n \in mine
  BY <1>3, <1>4
<1>6. Here(n) = InGroup(T, n)
  BY <1>3, <1>5 DEF InGroup
<1>7. page[n] = PerUser(Here(n))
  <2> HIDE DEF shown, Here
  <2> QED
    BY <1>1, <1>4
<1>8. PICK r \in T : GroupOf(T, r) = n /\ (s.user_id # Null => r.user = s.user_id)
  BY <1>5
<1>9. r \in InGroup(T, n)
  BY <1>8 DEF InGroup
<1>10. v.see_everyone \/ r.user = v.id
  <2>1. CASE v.see_everyone
    BY <2>1
  <2>2. CASE ~v.see_everyone
    <3>1. v.id \in Accounts
      BY DEF Readers
    <3>2. s.user_id = v.id /\ v.id # Null
      BY <1>2, <2>2, <3>1, PagesAssumption DEF pinned_user
    <3> QED
      BY <1>8, <3>2
  <2> QED
    BY <2>1, <2>2
<1> HIDE DEF page, Here, mine, shown, grouped
<1>11. n # Null
  BY <1>5
<1> QED
  BY <1>6, <1>7, <1>9, <1>10, <1>11 DEF page

(* An evening is at least two people, each beside somebody else, two of whom *)
(* were there as long as it lasted (`groups`).                               *)
LEMMA EveningsTellAll ==
  ASSUME TableInv, NEW v \in Readers
  PROVE  EveningsAgree(v)
<1> DEFINE q == [days |-> 0, user_id |-> Null, library_id |-> Null]
           page == groups(rows, v, q)
<1>0. IsTable(rows)
  BY RowsAreTable DEF TableInv
<1> SUFFICES ASSUME NEW n \in DOMAIN page
             PROVE  /\ Cardinality(DOMAIN page[n]) >= 2
                    /\ v.see_everyone \/ v.id \in DOMAIN page[n]
                    /\ \A w \in DOMAIN page[n] : \E r, p \in rows :
                         /\ r.user = w /\ p.user \in DOMAIN page[n] \ {w} /\ r.item = p.item /\ Overlaps(r, p)
                         /\ GroupOf(rows, r) = n /\ GroupOf(rows, p) = n
                    /\ Cardinality({w \in DOMAIN page[n] : page[n][w].watch_s >= Together(page[n])}) >= 2
  BY DEF EveningsAgree
<1> DEFINE G == InGroup(rows, n)
           D == {r.user : r \in G}
<1>1. /\ page[n] = PerUser(G) /\ n # Null /\ G # {}
      /\ v.see_everyone \/ \E r \in G : r.user = v.id
  BY EveningIs
<1> HIDE DEF page
<1>2. IsTable(G) /\ G \in SUBSET rows /\ \A r \in G : GroupOf(rows, r) = n
  <2>1. G \in SUBSET rows /\ \A r \in G : GroupOf(rows, r) = n
    BY DEF InGroup
  <2> HIDE DEF G
  <2> QED
    BY <1>0, <2>1, TablePart
<1>3. DOMAIN page[n] = D
  BY <1>1 DEF PerUser
<1>4. ASSUME NEW r \in G
      PROVE  \E p \in G : p.user # r.user /\ r.item = p.item /\ Overlaps(r, p)
  <2>1. r \in rows /\ GroupOf(rows, r) = n
    BY <1>2
  <2>2. PICK p \in rows : p.user # r.user /\ r.item = p.item /\ Overlaps(r, p) /\ GroupOf(rows, p) = GroupOf(rows, r)
    BY <1>0, <1>1, <2>1, GroupIsShared
  <2>3. p \in G
    BY <2>1, <2>2 DEF InGroup
  <2> QED
    BY <2>2, <2>3
<1> HIDE DEF G
<1>5. IsFiniteSet(D)
  <2> DEFINE h == [r \in G |-> r.user]
  <2>1. IsFiniteSet(G) /\ D = {h[x0] : x0 \in G}
    BY <1>2 DEF IsTable
  <2> HIDE DEF h, D
  <2> QED
    BY <2>1, ImageIsFinite
<1>6. Cardinality(D) >= 2
  <2>1. PICK r \in G : TRUE
    BY <1>1
  <2>2. PICK p \in G : p.user # r.user
    BY <1>4
  <2>3. r.user \in D /\ p.user \in D
    OBVIOUS
  <2> HIDE DEF D
  <2> QED
    BY <1>5, <2>2, <2>3, TwoAreTwo
<1>7. ASSUME NEW w \in D
      PROVE  \E r, p \in rows : /\ r.user = w /\ p.user \in D \ {w} /\ r.item = p.item /\ Overlaps(r, p)
                                /\ GroupOf(rows, r) = n /\ GroupOf(rows, p) = n
  <2>1. PICK r \in G : r.user = w
    OBVIOUS
  <2>2. PICK p \in G : p.user # r.user /\ r.item = p.item /\ Overlaps(r, p)
    BY <1>4
  <2>3. r \in rows /\ p \in rows /\ p.user \in D \ {w} /\ GroupOf(rows, r) = n /\ GroupOf(rows, p) = n
    BY <1>2, <2>1, <2>2
  <2> QED
    BY <2>1, <2>2, <2>3
<1>8. \A w \in D : page[n][w].watch_s \in Nat
  <2> SUFFICES ASSUME NEW w \in D PROVE page[n][w].watch_s \in Nat
    OBVIOUS
  <2> DEFINE R == {r \in G : r.user = w}
  <2>1. page[n][w].watch_s = Seconds(R)
    BY <1>1 DEF PerUser, Tally
  <2>2. R \in SUBSET G
    OBVIOUS
  <2> HIDE DEF R
  <2>3. IsTable(R)
    BY <1>2, <2>2, TablePart
  <2> QED
    BY <2>1, <2>3, SecondsHold
<1> DEFINE session == page[n]
<1>9. Cardinality({w \in D : session[w].watch_s >= Together(session)}) >= 2
  <2>1. DOMAIN session = D
    BY <1>3
  <2> HIDE DEF session, D
  <2>2. \A w \in D : session[w].watch_s \in Nat
    BY <1>8 DEF session
  <2>3. IsFiniteSet(DOMAIN session) /\ Cardinality(DOMAIN session) >= 2 /\ \A w \in DOMAIN session : session[w].watch_s \in Nat
    BY <1>5, <1>6, <2>1, <2>2
  <2>4. Cardinality({w \in DOMAIN session : session[w].watch_s >= Together(session)}) >= 2
    BY <2>3, TwoStay
  <2> QED
    BY <2>1, <2>4
<1>10. v.see_everyone \/ v.id \in D
  BY <1>1
<1> HIDE DEF D
<1> QED
  BY <1>3, <1>6, <1>7, <1>9, <1>10

-----------------------------------------------------------------------------
(* The year in review.                                                       *)

(* A quotient is at least q when the number holds q of the divisor.          *)
LEMMA QuotientIs ==
  ASSUME NEW n \in Nat \ {0}, NEW t \in Int, NEW q \in Int
  PROVE  t \div n \in Int /\ q * n \in Int /\ (q <= t \div n <=> q * n <= t)
<1> DEFINE k == t \div n
           s == t % n
<1>1. k \in Int /\ s \in Int /\ 0 <= s /\ s < n /\ t = n * k + s
  BY Division
<1> HIDE DEF k, s
<1>2. /\ n * q \in Int /\ n * k \in Int /\ (k < q => n * k + n <= n * q) /\ (q <= k <=> n * q <= n * k)
  BY <1>1, Multiples
<1>3. q * n = n * q
  OBVIOUS
<1>4. q <= k <=> n * q <= t
  BY <1>1, <1>2
<1> QED
  BY <1>1, <1>2, <1>3, <1>4 DEF k

(* A year begins with its first month,                                       *)
LEMMA YearIs ==
  ASSUME NEW t \in Int, NEW y \in Int
  PROVE  /\ Year(Day(t)) \in Int /\ FirstOf(y * YearLength) \in Int
         /\ FirstOf(y * YearLength) <= t <=> y <= Year(Day(t))
<1>1. YearLength \in Nat \ {0} /\ MonthLength \in Nat \ {0}
  BY StoriesAssumption, PagesAssumption
<1> DEFINE d == Day(t)
           m0 == Month(d)
           k == y * YearLength
           n == k * MonthLength
<1>2. d \in Int
  BY DaysInOrder
<1>3. Month(d) = d \div MonthLength /\ Year(d) = m0 \div YearLength
  BY DEF Month, Year
<1> HIDE DEF d, m0, k, n
<1>4. m0 \in Int
  BY <1>1, <1>2, <1>3, QuotientIs DEF m0
<1>5. Year(d) \in Int /\ k \in Int /\ (y <= Year(d) <=> k <= m0)
  BY <1>1, <1>3, <1>4, QuotientIs DEF k
<1>6. n \in Int /\ (k <= m0 <=> n <= d)
  BY <1>1, <1>2, <1>3, <1>5, QuotientIs DEF n, m0
<1>7. Midnight(n) \in Int /\ (n <= d <=> Midnight(n) <= t)
  BY <1>6, DaysInOrder DEF d
<1>8. FirstOf(k) = Midnight(n)
  BY DEF FirstOf, n
<1> QED
  BY <1>5, <1>6, <1>7, <1>8 DEF d, k

(* and ends where the next begins.                                           *)
LEMMA YearHolds ==
  ASSUME NEW t \in Int, NEW y \in Int
  PROVE  FirstOf(y * YearLength) <= t /\ t < FirstOf((y + 1) * YearLength) <=> Year(Day(t)) = y
<1>1. y + 1 \in Int
  OBVIOUS
<1>2. Year(Day(t)) \in Int /\ FirstOf(y * YearLength) \in Int /\ (FirstOf(y * YearLength) <= t <=> y <= Year(Day(t)))
  BY YearIs
<1>3. FirstOf((y + 1) * YearLength) \in Int /\ (FirstOf((y + 1) * YearLength) <= t <=> y + 1 <= Year(Day(t)))
  BY <1>1, YearIs
<1> QED
  BY <1>2, <1>3

(* The lesser of two is one of them, and no more than either.                *)
LEMMA LesserIs ==
  ASSUME NEW s0 \in Int, NEW t0 \in Int
  PROVE  Min({s0, t0}) \in {s0, t0} /\ Min({s0, t0}) <= s0 /\ Min({s0, t0}) <= t0
<1>1. \E k \in {s0, t0} : \A n \in {s0, t0} : k =< n
  OBVIOUS
<1> QED
  BY <1>1 DEF Min

(* The years of a table are finitely many, and the default is a year.        *)
LEMMA DefaultIsYear ==
  ASSUME NEW P, IsTable(P), today \in Nat
  PROVE  LET years == {Year(Day(r.start)) : r \in P}
         IN  IsFiniteSet(years) /\ years \in SUBSET Nat /\ default_year(today, years) \in Int
<1> DEFINE h == [r \in P |-> Year(Day(r.start))]
           years == {Year(Day(r.start)) : r \in P}
<1>1. IsFiniteSet(years)
  <2>1. IsFiniteSet(P) /\ years = {h[x0] : x0 \in P}
    BY DEF IsTable
  <2> HIDE DEF h, years
  <2> QED
    BY <2>1, ImageIsFinite
<1>2. \A t \in Nat : Year(Day(t)) \in Nat
  <2> SUFFICES ASSUME NEW t \in Nat PROVE Year(Day(t)) \in Nat
    OBVIOUS
  <2>1. Year(Day(t)) \in Int /\ (FirstOf(0 * YearLength) <= t <=> 0 <= Year(Day(t)))
    BY YearIs
  <2>2. FirstOf(0 * YearLength) = 0
    BY StoriesAssumption, PagesAssumption DEF FirstOf, Midnight
  <2> QED
    BY <2>1, <2>2
<1>3. \A r \in P : r.start \in Nat
  BY DEF IsTable, IsPlay
<1>4. years \in SUBSET Nat
  BY <1>2, <1>3
<1>5. Month(today) \in Int
  BY MonthsInOrder
<1>6. Year(today) \in Int
  <2>1. YearLength \in Nat \ {0}
    BY StoriesAssumption
  <2>2. Year(today) = Month(today) \div YearLength
    BY DEF Year
  <2> QED
    BY <1>5, <2>1, <2>2, Division
<1> HIDE DEF years
<1>7. years # {} => Max(years) \in years
  <2> SUFFICES ASSUME years # {} PROVE Max(years) \in years
    OBVIOUS
  <2>1. PICK n \in Nat : \A k \in years : k <= n
    BY <1>1, <1>4, BoundOf
  <2> QED
    BY <1>4, <2>1, GreatestOf
<1>8. default_year(today, years) \in {Year(today), Year(today) - 1} \/ (years # {} /\ default_year(today, years) = Max(years))
  BY DEF default_year
<1>9. default_year(today, years) \in Int
  <2>1. CASE default_year(today, years) \in {Year(today), Year(today) - 1}
    BY <1>6, <2>1
  <2>2. CASE years # {} /\ default_year(today, years) = Max(years)
    <3>1. Max(years) \in Nat
      BY <1>4, <1>7, <2>2
    <3> QED
      BY <2>2, <3>1
  <2> QED
    BY <1>8, <2>1, <2>2
<1> QED
  BY <1>1, <1>4, <1>9 DEF years

(* Seconds add up, however the plays are divided.                            *)
LEMMA SecondsOfParts ==
  ASSUME NEW R, IsTable(R), NEW I, IsFiniteSet(I), NEW cls \in [R -> I]
  PROVE  SumAt([i \in I |-> Seconds({r \in R : cls[r] = i})], I) = Seconds(R)
<1> DEFINE f == [i \in I |-> Seconds({r \in R : cls[r] = i})]
           secs == [r \in R |-> r.duration_s]
<1>1. IsFiniteSet(R) /\ \A r \in R : r.duration_s \in Int
  BY DEF IsTable, IsPlay
<1>2. secs \in [R -> Int] /\ IsSum(secs, R, Seconds(R))
  BY <1>1, SecondsIs
<1>3. ASSUME NEW i \in I
      PROVE  LET Q == Classed(R, cls, {i})
             IN  f[i] \in Int /\ IsSum([x0 \in Q |-> secs[x0]], Q, f[i])
  <2> DEFINE Q == Classed(R, cls, {i})
  <2>1. Q \in SUBSET R /\ f[i] = Seconds(Q)
    <3>1. Q = {r \in R : cls[r] = i}
      BY DEF Classed
    <3> QED
      BY <3>1
  <2> HIDE DEF Q, f
  <2>2. IsTable(Q)
    BY <2>1, TablePart
  <2>3. IsFiniteSet(Q) /\ (\A r \in Q : r.duration_s \in Int) /\ Seconds(Q) \in Nat
    BY <2>2, SecondsHold DEF IsTable, IsPlay
  <2>4. IsSum([x0 \in Q |-> x0.duration_s], Q, f[i])
    BY <2>1, <2>3, SecondsIs
  <2>5. [x0 \in Q |-> x0.duration_s] = [x0 \in Q |-> secs[x0]]
    BY <2>1
  <2>6. f[i] \in Int
    BY <2>1, <2>3
  <2> HIDE DEF secs
  <2> QED
    BY <2>4, <2>5, <2>6 DEF Q
<1> HIDE DEF secs
<1>4. PartSums(R, secs, I, cls, f)
  BY <1>3 DEF PartSums
<1>5. f \in [I -> Int]
  BY <1>3
<1> HIDE DEF f
<1>6. IsSum(f, I, SumAt(f, I))
  BY <1>5, TotalIs
<1>7. Seconds(R) = SumAt(f, I)
  BY <1>1, <1>2, <1>4, <1>5, <1>6, SumOfParts
<1> QED
  BY <1>7 DEF f

(* Every play of a period is in one of its months that has begun,            *)
LEMMA MonthsTellAll ==
  ASSUME NEW R, IsTable(R), NEW period, period.from \in Int, period.to \in Int, today \in Nat,
         \A r \in R : In(r, period) /\ Day(r.start) <= today
  PROVE  SumOf(months(R, period)) = Tally(R)
<1> DEFINE last == Min({Day(period.to - 1), today})
           I == Month(Day(period.from))..Month(last)
           cls == [r \in R |-> Month(Day(r.start))]
<1>1. period.to - 1 \in Int
  OBVIOUS
<1>2. Day(period.from) \in Int /\ Day(period.to - 1) \in Int /\ today \in Int
  BY <1>1, DaysInOrder
<1>3. last \in {Day(period.to - 1), today}
  BY <1>2, LesserIs
<1>4. last \in Int
  BY <1>2, <1>3
<1> HIDE DEF last
<1>5. ASSUME NEW r \in R PROVE Month(Day(r.start)) \in I
  <2>1. r.start \in Nat /\ period.from <= r.start /\ r.start <= period.to - 1 /\ Day(r.start) <= today
    BY DEF IsTable, IsPlay, In
  <2>2. Day(r.start) \in Int /\ Day(period.from) <= Day(r.start)
    BY <2>1, DaysFollow
  <2>3. Day(r.start) <= Day(period.to - 1)
    BY <1>1, <2>1, DaysFollow
  <2>4. Day(r.start) <= last
    BY <1>3, <2>1, <2>3
  <2>5. Month(Day(period.from)) \in Int /\ Month(Day(r.start)) \in Int /\ Month(Day(period.from)) <= Month(Day(r.start))
    BY <1>2, <2>2, MonthsInOrder
  <2>6. Month(last) \in Int /\ Month(Day(r.start)) <= Month(last)
    BY <1>4, <2>2, <2>4, MonthsInOrder
  <2> QED
    BY <2>5, <2>6
<1>6. Month(Day(period.from)) \in Int /\ Month(last) \in Int
  <2>1. Day(period.from) <= Day(period.from) /\ last <= last
    BY <1>2, <1>4
  <2> QED
    BY <1>2, <1>4, <2>1, MonthsInOrder
<1>7. IsFiniteSet(I)
  BY <1>6, FS_Interval
<1>8. cls \in [R -> I] /\ \A r \in R : cls[r] = Month(Day(r.start))
  BY <1>5
<1>9. months(R, period) = [k \in I |-> Tally({r \in R : cls[r] = k})]
  <2>1. months(R, period) = [k \in I |-> Tally({r \in R : Month(Day(r.start)) = k})]
    BY DEF months, last
  <2>2. \A k : {r \in R : Month(Day(r.start)) = k} = {r \in R : cls[r] = k}
    BY <1>8
  <2> HIDE DEF I, cls
  <2> QED
    BY <2>1, <2>2
<1> HIDE DEF I, cls
<1> QED
  BY <1>7, <1>8, <1>9, ClassesTellAll

(* on one of its days,                                                       *)
DaysIn(R) == {Day(r.start) : r \in R}
OnDay(R, d) == {r \in R : Day(r.start) = d}

(* so that the days add up to it,                                            *)
LEMMA DaysTellAll ==
  ASSUME NEW R, IsTable(R)
  PROVE  SumOf([d \in DaysIn(R) |-> Tally(OnDay(R, d))]) = Tally(R)
<1> DEFINE I == DaysIn(R)
           cls == [r \in R |-> Day(r.start)]
<1>1. cls \in [R -> I] /\ \A d : OnDay(R, d) = {r \in R : cls[r] = d}
  BY DEF DaysIn, OnDay
<1>2. IsFiniteSet(I)
  BY DaysAre DEF DaysIn
<1>3. [d \in I |-> Tally(OnDay(R, d))] = [d \in I |-> Tally({r \in R : cls[r] = d})]
  <2> HIDE DEF I, cls
  <2> QED
    BY <1>1
<1> HIDE DEF I, cls
<1>4. SumOf([d \in I |-> Tally({r \in R : cls[r] = d})]) = Tally(R)
  BY <1>1, <1>2, ClassesTellAll
<1> QED
  BY <1>3, <1>4 DEF I

(* and in one of the hours and on one of the weekdays.                       *)
LEMMA RhythmTellsAll ==
  ASSUME NEW R, IsTable(R)
  PROVE  \A chart \in {rhythm(R).hours, rhythm(R).weekdays} : SumAt(chart, DOMAIN chart) = Tally(R).watch_s
<1> DEFINE hour == [r \in R |-> r.start % DayLength]
           weekday == [r \in R |-> Day(r.start) % WeekLength]
           H == 0..DayLength - 1
           W == 0..WeekLength - 1
           hours == [k \in H |-> Seconds({r \in R : hour[r] = k})]
           weekdays == [k \in W |-> Seconds({r \in R : weekday[r] = k})]
<1>1. IsFiniteSet(H) /\ IsFiniteSet(W)
  BY PagesAssumption, FS_Interval
<1>2. ASSUME NEW r \in R PROVE hour[r] \in H /\ weekday[r] \in W
  <2>1. r.start \in Int /\ DayLength \in Nat \ {0} /\ WeekLength \in Nat \ {0}
    BY PagesAssumption DEF IsTable, IsPlay
  <2>2. Day(r.start) \in Int
    BY <2>1, DaysInOrder
  <2>3. r.start % DayLength \in H
    BY <2>1, Division
  <2>4. Day(r.start) % WeekLength \in W
    <3> DEFINE d == Day(r.start)
    <3> HIDE DEF d
    <3>1. d \in Int
      BY <2>2 DEF d
    <3>2. d % WeekLength \in W
      BY <2>1, <3>1, Division
    <3> QED
      BY <3>2 DEF d
  <2> QED
    BY <2>3, <2>4
<1>3. hour \in [R -> H] /\ weekday \in [R -> W]
  BY <1>2
<1>4. rhythm(R).hours = hours /\ rhythm(R).weekdays = weekdays
  <2>1. \A k : {r \in R : hour[r] = k} = {r \in R : r.start % DayLength = k}
    OBVIOUS
  <2>2. \A k : {r \in R : weekday[r] = k} = {r \in R : Day(r.start) % WeekLength = k}
    OBVIOUS
  <2> DEFINE hours0 == [h \in 0..DayLength - 1 |-> Seconds({r \in R : r.start % DayLength = h})]
             weekdays0 == [d \in 0..WeekLength - 1 |-> Seconds({r \in R : Day(r.start) % WeekLength = d})]
  <2>3. rhythm(R) = [hours |-> hours0, weekdays |-> weekdays0]
    BY DEF rhythm
  <2> HIDE DEF hour, weekday
  <2>4. hours = hours0 /\ weekdays = weekdays0
    BY <2>1, <2>2
  <2> HIDE DEF hours0, weekdays0, hours, weekdays
  <2> QED
    BY <2>3, <2>4
<1> HIDE DEF hour, weekday, H, W
<1>5. SumAt(hours, H) = Seconds(R)
  BY <1>1, <1>3, SecondsOfParts
<1>6. SumAt(weekdays, W) = Seconds(R)
  BY <1>1, <1>3, SecondsOfParts
<1>7. DOMAIN hours = H /\ DOMAIN weekdays = W
  OBVIOUS
<1>8. Tally(R).watch_s = Seconds(R)
  BY DEF Tally
<1> HIDE DEF hours, weekdays
<1> QED
  BY <1>4, <1>5, <1>6, <1>7, <1>8

(* Of finitely many there is one that no other is more than.                 *)
LEMMA FirstExists ==
  ASSUME NEW S, IsFiniteSet(S), NEW f, \A y0 \in S : f[y0] \in Int, ~(Cardinality(S) <= 1)
  PROVE  \E H \in kSubset(1, S) : \A y0 \in H, z0 \in S : ~(f[z0] > f[y0])
<1>1. S # {}
  BY FS_EmptySet
<1>2. PICK y0 \in S : \A z0 \in S : f[z0] <= f[y0]
  BY <1>1, MostExists
<1>3. Cardinality({y0}) = 1
  BY FS_Singleton
<1>4. {y0} \in kSubset(1, S)
  BY <1>3 DEF kSubset
<1>5. \A k \in {y0}, z0 \in S : ~(f[z0] > f[k])
  BY <1>2
<1> QED
  BY <1>4, <1>5

(* The first of S, as f has it, is one such.                                 *)
LEMMA FirstIs ==
  ASSUME NEW S, IsFiniteSet(S), NEW f, \A y0 \in S : f[y0] \in Int,
         NEW H, Cardinality(S) <= 1 => H = S,
         ~(Cardinality(S) <= 1) => H \in kSubset(1, S) /\ \A y0 \in H, z0 \in S \ H : ~(f[z0] > f[y0])
  PROVE  H \in SUBSET S /\ (S # {} => H # {}) /\ \A y0 \in H, z0 \in S : f[z0] <= f[y0]
<1>1. CASE Cardinality(S) <= 1
  <2>1. Cardinality(S) \in Nat
    BY FS_CardinalityType
  <2>2. Cardinality(S) = 0 \/ Cardinality(S) = 1
    BY <1>1, <2>1
  <2>3. S = {} \/ \E y0 : S = {y0}
    BY <2>2, FS_EmptySet, FS_Singleton
  <2>4. \A y0 \in S, z0 \in S : y0 = z0
    BY <2>3
  <2>5. \A y0 \in S : f[y0] <= f[y0]
    OBVIOUS
  <2> QED
    BY <1>1, <2>4, <2>5
<1>2. CASE ~(Cardinality(S) <= 1)
  <2>1. H \in SUBSET S /\ Cardinality(H) = 1
    BY <1>2 DEF kSubset
  <2>2. IsFiniteSet(H)
    BY <2>1, FS_Subset
  <2>3. PICK k : H = {k}
    BY <2>1, <2>2, FS_Singleton
  <2>4. k \in S /\ f[k] \in Int
    BY <2>1, <2>3
  <2>5. \A z0 \in S : f[z0] <= f[k]
    <3> SUFFICES ASSUME NEW z0 \in S PROVE f[z0] <= f[k]
      OBVIOUS
    <3>1. CASE z0 = k
      BY <2>4, <3>1
    <3>2. CASE z0 # k
      BY <1>2, <2>3, <2>4, <3>2
    <3> QED
      BY <3>1, <3>2
  <2> QED
    BY <2>1, <2>3, <2>5
<1> QED
  BY <1>1, <1>2

-----------------------------------------------------------------------------
(* The records of a year.                                                    *)

(* How long a day was, and the longest.                                      *)
LongOn(R, d) == Seconds(OnDay(R, d))
BiggestIn(R) == Foremost(DaysIn(R), 1, LAMBDA d0, e0 : LongOn(R, d0) > LongOn(R, e0))

(* What was watched of a show on the day of r, and the longest binge.        *)
EpisodesOn(R, r) == {x0 \in R : x0.type = "Episode" /\ x0.series = r.series /\ Day(x0.start) = Day(r.start)}
EpisodesIn(b0) == Cardinality({r.item : r \in b0.of})
BingesIn(R) ==
  {b0 \in {[day |-> Day(r.start), series |-> r.series, of |-> EpisodesOn(R, r)] : r \in {y0 \in R : y0.type = "Episode"}} :
    EpisodesIn(b0) >= BingeFrom}
BingeIn(R) == Foremost(BingesIn(R), 1, LAMBDA b0, c0 : EpisodesIn(b0) > EpisodesIn(c0))

(* The plays that fit their runtime, and the longest.                        *)
Fitting(R) == {r \in R : FitsItsRuntime(r)}
LongestIn(R) == Foremost(Fitting(R), 1, LAMBDA r0, p0 : r0.duration_s > p0.duration_s)

(* The sittings with a title, and what was returned to most.                 *)
SittingsOf(R, e) == {z0 \in Sittings(R) : z0[1] = e}
ReturnedTo(R) == {r.item : r \in {y0 \in R : Cardinality(SittingsOf(R, y0.item)) >= 2}}
RewatchedIn(R) == Foremost(ReturnedTo(R), 1, LAMBDA x0, y0 : Cardinality(SittingsOf(R, x0)) > Cardinality(SittingsOf(R, y0)))

(* `records` names them.                                                     *)
LEMMA RecordsAre ==
  ASSUME NEW R
  PROVE  /\ records(R).biggest_day = {[day |-> d, watch_s |-> LongOn(R, d)] : d \in BiggestIn(R)}
         /\ records(R).biggest_binge = {[b0 EXCEPT !.of = Tally(@)] : b0 \in BingeIn(R)}
         /\ records(R).longest_play = LongestIn(R) /\ records(R).most_rewatched = RewatchedIn(R)
         /\ records(R).longest_streak = LongestRun(DaysIn(R))
<1> DEFINE A == {[day |-> d, watch_s |-> LongOn(R, d)] : d \in BiggestIn(R)}
           B == {[b0 EXCEPT !.of = Tally(@)] : b0 \in BingeIn(R)}
           C == LongestIn(R)
           D == RewatchedIn(R)
           E == LongestRun(DaysIn(R))
<1>1. records(R) = [biggest_day |-> A, biggest_binge |-> B, longest_play |-> C, most_rewatched |-> D, longest_streak |-> E]
  BY DEF records, BiggestIn, LongOn, OnDay, DaysIn, BingeIn, BingesIn, EpisodesOn, EpisodesIn, LongestIn, Fitting,
         RewatchedIn, ReturnedTo, SittingsOf, Foremost
<1> HIDE DEF A, B, C, D, E
<1>2. /\ records(R).biggest_day = A /\ records(R).biggest_binge = B /\ records(R).longest_play = C
      /\ records(R).most_rewatched = D /\ records(R).longest_streak = E
  BY <1>1
<1> QED
  BY <1>2 DEF A, B, C, D, E

(* No day was longer than the biggest,                                       *)
LEMMA BiggestIs ==
  ASSUME NEW R, IsTable(R)
  PROVE  BiggestIn(R) \in SUBSET DaysIn(R) /\ \A d \in BiggestIn(R), e \in DaysIn(R) : LongOn(R, e) <= LongOn(R, d)
<1> DEFINE S == DaysIn(R)
           f == [d \in S |-> LongOn(R, d)]
           Best(G) == \A d0 \in G, e0 \in S \ G : ~(LongOn(R, e0) > LongOn(R, d0))
           first == CHOOSE G \in kSubset(1, S) : Best(G)
           H == BiggestIn(R)
<1>1. IsFiniteSet(S)
  BY DaysAre DEF DaysIn
<1>2. \A d \in S : f[d] = LongOn(R, d) /\ f[d] \in Int
  <2> SUFFICES ASSUME NEW d \in S PROVE LongOn(R, d) \in Int
    OBVIOUS
  <2>1. OnDay(R, d) \in SUBSET R
    BY DEF OnDay
  <2>2. IsTable(OnDay(R, d))
    BY <2>1, TablePart
  <2> QED
    BY <2>2, SecondsHold DEF LongOn
<1>3. H = IF Cardinality(S) <= 1 THEN S ELSE first
  BY DEF BiggestIn, Foremost
<1> HIDE DEF S, f, H
<1>4. ~(Cardinality(S) <= 1) => H \in kSubset(1, S) /\ \A y0 \in H, z0 \in S \ H : ~(f[z0] > f[y0])
  <2> SUFFICES ASSUME ~(Cardinality(S) <= 1) PROVE H \in kSubset(1, S) /\ \A y0 \in H, z0 \in S \ H : ~(f[z0] > f[y0])
    OBVIOUS
  <2>1. PICK G \in kSubset(1, S) : \A y0 \in G, z0 \in S : ~(f[z0] > f[y0])
    BY <1>1, <1>2, FirstExists
  <2>2. \A K \in kSubset(1, S) : K \subseteq S
    BY DEF kSubset
  <2>3. Best(G)
    BY <1>2, <2>1, <2>2
  <2> HIDE DEF Best
  <2>4. H \in kSubset(1, S) /\ Best(H)
    BY <1>3, <2>3
  <2> QED
    BY <1>2, <2>2, <2>4 DEF Best
<1> HIDE DEF first
<1>5. H \in SUBSET S /\ \A y0 \in H, z0 \in S : f[z0] <= f[y0]
  BY <1>1, <1>2, <1>3, <1>4, FirstIs
<1>6. \A d \in H, e \in S : LongOn(R, e) <= LongOn(R, d)
  BY <1>2, <1>5
<1> QED
  BY <1>5, <1>6 DEF S, H

(* a binge is of a day,                                                      *)
LEMMA BingeIs ==
  ASSUME NEW R, IsTable(R)
  PROVE  \A b0 \in BingeIn(R) : \E r \in R : b0 = [day |-> Day(r.start), series |-> r.series, of |-> EpisodesOn(R, r)]
<1> DEFINE S == BingesIn(R)
           f == [b0 \in S |-> EpisodesIn(b0)]
           Best(G) == \A d0 \in G, e0 \in S \ G : ~(EpisodesIn(e0) > EpisodesIn(d0))
           first == CHOOSE G \in kSubset(1, S) : Best(G)
           H == BingeIn(R)
           BingeAt(r) == [day |-> Day(r.start), series |-> r.series, of |-> EpisodesOn(R, r)]
<1>0. IsFiniteSet(R)
  BY DEF IsTable
<1>1. \A b0 \in S : \E r \in R : b0 = BingeAt(r)
  BY DEF BingesIn
<1>2. IsFiniteSet(S)
  <2> DEFINE h == [r \in R |-> BingeAt(r)]
  <2>1. S \subseteq {h[x0] : x0 \in R}
    BY <1>1
  <2>2. IsFiniteSet({h[x0] : x0 \in R})
    <3> HIDE DEF h
    <3> QED
      BY <1>0, ImageIsFinite
  <2> HIDE DEF h, S
  <2> QED
    BY <2>1, <2>2, FS_Subset
<1>3. \A b0 \in S : f[b0] = EpisodesIn(b0) /\ f[b0] \in Int
  <2> SUFFICES ASSUME NEW b0 \in S PROVE EpisodesIn(b0) \in Int
    OBVIOUS
  <2>1. PICK r \in R : b0 = BingeAt(r)
    BY <1>1
  <2>2. b0.of = EpisodesOn(R, r)
    BY <2>1
  <2>3. b0.of \in SUBSET R
    BY <2>2 DEF EpisodesOn
  <2> DEFINE Q == b0.of
             h == [p \in Q |-> p.item]
             W == {p.item : p \in Q}
  <2>4. IsFiniteSet(Q)
    BY <1>0, <2>3, FS_Subset
  <2>5. W = {h[x0] : x0 \in Q} /\ EpisodesIn(b0) = Cardinality(W)
    BY DEF EpisodesIn
  <2>6. IsFiniteSet({h[x0] : x0 \in Q})
    <3> HIDE DEF h, Q
    <3> QED
      BY <2>4, ImageIsFinite
  <2> HIDE DEF h, Q, W
  <2>7. IsFiniteSet(W)
    BY <2>5, <2>6
  <2> QED
    BY <2>5, <2>7, FS_CardinalityType
<1>4. H = IF Cardinality(S) <= 1 THEN S ELSE first
  BY DEF BingeIn, Foremost
<1> HIDE DEF S, f, H
<1>5. ~(Cardinality(S) <= 1) => H \in kSubset(1, S)
  <2> SUFFICES ASSUME ~(Cardinality(S) <= 1) PROVE H \in kSubset(1, S)
    OBVIOUS
  <2>1. PICK G \in kSubset(1, S) : \A y0 \in G, z0 \in S : ~(f[z0] > f[y0])
    BY <1>2, <1>3, FirstExists
  <2>2. \A K \in kSubset(1, S) : K \subseteq S
    BY DEF kSubset
  <2>3. Best(G)
    BY <1>3, <2>1, <2>2
  <2> HIDE DEF Best
  <2> QED
    BY <1>4, <2>3
<1>6. H \in SUBSET S
  BY <1>4, <1>5 DEF kSubset
<1> QED
  BY <1>1, <1>6 DEF H

(* and the longest play is a play,                                           *)
LEMMA LongestIs ==
  ASSUME NEW R, IsTable(R)
  PROVE  LongestIn(R) \in SUBSET R
<1> DEFINE S == Fitting(R)
           f == [r \in S |-> r.duration_s]
           Best(G) == \A d0 \in G, e0 \in S \ G : ~(e0.duration_s > d0.duration_s)
           first == CHOOSE G \in kSubset(1, S) : Best(G)
           H == LongestIn(R)
<1>1. S \in SUBSET R
  BY DEF Fitting
<1>2. IsFiniteSet(S) /\ \A r \in S : f[r] = r.duration_s /\ f[r] \in Int
  BY <1>1, FS_Subset DEF IsTable, IsPlay
<1>3. H = IF Cardinality(S) <= 1 THEN S ELSE first
  BY DEF LongestIn, Foremost
<1> HIDE DEF S, f, H
<1>4. ~(Cardinality(S) <= 1) => H \in kSubset(1, S)
  <2> SUFFICES ASSUME ~(Cardinality(S) <= 1) PROVE H \in kSubset(1, S)
    OBVIOUS
  <2>1. PICK G \in kSubset(1, S) : \A y0 \in G, z0 \in S : ~(f[z0] > f[y0])
    BY <1>2, FirstExists
  <2>2. \A K \in kSubset(1, S) : K \subseteq S
    BY DEF kSubset
  <2>3. Best(G)
    BY <1>2, <2>1, <2>2
  <2> HIDE DEF Best
  <2> QED
    BY <1>3, <2>3
<1>5. H \in SUBSET S
  BY <1>3, <1>4 DEF kSubset
<1> QED
  BY <1>1, <1>5 DEF H

(* so the records fit into the year.                                         *)
LEMMA RecordsFit ==
  ASSUME NEW R, IsTable(R)
  PROVE  LET best == records(R)
         IN  /\ best.longest_streak <= Cardinality(DaysIn(R))
             /\ \A d \in best.biggest_day :
                  /\ d.day \in DaysIn(R) /\ d.watch_s = LongOn(R, d.day)
                  /\ \A r \in best.longest_play : r.duration_s <= d.watch_s
             /\ \A b0 \in best.biggest_binge : /\ b0.day \in DaysIn(R)
                                               /\ b0.of.plays <= Tally(OnDay(R, b0.day)).plays
<1> DEFINE best == records(R)
           Played(d) == [day |-> d, watch_s |-> LongOn(R, d)]
           Told0(b0) == [b0 EXCEPT !.of = Tally(@)]
<1>1. /\ best.biggest_day = {Played(d) : d \in BiggestIn(R)}
      /\ best.biggest_binge = {Told0(b0) : b0 \in BingeIn(R)}
      /\ best.longest_play = LongestIn(R) /\ best.longest_streak = LongestRun(DaysIn(R))
  BY RecordsAre
<1> HIDE DEF best
<1>2. best.longest_streak <= Cardinality(DaysIn(R))
  <2>1. DaysIn(R) \in SUBSET Nat /\ IsFiniteSet(DaysIn(R))
    BY DaysAre DEF DaysIn
  <2>2. DaysIn(R) \in SUBSET Int
    BY <2>1
  <2> QED
    BY <1>1, <2>1, <2>2, LongestRunIs
<1>3. \A r \in R : Day(r.start) \in DaysIn(R)
  BY DEF DaysIn
<1>4. \A d : OnDay(R, d) \in SUBSET R
  BY DEF OnDay
<1>5. \A d : IsTable(OnDay(R, d))
  BY <1>4, TablePart
<1>6. ASSUME NEW d \in BiggestIn(R), NEW r \in LongestIn(R) PROVE r.duration_s <= LongOn(R, d)
  <2>1. r \in R /\ r.duration_s \in Nat
    BY LongestIs DEF IsTable, IsPlay
  <2> DEFINE e == Day(r.start)
  <2>2. r \in OnDay(R, e) /\ e \in DaysIn(R)
    BY <1>3, <2>1 DEF OnDay
  <2> HIDE DEF e
  <2>3. r.duration_s <= LongOn(R, e) /\ LongOn(R, e) \in Nat
    BY <1>5, <2>2, SecondsHold DEF LongOn
  <2>4. LongOn(R, e) <= LongOn(R, d)
    BY <2>2, BiggestIs
  <2>5. LongOn(R, d) \in Nat
    BY <1>5, SecondsHold DEF LongOn
  <2> QED
    BY <2>1, <2>3, <2>4, <2>5
<1>7. ASSUME NEW d \in best.biggest_day
      PROVE  /\ d.day \in DaysIn(R) /\ d.watch_s = LongOn(R, d.day)
             /\ \A r \in best.longest_play : r.duration_s <= d.watch_s
  <2>1. PICK k \in BiggestIn(R) : d = Played(k)
    BY <1>1
  <2>2. d.day = k /\ d.watch_s = LongOn(R, k) /\ k \in DaysIn(R)
    BY <2>1, BiggestIs
  <2> QED
    BY <1>1, <1>6, <2>2
<1>8. ASSUME NEW b0 \in best.biggest_binge
      PROVE  b0.day \in DaysIn(R) /\ b0.of.plays <= Tally(OnDay(R, b0.day)).plays
  <2>1. PICK c0 \in BingeIn(R) : b0 = Told0(c0)
    BY <1>1
  <2>2. PICK r \in R : c0 = [day |-> Day(r.start), series |-> r.series, of |-> EpisodesOn(R, r)]
    BY BingeIs
  <2>3. b0 = [day |-> Day(r.start), series |-> r.series, of |-> Tally(EpisodesOn(R, r))]
    BY <2>1, <2>2
  <2>4. b0.day = Day(r.start) /\ b0.of = Tally(EpisodesOn(R, r))
    BY <2>3
  <2>5. EpisodesOn(R, r) \in SUBSET OnDay(R, Day(r.start)) /\ IsFiniteSet(OnDay(R, Day(r.start)))
    BY <1>5 DEF EpisodesOn, OnDay, IsTable
  <2>6. Cardinality(EpisodesOn(R, r)) <= Cardinality(OnDay(R, Day(r.start)))
    BY <2>5, FS_Subset
  <2>7. /\ Tally(EpisodesOn(R, r)).plays = Cardinality(EpisodesOn(R, r))
        /\ Tally(OnDay(R, Day(r.start))).plays = Cardinality(OnDay(R, Day(r.start)))
    BY DEF Tally
  <2> QED
    BY <1>3, <2>4, <2>6, <2>7
<1> QED
  BY <1>2, <1>7, <1>8 DEF best

(* Of two or more, two are not the same.                                     *)
LEMMA TwoOfTwo ==
  ASSUME NEW S, IsFiniteSet(S), Cardinality(S) >= 2
  PROVE  \E y0, z0 \in S : y0 # z0
<1> SUFFICES ASSUME \A y0, z0 \in S : y0 = z0 PROVE FALSE
  OBVIOUS
<1>1. S # {}
  BY FS_EmptySet
<1>2. \E y0 : S = {y0}
  BY <1>1
<1>3. Cardinality(S) = 1
  BY <1>2, FS_Singleton
<1> QED
  BY <1>3

(* Something was watched again just when something was returned to.          *)
LEMMA RewatchesTell ==
  ASSUME NEW R, IsTable(R)
  PROVE  records(R).most_rewatched # {} <=> rewatch(R) > 0
<1> DEFINE S == Sittings(R)
           h == [z0 \in S |-> z0[1]]
           T == {z0[1] : z0 \in S}
           D == ReturnedTo(R)
           H == RewatchedIn(R)
           f == [y0 \in D |-> Cardinality(SittingsOf(R, y0))]
           Best(G) == \A d0 \in G, e0 \in D \ G : ~(Cardinality(SittingsOf(R, e0)) > Cardinality(SittingsOf(R, d0)))
           first == CHOOSE G \in kSubset(1, D) : Best(G)
           Again == \E y0, z0 \in S : y0 # z0 /\ y0[1] = z0[1]
<1>0. IsFiniteSet(R)
  BY DEF IsTable
<1>1. \A z0 \in S : z0 = <<z0[1], z0[2]>> /\ \E r \in R : z0 = <<r.item, Day(r.start)>>
  BY DEF Sittings
<1>2. IsFiniteSet(S)
  <2> DEFINE g == [r \in R |-> <<r.item, Day(r.start)>>]
  <2>1. S \subseteq {g[x0] : x0 \in R}
    BY <1>1
  <2>2. IsFiniteSet({g[x0] : x0 \in R})
    <3> HIDE DEF g
    <3> QED
      BY <1>0, ImageIsFinite
  <2> HIDE DEF g, S
  <2> QED
    BY <2>1, <2>2, FS_Subset
<1>3. rewatch(R) = Cardinality(S) - Cardinality(T)
  BY DEF rewatch
<1>4. h \in Surjection(S, T) /\ \A z0 \in S : h[z0] = z0[1]
  BY DEF Surjection
<1>5. h \in Injection(S, T) <=> ~Again
  <2>1. h \in [S -> T]
    BY <1>4 DEF Surjection
  <2>2. \A y0, z0 \in S : h[y0] = h[z0] <=> y0[1] = z0[1]
    BY <1>4
  <2> HIDE DEF h, S, T
  <2>3. h \in Injection(S, T) <=> \A y0, z0 \in S : h[y0] = h[z0] => y0 = z0
    BY <2>1 DEF Injection, IsInjective
  <2> QED
    BY <2>2, <2>3
<1>6. /\ \A e : SittingsOf(R, e) \in SUBSET S
      /\ \A e : \A z0 : z0 \in SittingsOf(R, e) <=> z0 \in S /\ z0[1] = e
  BY DEF SittingsOf
<1>7. \A e : IsFiniteSet(SittingsOf(R, e)) /\ Cardinality(SittingsOf(R, e)) \in Nat
  <2> HIDE DEF S
  <2> QED
    BY <1>2, <1>6, FS_Subset, FS_CardinalityType
<1>8. D = {r.item : r \in {y0 \in R : Cardinality(SittingsOf(R, y0.item)) >= 2}}
  BY DEF ReturnedTo
<1>9. H = IF Cardinality(D) <= 1 THEN D ELSE first
  BY DEF RewatchedIn, Foremost
<1>10. records(R).most_rewatched = H
  BY RecordsAre
<1> HIDE DEF h, T, D, H, S
<1>11. rewatch(R) > 0 <=> Again
  <2>1. IsFiniteSet(T) /\ Cardinality(T) <= Cardinality(S) /\ (Cardinality(T) = Cardinality(S) <=> h \in Injection(S, T))
    BY <1>2, <1>4, FS_Surjection
  <2>2. Cardinality(T) \in Nat /\ Cardinality(S) \in Nat
    BY <1>2, <2>1, FS_CardinalityType
  <2> HIDE DEF Again
  <2> QED
    BY <1>3, <1>5, <2>1, <2>2
<1>12. D # {} <=> Again
  <2>1. ASSUME NEW e \in D PROVE Again
    <3>1. Cardinality(SittingsOf(R, e)) >= 2
      BY <1>8
    <3>2. PICK y0, z0 \in SittingsOf(R, e) : y0 # z0
      BY <1>7, <3>1, TwoOfTwo
    <3> QED
      BY <1>6, <3>2
  <2>2. ASSUME NEW y0 \in S, NEW z0 \in S, y0 # z0, y0[1] = z0[1] PROVE D # {}
    <3>1. PICK r \in R : y0 = <<r.item, Day(r.start)>>
      BY <1>1
    <3>2. y0 \in SittingsOf(R, r.item) /\ z0 \in SittingsOf(R, r.item)
      BY <1>6, <2>2, <3>1
    <3>3. Cardinality(SittingsOf(R, r.item)) >= 2
      BY <1>7, <2>2, <3>2, TwoAreTwo
    <3> QED
      BY <1>8, <3>3
  <2> QED
    BY <2>1, <2>2
<1>13. IsFiniteSet(D)
  <2> DEFINE g == [r \in R |-> r.item]
  <2>1. D \subseteq {g[x0] : x0 \in R}
    BY <1>8
  <2>2. IsFiniteSet({g[x0] : x0 \in R})
    <3> HIDE DEF g
    <3> QED
      BY <1>0, ImageIsFinite
  <2> HIDE DEF g
  <2> QED
    BY <2>1, <2>2, FS_Subset
<1>14. \A y0 \in D : f[y0] = Cardinality(SittingsOf(R, y0)) /\ f[y0] \in Int
  BY <1>7
<1> HIDE DEF f, Again
<1>15. ~(Cardinality(D) <= 1) => H \in kSubset(1, D)
  <2> SUFFICES ASSUME ~(Cardinality(D) <= 1) PROVE H \in kSubset(1, D)
    OBVIOUS
  <2>1. PICK G \in kSubset(1, D) : \A y0 \in G, z0 \in D : ~(f[z0] > f[y0])
    BY <1>13, <1>14, FirstExists
  <2>2. \A K \in kSubset(1, D) : K \subseteq D
    BY DEF kSubset
  <2>3. Best(G)
    BY <1>14, <2>1, <2>2
  <2> HIDE DEF Best
  <2> QED
    BY <1>9, <2>3
<1>16. H # {} <=> D # {}
  <2>1. CASE Cardinality(D) <= 1
    BY <1>9, <2>1
  <2>2. CASE ~(Cardinality(D) <= 1)
    <3>1. Cardinality(H) = 1
      BY <1>15, <2>2 DEF kSubset
    <3>2. H # {}
      BY <3>1, FS_EmptySet
    <3>3. D # {}
      BY <2>2, FS_EmptySet
    <3> QED
      BY <3>2, <3>3
  <2> QED
    BY <2>1, <2>2
<1> QED
  BY <1>10, <1>11, <1>12, <1>16

-----------------------------------------------------------------------------
(* The story of a year.                                                      *)

(* A year begins and ends somewhere, a calendar year at the first of         *)
(* January.                                                                  *)
LEMMA PeriodIs ==
  ASSUME NEW P, IsTable(P), today \in Nat, NEW y \in Int \cup {Null, Last12}
  PROVE  /\ PeriodFrom(P, y).from \in Int /\ PeriodFrom(P, y).to \in Int
         /\ y \in Int => PeriodFrom(P, y).from = FirstOf(y * YearLength) /\ PeriodFrom(P, y).to = FirstOf((y + 1) * YearLength)
<1> DEFINE years == {Year(Day(r.start)) : r \in P}
           year == IF y = Null THEN default_year(today, years) ELSE y
           p == PeriodFrom(P, y)
<1>1. p = IF y = Last12 THEN [from |-> FirstOf(Month(today) - YearLength), to |-> Now + 1]
          ELSE [from |-> FirstOf(year * YearLength), to |-> FirstOf((year + 1) * YearLength)]
  BY DEF PeriodFrom
<1>2. Null \notin Int /\ Last12 \notin Int /\ Last12 # Null
  BY ColumnsAssumption, StoriesAssumption
<1>3. default_year(today, years) \in Int
  BY DefaultIsYear
<1> HIDE DEF p, years
<1>4. CASE y = Last12
  <2>1. p.from = FirstOf(Month(today) - YearLength) /\ p.to = Now + 1
    BY <1>1, <1>4
  <2>2. Now + 1 \in Int
    <3>1. Midnight(today + 1) \in Int
      <4>1. today + 1 \in Int
        OBVIOUS
      <4> QED
        BY <4>1, DaysInOrder
    <3> QED
      BY <3>1 DEF Now
  <2>3. FirstOf(Month(today) - YearLength) \in Int
    <3> DEFINE k == Month(today) - YearLength
    <3>1. Month(today) \in Int
      BY MonthsInOrder
    <3>2. k \in Int
      BY <3>1, StoriesAssumption
    <3> HIDE DEF k
    <3>3. k * MonthLength \in Int
      BY <3>2, PagesAssumption, QuotientIs
    <3> DEFINE d == k * MonthLength
    <3> HIDE DEF d
    <3>4. d \in Int
      BY <3>3 DEF d
    <3>5. Midnight(d) \in Int
      BY <3>4, DaysInOrder
    <3>6. FirstOf(k) = Midnight(d)
      BY DEF FirstOf, d
    <3> QED
      BY <3>5, <3>6 DEF k
  <2> QED
    BY <1>2, <1>4, <2>1, <2>2, <2>3 DEF p
<1>5. CASE y # Last12
  <2>1. year \in Int /\ (y \in Int => year = y)
    BY <1>2, <1>3, <1>5
  <2> HIDE DEF year
  <2>2. p.from = FirstOf(year * YearLength) /\ p.to = FirstOf((year + 1) * YearLength)
    BY <1>1, <1>5
  <2>3. year + 1 \in Int
    BY <2>1
  <2>4. p.from \in Int /\ p.to \in Int
    BY <2>1, <2>2, <2>3, YearIs
  <2>5. y \in Int => p.from = FirstOf(y * YearLength) /\ p.to = FirstOf((y + 1) * YearLength)
    BY <2>1, <2>2, Zenon
  <2> QED
    BY <2>4, <2>5, Zenon DEF p
<1> QED
  BY <1>4, <1>5

(* The plays of a period.                                                    *)
Within(P, period) == {r \in P : In(r, period)}

(* What the story of a year is told from.                                    *)
LEMMA StoryIs ==
  ASSUME NEW P, NEW y
  PROVE  LET story == RecapFrom(P, y)
             R == Within(P, PeriodFrom(P, y))
         IN  /\ story.totals.tally = Tally(R) /\ story.active_days = Cardinality(DaysIn(R))
             /\ story.days = [d \in DaysIn(R) |-> Tally(OnDay(R, d))]
             /\ story.months = months(R, PeriodFrom(P, y)) /\ story.rhythm = rhythm(R)
             /\ story.records = records(R) /\ story.rewatches = rewatch(R)
             /\ story.discovery = discovery(P, R, PeriodFrom(P, y))
<1> DEFINE R == Within(P, PeriodFrom(P, y))
           story == RecapFrom(P, y)
           A == Totals(R)
           B == Cardinality(DaysIn(R))
           C == [d \in DaysIn(R) |-> Tally(OnDay(R, d))]
           D == months(R, PeriodFrom(P, y))
           E == rhythm(R)
           F == records(R)
           G == rewatch(R)
           H == top_titles(R, "Episode")
           I == top_titles(R, "Movie")
           J == discovery(P, R, PeriodFrom(P, y))
<1>1. story = [totals |-> A, active_days |-> B, days |-> C, months |-> D, rhythm |-> E, records |-> F, rewatches |-> G,
               top_series |-> H, top_movies |-> I, discovery |-> J]
  BY DEF RecapFrom, Within, DaysIn, OnDay
<1>2. A.tally = Tally(R)
  BY DEF Totals
<1> HIDE DEF A, B, C, D, E, F, G, H, I, J, story
<1>3. /\ story.totals = A /\ story.active_days = B /\ story.days = C /\ story.months = D /\ story.rhythm = E
      /\ story.records = F /\ story.rewatches = G /\ story.discovery = J
  BY <1>1
<1>4. /\ story.totals.tally = Tally(R) /\ story.active_days = B /\ story.days = C /\ story.months = D /\ story.rhythm = E
      /\ story.records = F /\ story.rewatches = G /\ story.discovery = J
  BY <1>2, <1>3
<1> HIDE DEF R
<1> QED
  BY <1>4 DEF B, C, D, E, F, G, J, story, R

(* The rank compares by the same rules, and somebody is not ahead of         *)
(* themselves.                                                               *)
LEMMA RankTells ==
  ASSUME NEW T, IsTable(T), NEW who \in Accounts, NEW y, RecapRank(T, who, y) # Null
  PROVE  LET rank == RecapRank(T, who, y)
             R == Within(RecapScope(T, who), PeriodFrom(RecapScope(T, who), y))
         IN  rank.mine = Tally(R).watch_s /\ rank.ahead < rank.of
<1> DEFINE rank == RecapRank(T, who, y)
           period == PeriodFrom(RecapScope(T, who), y)
           R == Within(RecapScope(T, who), period)
           Year0(w) == {r \in RecapScope(T, w) : In(r, period)}
           all == UNION {Year0(w) : w \in Accounts}
           Of(w) == {r \in all : r.user = w}
           users == {r.user : r \in all}
           of == PerUser(all)
           ahead == {w \in users : of[w].watch_s > of[who].watch_s}
<1>1. Period(T, who, y) = period
  BY DEF Period, PeriodFrom, RecapYears
<1>2. of = [w \in users |-> Tally(Of(w))] /\ DOMAIN of = users
  BY DEF PerUser
<1>3. RecapRank(T, who, y) = IF who \notin users THEN Null
                             ELSE [mine |-> of[who].watch_s, ahead |-> Cardinality(ahead), of |-> Cardinality(users)]
  <2> DEFINE all0 == UNION {{r \in RecapScope(T, w) : In(r, Period(T, who, y))} : w \in Accounts}
             of0 == PerUser(all0)
  <2>1. all0 = all
    BY <1>1
  <2>2. RecapRank(T, who, y) =
          IF who \notin DOMAIN of0 THEN Null
          ELSE [mine |-> of0[who].watch_s, ahead |-> Cardinality({w \in DOMAIN of0 : of0[w].watch_s > of0[who].watch_s}),
                of |-> Cardinality(DOMAIN of0)]
    BY DEF RecapRank
  <2> HIDE DEF all0, all
  <2>3. of0 = of
    BY <2>1
  <2> HIDE DEF of, of0, users
  <2> QED
    BY <1>2, <2>2, <2>3
<1>4. all \in SUBSET T
  BY DEF RecapScope
<1>5. \A r \in all : r.user \in users
  OBVIOUS
<1>6. Of(who) = R
  BY DEF Within, RecapScope
<1> HIDE DEF all, users, R, period
<1>7. IsTable(all)
  BY <1>4, TablePart
<1>8. IsFiniteSet(users)
  <2> DEFINE g == [r \in all |-> r.user]
  <2>1. users = {g[x0] : x0 \in all}
    BY DEF users
  <2>2. IsFiniteSet({g[x0] : x0 \in all})
    <3>1. IsFiniteSet(all)
      BY <1>7 DEF IsTable
    <3> HIDE DEF g
    <3> QED
      BY <3>1, ImageIsFinite
  <2> QED
    BY <2>1, <2>2
<1>9. who \in users /\ rank.mine = of[who].watch_s /\ rank.ahead = Cardinality(ahead) /\ rank.of = Cardinality(users)
  <2> HIDE DEF ahead, of
  <2> QED
    BY <1>3
<1>10. of[who].watch_s = Tally(R).watch_s /\ of[who].watch_s \in Int
  <2>1. of[who] = Tally(Of(who))
    BY <1>2, <1>9
  <2>2. IsTable(Of(who))
    <3>1. Of(who) \in SUBSET all
      OBVIOUS
    <3> HIDE DEF Of
    <3> QED
      BY <1>7, <3>1, TablePart
  <2>3. Tally(Of(who)).watch_s \in Int
    BY <2>2, TallyIs
  <2> QED
    BY <1>6, <2>1, <2>3
<1>11. ahead \in SUBSET (users \ {who})
  BY <1>10
<1> HIDE DEF ahead, of
<1>12. IsFiniteSet(users \ {who}) /\ Cardinality(users \ {who}) = Cardinality(users) - 1
  BY <1>8, <1>9, FS_RemoveElement
<1>13. IsFiniteSet(ahead) /\ Cardinality(ahead) <= Cardinality(users \ {who})
  BY <1>11, <1>12, FS_Subset
<1>14. Cardinality(ahead) \in Nat /\ Cardinality(users) \in Nat
  BY <1>8, <1>13, FS_CardinalityType
<1>15. rank.mine = Tally(R).watch_s /\ rank.ahead < rank.of
  BY <1>9, <1>10, <1>12, <1>13, <1>14
<1> QED
  BY <1>15 DEF R, period

(* What a year calls finished, the profile has seen.                         *)
LEMMA FinishedIsSeen ==
  ASSUME RowsInv, NEW who, NEW period,
         NEW R \in SUBSET RecapScope(rows, who),
         NEW e \in discovery(RecapScope(rows, who), R, period).finished \cap Episodes
  PROVE  EpisodeState(rows, manual_seen, who, e) = "seen"
<1> DEFINE Past(r) == IF r.position_s # Null THEN r.position_s ELSE r.duration_s
           Reached(r) == 10 * Past(r) >= FinishedTenths * r.runtime_s
           Q == {r.item : r \in {p \in R : p.type \in {"Movie", "Episode"} /\ p.runtime_s > 0 /\ Reached(p)}}
<1>1. discovery(RecapScope(rows, who), R, period).finished = Q
  BY DEF discovery
<1>2. PICK r \in R : r.item = e /\ r.type \in {"Movie", "Episode"} /\ r.runtime_s > 0 /\ Reached(r)
  BY <1>1
<1>3. r \in rows /\ r.user = who
  BY DEF RecapScope
<1>4. PICK p \in PlaysToCome : r = [p EXCEPT !.active = r.active]
  BY <1>3 DEF RowsInv, PagesTypeOK
<1>5. /\ r.item = p.item /\ r.type = p.type /\ r.position_s = p.position_s /\ r.runtime_s = p.runtime_s
      /\ r.duration_s = p.duration_s
  <2>1. p = [id |-> p.id, user |-> p.user, item |-> p.item, series |-> p.series, season |-> p.season,
             type |-> p.type, library |-> p.library, client |-> p.client, ip |-> p.ip, local |-> p.local,
             method |-> p.method, start |-> p.start, end |-> p.end, duration_s |-> p.duration_s,
             position_s |-> p.position_s, runtime_s |-> p.runtime_s, active |-> p.active]
    BY PlaysAssumption
  <2> QED
    BY <1>4, <2>1
<1>6. r.type = "Episode"
  BY <1>2, <1>5, StoriesAssumption DEF Episodes
<1>7. r.runtime_s \in Int /\ r.runtime_s > 0 /\ Past(r) \in Int
  <2>1. r.position_s \in Int \cup {Null} /\ r.runtime_s \in Int /\ r.duration_s \in Nat
    BY <1>5, ColumnsAssumption, PlaysAssumption
  <2> QED
    BY <1>2, <2>1
<1>8. 10 * Past(r) >= FinishedTenths * r.runtime_s
  BY <1>2
<1> HIDE DEF Past
<1>9. 10 * Past(r) >= SeenTenths * r.runtime_s
  <2> DEFINE n == r.runtime_s
             far0 == FinishedTenths * n
             far1 == SeenTenths * n
  <2>1. n \in Nat \ {0} /\ SeenTenths \in Int /\ FinishedTenths \in Int /\ SeenTenths <= FinishedTenths
    BY <1>7, StoriesAssumption
  <2> HIDE DEF n
  <2>2. n * SeenTenths <= n * FinishedTenths /\ n * SeenTenths \in Int /\ n * FinishedTenths \in Int
    BY <2>1, Multiples
  <2>3. far0 = n * FinishedTenths /\ far1 = n * SeenTenths
    BY <2>1
  <2>4. 10 * Past(r) >= far0
    BY <1>8 DEF n
  <2> HIDE DEF far0, far1
  <2>5. 10 * Past(r) >= far1
    BY <1>7, <2>2, <2>3, <2>4
  <2> QED
    BY <2>5 DEF far1, n
<1>10. Watched(rows, who, e)
  BY <1>2, <1>3, <1>6, <1>7, <1>9 DEF Watched, Past
<1> QED
  BY <1>10 DEF EpisodeState

(* The shows of a table, when they were watched, and which were first        *)
(* watched in a period.                                                      *)
ShowsIn(P) == {r.series : r \in {p \in P : p.type = "Episode"}} \ {Null}
StartsOf(P, n) == {r.start : r \in {p \in P : p.type = "Episode" /\ p.series = n}}
NewIn(P, period) == {n \in ShowsIn(P) : period.from <= Min(StartsOf(P, n)) /\ Min(StartsOf(P, n)) < period.to}

(* A show is new when it was first watched,                                  *)
LEMMA NewIs ==
  ASSUME NEW P, NEW R, NEW period
  PROVE  /\ discovery(P, R, period).new_series = NewIn(P, period)
         /\ discovery(P, R, period).one_and_done \subseteq NewIn(P, period)
<1> DEFINE shows == {r.series : r \in {p \in P : p.type = "Episode"}} \ {Null}
           Of(n) == {r \in P : r.type = "Episode" /\ r.series = n}
           new == {n \in shows : LET first == Min({r.start : r \in Of(n)}) IN period.from <= first /\ first < period.to}
           once == {n \in new : Cardinality({r.item : r \in Of(n)}) = 1}
           done == discovery(P, R, period).finished
<1>1. discovery(P, R, period).new_series = new /\ discovery(P, R, period).one_and_done = once
  BY DEF discovery
<1>2. new = NewIn(P, period)
  BY DEF NewIn, ShowsIn, StartsOf
<1>3. once \subseteq new
  OBVIOUS
<1> HIDE DEF new, once
<1> QED
  BY <1>1, <1>2, <1>3

(* which is in one year.                                                     *)
LEMMA NewOnce ==
  ASSUME NEW P, IsTable(P), today \in Nat, NEW y \in Int, NEW z \in Int, y # z
  PROVE  NewIn(P, PeriodFrom(P, y)) \cap NewIn(P, PeriodFrom(P, z)) = {}
<1> SUFFICES ASSUME NEW n \in NewIn(P, PeriodFrom(P, y)), n \in NewIn(P, PeriodFrom(P, z)) PROVE FALSE
  OBVIOUS
<1> DEFINE first == Min(StartsOf(P, n))
<1>1. StartsOf(P, n) \in SUBSET Nat /\ StartsOf(P, n) # {}
  BY DEF NewIn, ShowsIn, StartsOf, IsTable, IsPlay
<1>2. first \in Nat
  BY <1>1, SmallestOf
<1>3. /\ PeriodFrom(P, y).from <= first /\ first < PeriodFrom(P, y).to
      /\ PeriodFrom(P, z).from <= first /\ first < PeriodFrom(P, z).to
  BY DEF NewIn
<1> HIDE DEF first
<1>4. ASSUME NEW k \in {y, z} PROVE Year(Day(first)) = k
  <2>1. k \in Int /\ first \in Int
    BY <1>2
  <2>2. PeriodFrom(P, k).from <= first /\ first < PeriodFrom(P, k).to
    BY <1>3
  <2>3. PeriodFrom(P, k).from = FirstOf(k * YearLength) /\ PeriodFrom(P, k).to = FirstOf((k + 1) * YearLength)
    BY <2>1, PeriodIs
  <2> QED
    BY <2>1, <2>2, <2>3, YearHolds
<1>5. Year(Day(first)) = y /\ Year(Day(first)) = z
  BY <1>4
<1> QED
  BY <1>5

-----------------------------------------------------------------------------
(* All the stories.                                                          *)

(* The plays of a year, and of some years.                                   *)
RecapPlays(T, who, y) == recap(T, who, y).totals.tally.plays
RecapPlaysIn(T, who, S) == MapThenSumSet(LAMBDA y0 : recap(T, who, y0).totals.tally.plays, S)

(* They are added up as any other sum.                                       *)
LEMMA YearsAddUp ==
  ASSUME NEW T, NEW who, NEW S, IsFiniteSet(S)
  PROVE  RecapPlaysIn(T, who, S) = SumAt([y0 \in S |-> RecapPlays(T, who, y0)], S)
<1> DEFINE f == [y0 \in S |-> RecapPlays(T, who, y0)]
           D(sums) == [Q \in SUBSET S |-> IF Q = {} THEN 0 ELSE f[OneOf(Q)] + sums[Q \ {OneOf(Q)}]]
           DC(sums) == [Q \in SUBSET S |-> IF Q = {} THEN 0 ELSE RecapPlays(T, who, OneOf(Q)) + sums[Q \ {OneOf(Q)}]]
<1>1. SumAt(f, S) = (CHOOSE sums : sums = D(sums))[S]
  BY DEF SumAt, MapThenSumSet, MapThenFoldSet, OneOf
<1>2. RecapPlaysIn(T, who, S) = (CHOOSE sums : sums = DC(sums))[S]
  BY DEF RecapPlaysIn, RecapPlays, MapThenSumSet, MapThenFoldSet, OneOf
<1>3. \A Q \in SUBSET S : Q # {} => OneOf(Q) \in S
  BY DEF OneOf
<1>4. \A sums : D(sums) = DC(sums)
  BY <1>3
<1> HIDE DEF D, DC
<1>5. (CHOOSE sums : sums = D(sums)) = (CHOOSE sums : sums = DC(sums))
  BY <1>4
<1> QED
  BY <1>1, <1>2, <1>5

(* What is told of one year agrees.                                          *)
YearAgrees(who, y) ==
  LET story == recap(rows, who, y)
      rank == RecapRank(rows, who, y)
      best == story.records
  IN  /\ SumOf(story.months) = story.totals.tally /\ SumOf(story.days) = story.totals.tally
      /\ \A chart \in {story.rhythm.hours, story.rhythm.weekdays} :
           SumAt(chart, DOMAIN chart) = story.totals.tally.watch_s
      /\ best.longest_streak <= story.active_days
      /\ \A d \in best.biggest_day : /\ story.days[d.day].watch_s = d.watch_s
                                     /\ \A r \in best.longest_play : r.duration_s <= d.watch_s
      /\ \A b0 \in best.biggest_binge : b0.of.plays <= story.days[b0.day].plays
      /\ (best.most_rewatched # {}) = (story.rewatches > 0)
      /\ rank # Null => rank.mine = story.totals.tally.watch_s /\ rank.ahead < rank.of
      /\ \A e \in story.discovery.finished \cap Episodes : EpisodeState(rows, manual_seen, who, e) = "seen"
      /\ story.discovery.one_and_done \subseteq story.discovery.new_series

(* The plays a story is told from are some of the table's, and none is of a  *)
(* day to come.                                                              *)
LEMMA ScopeIsTable ==
  ASSUME TableInv, NEW who
  PROVE  LET P == RecapScope(rows, who)
         IN  IsTable(P) /\ today \in Nat /\ P \in SUBSET rows /\ \A r \in P : Day(r.start) <= today
<1>1. IsTable(rows) /\ RecapScope(rows, who) \in SUBSET rows
  BY RowsAreTable DEF TableInv, RecapScope
<1>2. IsTable(RecapScope(rows, who))
  BY <1>1, TablePart
<1> QED
  BY <1>1, <1>2 DEF TableInv, RowsInv, PagesTypeOK

(* It does for any year, the last twelve months and the default,             *)
LEMMA YearTellsAll ==
  ASSUME TableInv, NEW who \in Accounts, NEW y \in Int \cup {Null, Last12}
  PROVE  YearAgrees(who, y)
<1> DEFINE P == RecapScope(rows, who)
           period == PeriodFrom(P, y)
           R == Within(P, period)
           story == recap(rows, who, y)
           rank == RecapRank(rows, who, y)
<1>1. IsTable(P) /\ today \in Nat /\ P \in SUBSET rows /\ \A r \in P : Day(r.start) <= today
  BY ScopeIsTable
<1>2. story = RecapFrom(P, y)
  BY RecapIsFrom
<1>3. /\ story.totals.tally = Tally(R) /\ story.active_days = Cardinality(DaysIn(R))
      /\ story.days = [d \in DaysIn(R) |-> Tally(OnDay(R, d))]
      /\ story.months = months(R, period) /\ story.rhythm = rhythm(R)
      /\ story.records = records(R) /\ story.rewatches = rewatch(R)
      /\ story.discovery = discovery(P, R, period)
  BY <1>2, StoryIs
<1>4. period.from \in Int /\ period.to \in Int
  BY <1>1, PeriodIs
<1>5. rank # Null => rank.mine = Tally(R).watch_s /\ rank.ahead < rank.of
  <2>1. IsTable(rows)
    BY RowsAreTable DEF TableInv
  <2> QED
    BY <2>1, RankTells
<1>6. R \in SUBSET P /\ \A r \in R : In(r, period)
  BY DEF Within
<1>7. \A e \in discovery(P, R, period).finished \cap Episodes : EpisodeState(rows, manual_seen, who, e) = "seen"
  <2>1. R \in SUBSET RecapScope(rows, who) /\ RowsInv
    BY <1>6 DEF TableInv
  <2> HIDE DEF R, period
  <2> QED
    BY <2>1, FinishedIsSeen
<1>8. discovery(P, R, period).one_and_done \subseteq discovery(P, R, period).new_series
  BY NewIs
<1> HIDE DEF P, R, period, story, rank
<1>9. IsTable(R)
  BY <1>1, <1>6, TablePart
<1>10. SumOf(months(R, period)) = Tally(R)
  <2>1. \A r \in R : In(r, period) /\ Day(r.start) <= today
    BY <1>1, <1>6
  <2> QED
    BY <1>1, <1>4, <1>9, <2>1, MonthsTellAll
<1>11. SumOf(story.days) = Tally(R)
  BY <1>3, <1>9, DaysTellAll
<1>12. \A chart \in {rhythm(R).hours, rhythm(R).weekdays} : SumAt(chart, DOMAIN chart) = Tally(R).watch_s
  BY <1>9, RhythmTellsAll
<1> DEFINE best == records(R)
<1>13. /\ best.longest_streak <= Cardinality(DaysIn(R))
       /\ \A d \in best.biggest_day :
            /\ d.day \in DaysIn(R) /\ d.watch_s = LongOn(R, d.day)
            /\ \A r \in best.longest_play : r.duration_s <= d.watch_s
       /\ \A b0 \in best.biggest_binge : /\ b0.day \in DaysIn(R)
                                         /\ b0.of.plays <= Tally(OnDay(R, b0.day)).plays
  BY <1>9, RecordsFit
<1>14. \A d \in DaysIn(R) : story.days[d] = Tally(OnDay(R, d))
  BY <1>3
<1>15. \A d : Tally(OnDay(R, d)).watch_s = LongOn(R, d)
  BY DEF Tally, LongOn
<1>16. best.most_rewatched # {} <=> rewatch(R) > 0
  BY <1>9, RewatchesTell
<1> HIDE DEF best
<1>17. /\ \A d \in best.biggest_day : /\ story.days[d.day].watch_s = d.watch_s
                                      /\ \A r \in best.longest_play : r.duration_s <= d.watch_s
       /\ \A b0 \in best.biggest_binge : b0.of.plays <= story.days[b0.day].plays
  BY <1>13, <1>14, <1>15
<1>18. (best.most_rewatched # {}) = (rewatch(R) > 0)
  BY <1>16
<1>19. best = story.records
  BY <1>3 DEF best
<1> QED
  <2>1. /\ SumOf(story.months) = story.totals.tally /\ SumOf(story.days) = story.totals.tally
        /\ \A chart \in {story.rhythm.hours, story.rhythm.weekdays} :
             SumAt(chart, DOMAIN chart) = story.totals.tally.watch_s
        /\ best.longest_streak <= story.active_days
    BY <1>3, <1>10, <1>11, <1>12, <1>13
  <2>2. /\ (best.most_rewatched # {}) = (story.rewatches > 0)
        /\ rank # Null => rank.mine = story.totals.tally.watch_s /\ rank.ahead < rank.of
        /\ \A e \in story.discovery.finished \cap Episodes : EpisodeState(rows, manual_seen, who, e) = "seen"
        /\ story.discovery.one_and_done \subseteq story.discovery.new_series
    BY <1>3, <1>5, <1>7, <1>8, <1>18
  <2> QED
    BY <1>17, <1>19, <2>1, <2>2, Zenon DEF YearAgrees, story, rank

(* the years add up to all of it,                                            *)
LEMMA YearsTellAll ==
  ASSUME TableInv, NEW who
  PROVE  LET P == RecapScope(rows, who)
             years == RecapYears(rows, who) \cup {default_year(today, RecapYears(rows, who))}
         IN  /\ years \in SUBSET Int
             /\ RecapPlaysIn(rows, who, years) = Cardinality(P)
             /\ \A y, z \in years : y # z => recap(rows, who, y).discovery.new_series
                                               \cap recap(rows, who, z).discovery.new_series = {}
<1> DEFINE P == RecapScope(rows, who)
           seen == {Year(Day(r.start)) : r \in P}
           years == seen \cup {default_year(today, seen)}
           cls == [r \in P |-> Year(Day(r.start))]
           f == [y \in years |-> RecapPlays(rows, who, y)]
<1>1. IsTable(P) /\ today \in Nat
  BY ScopeIsTable
<1>2. RecapYears(rows, who) = seen
  BY DEF RecapYears
<1>3. IsFiniteSet(seen) /\ seen \in SUBSET Nat /\ default_year(today, seen) \in Int
  <2> HIDE DEF P
  <2> QED
    BY <1>1, DefaultIsYear
<1>4. \A r \in P : r.start \in Int /\ Year(Day(r.start)) \in seen
  BY <1>1 DEF IsTable, IsPlay
<1> HIDE DEF P, seen
<1>5. IsFiniteSet(years) /\ years \in SUBSET Int
  BY <1>3, FS_AddElement
<1>6. cls \in [P -> years] /\ \A r \in P : cls[r] = Year(Day(r.start))
  BY <1>4
<1>7. \A y \in years : recap(rows, who, y) = RecapFrom(P, y)
  BY RecapIsFrom DEF P
<1>8. ASSUME NEW y \in years
      PROVE  /\ RecapPlays(rows, who, y) = Cardinality({r \in P : cls[r] = y}) /\ RecapPlays(rows, who, y) \in Int
             /\ recap(rows, who, y).discovery.new_series = NewIn(P, PeriodFrom(P, y))
  <2> DEFINE R == Within(P, PeriodFrom(P, y))
  <2>1. y \in Int
    BY <1>5
  <2>2. PeriodFrom(P, y).from = FirstOf(y * YearLength) /\ PeriodFrom(P, y).to = FirstOf((y + 1) * YearLength)
    BY <1>1, <2>1, PeriodIs
  <2>3. ASSUME NEW r \in P PROVE In(r, PeriodFrom(P, y)) <=> cls[r] = y
    <3>1. r.start \in Int
      BY <1>4
    <3>2. FirstOf(y * YearLength) <= r.start /\ r.start < FirstOf((y + 1) * YearLength) <=> Year(Day(r.start)) = y
      BY <2>1, <3>1, YearHolds
    <3> HIDE DEF cls, years
    <3> QED
      BY <1>6, <2>2, <3>2, Zenon DEF In
  <2>4. R = {r \in P : cls[r] = y}
    BY <2>3 DEF Within
  <2>5. recap(rows, who, y).totals.tally = Tally(R) /\ recap(rows, who, y).discovery = discovery(P, R, PeriodFrom(P, y))
    BY <1>7, StoryIs
  <2>6. R \in SUBSET P
    BY DEF Within
  <2> HIDE DEF R, cls, years
  <2>7. IsTable(R)
    BY <1>1, <2>6, TablePart
  <2>8. Tally(R).plays = Cardinality(R) /\ Tally(R).plays \in Nat
    BY <2>7, TallyIs
  <2>9. discovery(P, R, PeriodFrom(P, y)).new_series = NewIn(P, PeriodFrom(P, y))
    BY NewIs
  <2> QED
    BY <2>4, <2>5, <2>8, <2>9 DEF RecapPlays
<1>9. \A y, z \in years : y # z => recap(rows, who, y).discovery.new_series \cap recap(rows, who, z).discovery.new_series = {}
  <2> SUFFICES ASSUME NEW y \in years, NEW z \in years, y # z
               PROVE  NewIn(P, PeriodFrom(P, y)) \cap NewIn(P, PeriodFrom(P, z)) = {}
    BY <1>8
  <2>1. y \in Int /\ z \in Int
    BY <1>5
  <2> QED
    BY <1>1, <2>1, NewOnce
<1> HIDE DEF years, cls
<1>10. f \in [years -> Int] /\ \A y \in years : f[y] = Cardinality({r \in P : cls[r] = y})
  BY <1>8
<1>11. RecapPlaysIn(rows, who, years) = SumAt(f, years)
  BY <1>5, YearsAddUp
<1> HIDE DEF f
<1>12. SumAt(f, years) = Cardinality(P)
  <2>1. IsFiniteSet(P)
    BY <1>1 DEF IsTable
  <2> QED
    BY <1>5, <1>6, <1>10, <2>1, CountOfClasses
<1> QED
  BY <1>2, <1>5, <1>9, <1>11, <1>12 DEF P, years

(* and so every year of anybody agrees.                                      *)
LEMMA RecapsTellAll ==
  ASSUME TableInv, NEW who \in Accounts
  PROVE  YearsAgree(who)
<1> DEFINE years == RecapYears(rows, who) \cup {default_year(today, RecapYears(rows, who))}
<1>1. /\ years \in SUBSET Int
      /\ RecapPlaysIn(rows, who, years) = Cardinality(RecapScope(rows, who))
      /\ \A y, z \in years : y # z => recap(rows, who, y).discovery.new_series
                                        \cap recap(rows, who, z).discovery.new_series = {}
  BY YearsTellAll
<1>2. YearsAgree(who) <=>
        /\ \A y \in {Null, Last12} \cup years : YearAgrees(who, y)
        /\ RecapPlaysIn(rows, who, years) = Cardinality(RecapScope(rows, who))
        /\ \A y, z \in years : y # z => recap(rows, who, y).discovery.new_series
                                          \cap recap(rows, who, z).discovery.new_series = {}
  BY Zenon DEF YearsAgree, YearAgrees, RecapPlaysIn, SumAt
<1> HIDE DEF years
<1>3. \A y \in {Null, Last12} \cup years : YearAgrees(who, y)
  <2> SUFFICES ASSUME NEW y \in {Null, Last12} \cup years PROVE YearAgrees(who, y)
    OBVIOUS
  <2>1. y \in Int \cup {Null, Last12}
    BY <1>1
  <2> QED
    BY <2>1, YearTellsAll
<1> QED
  BY <1>1, <1>2, <1>3

(* What the plays tell about people agrees, whatever is in the table.        *)
LEMMA StoriesTellAll == TableInv => StoriesAgree
<1> SUFFICES ASSUME TableInv PROVE StoriesAgree
  OBVIOUS
<1>1. \A who \in Accounts : YearsAgree(who) /\ StreaksAgree(who)
  BY RecapsTellAll, StreaksTellAll
<1>2. \A v \in Readers : EveningsAgree(v)
  BY EveningsTellAll
<1>3. \A S \in SUBSET Arrivals, limit \in 1..2 : ShelfIsWhole(S, limit)
  <2> SUFFICES ASSUME NEW S \in SUBSET Arrivals, NEW limit \in 1..2 PROVE ShelfIsWhole(S, limit)
    OBVIOUS
  <2>1. limit \in Nat \ {0}
    OBVIOUS
  <2> QED
    BY <2>1, ShelfTellsAll
<1> QED
  BY <1>1, <1>2, <1>3 DEF StoriesAgree

-----------------------------------------------------------------------------
(* The specification, of the stories.                                        *)


(* At any time: the months, the days, the hours and the weekdays of          *)
(* anybody's year, whichever is asked for, tell of the same plays, its       *)
(* records fit into them, the years add up to the whole and a show is new in *)
(* one of them; what the year calls finished the profile has seen; a streak  *)
(* is of days that were active; an evening is of people who were beside each *)
(* other; and the shelf has whole entries, and no older one before a newer.  *)
THEOREM StoriesTellTheSame == ReportsSpec => []StoriesAgree
<1>1. ReportsInit => TableInv
  BY TableInitially DEF ReportsInit, StoriesInit
<1> QED
  BY <1>1, TableKept, StoriesTellAll, PTL DEF ReportsSpec

(* So at any time whatever tells of the same plays, requests, downloads or   *)
(* sightings tells the same, in every part of the reports. A play has a      *)
(* method, as in PagesTellTheSame.                                           *)
THEOREM NumbersTellTheSame ==
  ASSUME \A r \in PlaysToCome : r.method # Null
  PROVE  ReportsSpec => []NumbersAgree
<1>1. ToldInv => NumbersAgree
  <2> SUFFICES ASSUME ToldInv PROVE NumbersAgree
    OBVIOUS
  <2>1. PagesAgree /\ StoriesAgree
    BY PagesTellAll, StoriesTellAll DEF ToldInv
  <2>2. PlacesAgree /\ CalendarAgrees /\ RequestsAgree
    BY PlacesTellAll, CalendarTellsAll, RequestsTellAll DEF ToldInv, PartsInv, RowsKnown, AlertsOK
  <2>3. NothingIsPassedOver
    BY DEF ToldInv, PartsInv, RowsKnown, HistoryInv
  <2> QED
    BY <2>1, <2>2, <2>3 DEF NumbersAgree
<1> QED
  BY ToldInitially, ToldStep, <1>1, PTL DEF ReportsSpec

-----------------------------------------------------------------------------
(* Somebody in two places. *)

(* The places that anybody is seen in.                                       *)
SightedPlaces ==
  ({Spot(r.ip, r.local) : r \in {p \in PlaysToCome : p.ip # Null}}
     \cup {Spot(Log[i].ip, Log[i].local) : i \in {k \in 1 .. Len(Log) : Log[k].type \in SIGN_IN_TYPES}}) \ {Null}

(* Kilometres are those of a map, where no two places are too near to be     *)
(* told apart, and no play ends before it began.                             *)
OnTheMap ==
  /\ Speed \in Nat
  /\ \A p, q \in SightedPlaces : Km[p, q] \in Nat /\ (p # q => Km[p, q] >= MinKm)
  /\ \A p, q, r \in SightedPlaces : Km[p, r] <= Km[p, q] + Km[q, r]
  /\ \A r \in PlaysToCome : r.start <= r.end

IsSighting(s) == s.at \in Nat /\ s.until \in Nat /\ s.spot \in SightedPlaces

(* What somebody was seen at, as a list in the order it began.               *)
IsLog(s, n) ==
  /\ n \in Nat /\ DOMAIN s = 1 .. n /\ Len(s) = n
  /\ \A i \in 1 .. n : IsSighting(s[i])
  /\ \A i, j \in 1 .. n : i < j => s[i].at <= s[j].at

(* That is what sightings_of makes, of places that are known.               *)
LEMMA SightingsAreLog ==
  ASSUME RowsInv, logged \in 0 .. Len(Log), NEW w
  PROVE  LET s == sightings_of(rows, w)
         IN  /\ IsLog(s, Len(s))
             /\ (\A r \in PlaysToCome : r.start <= r.end) => \A i \in 1 .. Len(s) : s[i].at <= s[i].until
             /\ rows = {} /\ logged = 0 => Len(s) = 0
<1> DEFINE P == {p \in rows : p.user = w /\ p.ip # Null}
           E == {y \in server_events(logged) : y.user = w /\ y.type \in SIGN_IN_TYPES}
           ofPlay == [r \in P |-> [at |-> r.start, until |-> r.end, spot |-> Spot(r.ip, r.local), id |-> <<1, r.id>>]]
           ofEvent == [e \in E |-> [at |-> e.at, until |-> e.at, spot |-> Spot(e.ip, e.local), id |-> <<0, e.id>>]]
           plays == {[at |-> r.start, until |-> r.end, spot |-> Spot(r.ip, r.local), id |-> <<1, r.id>>] : r \in P}
           signed == {[at |-> e.at, until |-> e.at, spot |-> Spot(e.ip, e.local), id |-> <<0, e.id>>] : e \in E}
           S == {s \in plays \cup signed : s.spot # Null}
           N == Cardinality(S)
           Sooner(s, t) == s.at < t.at \/ (s.at = t.at /\ (s.id[1] < t.id[1] \/ (s.id[1] = t.id[1] /\ s.id[2] < t.id[2])))
           before == [t \in S |-> {s \in S : Sooner(s, t)}]
           list == sightings_of(rows, w)
<1>1. IsFiniteSet(P)
  BY FS_Subset DEF RowsInv
<1>2. IsFiniteSet(E)
  BY EventsAreFinite, FS_Subset
<1>3. IsFiniteSet(plays) /\ IsFiniteSet(signed)
  <2>1. ofPlay \in Surjection(P, plays) /\ ofEvent \in Surjection(E, signed)
    BY DEF Surjection
  <2> HIDE DEF P, E, plays, signed, ofPlay, ofEvent
  <2> QED
    BY <1>1, <1>2, <2>1, FS_Surjection
<1>4. list = [i \in 1 .. N |-> CHOOSE x0 \in S : Cardinality({y0 \in S : Sooner(y0, x0)}) = i - 1]
  BY DEF sightings_of, InOrder
<1>5. ASSUME NEW s \in S, s \in plays
      PROVE  \E r \in P : /\ s.at = r.start /\ s.until = r.end /\ s.spot = Spot(r.ip, r.local) /\ s.id = <<1, r.id>>
                          /\ s = [at |-> r.start, until |-> r.end, spot |-> Spot(r.ip, r.local), id |-> <<1, r.id>>]
  BY <1>5
<1>6. ASSUME NEW s \in S, s \in signed
      PROVE  \E e \in E : /\ s.at = e.at /\ s.until = e.at /\ s.spot = Spot(e.ip, e.local) /\ s.id = <<0, e.id>>
                          /\ s = [at |-> e.at, until |-> e.at, spot |-> Spot(e.ip, e.local), id |-> <<0, e.id>>]
  BY <1>6
<1>7. \A s \in S : (s \in plays \/ s \in signed) /\ s.spot # Null
  OBVIOUS
<1>8. ASSUME NEW r \in P
      PROVE  /\ r.start \in Nat /\ r.end \in Nat /\ r.id \in Nat /\ r \in rows
             /\ Spot(r.ip, r.local) # Null => Spot(r.ip, r.local) \in SightedPlaces
             /\ (\A p \in PlaysToCome : p.start <= p.end) => r.start <= r.end
  <2>1. PICK p \in PlaysToCome : r = [p EXCEPT !.active = r.active]
    BY DEF RowsInv, PagesTypeOK
  <2>2. /\ p = [id |-> p.id, user |-> p.user, item |-> p.item, series |-> p.series, season |-> p.season,
                type |-> p.type, library |-> p.library, client |-> p.client, ip |-> p.ip, local |-> p.local,
                method |-> p.method, start |-> p.start, end |-> p.end, duration_s |-> p.duration_s,
                position_s |-> p.position_s, runtime_s |-> p.runtime_s, active |-> p.active]
        /\ p.id \in Nat /\ p.start \in Nat /\ p.end \in Nat
    BY PlaysAssumption
  <2>3. r.id = p.id /\ r.start = p.start /\ r.end = p.end /\ r.ip = p.ip /\ r.local = p.local
    BY <2>1, <2>2
  <2> QED
    BY <2>2, <2>3 DEF SightedPlaces
<1>9. ASSUME NEW e \in E
      PROVE  /\ e.at \in Nat /\ e.id \in Nat /\ e \in server_events(logged)
             /\ Spot(e.ip, e.local) # Null => Spot(e.ip, e.local) \in SightedPlaces
  <2>1. PICK i \in 1 .. logged : e = Ev(i)
    BY DEF server_events, Ev
  <2>2. i \in 1 .. Len(Log)
    BY AlertsAssumption
  <2>3. e.id = i /\ e.at \in Nat /\ e.type = Log[i].type /\ e.ip = Log[i].ip /\ e.local = Log[i].local
    BY <2>1, <2>2, EventFacts
  <2> QED
    BY <2>2, <2>3 DEF SightedPlaces
<1>10. \A r, p \in rows : r.id = p.id => r = p
  BY DEF RowsInv, PagesTypeOK
<1>11. \A e, d \in server_events(logged) : e.id = d.id => e = d
  <2> SUFFICES ASSUME NEW e \in server_events(logged), NEW d \in server_events(logged), e.id = d.id PROVE e = d
    OBVIOUS
  <2>1. PICK i \in 1 .. logged, j \in 1 .. logged : e = Ev(i) /\ d = Ev(j)
    BY DEF server_events, Ev
  <2>2. i \in 1 .. Len(Log) /\ j \in 1 .. Len(Log)
    BY AlertsAssumption
  <2> QED
    BY <2>1, <2>2, EventFacts
<1> HIDE DEF P, E, plays, signed, list
<1>12. IsFiniteSet(S)
  BY <1>3, FS_Union, FS_Subset
<1>13. ASSUME NEW s \in S
       PROVE  /\ IsSighting(s) /\ s.id[1] \in {0, 1} /\ s.id[2] \in Nat
              /\ s.id = <<s.id[1], s.id[2]>>
              /\ s \in plays <=> s.id[1] = 1
              /\ s \in signed <=> s.id[1] = 0
              /\ (\A p \in PlaysToCome : p.start <= p.end) => s.at <= s.until
  <2>1. CASE s \in plays
    <3>1. PICK r \in P : s.at = r.start /\ s.until = r.end /\ s.spot = Spot(r.ip, r.local) /\ s.id = <<1, r.id>>
      BY <1>5, <2>1
    <3>2. s \notin signed
      <4> SUFFICES ASSUME s \in signed PROVE FALSE
        OBVIOUS
      <4>1. PICK e \in E : s.id = <<0, e.id>>
        BY <1>6
      <4> QED
        BY <3>1, <4>1
    <3> QED
      BY <1>7, <1>8, <2>1, <3>1, <3>2 DEF IsSighting
  <2>2. CASE s \in signed
    <3>1. PICK e \in E : s.at = e.at /\ s.until = e.at /\ s.spot = Spot(e.ip, e.local) /\ s.id = <<0, e.id>>
      BY <1>6, <2>2
    <3>2. s \notin plays
      <4> SUFFICES ASSUME s \in plays PROVE FALSE
        OBVIOUS
      <4>1. PICK r \in P : s.id = <<1, r.id>>
        BY <1>5
      <4> QED
        BY <3>1, <4>1
    <3> QED
      BY <1>7, <1>9, <2>2, <3>1, <3>2 DEF IsSighting
  <2> QED
    BY <1>7, <2>1, <2>2
<1>14. ASSUME NEW s \in S, NEW t \in S, s.id[1] = t.id[1], s.id[2] = t.id[2]
       PROVE  s = t
  <2>1. CASE s \in plays
    <3>1. t \in plays
      BY <1>13, <1>14, <2>1
    <3>2. PICK r \in P : s.id = <<1, r.id>> /\ s = [at |-> r.start, until |-> r.end, spot |-> Spot(r.ip, r.local), id |-> <<1, r.id>>]
      BY <1>5, <2>1
    <3>3. PICK p \in P : t.id = <<1, p.id>> /\ t = [at |-> p.start, until |-> p.end, spot |-> Spot(p.ip, p.local), id |-> <<1, p.id>>]
      BY <1>5, <3>1
    <3>4. r.id = p.id
      BY <1>14, <3>2, <3>3
    <3>5. r = p
      BY <1>8, <1>10, <3>4
    <3> QED
      BY <3>2, <3>3, <3>5
  <2>2. CASE s \in signed
    <3>1. t \in signed
      BY <1>13, <1>14, <2>2
    <3>2. PICK e \in E : s.id = <<0, e.id>> /\ s = [at |-> e.at, until |-> e.at, spot |-> Spot(e.ip, e.local), id |-> <<0, e.id>>]
      BY <1>6, <2>2
    <3>3. PICK d \in E : t.id = <<0, d.id>> /\ t = [at |-> d.at, until |-> d.at, spot |-> Spot(d.ip, d.local), id |-> <<0, d.id>>]
      BY <1>6, <3>1
    <3>4. e.id = d.id
      BY <1>14, <3>2, <3>3
    <3>5. e = d
      BY <1>9, <1>11, <3>4
    <3> QED
      BY <3>2, <3>3, <3>5
  <2> QED
    BY <1>7, <2>1, <2>2
<1> HIDE DEF S
<1>15. \A s, t \in S : s \in before[t] <=> Sooner(s, t)
  OBVIOUS
<1>16. /\ before \in [S -> SUBSET S]
       /\ \A t \in S : t \notin before[t]
       /\ \A s, t \in S : s \in before[t] => before[s] \subseteq before[t]
       /\ \A s, t \in S : s = t \/ s \in before[t] \/ t \in before[s]
  <2>1. \A s \in S : s.at \in Int /\ s.id[1] \in Int /\ s.id[2] \in Int
    BY <1>13 DEF IsSighting
  <2>2. before \in [S -> SUBSET S]
    OBVIOUS
  <2>3. \A t \in S : t \notin before[t]
    BY <1>15, <2>1
  <2>4. ASSUME NEW s \in S, NEW t \in S, NEW v \in S, Sooner(v, s), Sooner(s, t)
        PROVE  Sooner(v, t)
    BY <2>1, <2>4
  <2>5. \A s, t \in S : s \in before[t] => before[s] \subseteq before[t]
    BY <1>15, <2>2, <2>4
  <2>6. ASSUME NEW s \in S, NEW t \in S
        PROVE  s = t \/ Sooner(s, t) \/ Sooner(t, s)
    BY <1>14, <2>1
  <2> QED
    BY <1>15, <2>2, <2>3, <2>5, <2>6
<1>17. \A t \in S : before[t] = {s \in S : Sooner(s, t)}
  OBVIOUS
<1> HIDE DEF before
<1>18. /\ N \in Nat
       /\ \A t \in S : Cardinality(before[t]) \in 0 .. N - 1
       /\ \A s, t \in S : s \in before[t] <=> Cardinality(before[s]) < Cardinality(before[t])
       /\ \A k \in 1 .. N : \E t \in S : Cardinality(before[t]) = k - 1
  BY <1>12, <1>16, Places
<1>19. ASSUME NEW k \in 1 .. N
       PROVE  list[k] \in S /\ Cardinality(before[list[k]]) = k - 1
  <2>1. \E t \in S : Cardinality({y0 \in S : Sooner(y0, t)}) = k - 1
    BY <1>17, <1>18
  <2>2. list[k] \in S /\ Cardinality({y0 \in S : Sooner(y0, list[k])}) = k - 1
    <3> HIDE DEF Sooner
    <3> QED
      BY <1>4, <2>1
  <2> QED
    BY <1>17, <2>2
<1>20. list \in [1 .. N -> S]
  BY <1>4, <1>19
<1>21. list \in Seq(S) /\ Len(list) = N /\ DOMAIN list = 1 .. N
  <2>1. N \in Nat
    BY <1>18
  <2> HIDE DEF N
  <2> QED
    BY <1>20, <2>1
<1>22. ASSUME NEW i \in 1 .. N, NEW j \in 1 .. N, i < j
       PROVE  list[i].at <= list[j].at
  <2>1. list[i] \in S /\ list[j] \in S /\ Cardinality(before[list[i]]) < Cardinality(before[list[j]])
    BY <1>18, <1>19, <1>22
  <2>2. Sooner(list[i], list[j])
    BY <1>15, <1>18, <2>1
  <2>3. list[i].at \in Nat /\ list[j].at \in Nat
    BY <1>13, <2>1 DEF IsSighting
  <2> QED
    BY <2>2, <2>3
<1>23. IsLog(list, Len(list))
  BY <1>13, <1>18, <1>19, <1>21, <1>22 DEF IsLog
<1>24. ASSUME rows = {}, logged = 0
       PROVE  N = 0
  <2>1. P = {} /\ E = {}
    BY <1>24 DEF P, E, server_events
  <2>2. ASSUME N # 0 PROVE FALSE
    <3>1. list[1] \in S
      BY <1>18, <1>19, <2>2
    <3> QED
      BY <1>5, <1>6, <1>7, <2>1, <3>1
  <2> QED
    BY <2>2
<1> QED
  BY <1>13, <1>19, <1>21, <1>23, <1>24 DEF list

(* A longer time takes one further.                                          *)
LEMMA Further ==
  ASSUME NEW v \in Nat, NEW p \in Int, NEW q \in Int
  PROVE  /\ v * p \in Int /\ v * q \in Int /\ v * (p + q) = v * p + v * q
         /\ p <= q => v * p <= v * q
<1>1. v * p \in Int /\ v * q \in Int /\ v * (p + q) = v * p + v * q
  OBVIOUS
<1>2. ASSUME p <= q PROVE v * p <= v * q
  <2> DEFINE d == q - p
  <2>1. d \in Nat /\ q = p + d
    BY <1>2
  <2> HIDE DEF d
  <2>2. v * d \in Nat /\ v * d >= 0 /\ v * p \in Int
    BY <2>1
  <2>3. v * q = v * p + v * d
    BY <2>1
  <2> QED
    BY <2>2, <2>3
<1> QED
  BY <1>1, <1>2

(* Two sightings that a flight connects: in one place, or time enough.       *)
LEMMA Possible ==
  ASSUME OnTheMap, NEW s, NEW t, IsSighting(s), IsSighting(t)
  PROVE  ~Impossible(s, t) <=> \/ s.spot = t.spot
                               \/ t.at - s.until > 0 /\ Km[s.spot, t.spot] <= Speed * (t.at - s.until)
<1> DEFINE gap == t.at - s.until
           way == Speed * gap
           km == Km[s.spot, t.spot]
<1>1. gap \in Int /\ Speed \in Nat
  <2>1. Speed \in Nat
    BY DEF OnTheMap
  <2> QED
    BY <2>1 DEF IsSighting
<1>2. way \in Int
  BY <1>1
<1>3. km \in Nat /\ (s.spot # t.spot => km >= MinKm)
  <2>1. s.spot \in SightedPlaces /\ t.spot \in SightedPlaces
    BY DEF IsSighting
  <2>2. \A p, q \in SightedPlaces : Km[p, q] \in Nat /\ (p # q => Km[p, q] >= MinKm)
    BY DEF OnTheMap
  <2> QED
    BY <2>1, <2>2, Zenon
<1>4. Impossible(s, t) <=> s.spot # t.spot /\ km >= MinKm /\ (gap <= 0 \/ km > way)
  BY DEF Impossible
<1> HIDE DEF way, km
<1>5. ~Impossible(s, t) <=> s.spot = t.spot \/ (gap > 0 /\ km <= way)
  BY <1>1, <1>2, <1>3, <1>4
<1> QED
  BY <1>5 DEF way, km

(* Whoever was nowhere at once so far, and can have come from where they     *)
(* were longest, can have come from everywhere else they were.               *)
LEMMA LongestIsEnough ==
  ASSUME OnTheMap, NEW s, NEW n, IsLog(s, n), \A i \in 1 .. n : s[i].at <= s[i].until,
         NEW j \in 1 .. n, NEW l \in 1 .. j - 1, \A i \in 1 .. j - 1 : s[i].until <= s[l].until,
         ~Impossible(s[l], s[j]),
         \A k \in 1 .. j - 1 : \A i \in 1 .. k - 1 : ~Impossible(s[i], s[k])
  PROVE  \A i \in 1 .. j - 1 : ~Impossible(s[i], s[j])
<1> SUFFICES ASSUME NEW i \in 1 .. j - 1 PROVE ~Impossible(s[i], s[j])
  OBVIOUS
<1>1. n \in Nat /\ i \in 1 .. n /\ l \in 1 .. n
  BY DEF IsLog
<1>2. IsSighting(s[i]) /\ IsSighting(s[l]) /\ IsSighting(s[j])
  BY <1>1 DEF IsLog
<1> DEFINE p == s[i]
           q == s[l]
           t == s[j]
           toEnd == Speed * (t.at - p.until)
           toLong == Speed * (q.at - p.until)
           fromLong == Speed * (t.at - q.until)
<1>3. /\ p.at \in Nat /\ p.until \in Nat /\ q.at \in Nat /\ q.until \in Nat /\ t.at \in Nat
      /\ p.spot \in SightedPlaces /\ q.spot \in SightedPlaces /\ t.spot \in SightedPlaces
      /\ p.at <= p.until /\ q.at <= q.until /\ p.until <= q.until /\ Speed \in Nat
  BY <1>1, <1>2 DEF IsSighting, OnTheMap
<1>4. p.at <= t.at /\ q.at <= t.at /\ (l < i => q.at <= p.at)
  BY <1>1 DEF IsLog
<1>5. /\ Km[p.spot, t.spot] \in Nat /\ Km[p.spot, q.spot] \in Nat /\ Km[q.spot, t.spot] \in Nat
      /\ Km[p.spot, t.spot] <= Km[p.spot, q.spot] + Km[q.spot, t.spot]
  BY <1>3 DEF OnTheMap
<1>6. toEnd \in Int /\ toLong \in Int /\ fromLong \in Int
  BY <1>3, Further
<1>7. q.at <= t.at => toLong <= toEnd
  BY <1>3, Further
<1>8. p.until <= q.until => fromLong <= toEnd
  BY <1>3, Further
<1>9. toLong + fromLong <= toEnd
  <2> DEFINE g1 == q.at - p.until
             g2 == t.at - q.until
             g == t.at - p.until
  <2>1. g1 \in Int /\ g2 \in Int /\ g \in Int /\ g1 + g2 \in Int /\ g1 + g2 <= g
    BY <1>3
  <2> HIDE DEF g1, g2, g
  <2>2. Speed * (g1 + g2) = Speed * g1 + Speed * g2
    BY <1>3, <2>1, Further
  <2>3. Speed * (g1 + g2) <= Speed * g
    BY <1>3, <2>1, Further
  <2> QED
    BY <2>2, <2>3 DEF g1, g2, g
<1>10. q.spot = t.spot \/ (t.at - q.until > 0 /\ Km[q.spot, t.spot] <= fromLong)
  BY <1>2, Possible
<1>11. (p.spot = t.spot \/ (t.at - p.until > 0 /\ Km[p.spot, t.spot] <= toEnd)) => ~Impossible(p, t)
  BY <1>2, Possible
<1>12. i < l => p.spot = q.spot \/ (q.at - p.until > 0 /\ Km[p.spot, q.spot] <= toLong)
  <2> SUFFICES ASSUME i < l PROVE p.spot = q.spot \/ (q.at - p.until > 0 /\ Km[p.spot, q.spot] <= toLong)
    OBVIOUS
  <2>1. i \in 1 .. l - 1
    BY <1>1
  <2>2. ~Impossible(p, q)
    BY <2>1
  <2> QED
    BY <1>2, <2>2, Possible
<1>13. l < i => p.spot = q.spot
  <2> SUFFICES ASSUME l < i PROVE p.spot = q.spot
    OBVIOUS
  <2>1. l \in 1 .. i - 1
    BY <1>1
  <2>2. ~Impossible(q, p)
    BY <2>1
  <2>3. q.spot = p.spot \/ p.at - q.until > 0
    BY <1>2, <2>2, Possible
  <2> QED
    BY <1>3, <2>3
<1>14. i = l => p.spot = q.spot
  OBVIOUS
<1>15. i < l \/ l < i \/ i = l
  BY <1>1
<1> DEFINE pt == Km[p.spot, t.spot]
           pq == Km[p.spot, q.spot]
           qt == Km[q.spot, t.spot]
<1>16. /\ pt \in Nat /\ pq \in Nat /\ qt \in Nat /\ pt <= pq + qt
       /\ (p.spot = q.spot => pt = qt) /\ (q.spot = t.spot => pt = pq)
  BY <1>5
<1>17. /\ q.spot = t.spot \/ (t.at - q.until > 0 /\ qt <= fromLong)
       /\ p.spot = t.spot \/ (t.at - p.until > 0 /\ pt <= toEnd) => ~Impossible(p, t)
       /\ p.spot = q.spot \/ (q.at - p.until > 0 /\ pq <= toLong)
  BY <1>10, <1>11, <1>12, <1>13, <1>14, <1>15
<1> HIDE DEF p, q, t, toEnd, toLong, fromLong, pt, pq, qt
<1>18. ASSUME p.spot = q.spot PROVE ~Impossible(p, t)
  <2>1. CASE q.spot = t.spot
    BY <1>17, <1>18, <2>1
  <2>2. CASE t.at - q.until > 0 /\ qt <= fromLong
    <3>1. t.at - p.until > 0 /\ pt <= toEnd
      BY <1>3, <1>6, <1>8, <1>16, <1>18, <2>2
    <3> QED
      BY <1>17, <3>1
  <2> QED
    BY <1>17, <2>1, <2>2
<1>19. ASSUME q.at - p.until > 0, pq <= toLong PROVE ~Impossible(p, t)
  <2>1. CASE q.spot = t.spot
    <3>1. t.at - p.until > 0 /\ pt <= toEnd
      BY <1>3, <1>4, <1>6, <1>7, <1>16, <1>19, <2>1
    <3> QED
      BY <1>17, <3>1
  <2>2. CASE t.at - q.until > 0 /\ qt <= fromLong
    <3>1. t.at - p.until > 0 /\ pt <= toEnd
      BY <1>3, <1>4, <1>6, <1>9, <1>16, <1>19, <2>2
    <3> QED
      BY <1>17, <3>1
  <2> QED
    BY <1>17, <2>1, <2>2
<1>20. ~Impossible(p, t)
  BY <1>17, <1>18, <1>19
<1> QED
  BY <1>20 DEF p, t

(* An alert, or what becomes one, of travel, or of a country.                *)
OfTravel(y, user) == y.user = user /\ y.kind = "impossible_travel"
OfCountry(y, user, c) == y.user = user /\ y.kind = "new_country" /\ y.dedupe = <<"country", user, c>>

(* It is filed under a key that says whose and of what it is.                *)
IsKeyed(y) ==
  \/ y.kind = "impossible_travel" /\ \E z : y.dedupe = <<"travel", y.user, z>>
  \/ y.kind = "new_country" /\ \E z : y.dedupe = <<"country", y.user, z>>

(* What one step of `detect` does.                                           *)
LEMMA OneIsNoted ==
  ASSUME NEW g, NEW user, NEW s, NEW muted
  PROVE  LET h == Noted(g, user, s, muted)
         IN  /\ h.longest = Longest(g, s)
             /\ h.countries = g.countries \cup {CountryOf[s.spot]}
             /\ g.found \subseteq h.found
             /\ \A f \in h.found : f \in g.found \/ (f.user = user /\ IsKeyed(f))
             /\ CountryOf[s.spot] \in g.countries \/ g.countries = {} \/ \E f \in h.found : OfCountry(f, user, CountryOf[s.spot])
             /\ h.last = g.last \/ \E f \in h.found : OfTravel(f, user)
             /\ (muted = {} /\ \E e \in g.longest : Impossible(e, s)) =>
                  g.last # {} \/ \E f \in h.found : OfTravel(f, user)
<1> DEFINE h == Noted(g, user, s, muted)
           now == {e \in g.prev : Impossible(e, s)}
           ago == {e \in g.longest : Impossible(e, s) /\ \A p \in now : Worse(e, p, s)}
           those == IF ago # {} THEN ago ELSE now
           pair == {{e.spot, s.spot} : e \in those}
           worth == {p \in pair : p \notin muted /\ \A l \in g.last : l.pair = p => s.at - l.at >= PairQuiet}
           p0 == CHOOSE p \in worth : TRUE
           cc == CountryOf[s.spot]
           abroad == cc \notin g.countries /\ g.countries # {}
           trip == [kind |-> "impossible_travel", user |-> user, at |-> s.at, about |-> p0, dedupe |-> <<"travel", user, s.id>>]
           stay == [kind |-> "new_country", user |-> user, at |-> s.at, about |-> {cc}, dedupe |-> <<"country", user, cc>>]
           last == IF worth = {} THEN g.last ELSE {l \in g.last : l.pair # p0} \cup {[pair |-> p0, at |-> s.at]}
           found == g.found \cup (IF worth = {} THEN {} ELSE {trip}) \cup (IF abroad THEN {stay} ELSE {})
<1>1. h.found = found /\ h.last = last /\ h.countries = g.countries \cup {cc} /\ h.longest = Longest(g, s)
  <2>1. h.found = found
    BY DEF Noted
  <2>2. h.last = last
    BY DEF Noted
  <2>3. h.countries = g.countries \cup {cc}
    BY DEF Noted
  <2>4. h.longest = Longest(g, s)
    BY DEF Noted
  <2> QED
    BY <2>1, <2>2, <2>3, <2>4
<1>2. OfTravel(trip, user) /\ OfCountry(stay, user, cc) /\ trip.user = user /\ stay.user = user
  BY DEF OfTravel, OfCountry
<1>3. IsKeyed(trip) /\ IsKeyed(stay)
  BY DEF IsKeyed
<1>4. ASSUME muted = {}, g.last = {}, NEW e \in g.longest, Impossible(e, s)
      PROVE  worth # {}
  <2>1. CASE ago # {}
    <3>1. PICK d : d \in those
      BY <2>1
    <3> HIDE DEF those
    <3>2. {d.spot, s.spot} \in pair
      BY <3>1
    <3> HIDE DEF pair
    <3> QED
      BY <1>4, <3>2
  <2>2. CASE ago = {}
    <3>1. e \notin ago
      BY <2>2
    <3>2. now # {}
      BY <1>4, <3>1
    <3>3. PICK d : d \in those
      BY <2>2, <3>2
    <3> HIDE DEF those
    <3>4. {d.spot, s.spot} \in pair
      BY <3>3
    <3> HIDE DEF pair
    <3> QED
      BY <1>4, <3>4
  <2> QED
    BY <2>1, <2>2
<1> HIDE DEF trip, stay, worth, cc, p0
<1>5. last = g.last \/ trip \in found
  BY DEF last, found
<1>6. cc \in g.countries \/ g.countries = {} \/ stay \in found
  BY DEF found
<1>7. \A f \in found : f \in g.found \/ (f.user = user /\ IsKeyed(f))
  BY <1>2, <1>3
<1>8. worth # {} => trip \in found
  OBVIOUS
<1> HIDE DEF found, last
<1>9. /\ h.found = found /\ h.last = last /\ h.countries = g.countries \cup {cc} /\ h.longest = Longest(g, s)
  BY <1>1
<1>10. g.found \subseteq found
  BY DEF found
<1> HIDE DEF h
<1>11. /\ h.longest = Longest(g, s)
       /\ h.countries = g.countries \cup {cc}
       /\ g.found \subseteq h.found
       /\ \A f \in h.found : f \in g.found \/ (f.user = user /\ IsKeyed(f))
       /\ cc \in g.countries \/ g.countries = {} \/ \E f \in h.found : OfCountry(f, user, cc)
       /\ h.last = g.last \/ \E f \in h.found : OfTravel(f, user)
       /\ (muted = {} /\ \E e \in g.longest : Impossible(e, s)) =>
                  g.last # {} \/ \E f \in h.found : OfTravel(f, user)
  BY <1>2, <1>4, <1>5, <1>6, <1>7, <1>8, <1>9, <1>10
<1> QED
  BY <1>11 DEF h, cc

(* What has been found when `detect` has gone through the first k of s.      *)
Noticed(g, k, s, user, muted) ==
  /\ k = 0 => g[k].longest = {} /\ g[k].countries = {} /\ g[k].last = {}
  /\ k > 0 => \E l \in 1 .. k : g[k].longest = {s[l]} /\ \A i \in 1 .. k : s[i].until <= s[l].until
  /\ \A i \in 1 .. k : CountryOf[s[i].spot] \in g[k].countries
  /\ \A c \in g[k].countries : c = CountryOf[s[1].spot] \/ \E f \in g[k].found : OfCountry(f, user, c)
  /\ \A f \in g[k].found : f.user = user /\ IsKeyed(f)
  /\ g[k].last # {} => \E f \in g[k].found : OfTravel(f, user)
  /\ (OnTheMap /\ muted = {} /\ ~\E f \in g[k].found : OfTravel(f, user)) =>
       \A j \in 1 .. k : \A i \in 1 .. j - 1 : ~Impossible(s[i], s[j])

(* Each sighting that is gone through keeps that.                           *)
LEMMA NextIsNoticed ==
  ASSUME NEW n \in Nat, NEW s, IsLog(s, n), OnTheMap => \A i \in 1 .. n : s[i].at <= s[i].until, NEW user, NEW muted,
         NEW g, NEW k \in Nat, k + 1 <= n, g[k + 1] = Noted(g[k], user, s[k + 1], muted), Noticed(g, k, s, user, muted)
  PROVE  Noticed(g, k + 1, s, user, muted)
<1> DEFINE now == s[k + 1]
           was == g[k]
           new == g[k + 1]
           cc == CountryOf[now.spot]
<1>1. /\ new.longest = Longest(was, now)
      /\ new.countries = was.countries \cup {cc}
      /\ was.found \subseteq new.found
      /\ \A f \in new.found : f \in was.found \/ (f.user = user /\ IsKeyed(f))
      /\ cc \in was.countries \/ was.countries = {} \/ \E f \in new.found : OfCountry(f, user, cc)
      /\ new.last = was.last \/ \E f \in new.found : OfTravel(f, user)
      /\ (muted = {} /\ \E e \in was.longest : Impossible(e, now)) =>
                  was.last # {} \/ \E f \in new.found : OfTravel(f, user)
  BY OneIsNoted
<1>2. k + 1 \in 1 .. n /\ k + 1 \in Nat /\ k + 1 > 0 /\ (\A i \in 1 .. k + 1 : i \in 1 .. k \/ i = k + 1) /\ (\A i \in 1 .. k + 1 : i \in 1 .. n)
  OBVIOUS
<1>3. \A i \in 1 .. n : s[i].until \in Nat
  BY DEF IsLog, IsSighting
<1> HIDE DEF was, new
<1> DEFINE latest == \A e \in was.longest : now.until >= e.until
<1>4. new.longest = IF latest THEN {now} ELSE was.longest
  <2>1. Longest(was, now) = IF latest THEN {now} ELSE was.longest
    <3> HIDE DEF now
    <3>1. CASE latest
      BY <3>1 DEF Longest
    <3>2. CASE ~latest
      BY <3>2 DEF Longest
    <3> QED
      BY <3>1, <3>2
  <2> QED
    BY <1>1, <2>1
<1>5. \E l \in 1 .. k + 1 : new.longest = {s[l]} /\ \A i \in 1 .. k + 1 : s[i].until <= s[l].until
  <2>1. CASE k = 0
    <3>1. new.longest = {now}
      BY <1>4, <2>1 DEF Noticed, was, new
    <3>2. \A i \in 1 .. k + 1 : i = k + 1
      BY <2>1
    <3> QED
      BY <1>2, <1>3, <3>1, <3>2
  <2>2. CASE k > 0
    <3>1. PICK l \in 1 .. k : was.longest = {s[l]} /\ \A i \in 1 .. k : s[i].until <= s[l].until
      BY <2>2 DEF Noticed, was, new
    <3>2. new.longest = IF now.until >= s[l].until THEN {now} ELSE {s[l]}
      BY <1>4, <3>1
    <3>3. l \in 1 .. k + 1 /\ l \in 1 .. n
      OBVIOUS
    <3>4. CASE now.until >= s[l].until
      <4>1. \A i \in 1 .. k + 1 : s[i].until <= now.until
        BY <1>2, <1>3, <3>1, <3>3, <3>4
      <4> QED
        BY <1>2, <3>2, <3>4, <4>1
    <3>5. CASE ~(now.until >= s[l].until)
      <4>1. \A i \in 1 .. k + 1 : s[i].until <= s[l].until
        BY <1>2, <1>3, <3>1, <3>3, <3>5
      <4> QED
        BY <3>2, <3>3, <3>5, <4>1
    <3> QED
      BY <3>4, <3>5
  <2> QED
    BY <2>1, <2>2
<1>6. \A i \in 1 .. k + 1 : CountryOf[s[i].spot] \in new.countries
  BY <1>1, <1>2 DEF Noticed, was, new
<1>7. ASSUME NEW c \in new.countries
      PROVE  c = CountryOf[s[1].spot] \/ \E f \in new.found : OfCountry(f, user, c)
  <2>1. CASE c \in was.countries
    BY <1>1, <2>1 DEF Noticed, was, new
  <2>2. CASE c = cc /\ c \notin was.countries
    <3>1. CASE k = 0
      BY <2>2, <3>1
    <3>2. CASE k > 0
      <4>1. 1 \in 1 .. k
        BY <3>2
      <4>2. was.countries # {}
        BY <4>1 DEF Noticed, was, new
      <4> QED
        BY <1>1, <2>2, <4>2
    <3> QED
      BY <3>1, <3>2
  <2> QED
    BY <1>1, <2>1, <2>2
<1>8. \A f \in new.found : f.user = user /\ IsKeyed(f)
  BY <1>1 DEF Noticed, was, new
<1>9. new.last # {} => \E f \in new.found : OfTravel(f, user)
  BY <1>1 DEF Noticed, was, new
<1>10. ASSUME OnTheMap, muted = {}, ~\E f \in new.found : OfTravel(f, user)
      PROVE  \A j \in 1 .. k + 1 : \A i \in 1 .. j - 1 : ~Impossible(s[i], s[j])
  <2>1. ~\E f \in was.found : OfTravel(f, user)
    BY <1>1, <1>10
  <2>2. \A j \in 1 .. k : \A i \in 1 .. j - 1 : ~Impossible(s[i], s[j])
    BY <1>10, <2>1 DEF Noticed, was, new
  <2>3. was.last = {}
    BY <2>1 DEF Noticed, was, new
  <2>4. \A e \in was.longest : ~Impossible(e, now)
    BY <1>1, <1>10, <2>3
  <2>5. \A i \in 1 .. k : ~Impossible(s[i], now)
    <3>1. CASE k = 0
      BY <3>1
    <3>2. CASE k > 0
      <4>1. PICK l \in 1 .. k : was.longest = {s[l]} /\ \A i \in 1 .. k : s[i].until <= s[l].until
        BY <3>2 DEF Noticed, was, new
      <4>2. ~Impossible(s[l], now)
        BY <2>4, <4>1
      <4> DEFINE j == k + 1
      <4>3. j \in 1 .. n /\ j - 1 = k
        BY <1>2
      <4> HIDE DEF j
      <4>4. \A i \in 1 .. j - 1 : ~Impossible(s[i], s[j])
        <5>1. l \in 1 .. j - 1 /\ \A i \in 1 .. j - 1 : s[i].until <= s[l].until
          BY <4>1, <4>3
        <5>2. ~Impossible(s[l], s[j])
          BY <4>2 DEF j
        <5>3. \A m0 \in 1 .. j - 1 : \A i \in 1 .. m0 - 1 : ~Impossible(s[i], s[m0])
          BY <2>2, <4>3
        <5>4. \A i \in 1 .. n : s[i].at <= s[i].until
          BY <1>10
        <5> QED
          BY <1>10, <4>3, <5>1, <5>2, <5>3, <5>4, LongestIsEnough
      <4> QED
        BY <4>3, <4>4 DEF j
    <3> QED
      BY <3>1, <3>2
  <2>6. (k + 1) - 1 = k
    OBVIOUS
  <2> QED
    BY <1>2, <2>2, <2>5, <2>6
<1>11. ~(k + 1 = 0)
  OBVIOUS
<1> QED
  BY <1>2, <1>5, <1>6, <1>7, <1>8, <1>9, <1>10, <1>11 DEF Noticed, was, new

(* So `detect` finds every country but the first, and, on a map and with     *)
(* nothing muted, some travel if two of the sightings are impossible.        *)
LEMMA AllIsNoticed ==
  ASSUME NEW s, IsLog(s, Len(s)), OnTheMap => \A i \in 1 .. Len(s) : s[i].at <= s[i].until, NEW user, NEW muted
  PROVE  LET found == detect(user, s, muted)
         IN  /\ \A i \in 1 .. Len(s) : CountryOf[s[i].spot] = CountryOf[s[1].spot] \/ \E f \in found : OfCountry(f, user, CountryOf[s[i].spot])
             /\ \A f \in found : f.user = user /\ IsKeyed(f)
             /\ (OnTheMap /\ muted = {} /\ \E i, j \in 1 .. Len(s) : i < j /\ Impossible(s[i], s[j])) =>
                  \E f \in found : OfTravel(f, user)
<1> DEFINE n == Len(s)
<1>1. n \in Nat
  BY DEF IsLog
<1>2. PICK g : IsWatch(g, n, s, user, muted) /\ detect(user, s, muted) = g[n].found
  BY <1>1, DetectIs
<1> HIDE DEF n
<1> DEFINE T == {k \in Nat : k <= n => Noticed(g, k, s, user, muted)}
<1>3. 0 \in T
  <2>1. g[0] = NothingNoted /\ \A i \in 1 .. 0 : FALSE
    BY <1>2 DEF IsWatch
  <2> QED
    BY <2>1 DEF Noticed, NothingNoted
<1>4. ASSUME NEW k \in Nat, k \in T
      PROVE  k + 1 \in T
  <2> SUFFICES ASSUME k + 1 <= n PROVE Noticed(g, k + 1, s, user, muted)
    OBVIOUS
  <2>1. k <= n /\ k + 1 \in 1 .. n /\ (k + 1) - 1 = k
    BY <1>1
  <2>2. g[k + 1] = Noted(g[k], user, s[k + 1], muted)
    BY <1>2, <2>1 DEF IsWatch
  <2>3. Noticed(g, k, s, user, muted)
    BY <1>4, <2>1
  <2> QED
    BY <1>1, <2>2, <2>3, NextIsNoticed DEF n
<1> HIDE DEF T
<1>5. n \in T
  BY <1>1, <1>3, <1>4, NatByStep
<1>6. Noticed(g, n, s, user, muted)
  BY <1>1, <1>5 DEF T
<1>7. \A i, j \in 1 .. n : i < j => i \in 1 .. j - 1
  BY <1>1
<1> DEFINE found == g[n].found
<1>8. /\ \A i \in 1 .. n : CountryOf[s[i].spot] = CountryOf[s[1].spot] \/ \E f \in found : OfCountry(f, user, CountryOf[s[i].spot])
      /\ \A f \in found : f.user = user /\ IsKeyed(f)
      /\ (OnTheMap /\ muted = {} /\ \E i, j \in 1 .. n : i < j /\ Impossible(s[i], s[j])) =>
                  \E f \in found : OfTravel(f, user)
  BY <1>6, <1>7 DEF Noticed
<1> QED
  BY <1>2, <1>8 DEF n

(* What has been filed or is about to be.                                    *)
Raised == alerts \cup check.found

(* Who has been looked at has an alert, filed or about to be, of what is     *)
(* wrong with them.                                                          *)
LookedAt(w) ==
  LET s == sightings_of(rows, w)
  IN  /\ (OnTheMap /\ \E i, j \in 1 .. Len(s) : i < j /\ Impossible(s[i], s[j])) => \E y \in Raised : OfTravel(y, w)
      /\ \E c0 : \A i \in 1 .. Len(s) : CountryOf[s[i].spot] = c0 \/ \E y \in Raised : OfCountry(y, w, CountryOf[s[i].spot])

NoticedInv ==
  /\ \A y \in Raised : IsKeyed(y)
  /\ \A al \in alerts : al.muted => al.kind = "impossible_travel"
  /\ \A w \in Accounts : w \in due \/ w \in check.todo \/ LookedAt(w)

(* y says the same of the same one as z.                                     *)
SameNews(y, z) == y.user = z.user /\ y.kind = z.kind /\ y.dedupe = z.dedupe

(* What the plays P and the entries E of the log make a list of.             *)
ListOf(P, E) ==
  LET plays == {[at |-> r.start, until |-> r.end, spot |-> Spot(r.ip, r.local), id |-> <<1, r.id>>] : r \in P}
      signed == {[at |-> e.at, until |-> e.at, spot |-> Spot(e.ip, e.local), id |-> <<0, e.id>>] : e \in E}
      Earlier(s, t) == s.at < t.at \/ (s.at = t.at /\ (s.id[1] < t.id[1] \/ (s.id[1] = t.id[1] /\ s.id[2] < t.id[2])))
  IN  InOrder({s \in plays \cup signed : s.spot # Null}, Earlier)

(* The list is of the plays and entries that are somebody's.                *)
LEMMA SameSightings ==
  ASSUME NEW w, logged' = logged, {p \in rows' : p.user = w /\ p.ip # Null} = {p \in rows : p.user = w /\ p.ip # Null}
  PROVE  sightings_of(rows, w)' = sightings_of(rows, w)
<1>1. sightings_of(rows, w) = ListOf({p \in rows : p.user = w /\ p.ip # Null}, {y \in server_events(logged) : y.user = w /\ y.type \in SIGN_IN_TYPES})
  BY DEF sightings_of, ListOf
<1>2. sightings_of(rows, w)' = ListOf({p \in rows' : p.user = w /\ p.ip # Null}, {y \in server_events(logged') : y.user = w /\ y.type \in SIGN_IN_TYPES})
  BY DEF sightings_of, ListOf, InOrder, server_events, Spot
<1> QED
  BY <1>1, <1>2

(* Nothing that was said is taken back.                                      *)
LEMMA NothingIsTakenBack ==
  ASSUME NEW w, LookedAt(w), sightings_of(rows, w)' = sightings_of(rows, w),
         \A y \in Raised : \E z \in Raised' : SameNews(y, z)
  PROVE  LookedAt(w)'
<1> DEFINE s == sightings_of(rows, w)
<1>1. s' = s
  OBVIOUS
<1> HIDE DEF s
<1>2. (\E y \in Raised : OfTravel(y, w)) => \E y \in Raised' : OfTravel(y, w)
  BY DEF OfTravel, SameNews
<1>3. \A c : (\E y \in Raised : OfCountry(y, w, c)) => \E y \in Raised' : OfCountry(y, w, c)
  BY DEF OfCountry, SameNews
<1>4. /\ (OnTheMap /\ \E i, j \in 1 .. Len(s) : i < j /\ Impossible(s[i], s[j])) => \E y \in Raised : OfTravel(y, w)
      /\ \E c0 : \A i \in 1 .. Len(s) : CountryOf[s[i].spot] = c0 \/ \E y \in Raised : OfCountry(y, w, CountryOf[s[i].spot])
  BY DEF LookedAt, s
<1>5. /\ (OnTheMap /\ \E i, j \in 1 .. Len(s) : i < j /\ Impossible(s[i], s[j])) => \E y \in Raised' : OfTravel(y, w)
      /\ \E c0 : \A i \in 1 .. Len(s) : CountryOf[s[i].spot] = c0 \/ \E y \in Raised' : OfCountry(y, w, CountryOf[s[i].spot])
  BY <1>2, <1>3, <1>4
<1>6. LookedAt(w)' <=>
        /\ (OnTheMap /\ \E i, j \in 1 .. Len(s') : i < j /\ Impossible(s'[i], s'[j])) => \E y \in Raised' : OfTravel(y, w)
        /\ \E c0 : \A i \in 1 .. Len(s') : CountryOf[s'[i].spot] = c0 \/ \E y \in Raised' : OfCountry(y, w, CountryOf[s'[i].spot])
  BY DEF LookedAt, s, OnTheMap, Impossible, OfTravel, OfCountry
<1> QED
  BY <1>1, <1>5, <1>6

(* What is filed under one key says the same.                                *)
LEMMA OneKeyOneNews ==
  ASSUME NEW y, NEW z, IsKeyed(y), IsKeyed(z), y.dedupe = z.dedupe
  PROVE  SameNews(y, z)
<1>1. ASSUME NEW t1, NEW t2, NEW t3, NEW v1, NEW v2, NEW v3, <<t1, t2, t3>> = <<v1, v2, v3>>
      PROVE  t1 = v1 /\ t2 = v2
  BY <1>1
<1>2. "travel" # "country"
  OBVIOUS
<1> QED
  BY <1>1, <1>2 DEF IsKeyed, SameNews

(* What says the same is keyed, too.                                        *)
LEMMA KeyKept ==
  ASSUME NEW y, NEW z, IsKeyed(y), SameNews(y, z)
  PROVE  IsKeyed(z)
BY DEF IsKeyed, SameNews

(* At first there is nobody to look at.                                     *)
LEMMA NoticedInitially ==
  ASSUME RowsInv, rows = {}, AlertsInit
  PROVE  NoticedInv
<1>1. logged = 0 /\ alerts = {} /\ check = Idle /\ logged \in 0 .. Len(Log)
  BY AlertsAssumption DEF AlertsInit
<1>2. Raised = {}
  BY <1>1 DEF Raised, Idle
<1>3. ASSUME NEW w PROVE LookedAt(w)
  <2> DEFINE s == sightings_of(rows, w)
  <2>1. Len(s) = 0
    BY <1>1, SightingsAreLog
  <2> HIDE DEF s
  <2>2. \A i \in 1 .. Len(s) : FALSE
    BY <2>1
  <2>3. /\ (OnTheMap /\ \E i, j \in 1 .. Len(s) : i < j /\ Impossible(s[i], s[j])) => \E y \in Raised : OfTravel(y, w)
        /\ \E c0 : \A i \in 1 .. Len(s) : CountryOf[s[i].spot] = c0 \/ \E y \in Raised : OfCountry(y, w, CountryOf[s[i].spot])
    BY <2>2
  <2> QED
    BY <2>3 DEF LookedAt, s
<1> QED
  BY <1>1, <1>2, <1>3 DEF NoticedInv

(* What a manager answers takes nothing back.                                *)
LEMMA AnswersTakeNothingBack ==
  ASSUME AlertsOK, NoticedInv, resolve \/ reopen \/ resolve_all
  PROVE  /\ \A y \in alerts : \E z \in alerts' : SameNews(y, z)
         /\ \A z \in alerts' : \E y \in alerts : SameNews(y, z)
         /\ \A z \in alerts' : z.muted => z.kind = "impossible_travel"
         /\ UNCHANGED <<rows, logged, due, check>>
<1>1. \A al \in alerts : DOMAIN al = AlertFields /\ (al.muted => al.kind = "impossible_travel")
  BY DEF AlertsOK, IsAlert, NoticedInv
<1>2. UNCHANGED <<rows, logged, due, check>>
  BY DEF resolve, reopen, resolve_all, Answer, Same
<1>3. ASSUME NEW h, alerts' = {h[y] : y \in alerts},
             \A y \in alerts : SameNews(y, h[y]) /\ (h[y].muted => h[y].kind = "impossible_travel")
      PROVE  /\ \A y \in alerts : \E z \in alerts' : SameNews(y, z)
             /\ \A z \in alerts' : \E y \in alerts : SameNews(y, z)
             /\ \A z \in alerts' : z.muted => z.kind = "impossible_travel"
  BY <1>3
<1>4. ASSUME NEW y \in alerts, NEW quiet \in BOOLEAN
      PROVE  SameNews(y, [y EXCEPT !.open = FALSE, !.muted = quiet]) /\ [y EXCEPT !.open = FALSE, !.muted = quiet].muted = quiet
  BY <1>1 DEF AlertFields, SameNews
<1>5. ASSUME NEW y \in alerts
      PROVE  /\ SameNews(y, [y EXCEPT !.open = FALSE]) /\ [y EXCEPT !.open = FALSE].muted = y.muted
             /\ SameNews(y, [y EXCEPT !.open = TRUE, !.muted = FALSE]) /\ [y EXCEPT !.open = TRUE, !.muted = FALSE].muted = FALSE
             /\ SameNews(y, y)
  BY <1>1 DEF AlertFields, SameNews
<1>6. CASE resolve
  <2>1. PICK al \in alerts, mute \in BOOLEAN :
          LET mutes == mute /\ al.kind = "impossible_travel"
              Also(y) == mutes /\ y.user = al.user /\ y.kind = al.kind /\ y.about = al.about
          IN  Answer({IF y = al THEN [y EXCEPT !.open = FALSE, !.muted = mutes]
                      ELSE IF Also(y) THEN [y EXCEPT !.open = FALSE] ELSE y : y \in alerts})
    BY <1>6 DEF resolve
  <2> DEFINE mutes == mute /\ al.kind = "impossible_travel"
             Also(y) == mutes /\ y.user = al.user /\ y.kind = al.kind /\ y.about = al.about
             At(y) == IF y = al THEN [y EXCEPT !.open = FALSE, !.muted = mutes]
                      ELSE IF Also(y) THEN [y EXCEPT !.open = FALSE] ELSE y
             h == [y \in alerts |-> At(y)]
  <2>2. alerts' = {At(y) : y \in alerts}
    BY <2>1 DEF Answer
  <2>3. mutes \in BOOLEAN /\ (mutes => al.kind = "impossible_travel")
    OBVIOUS
  <2> HIDE DEF mutes, Also
  <2>4. ASSUME NEW y \in alerts
        PROVE  SameNews(y, At(y)) /\ (At(y).muted => At(y).kind = "impossible_travel")
    <3>1. CASE y = al
      <4>1. At(y) = [y EXCEPT !.open = FALSE, !.muted = mutes]
        BY <3>1
      <4>2. SameNews(y, [y EXCEPT !.open = FALSE, !.muted = mutes]) /\ [y EXCEPT !.open = FALSE, !.muted = mutes].muted = mutes
        BY <1>4, <2>3
      <4> HIDE DEF At
      <4>3. SameNews(y, At(y)) /\ At(y).muted = mutes
        BY <4>1, <4>2
      <4> QED
        BY <2>3, <3>1, <4>3 DEF SameNews
    <3>2. CASE y # al /\ Also(y)
      <4>1. At(y) = [y EXCEPT !.open = FALSE]
        BY <3>2
      <4>2. SameNews(y, At(y)) /\ At(y).muted = y.muted
        BY <1>5, <1>4, <2>3, <4>1
      <4> QED
        BY <1>1, <4>2 DEF SameNews
    <3>3. CASE y # al /\ ~Also(y)
      BY <1>1, <1>5, <3>3 DEF SameNews
    <3> QED
      BY <3>1, <3>2, <3>3
  <2> HIDE DEF At
  <2>5. alerts' = {h[y] : y \in alerts} /\ \A y \in alerts : h[y] = At(y)
    BY <2>2
  <2> HIDE DEF h
  <2> QED
    BY <1>2, <1>3, <2>4, <2>5
<1>7. CASE reopen
  <2>1. PICK al \in alerts : alerts' = (alerts \ {al}) \cup {[al EXCEPT !.open = TRUE, !.muted = FALSE]}
    BY <1>7 DEF reopen, Answer
  <2> DEFINE opened == [al EXCEPT !.open = TRUE, !.muted = FALSE]
  <2>2. SameNews(al, opened) /\ opened.muted = FALSE
    BY <1>5
  <2>3. \A y \in alerts : SameNews(y, y)
    BY DEF SameNews
  <2> HIDE DEF opened
  <2>4. alerts' = (alerts \ {al}) \cup {opened}
    BY <2>1 DEF opened
  <2> QED
    BY <1>1, <1>2, <2>2, <2>3, <2>4
<1>8. CASE resolve_all
  <2> DEFINE h == [y \in alerts |-> [y EXCEPT !.open = FALSE]]
  <2>1. alerts' = {h[y] : y \in alerts}
    BY <1>8 DEF resolve_all, Answer
  <2>2. \A y \in alerts : h[y] = [y EXCEPT !.open = FALSE]
    OBVIOUS
  <2> HIDE DEF h
  <2>3. ASSUME NEW y \in alerts
        PROVE  SameNews(y, h[y]) /\ (h[y].muted => h[y].kind = "impossible_travel")
    <3>1. SameNews(y, h[y]) /\ h[y].muted = y.muted
      BY <1>5, <2>2
    <3> QED
      BY <1>1, <3>1 DEF SameNews
  <2> QED
    BY <1>2, <1>3, <2>1, <2>3
<1> QED
  BY <1>6, <1>7, <1>8

(* Who is looked at has been looked at.                                      *)
LEMMA OneIsLookedAt ==
  ASSUME RowsInv, AlertsOK, NoticedInv, NEW w \in check.todo, LookAt,
         check' = [todo |-> check.todo \ {w}, found |-> detect(w, sightings_of(rows, w), Muted(w))]
  PROVE  /\ LookedAt(w)'
         /\ \A y \in Raised' : IsKeyed(y)
         /\ \A y \in Raised : y \in Raised'
<1> DEFINE s == sightings_of(rows, w)
           found == detect(w, s, Muted(w))
<1>1. UNCHANGED <<rows, logged, alerts>> /\ check.found = {} /\ check'.found = found
  BY DEF LookAt, Same
<1>2. Raised = alerts /\ Raised' = alerts \cup found
  BY <1>1 DEF Raised
<1>3. IsLog(s, Len(s)) /\ (OnTheMap => \A i \in 1 .. Len(s) : s[i].at <= s[i].until)
  BY SightingsAreLog DEF AlertsOK, OnTheMap
<1>4. sightings_of(rows, w)' = s
  BY <1>1, SameSightings
<1> DEFINE muted == Muted(w)
<1>5. muted # {} => \E y \in alerts : OfTravel(y, w)
  BY DEF Muted, OfTravel, NoticedInv
<1> HIDE DEF s, muted
<1>6. /\ \A i \in 1 .. Len(s) : CountryOf[s[i].spot] = CountryOf[s[1].spot] \/ \E f \in found : OfCountry(f, w, CountryOf[s[i].spot])
      /\ \A f \in found : f.user = w /\ IsKeyed(f)
      /\ (OnTheMap /\ muted = {} /\ \E i, j \in 1 .. Len(s) : i < j /\ Impossible(s[i], s[j])) =>
           \E f \in found : OfTravel(f, w)
  <2>1. LET new == detect(w, s, muted)
        IN  /\ \A i \in 1 .. Len(s) : CountryOf[s[i].spot] = CountryOf[s[1].spot] \/ \E f \in new : OfCountry(f, w, CountryOf[s[i].spot])
            /\ \A f \in new : f.user = w /\ IsKeyed(f)
            /\ (OnTheMap /\ muted = {} /\ \E i, j \in 1 .. Len(s) : i < j /\ Impossible(s[i], s[j])) =>
                 \E f \in new : OfTravel(f, w)
    BY <1>3, AllIsNoticed
  <2> QED
    BY <2>1 DEF muted
<1> HIDE DEF found
<1>7. /\ (OnTheMap /\ \E i, j \in 1 .. Len(s) : i < j /\ Impossible(s[i], s[j])) => \E y \in Raised' : OfTravel(y, w)
      /\ \E c0 : \A i \in 1 .. Len(s) : CountryOf[s[i].spot] = c0 \/ \E y \in Raised' : OfCountry(y, w, CountryOf[s[i].spot])
  BY <1>2, <1>5, <1>6
<1>8. LookedAt(w)' <=>
        LET t == sightings_of(rows, w)'
        IN  /\ (OnTheMap /\ \E i, j \in 1 .. Len(t) : i < j /\ Impossible(t[i], t[j])) => \E y \in Raised' : OfTravel(y, w)
            /\ \E c0 : \A i \in 1 .. Len(t) : CountryOf[t[i].spot] = c0 \/ \E y \in Raised' : OfCountry(y, w, CountryOf[t[i].spot])
  BY DEF LookedAt, OnTheMap, Impossible, OfTravel, OfCountry
<1>9. LookedAt(w)'
  BY <1>4, <1>7, <1>8
<1>10. \A y \in Raised' : IsKeyed(y)
  BY <1>2, <1>6 DEF NoticedInv
<1> QED
  BY <1>2, <1>9, <1>10

(* A key is no matter of state.                                             *)
LEMMA KeysPrimed == (\A y \in Raised : IsKeyed(y))' <=> \A y \in Raised' : IsKeyed(y)
BY DEF IsKeyed

(* As long as nothing happens, nothing is due.                              *)
LEMMA NoticedSame ==
  ASSUME NoticedInv, UNCHANGED <<rows, logged, alerts, told, due, check, answers>>
  PROVE  NoticedInv'
<1>1. UNCHANGED <<rows, logged, alerts, check, due>>
  OBVIOUS
<1>2. \A w \in Accounts : sightings_of(rows, w)' = sightings_of(rows, w)
  BY <1>1, SameSightings
<1>3. Raised' = Raised
  BY <1>1 DEF Raised
<1>4. \A y \in Raised : \E z \in Raised' : SameNews(y, z)
  BY <1>3 DEF SameNews
<1>5. \A w \in Accounts : w \in due' \/ w \in check'.todo \/ LookedAt(w)'
  BY <1>1, <1>2, <1>4, NothingIsTakenBack DEF NoticedInv
<1> QED
  BY <1>1, <1>3, <1>5, KeysPrimed DEF NoticedInv

(* Whatever happens, who is not due to be looked at has been.                *)
LEMMA NoticedStep ==
  ASSUME RowsInv, AlertsOK, NoticedInv, AlertsNext
  PROVE  NoticedInv'
<1>1. /\ \A y \in Raised : IsKeyed(y)
      /\ \A al \in alerts : al.muted => al.kind = "impossible_travel"
      /\ \A w \in Accounts : w \in due \/ w \in check.todo \/ LookedAt(w)
  BY DEF NoticedInv
<1>2. ASSUME UNCHANGED <<alerts, check>>, \A w \in Accounts : w \in due' \/ w \in check.todo \/ (w \notin due /\ sightings_of(rows, w)' = sightings_of(rows, w))
      PROVE  NoticedInv'
  <2>1. Raised' = Raised /\ check' = check /\ alerts' = alerts
    BY <1>2 DEF Raised
  <2>2. \A y \in Raised : \E z \in Raised' : SameNews(y, z)
    BY <2>1 DEF SameNews
  <2>3. \A w \in Accounts : w \in due' \/ w \in check'.todo \/ LookedAt(w)'
    BY <1>1, <1>2, <2>1, <2>2, NothingIsTakenBack
  <2> QED
    BY <1>1, <2>1, <2>3, KeysPrimed DEF NoticedInv
<1>3. CASE PlayIsSeen
  <2>1. UNCHANGED <<logged, alerts, check>> /\ due' = due \cup {r.user : r \in rows' \ rows} /\ rows \subseteq rows'
    BY <1>3 DEF PlayIsSeen, Recorded
  <2>2. ASSUME NEW w \in Accounts, w \notin due'
        PROVE  w \notin due /\ sightings_of(rows, w)' = sightings_of(rows, w)
    <3>1. {p \in rows' : p.user = w /\ p.ip # Null} = {p \in rows : p.user = w /\ p.ip # Null}
      BY <2>1, <2>2
    <3> QED
      BY <2>1, <2>2, <3>1, SameSightings
  <2> QED
    BY <1>2, <2>1, <2>2
<1>4. CASE LogIsRead
  BY <1>2, <1>4 DEF LogIsRead
<1>5. CASE CheckBegins
  <2>1. PICK W \in {Accounts} \cup {{w} : w \in due} : check' = [Idle EXCEPT !.todo = W] /\ due' = due \ W
    BY <1>5 DEF CheckBegins
  <2>2. UNCHANGED <<rows, logged, alerts>> /\ check = Idle
    BY <1>5 DEF CheckBegins, Same
  <2>3. check.todo = {} /\ check.found = {} /\ check'.todo = W /\ check'.found = {}
    BY <2>1, <2>2 DEF Idle
  <2>4. Raised' = Raised
    BY <2>2, <2>3 DEF Raised
  <2>5. \A y \in Raised : \E z \in Raised' : SameNews(y, z)
    BY <2>4 DEF SameNews
  <2>6. \A w \in Accounts : sightings_of(rows, w)' = sightings_of(rows, w)
    BY <2>2, SameSightings
  <2>7. \A w \in Accounts : w \in due' \/ w \in check'.todo \/ LookedAt(w)'
    BY <1>1, <2>1, <2>3, <2>5, <2>6, NothingIsTakenBack
  <2> QED
    BY <1>1, <2>2, <2>4, <2>7, KeysPrimed DEF NoticedInv
<1>6. CASE LookAt
  <2>1. PICK w \in check.todo : check' = [todo |-> check.todo \ {w}, found |-> detect(w, sightings_of(rows, w), Muted(w))]
    BY <1>6 DEF LookAt
  <2>2. UNCHANGED <<rows, logged, alerts, due>>
    BY <1>6 DEF LookAt, Same
  <2>3. /\ LookedAt(w)'
        /\ \A y \in Raised' : IsKeyed(y)
        /\ \A y \in Raised : y \in Raised'
    BY <1>6, <2>1, OneIsLookedAt
  <2>4. \A y \in Raised : \E z \in Raised' : SameNews(y, z)
    BY <2>3 DEF SameNews
  <2>5. \A v \in Accounts : sightings_of(rows, v)' = sightings_of(rows, v)
    BY <2>2, SameSightings
  <2>6. check'.todo = check.todo \ {w}
    BY <2>1
  <2>7. \A v \in Accounts : v \in due' \/ v \in check'.todo \/ LookedAt(v)'
    <3> SUFFICES ASSUME NEW v \in Accounts PROVE v \in due' \/ v \in check'.todo \/ LookedAt(v)'
      OBVIOUS
    <3>1. CASE v = w
      BY <2>3, <3>1
    <3>2. CASE v # w
      BY <1>1, <2>2, <2>4, <2>5, <2>6, <3>2, NothingIsTakenBack
    <3> QED
      BY <3>1, <3>2
  <2> QED
    BY <1>1, <2>2, <2>3, <2>7, KeysPrimed DEF NoticedInv
<1>7. CASE file_alerts
  <2>1. PICK f \in check.found :
          /\ check' = [check EXCEPT !.found = @ \ {f}]
          /\ alerts' = IF \E al \in alerts : al.dedupe = f.dedupe THEN alerts
                       ELSE alerts \cup {[kind |-> f.kind, user |-> f.user, at |-> f.at, about |-> f.about, dedupe |-> f.dedupe, open |-> TRUE, muted |-> FALSE]}
    BY <1>7 DEF file_alerts
  <2> DEFINE new == [kind |-> f.kind, user |-> f.user, at |-> f.at, about |-> f.about, dedupe |-> f.dedupe, open |-> TRUE, muted |-> FALSE]
  <2>2. UNCHANGED <<rows, logged, due>>
    BY <1>7 DEF file_alerts, Same
  <2>3. SameNews(f, new) /\ new.muted = FALSE
    BY DEF SameNews
  <2> HIDE DEF new
  <2>4. alerts' = IF \E al \in alerts : al.dedupe = f.dedupe THEN alerts ELSE alerts \cup {new}
    BY <2>1 DEF new
  <2>5. check'.todo = check.todo /\ check'.found = check.found \ {f}
    BY <2>1 DEF AlertsOK
  <2>6. IsKeyed(f) /\ IsKeyed(new) /\ f \in Raised
    <3>1. IsKeyed(f) /\ f \in Raised
      BY <1>1 DEF Raised
    <3> QED
      BY <2>3, <3>1, KeyKept
  <2>7. \E z \in alerts' : SameNews(f, z)
    <3>1. CASE \E al \in alerts : al.dedupe = f.dedupe
      <4>1. PICK al \in alerts : al.dedupe = f.dedupe
        BY <3>1
      <4>2. al \in alerts' /\ IsKeyed(al)
        BY <1>1, <2>4, <3>1 DEF Raised
      <4> QED
        BY <2>6, <4>1, <4>2, OneKeyOneNews
    <3>2. CASE ~\E al \in alerts : al.dedupe = f.dedupe
      BY <2>3, <2>4, <3>2
    <3> QED
      BY <3>1, <3>2
  <2>8. alerts \subseteq alerts' /\ alerts' \subseteq alerts \cup {new}
    BY <2>4
  <2>9. \A y \in Raised : \E z \in Raised' : SameNews(y, z)
    <3> SUFFICES ASSUME NEW y \in Raised PROVE \E z \in Raised' : SameNews(y, z)
      OBVIOUS
    <3>1. y = f \/ y \in alerts' \/ y \in check'.found
      BY <2>5, <2>8 DEF Raised
    <3>2. SameNews(y, y)
      BY DEF SameNews
    <3> QED
      BY <2>7, <3>1, <3>2 DEF Raised
  <2>10. \A y \in Raised' : IsKeyed(y)
    BY <1>1, <2>5, <2>6, <2>8 DEF Raised
  <2>11. \A al \in alerts' : al.muted => al.kind = "impossible_travel"
    BY <1>1, <2>3, <2>8
  <2>12. \A w \in Accounts : sightings_of(rows, w)' = sightings_of(rows, w)
    BY <2>2, SameSightings
  <2>13. \A w \in Accounts : w \in due' \/ w \in check'.todo \/ LookedAt(w)'
    BY <1>1, <2>2, <2>5, <2>9, <2>12, NothingIsTakenBack
  <2> QED
    BY <2>10, <2>11, <2>13, KeysPrimed DEF NoticedInv
<1>8. CASE resolve \/ reopen \/ resolve_all
  <2>1. /\ \A y \in alerts : \E z \in alerts' : SameNews(y, z)
        /\ \A z \in alerts' : \E y \in alerts : SameNews(y, z)
        /\ \A z \in alerts' : z.muted => z.kind = "impossible_travel"
        /\ UNCHANGED <<rows, logged, due, check>>
    BY <1>8, AnswersTakeNothingBack
  <2>2. \A y : SameNews(y, y)
    BY DEF SameNews
  <2>3. \A y \in Raised : \E z \in Raised' : SameNews(y, z)
    BY <2>1, <2>2 DEF Raised
  <2>4. \A y \in Raised' : IsKeyed(y)
    <3> SUFFICES ASSUME NEW z \in Raised' PROVE IsKeyed(z)
      OBVIOUS
    <3>1. z \in alerts' \/ z \in check.found
      BY <2>1 DEF Raised
    <3>2. \E y \in Raised : SameNews(y, z)
      BY <2>1, <2>2, <3>1 DEF Raised
    <3> QED
      BY <1>1, <3>2, KeyKept
  <2>5. \A w \in Accounts : sightings_of(rows, w)' = sightings_of(rows, w)
    BY <2>1, SameSightings
  <2>6. \A w \in Accounts : w \in due' \/ w \in check'.todo \/ LookedAt(w)'
    BY <1>1, <2>1, <2>3, <2>5, NothingIsTakenBack
  <2> QED
    BY <2>1, <2>4, <2>6, KeysPrimed DEF NoticedInv
<1>9. CASE DayPasses /\ UNCHANGED alertsVars
  <2>1. UNCHANGED rows
    BY <1>9 DEF DayPasses
  <2> QED
    BY <1>9, <2>1, NoticedSame DEF alertsVars
<1> QED
  BY <1>3, <1>4, <1>5, <1>6, <1>7, <1>8, <1>9 DEF AlertsNext

(* What a function makes of a finite set is no more than it.                 *)
LEMMA ImageIsNoMore ==
  ASSUME NEW S, IsFiniteSet(S), NEW h
  PROVE  LET T == {h[z] : z \in S} IN IsFiniteSet(T) /\ Cardinality(T) <= Cardinality(S) /\ Cardinality(T) \in Nat /\ Cardinality(S) \in Nat
<1> DEFINE T == {h[z] : z \in S}
           g == [z \in S |-> h[z]]
<1>1. g \in Surjection(S, T)
  BY DEF Surjection
<1> HIDE DEF g, T
<1>2. IsFiniteSet(T) /\ Cardinality(T) <= Cardinality(S)
  BY <1>1, FS_Surjection
<1>3. Cardinality(T) \in Nat /\ Cardinality(S) \in Nat
  BY <1>2, FS_CardinalityType
<1> QED
  BY <1>2, <1>3 DEF T

(* When everybody has been looked at, there are as many alerts of countries  *)
(* as of countries but one, and of travel that is impossible there is one.   *)
LEMMA NobodyIsMissed ==
  ASSUME RowsInv, AlertsOK, FewAlerts, NoticedInv, OnTheMap
  PROVE  NobodyIsInTwoPlaces
<1> SUFFICES ASSUME due = {}, check = Idle, NEW w \in Accounts
             PROVE  LET s == sightings_of(rows, w)
                        Of(kind) == {al \in alerts : al.user = w /\ al.kind = kind}
                    IN  /\ (\E i, j \in DOMAIN s : i < j /\ Impossible(s[i], s[j])) => Of("impossible_travel") # {}
                        /\ Cardinality({CountryOf[s[i].spot] : i \in DOMAIN s}) <= Cardinality(Of("new_country")) + 1
  BY DEF NobodyIsInTwoPlaces
<1> DEFINE s == sightings_of(rows, w)
           trips == {al \in alerts : al.user = w /\ al.kind = "impossible_travel"}
           stays == {al \in alerts : al.user = w /\ al.kind = "new_country"}
           countries == {CountryOf[s[i].spot] : i \in DOMAIN s}
           key == [al \in stays |-> al.dedupe[3]]
           named == {key[al] : al \in stays}
<1>1. check.todo = {} /\ check.found = {} /\ Raised = alerts
  BY DEF Idle, Raised
<1>2. LookedAt(w)
  BY <1>1 DEF NoticedInv
<1>3. DOMAIN s = 1 .. Len(s)
  BY SightingsAreLog DEF AlertsOK, IsLog
<1> HIDE DEF s
<1>4. PICK c0 : \A i \in 1 .. Len(s) : CountryOf[s[i].spot] = c0 \/ \E y \in alerts : OfCountry(y, w, CountryOf[s[i].spot])
  BY <1>1, <1>2 DEF LookedAt, s
<1>5. (\E i, j \in DOMAIN s : i < j /\ Impossible(s[i], s[j])) => trips # {}
  <2>1. (\E i, j \in 1 .. Len(s) : i < j /\ Impossible(s[i], s[j])) => \E y \in alerts : OfTravel(y, w)
    BY <1>1, <1>2 DEF LookedAt, s
  <2> QED
    BY <1>3, <2>1 DEF OfTravel
<1>6. countries \subseteq named \cup {c0}
  <2> SUFFICES ASSUME NEW i \in 1 .. Len(s), CountryOf[s[i].spot] # c0 PROVE CountryOf[s[i].spot] \in named
    BY <1>3
  <2>1. PICK y \in alerts : OfCountry(y, w, CountryOf[s[i].spot])
    BY <1>4
  <2>2. y \in stays /\ key[y] = CountryOf[s[i].spot]
    BY <2>1 DEF OfCountry
  <2> HIDE DEF key, stays
  <2> QED
    BY <2>2
<1>7. IsFiniteSet(stays)
  BY FS_Subset DEF FewAlerts
<1> HIDE DEF countries, stays, key
<1>8. IsFiniteSet(named) /\ Cardinality(named) <= Cardinality(stays) /\ Cardinality(named) \in Nat /\ Cardinality(stays) \in Nat
  BY <1>7, ImageIsNoMore
<1> HIDE DEF named
<1>9. IsFiniteSet(named \cup {c0}) /\ Cardinality(named \cup {c0}) <= Cardinality(named) + 1
  BY <1>8, FS_AddElement
<1>10. IsFiniteSet(countries) /\ Cardinality(countries) <= Cardinality(named \cup {c0})
  BY <1>6, <1>9, FS_Subset
<1>11. Cardinality(countries) \in Nat /\ Cardinality(named \cup {c0}) \in Nat
  BY <1>9, <1>10, FS_CardinalityType
<1>12. Cardinality(countries) <= Cardinality(stays) + 1
  BY <1>8, <1>9, <1>10, <1>11
<1> QED
  BY <1>5, <1>12 DEF s, countries, stays

(* At any time: when everybody has been looked at, whoever was in two places *)
(* that no flight connects has an alert of it, however late and in whatever  *)
(* order that came to be known and though a sighting is only compared with   *)
(* two earlier ones (`detect`), and of all countries but one there is one    *)
(* each. Kilometres are those of a map, no two places are nearer than counts *)
(* as travel, and no play ends before it began.                              *)
THEOREM TravelIsToldOf ==
  ASSUME OnTheMap
  PROVE  ReportsSpec => []TravelIsNoticed
<1> DEFINE Inv == ToldInv /\ (part = "alerts" => NoticedInv)
<1>1. ReportsInit => Inv
  <2> SUFFICES ASSUME ReportsInit PROVE Inv
    OBVIOUS
  <2>1. ToldInv
    BY ToldInitially
  <2>2. RowsInv /\ rows = {} /\ AlertsInit
    BY <2>1 DEF ToldInv, TableInv, ReportsInit, StoriesInit, PagesInit
  <2> QED
    BY <2>1, <2>2, NoticedInitially
<1>2. Inv /\ [ReportsNext]_reportsVars => Inv'
  <2> SUFFICES ASSUME Inv, [ReportsNext]_reportsVars PROVE Inv'
    OBVIOUS
  <2>1. ToldInv'
    BY ToldStep
  <2>2. RowsInv /\ AlertsOK
    BY DEF ToldInv, TableInv, PartsInv
  <2>3. part' = part
    BY DEF ReportsNext, reportsVars
  <2>4. CASE part = "alerts" /\ AlertsNext
    BY <2>1, <2>2, <2>3, <2>4, NoticedStep
  <2>5. CASE UNCHANGED reportsVars
    <3>1. UNCHANGED <<rows, logged, alerts, told, due, check, answers>>
      BY <2>5 DEF reportsVars, storiesVars, pagesVars, alertsVars
    <3>2. NoticedInv => NoticedInv'
      BY <3>1, NoticedSame
    <3> QED
      BY <2>1, <2>3, <3>2
  <2>6. CASE part # "alerts"
    BY <2>1, <2>3, <2>6
  <2> QED
    BY <2>4, <2>5, <2>6 DEF ReportsNext
<1>3. Inv => TravelIsNoticed
  <2> SUFFICES ASSUME Inv, part = "alerts" PROVE NobodyIsInTwoPlaces
    BY DEF TravelIsNoticed
  <2> QED
    BY NobodyIsMissed DEF ToldInv, TableInv, PartsInv
<1> QED
  BY <1>1, <1>2, <1>3, PTL DEF ReportsSpec
=============================================================================
