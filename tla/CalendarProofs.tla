--------------------------- MODULE CalendarProofs ---------------------------
(***************************************************************************)
(* What add_months promises for every date and every number of months.     *)
(***************************************************************************)
EXTENDS Calendar, TLAPS

(* Division by the number of months of a year *)
LEMMA Months12 ==
  ASSUME NEW k \in Int
  PROVE  /\ k \div 12 \in Int /\ k % 12 \in 0..11
         /\ k = 12 * (k \div 12) + (k % 12)
BY SMT

LEMMA MonthLengths ==
  ASSUME NEW year \in Int, NEW month \in Months
  PROVE  MonthLength(year, month) \in 28..31
BY DEF MonthLength, Months

(* divmod yields the one year and the one month that count the same months. *)
LEMMA SameMonth ==
  ASSUME NEW y \in Int, NEW z \in Int, NEW m \in Months, NEW n \in Months,
         12 * y + m = 12 * z + n
  PROVE  y = z /\ m = n
BY DEF Months

(* add_months yields a date of the calendar, exactly so many months later,  *)
(* on the same day or on the last one of a shorter month: never in the      *)
(* month after.                                                             *)
THEOREM MonthsAreExact ==
  ASSUME NEW d \in Date, NEW n \in Int
  PROVE  LET e == AddMonths(d, n) IN
         /\ e \in Date
         /\ 12 * e.year + e.month = 12 * d.year + d.month + n
         /\ e.day = d.day \/ (e.day < d.day /\ e = LastDayOfMonth(e))
<1> DEFINE k == d.month - 1 + n
           e == AddMonths(d, n)
<1>1. d.year \in Int /\ d.month \in Months /\ d.day \in 1..31
  BY DEF Date
<1>2. k \in Int
  BY <1>1 DEF Months
<1>3. k \div 12 \in Int /\ k % 12 \in 0..11 /\ k = 12 * (k \div 12) + (k % 12)
  BY <1>2, Months12
<1>4. /\ e.year = d.year + (k \div 12) /\ e.month = (k % 12) + 1
      /\ e.day = Lesser(d.day, MonthLength(e.year, e.month))
      /\ e = [year |-> e.year, month |-> e.month, day |-> e.day]
  BY DEF AddMonths, On
<1> HIDE DEF k, e
<1>5. e.year \in Int /\ e.month \in Months
  BY <1>1, <1>3, <1>4 DEF Months
<1>6. MonthLength(e.year, e.month) \in 28..31
  BY <1>5, MonthLengths
<1>7. e.day \in 1..31 /\ e.day <= MonthLength(e.year, e.month)
  BY <1>1, <1>4, <1>6 DEF Lesser
<1>8. e \in Date
  BY <1>4, <1>5, <1>7 DEF Date
<1>9. 12 * e.year + e.month = 12 * d.year + d.month + n
  <2> DEFINE q == k \div 12
             r == k % 12
  <2>1. q \in Int /\ r \in Int /\ d.month - 1 + n = 12 * q + r
    BY <1>3 DEF k
  <2>2. e.year = d.year + q /\ e.month = r + 1
    BY <1>4
  <2>3. d.year \in Int /\ d.month \in Int
    BY <1>1 DEF Months
  <2> HIDE DEF q, r
  <2> QED
    BY <2>1, <2>2, <2>3
<1>10. e.day = d.day \/ (e.day < d.day /\ e = LastDayOfMonth(e))
  BY <1>1, <1>4, <1>6 DEF Lesser, LastDayOfMonth, On
<1> QED
  BY <1>8, <1>9, <1>10 DEF e

(* The position of a month decides, then the day.                           *)
LEMMA BeforeByMonth ==
  ASSUME NEW d \in Date, NEW e \in Date
  PROVE  NotAfter(d, e) <=> \/ 12 * d.year + d.month < 12 * e.year + e.month
                            \/ /\ 12 * d.year + d.month = 12 * e.year + e.month
                               /\ d.day <= e.day
<1>1. /\ d.year \in Int /\ d.month \in 1..12 /\ d.day \in 1..31
      /\ e.year \in Int /\ e.month \in 1..12 /\ e.day \in 1..31
  BY DEF Date, Months
<1>2. d = e <=> d.year = e.year /\ d.month = e.month /\ d.day = e.day
  BY DEF Date
<1> QED
  BY <1>1, <1>2 DEF NotAfter, Before

(* A later check never brings an earlier deadline: clamping keeps the order *)
(* of dates.                                                                *)
THEOREM MonthsKeepOrder ==
  ASSUME NEW d \in Date, NEW e \in Date, NEW n \in Int, NotAfter(d, e)
  PROVE  NotAfter(AddMonths(d, n), AddMonths(e, n))
<1> DEFINE f == AddMonths(d, n)
           g == AddMonths(e, n)
<1>1. /\ f \in Date /\ 12 * f.year + f.month = 12 * d.year + d.month + n
      /\ g \in Date /\ 12 * g.year + g.month = 12 * e.year + e.month + n
  BY MonthsAreExact
<1>2. /\ f.day = Lesser(d.day, MonthLength(f.year, f.month))
      /\ g.day = Lesser(e.day, MonthLength(g.year, g.month))
  BY DEF AddMonths, On
<1> HIDE DEF f, g
<1>3. /\ d.year \in Int /\ d.month \in Months /\ d.day \in 1..31
      /\ e.year \in Int /\ e.month \in Months /\ e.day \in 1..31
      /\ f.year \in Int /\ f.month \in Months /\ f.day \in 1..31
      /\ g.year \in Int /\ g.month \in Months /\ g.day \in 1..31
  BY <1>1 DEF Date
<1>4. \/ 12 * d.year + d.month < 12 * e.year + e.month
      \/ 12 * d.year + d.month = 12 * e.year + e.month /\ d.day <= e.day
  BY BeforeByMonth
<1>5. CASE 12 * d.year + d.month < 12 * e.year + e.month
  <2>1. 12 * f.year + f.month < 12 * g.year + g.month
    BY <1>1, <1>3, <1>5 DEF Months
  <2> QED
    BY <1>1, <2>1, BeforeByMonth DEF f, g
<1>6. CASE 12 * d.year + d.month = 12 * e.year + e.month /\ d.day <= e.day
  <2>1. 12 * f.year + f.month = 12 * g.year + g.month
    BY <1>1, <1>3, <1>6 DEF Months
  <2>2. f.year = g.year /\ f.month = g.month
    BY <1>3, <2>1, SameMonth
  <2>3. MonthLength(f.year, f.month) \in 28..31
    BY <1>3, MonthLengths
  <2>4. f.day <= g.day
    BY <1>2, <1>3, <1>6, <2>2, <2>3 DEF Lesser
  <2> QED
    BY <1>1, <2>1, <2>4, BeforeByMonth DEF f, g
<1> QED
  BY <1>4, <1>5, <1>6

(* Deadlines that are renewed on the day they fall due drift towards the    *)
(* beginning of the month and never back: two shifts end no later than one  *)
(* of both lengths.                                                         *)
THEOREM ClampingShortens ==
  ASSUME NEW d \in Date, NEW a \in Int, NEW b \in Int
  PROVE  NotAfter(AddMonths(AddMonths(d, a), b), AddMonths(d, a + b))
<1> DEFINE e == AddMonths(d, a)
           f == AddMonths(e, b)
           g == AddMonths(d, a + b)
<1>1. e \in Date /\ 12 * e.year + e.month = 12 * d.year + d.month + a
  BY MonthsAreExact
<1>2. a + b \in Int
  OBVIOUS
<1>3. /\ f \in Date /\ 12 * f.year + f.month = 12 * e.year + e.month + b
      /\ g \in Date /\ 12 * g.year + g.month = 12 * d.year + d.month + (a + b)
  BY <1>1, <1>2, MonthsAreExact
<1>4. /\ e.day = Lesser(d.day, MonthLength(e.year, e.month))
      /\ f.day = Lesser(e.day, MonthLength(f.year, f.month))
      /\ g.day = Lesser(d.day, MonthLength(g.year, g.month))
  BY DEF AddMonths, On
<1> HIDE DEF e, f, g
<1>5. /\ d.year \in Int /\ d.month \in Months /\ d.day \in 1..31
      /\ e.year \in Int /\ e.month \in Months /\ e.day \in 1..31
      /\ f.year \in Int /\ f.month \in Months /\ f.day \in 1..31
      /\ g.year \in Int /\ g.month \in Months /\ g.day \in 1..31
  BY <1>1, <1>3 DEF Date
<1>6. 12 * f.year + f.month = 12 * g.year + g.month
  BY <1>1, <1>3, <1>5 DEF Months
<1>7. f.year = g.year /\ f.month = g.month
  BY <1>5, <1>6, SameMonth
<1>8. MonthLength(e.year, e.month) \in 28..31 /\ MonthLength(f.year, f.month) \in 28..31
  BY <1>5, MonthLengths
<1>9. f.day <= g.day
  BY <1>4, <1>5, <1>7, <1>8 DEF Lesser
<1> QED
  BY <1>3, <1>6, <1>9, BeforeByMonth DEF e, f, g

(* The HU obligation is the last day of its month: it keeps the order of    *)
(* inspections and leaves at least the time the interval promises.          *)
THEOREM HuIsMonthGranular ==
  ASSUME NEW d \in Date, NEW n \in Int
  PROVE  /\ NextHuDue(d, n) \in Date
         /\ NotAfter(AddMonths(d, n), NextHuDue(d, n))
         /\ \A e \in Date : NotAfter(d, e) => NotAfter(NextHuDue(d, n), NextHuDue(e, n))
<1> DEFINE Hu(e) == NextHuDue(e, n)
<1>1. ASSUME NEW e \in Date
      PROVE  LET f == AddMonths(e, n) IN
             /\ f \in Date /\ Hu(e) \in Date
             /\ Hu(e).year = f.year /\ Hu(e).month = f.month
             /\ Hu(e).day = MonthLength(f.year, f.month)
             /\ f.day <= Hu(e).day
  <2> DEFINE f == AddMonths(e, n)
  <2>1. f \in Date
    BY MonthsAreExact
  <2>2. Hu(e) = On(f.year, f.month, MonthLength(f.year, f.month))
    BY DEF NextHuDue, LastDayOfMonth
  <2> HIDE DEF f, Hu
  <2>3. f.year \in Int /\ f.month \in Months /\ f.day <= MonthLength(f.year, f.month)
    BY <2>1 DEF Date
  <2>4. MonthLength(f.year, f.month) \in 28..31
    BY <2>3, MonthLengths
  <2> QED
    BY <2>1, <2>2, <2>3, <2>4 DEF Date, On, f
<1> HIDE DEF Hu
<1>2. NotAfter(AddMonths(d, n), Hu(d))
  BY <1>1, BeforeByMonth
<1>3. ASSUME NEW e \in Date, NotAfter(d, e)
      PROVE  NotAfter(Hu(d), Hu(e))
  <2> DEFINE f == AddMonths(d, n)
             g == AddMonths(e, n)
  <2>1. f \in Date /\ g \in Date /\ NotAfter(f, g)
    BY <1>3, MonthsAreExact, MonthsKeepOrder
  <2>2. /\ Hu(d) \in Date /\ Hu(d).year = f.year /\ Hu(d).month = f.month
        /\ Hu(d).day = MonthLength(f.year, f.month)
        /\ Hu(e) \in Date /\ Hu(e).year = g.year /\ Hu(e).month = g.month
        /\ Hu(e).day = MonthLength(g.year, g.month)
    BY <1>1
  <2> HIDE DEF f, g
  <2>3. /\ f.year \in Int /\ f.month \in Months /\ g.year \in Int /\ g.month \in Months
    BY <2>1 DEF Date
  <2>4. \/ 12 * f.year + f.month < 12 * g.year + g.month
        \/ 12 * f.year + f.month = 12 * g.year + g.month
    BY <2>1, BeforeByMonth
  <2>5. CASE 12 * f.year + f.month < 12 * g.year + g.month
    BY <2>2, <2>5, BeforeByMonth
  <2>6. CASE 12 * f.year + f.month = 12 * g.year + g.month
    <3>1. f.year = g.year /\ f.month = g.month
      BY <2>3, <2>6, SameMonth
    <3>2. MonthLength(f.year, f.month) \in 28..31
      BY <2>3, MonthLengths
    <3> QED
      BY <2>2, <3>1, <3>2, <2>6, BeforeByMonth
  <2> QED
    BY <2>4, <2>5, <2>6
<1> QED
  BY <1>1, <1>2, <1>3 DEF Hu

LEMMA ZeroMonths ==
  ASSUME NEW d \in Date
  PROVE  AddMonths(d, 0) = d
<1> DEFINE e == AddMonths(d, 0)
<1>1. e \in Date /\ 12 * e.year + e.month = 12 * d.year + d.month + 0
  BY MonthsAreExact
<1>2. e.day = Lesser(d.day, MonthLength(e.year, e.month))
  BY DEF AddMonths, On
<1> HIDE DEF e
<1>3. /\ d.year \in Int /\ d.month \in Months /\ d.day \in 1..31
      /\ e.year \in Int /\ e.month \in Months /\ e.day \in 1..31
      /\ d.day <= MonthLength(d.year, d.month)
  BY <1>1 DEF Date
<1>4. e.year = d.year /\ e.month = d.month
  <2>1. 12 * e.year + e.month = 12 * d.year + d.month
    BY <1>1, <1>3 DEF Months
  <2> QED
    BY <1>3, <2>1, SameMonth
<1>5. e.day = d.day
  <2>1. MonthLength(d.year, d.month) \in 28..31
    BY <1>3, MonthLengths
  <2> QED
    BY <1>2, <1>3, <1>4, <2>1 DEF Lesser
<1> QED
  BY <1>1, <1>4, <1>5 DEF Date, e

(* A check is followed by an obligation that lies after it, for HU exactly  *)
(* when the interval is positive or, of no months, for the rest of the      *)
(* month: POST /vehicles takes any integer as hu_interval_months, and a     *)
(* negative one makes every new obligation overdue at once.                 *)
THEOREM SuccessorIsLater ==
  ASSUME NEW d \in Date
  PROVE  /\ Before(d, NextFskDue(d)) /\ Before(d, NextUvvDue(d))
         /\ \A n \in Int : /\ n > 0 => Before(d, NextHuDue(d, n))
                           /\ n = 0 => NotAfter(d, NextHuDue(d, n))
                           /\ n < 0 => Before(NextHuDue(d, n), d)
<1>1. d.year \in Int /\ d.month \in 1..12 /\ d.day \in 1..31
  BY DEF Date, Months
<1>2. ASSUME NEW n \in Int, NEW e \in Date, 12 * e.year + e.month = 12 * d.year + d.month + n
      PROVE  (n > 0 => Before(d, e)) /\ (n < 0 => Before(e, d))
  <2>1. e.year \in Int /\ e.month \in 1..12
    BY DEF Date, Months
  <2> DEFINE y == d.year
             m == d.month
             z == e.year
             k == e.month
  <2>2. y \in Int /\ z \in Int /\ m \in 1..12 /\ k \in 1..12 /\ 12 * z + k = 12 * y + m + n
    BY <1>1, <1>2, <2>1
  <2> HIDE DEF y, z, m, k
  <2>3. /\ n > 0 => y < z \/ (y = z /\ m < k)
        /\ n < 0 => z < y \/ (z = y /\ k < m)
    BY <2>2
  <2> QED
    BY <2>3 DEF Before, y, z, m, k
<1>3. Before(d, NextFskDue(d)) /\ Before(d, NextUvvDue(d))
  BY <1>2, MonthsAreExact DEF NextFskDue, NextUvvDue
<1>4. ASSUME NEW n \in Int
      PROVE  /\ n > 0 => Before(d, NextHuDue(d, n))
             /\ n = 0 => NotAfter(d, NextHuDue(d, n))
             /\ n < 0 => Before(NextHuDue(d, n), d)
  <2> DEFINE e == AddMonths(d, n)
             f == NextHuDue(d, n)
  <2>1. /\ e \in Date /\ 12 * e.year + e.month = 12 * d.year + d.month + n
        /\ e.day = d.day \/ (e.day < d.day /\ e = LastDayOfMonth(e))
    BY MonthsAreExact
  <2>2. f \in Date /\ NotAfter(e, f)
    BY HuIsMonthGranular
  <2>3. f.year = e.year /\ f.month = e.month
    BY DEF NextHuDue, LastDayOfMonth, On
  <2>4. n = 0 => e = d
    BY ZeroMonths
  <2> HIDE DEF e, f
  <2>5. (n > 0 => Before(d, f)) /\ (n < 0 => Before(f, d))
    BY <1>2, <2>1, <2>2, <2>3
  <2> QED
    BY <2>2, <2>4, <2>5 DEF e, f
<1> QED
  BY <1>3, <1>4

-----------------------------------------------------------------------------
(* Days *)

LEMMA Divided ==
  ASSUME NEW y \in Int
  PROVE  /\ y \div 4 \in Int   /\ y % 4 \in 0..3     /\ y = 4 * (y \div 4) + (y % 4)
         /\ y \div 100 \in Int /\ y % 100 \in 0..99  /\ y = 100 * (y \div 100) + (y % 100)
         /\ y \div 400 \in Int /\ y % 400 \in 0..399 /\ y = 400 * (y \div 400) + (y % 400)
BY SMT

(* The leap days of a year: the years of four, less those of a hundred,     *)
(* and those of four hundred.                                               *)
LEMMA YearLength ==
  ASSUME NEW y \in Int
  PROVE  /\ DaysBeforeYear(y) \in Int
         /\ DaysBeforeYear(y + 1) = DaysBeforeYear(y) + IF IsLeap(y) THEN 366 ELSE 365
<1> DEFINE a == y \div 4
           b == y \div 100
           c == y \div 400
           p == (y - 1) \div 4
           q == (y - 1) \div 100
           r == (y - 1) \div 400
<1>1. /\ a \in Int /\ y % 4 \in 0..3     /\ y = 4 * a + (y % 4)
      /\ b \in Int /\ y % 100 \in 0..99  /\ y = 100 * b + (y % 100)
      /\ c \in Int /\ y % 400 \in 0..399 /\ y = 400 * c + (y % 400)
  BY Divided
<1>2. /\ p \in Int /\ (y - 1) % 4 \in 0..3     /\ y - 1 = 4 * p + ((y - 1) % 4)
      /\ q \in Int /\ (y - 1) % 100 \in 0..99  /\ y - 1 = 100 * q + ((y - 1) % 100)
      /\ r \in Int /\ (y - 1) % 400 \in 0..399 /\ y - 1 = 400 * r + ((y - 1) % 400)
  <2> DEFINE z == y - 1
  <2>1. z \in Int
    OBVIOUS
  <2> HIDE DEF z
  <2>2. /\ z \div 4 \in Int   /\ z % 4 \in 0..3     /\ z = 4 * (z \div 4) + (z % 4)
        /\ z \div 100 \in Int /\ z % 100 \in 0..99  /\ z = 100 * (z \div 100) + (z % 100)
        /\ z \div 400 \in Int /\ z % 400 \in 0..399 /\ z = 400 * (z \div 400) + (z % 400)
    BY <2>1, Divided
  <2> QED
    BY <2>2 DEF z
<1>3. /\ DaysBeforeYear(y) = 365 * (y - 1) + p - q + r
      /\ DaysBeforeYear(y + 1) = 365 * y + a - b + c
  <2>1. (y + 1) - 1 = y
    OBVIOUS
  <2> QED
    BY <2>1 DEF DaysBeforeYear
<1> HIDE DEF a, b, c, p, q, r
<1>4. a = p + IF y % 4 = 0 THEN 1 ELSE 0
  BY <1>1, <1>2
<1>5. b = q + IF y % 100 = 0 THEN 1 ELSE 0
  BY <1>1, <1>2
<1>6. c = r + IF y % 400 = 0 THEN 1 ELSE 0
  BY <1>1, <1>2
<1>7. /\ y % 400 = 0 => y % 100 = 0
      /\ y % 100 = 0 => y % 4 = 0
  BY <1>1
<1> QED
  BY <1>1, <1>2, <1>3, <1>4, <1>5, <1>6, <1>7 DEF IsLeap

(* Every month begins where the one before ends.                            *)
LEMMA MonthStarts ==
  ASSUME NEW y \in Int, NEW m \in Months
  PROVE  /\ DaysBeforeMonth(y, m) \in Int /\ 0 <= DaysBeforeMonth(y, m)
         /\ m < 12 => DaysBeforeMonth(y, m + 1) = DaysBeforeMonth(y, m) + MonthLength(y, m)
         /\ DaysBeforeMonth(y, m) + MonthLength(y, m) <= IF IsLeap(y) THEN 366 ELSE 365
         /\ m = 12 => DaysBeforeMonth(y, m) + MonthLength(y, m) = IF IsLeap(y) THEN 366 ELSE 365
BY DEF DaysBeforeMonth, MonthLength, Months

(* The number of a date counts days: the civil day after has the next one.  *)
THEOREM DaysAreCounted ==
  ASSUME NEW d \in Date
  PROVE  /\ Tomorrow(d) \in Date
         /\ Ordinal(d) \in Int
         /\ Ordinal(Tomorrow(d)) = Ordinal(d) + 1
<1> DEFINE t == Tomorrow(d)
<1>1. /\ d.year \in Int /\ d.month \in Months /\ d.day \in Int /\ 1 <= d.day
      /\ d.day <= MonthLength(d.year, d.month)
  BY DEF Date
<1>2. MonthLength(d.year, d.month) \in 28..31
  BY <1>1, MonthLengths
<1>3. DaysBeforeYear(d.year) \in Int /\ DaysBeforeMonth(d.year, d.month) \in Int
  BY <1>1, YearLength, MonthStarts
<1>4. Ordinal(d) \in Int
  BY <1>1, <1>3 DEF Ordinal
<1>5. CASE d.day < MonthLength(d.year, d.month)
  <2>1. t = On(d.year, d.month, d.day + 1)
    BY <1>5 DEF Tomorrow
  <2> QED
    BY <1>1, <1>2, <1>3, <1>4, <1>5, <2>1 DEF Date, On, Ordinal
<1>6. CASE d.day = MonthLength(d.year, d.month) /\ d.month < 12
  <2>1. t = On(d.year, d.month + 1, 1)
    BY <1>1, <1>2, <1>6 DEF Tomorrow
  <2>2. d.month + 1 \in Months /\ MonthLength(d.year, d.month + 1) \in 28..31
    BY <1>1, <1>6, MonthLengths DEF Months
  <2>3. DaysBeforeMonth(d.year, d.month + 1) = DaysBeforeMonth(d.year, d.month) + d.day
    BY <1>1, <1>6, MonthStarts
  <2> QED
    BY <1>1, <1>3, <1>4, <2>1, <2>2, <2>3 DEF Date, On, Ordinal
<1>7. CASE d.day = MonthLength(d.year, d.month) /\ ~(d.month < 12)
  <2>1. d.month = 12 /\ d.year + 1 \in Int
    BY <1>1, <1>7 DEF Months
  <2>2. t = On(d.year + 1, 1, 1)
    BY <1>1, <1>2, <1>7 DEF Tomorrow
  <2>3. 1 \in Months /\ MonthLength(d.year + 1, 1) \in 28..31
    BY <2>1, MonthLengths DEF Months
  <2>4. DaysBeforeMonth(d.year + 1, 1) = 0
    BY DEF DaysBeforeMonth
  <2>5. DaysBeforeYear(d.year + 1) = DaysBeforeYear(d.year) + DaysBeforeMonth(d.year, d.month) + d.day
    BY <1>1, <1>3, <1>7, <2>1, YearLength, MonthStarts
  <2> QED
    BY <1>1, <1>3, <1>4, <2>1, <2>2, <2>3, <2>4, <2>5 DEF Date, On, Ordinal
<1> QED
  BY <1>1, <1>2, <1>4, <1>5, <1>6, <1>7

LEMMA YearsGrow ==
  ASSUME NEW y \in Int, NEW z \in Int, y <= z
  PROVE  DaysBeforeYear(y) <= DaysBeforeYear(z)
<1> DEFINE Terms(x, u, v, w) ==
             /\ u \in Int /\ v \in Int /\ w \in Int
             /\ 4 * u <= x /\ x <= 4 * u + 3
             /\ 100 * v <= x /\ x <= 100 * v + 99
             /\ 400 * w <= x /\ x <= 400 * w + 399
<1>1. ASSUME NEW x \in Int
      PROVE  Terms(x, x \div 4, x \div 100, x \div 400)
  BY Divided
<1>2. ASSUME NEW s \in Int, NEW t \in Int, s <= t,
             NEW a, NEW b, NEW c, Terms(s, a, b, c),
             NEW p, NEW q, NEW r, Terms(t, p, q, r)
      PROVE  365 * s + a - b + c <= 365 * t + p - q + r
  <2>1. c <= r
    BY <1>2
  <2>2. q - b <= t - s + 1
    BY <1>2
  <2>3. a <= p
    BY <1>2
  <2>4. s = t => a = p /\ b = q /\ c = r
    BY <1>2
  <2> QED
    BY <1>2, <2>1, <2>2, <2>3, <2>4
<1>3. Terms(y - 1, (y - 1) \div 4, (y - 1) \div 100, (y - 1) \div 400)
  BY <1>1, y - 1 \in Int
<1>4. Terms(z - 1, (z - 1) \div 4, (z - 1) \div 100, (z - 1) \div 400)
  BY <1>1, z - 1 \in Int
<1> HIDE DEF Terms
<1> QED
  BY <1>2, <1>3, <1>4, y - 1 \in Int, z - 1 \in Int, y - 1 <= z - 1 DEF DaysBeforeYear

(* Comparing dates is comparing their numbers: days_until is negative       *)
(* exactly when the deadline has passed.                                    *)
THEOREM OrderOfDays ==
  ASSUME NEW d \in Date, NEW e \in Date
  PROVE  Before(d, e) <=> Ordinal(d) < Ordinal(e)
<1>1. ASSUME NEW f \in Date, NEW g \in Date, Before(f, g)
      PROVE  Ordinal(f) < Ordinal(g)
  <2>1. /\ f.year \in Int /\ f.month \in Months /\ f.day \in Int /\ 1 <= f.day
        /\ f.day <= MonthLength(f.year, f.month) /\ MonthLength(f.year, f.month) \in 28..31
        /\ g.year \in Int /\ g.month \in Months /\ g.day \in Int /\ 1 <= g.day
    BY MonthLengths DEF Date
  <2>2. /\ DaysBeforeYear(f.year) \in Int /\ DaysBeforeMonth(f.year, f.month) \in Int
        /\ DaysBeforeYear(g.year) \in Int /\ DaysBeforeMonth(g.year, g.month) \in Int /\ 0 <= DaysBeforeMonth(g.year, g.month)
    BY <2>1, YearLength, MonthStarts
  <2>3. CASE f.year < g.year
    <3>1. f.year + 1 \in Int /\ f.year + 1 <= g.year
      BY <2>1, <2>3
    <3>2. DaysBeforeYear(f.year + 1) <= DaysBeforeYear(g.year)
      BY <2>1, <3>1, YearsGrow
    <3>3. DaysBeforeYear(f.year + 1) = DaysBeforeYear(f.year) + IF IsLeap(f.year) THEN 366 ELSE 365
      BY <2>1, YearLength
    <3>4. DaysBeforeMonth(f.year, f.month) + MonthLength(f.year, f.month) <= IF IsLeap(f.year) THEN 366 ELSE 365
      BY <2>1, MonthStarts
    <3> QED
      BY <2>1, <2>2, <3>2, <3>3, <3>4 DEF Ordinal
  <2>4. CASE f.year = g.year /\ f.month < g.month
    <3>1. DaysBeforeMonth(f.year, f.month) + MonthLength(f.year, f.month) <= DaysBeforeMonth(f.year, g.month)
      BY <2>1, <2>4 DEF DaysBeforeMonth, MonthLength, Months
    <3> QED
      BY <2>1, <2>2, <2>4, <3>1 DEF Ordinal
  <2>5. CASE f.year = g.year /\ f.month = g.month /\ f.day < g.day
    BY <2>1, <2>2, <2>5 DEF Ordinal
  <2> QED
    BY <1>1, <2>3, <2>4, <2>5 DEF Before
<1>2. d = e \/ Before(d, e) \/ Before(e, d)
  <2>1. /\ d.year \in Int /\ d.month \in Int /\ d.day \in Int
        /\ e.year \in Int /\ e.month \in Int /\ e.day \in Int
        /\ (d.year = e.year /\ d.month = e.month /\ d.day = e.day) => d = e
    BY DEF Date, Months
  <2> QED
    BY <2>1 DEF Before
<1>3. Ordinal(d) \in Int /\ Ordinal(e) \in Int
  BY DaysAreCounted
<1> QED
  BY <1>1, <1>2, <1>3

(* days_forward yields the date whose number is so much larger.             *)
THEOREM DaysForwardAreCounted ==
  ASSUME NEW d \in Date, NEW n \in 0..28
  PROVE  /\ DaysForward(d, n) \in Date
         /\ Ordinal(DaysForward(d, n)) = Ordinal(d) + n
<1> DEFINE f == DaysForward(d, n)
           l == MonthLength(d.year, d.month)
           over == d.day + n - l
<1>1. /\ d.year \in Int /\ d.month \in Months /\ d.day \in Int /\ 1 <= d.day /\ d.day <= l
      /\ d.year + 1 \in Int
  BY DEF Date
<1>2. l \in 28..31
  BY <1>1, MonthLengths
<1>3. DaysBeforeYear(d.year) \in Int /\ DaysBeforeMonth(d.year, d.month) \in Int
  BY <1>1, YearLength, MonthStarts
<1>4. over \in Int /\ over <= 28
  BY <1>1, <1>2
<1>5. CASE over <= 0
  <2>1. f = On(d.year, d.month, d.day + n)
    BY <1>5 DEF DaysForward
  <2>2. d.day + n \in 1..31 /\ d.day + n <= l
    BY <1>1, <1>2, <1>5
  <2> HIDE DEF l
  <2> QED
    BY <1>1, <1>3, <2>1, <2>2 DEF Date, On, Ordinal, l
<1>6. CASE 0 < over /\ d.month < 12
  <2>1. f = On(d.year, d.month + 1, over)
    BY <1>4, <1>6 DEF DaysForward
  <2>2. d.month + 1 \in Months /\ MonthLength(d.year, d.month + 1) \in 28..31
    BY <1>1, <1>6, MonthLengths DEF Months
  <2>3. DaysBeforeMonth(d.year, d.month + 1) = DaysBeforeMonth(d.year, d.month) + l
    BY <1>1, <1>6, MonthStarts
  <2> QED
    BY <1>1, <1>2, <1>3, <1>4, <1>6, <2>1, <2>2, <2>3 DEF Date, On, Ordinal
<1>7. CASE 0 < over /\ ~(d.month < 12)
  <2>1. d.month = 12
    BY <1>1, <1>7 DEF Months
  <2>2. f = On(d.year + 1, 1, over)
    BY <1>4, <1>7 DEF DaysForward
  <2>3. 1 \in Months /\ MonthLength(d.year + 1, 1) \in 28..31
    BY <1>1, MonthLengths DEF Months
  <2>4. DaysBeforeMonth(d.year + 1, 1) = 0
    BY DEF DaysBeforeMonth
  <2>5. DaysBeforeYear(d.year + 1) = DaysBeforeYear(d.year) + DaysBeforeMonth(d.year, d.month) + l
    BY <1>1, <1>2, <1>3, <2>1, YearLength, MonthStarts
  <2> QED
    BY <1>1, <1>2, <1>3, <1>4, <1>7, <2>2, <2>3, <2>4, <2>5 DEF Date, On, Ordinal
<1> QED
  BY <1>4, <1>5, <1>6, <1>7

-----------------------------------------------------------------------------
(* Weeks *)

LEMMA DayOfYear ==
  ASSUME NEW d \in Date
  PROVE  /\ d.year \in Int /\ Ordinal(d) \in Int
         /\ DaysBeforeYear(d.year) < Ordinal(d) /\ Ordinal(d) <= DaysBeforeYear(d.year + 1)
<1>1. /\ d.year \in Int /\ d.month \in Months /\ d.day \in Int /\ 1 <= d.day
      /\ d.day <= MonthLength(d.year, d.month) /\ MonthLength(d.year, d.month) \in 28..31
  BY MonthLengths DEF Date
<1>2. /\ DaysBeforeYear(d.year) \in Int
      /\ DaysBeforeYear(d.year + 1) = DaysBeforeYear(d.year) + IF IsLeap(d.year) THEN 366 ELSE 365
  BY <1>1, YearLength
<1>3. /\ DaysBeforeMonth(d.year, d.month) \in Int /\ 0 <= DaysBeforeMonth(d.year, d.month)
      /\ DaysBeforeMonth(d.year, d.month) + MonthLength(d.year, d.month)
           <= IF IsLeap(d.year) THEN 366 ELSE 365
  BY <1>1, MonthStarts
<1> QED
  BY <1>1, <1>2, <1>3 DEF Ordinal

LEMMA SevenDays ==
  ASSUME NEW n \in Int
  PROVE  n \div 7 \in Int /\ n % 7 \in 0..6 /\ n = 7 * (n \div 7) + (n % 7)
BY SMT

(* The Monday of a date *)
LEMMA Mondays ==
  ASSUME NEW d \in Date
  PROVE  /\ Monday(d) \in Int
         /\ Ordinal(d) - 6 <= Monday(d) /\ Monday(d) <= Ordinal(d)
         /\ \E k \in Int : Monday(d) = 7 * k + 1
<1> DEFINE n == Ordinal(d) - 1
           weeks == n \div 7
           days == n % 7
<1>1. Ordinal(d) \in Int /\ n \in Int
  BY DayOfYear
<1>2. weeks \in Int /\ days \in 0..6 /\ n = 7 * weeks + days
  BY <1>1, SevenDays
<1>3. Monday(d) = Ordinal(d) - days
  BY DEF Monday
<1> HIDE DEF weeks, days
<1>4. Monday(d) = 7 * weeks + 1
  BY <1>1, <1>2, <1>3
<1>5. Ordinal(d) - days \in Int /\ Ordinal(d) - 6 <= Ordinal(d) - days
      /\ Ordinal(d) - days <= Ordinal(d)
  BY <1>1, <1>2
<1> HIDE DEF n
<1> QED
  BY <1>2, <1>3, <1>4, <1>5

(* The ISO year of a date is the year its Thursday falls in.                *)
LEMMA IsoYears ==
  ASSUME NEW d \in Date
  PROVE  /\ IsoYear(d) \in Int
         /\ DaysBeforeYear(IsoYear(d)) < Monday(d) + 3
         /\ Monday(d) + 3 <= DaysBeforeYear(IsoYear(d) + 1)
<1> DEFINE y == d.year
           thursday == Monday(d) + 3
<1>1. /\ y \in Int /\ y - 1 \in Int /\ y + 1 \in Int /\ Ordinal(d) \in Int
      /\ DaysBeforeYear(y) < Ordinal(d) /\ Ordinal(d) <= DaysBeforeYear(y + 1)
  BY DayOfYear
<1>2. /\ Monday(d) \in Int
      /\ Ordinal(d) - 6 <= Monday(d) /\ Monday(d) <= Ordinal(d)
  BY Mondays
<1>3. /\ DaysBeforeYear(y) \in Int /\ DaysBeforeYear(y - 1) \in Int
      /\ DaysBeforeYear(y + 1) \in Int
      /\ DaysBeforeYear(y - 1) + 365 <= DaysBeforeYear(y)
      /\ DaysBeforeYear(y + 1) + 365 <= DaysBeforeYear(y + 2)
  <2>1. y = (y - 1) + 1 /\ y + 2 = (y + 1) + 1
    BY <1>1
  <2>2. DaysBeforeYear(y - 1) \in Int /\ DaysBeforeYear((y - 1) + 1) >= DaysBeforeYear(y - 1) + 365
    BY <1>1, YearLength
  <2>3. DaysBeforeYear(y + 1) \in Int /\ DaysBeforeYear((y + 1) + 1) >= DaysBeforeYear(y + 1) + 365
    BY <1>1, YearLength
  <2>4. DaysBeforeYear(y) \in Int
    BY <1>1, YearLength
  <2> QED
    BY <2>1, <2>2, <2>3, <2>4
<1>4. CASE thursday <= DaysBeforeYear(y)
  <2>1. IsoYear(d) = y - 1 /\ (y - 1) + 1 = y
    BY <1>1, <1>4 DEF IsoYear
  <2> QED
    BY <1>1, <1>2, <1>3, <1>4, <2>1
<1>5. CASE DaysBeforeYear(y) < thursday /\ thursday <= DaysBeforeYear(y + 1)
  <2>1. IsoYear(d) = y
    BY <1>1, <1>2, <1>3, <1>5 DEF IsoYear
  <2> QED
    BY <1>1, <1>5, <2>1
<1>6. CASE DaysBeforeYear(y) < thursday /\ DaysBeforeYear(y + 1) < thursday
  <2>1. IsoYear(d) = y + 1
    BY <1>1, <1>2, <1>3, <1>6 DEF IsoYear
  <2>2. DaysBeforeYear(IsoYear(d) + 1) = DaysBeforeYear(y + 2)
    <3>1. IsoYear(d) + 1 = y + 2
      BY <1>1, <2>1
    <3> QED
      BY <3>1
  <2>3. Monday(d) + 3 <= DaysBeforeYear(y + 1) + 3 /\ DaysBeforeYear(y + 2) \in Int
    BY <1>1, <1>2, <1>3, YearLength, y + 2 \in Int
  <2> QED
    BY <1>1, <1>2, <1>3, <1>6, <2>1, <2>2, <2>3
<1> QED
  BY <1>2, <1>3, <1>4, <1>5, <1>6

LEMMA OneYear ==
  ASSUME NEW y \in Int, NEW z \in Int, NEW n \in Int,
         DaysBeforeYear(y) < n, n <= DaysBeforeYear(y + 1),
         DaysBeforeYear(z) < n, n <= DaysBeforeYear(z + 1)
  PROVE  y = z
<1>1. /\ DaysBeforeYear(y) \in Int /\ DaysBeforeYear(z) \in Int
      /\ DaysBeforeYear(y + 1) \in Int /\ DaysBeforeYear(z + 1) \in Int
  BY YearLength, y + 1 \in Int, z + 1 \in Int
<1>2. y + 1 <= z => DaysBeforeYear(y + 1) <= DaysBeforeYear(z)
  BY YearsGrow, y + 1 \in Int
<1>3. z + 1 <= y => DaysBeforeYear(z + 1) <= DaysBeforeYear(y)
  BY YearsGrow, z + 1 \in Int
<1> QED
  BY <1>1, <1>2, <1>3

(* Two dates bear the same ISO year and week exactly when they have the     *)
(* same Monday: the token of the weekly reminder neither repeats nor skips  *)
(* at the turn of a year.                                                   *)
THEOREM WeeksAreWeeks ==
  ASSUME NEW d \in Date, NEW e \in Date
  PROVE  IsoYear(d) = IsoYear(e) /\ IsoWeek(d) = IsoWeek(e) <=> Monday(d) = Monday(e)
<1>1. /\ IsoYear(d) \in Int /\ IsoYear(e) \in Int
      /\ Monday(d) \in Int /\ Monday(e) \in Int
  BY IsoYears, Mondays
<1>2. ASSUME Monday(d) = Monday(e)
      PROVE  IsoYear(d) = IsoYear(e) /\ IsoWeek(d) = IsoWeek(e)
  <2>1. IsoYear(d) = IsoYear(e)
    <3> DEFINE n == Monday(d) + 3
    <3>1. n \in Int
      BY <1>1
    <3>2. /\ DaysBeforeYear(IsoYear(d)) < n /\ n <= DaysBeforeYear(IsoYear(d) + 1)
          /\ DaysBeforeYear(IsoYear(e)) < n /\ n <= DaysBeforeYear(IsoYear(e) + 1)
      BY <1>2, IsoYears
    <3> HIDE DEF n
    <3> QED
      BY <1>1, <3>1, <3>2, OneYear
  <2> QED
    BY <1>2, <2>1 DEF IsoWeek
<1>3. ASSUME IsoYear(d) = IsoYear(e), IsoWeek(d) = IsoWeek(e)
      PROVE  Monday(d) = Monday(e)
  <2> DEFINE b == DaysBeforeYear(IsoYear(d))
             m == Monday(d) + 2 - b
             n == Monday(e) + 2 - b
  <2>1. b \in Int
    BY <1>1, YearLength
  <2>2. m \in Int /\ n \in Int
    BY <1>1, <2>1
  <2>3. m \div 7 = n \div 7
    <3>1. /\ m \div 7 \in Int /\ n \div 7 \in Int
      BY <2>2, SevenDays
    <3>2. (m \div 7) + 1 = (n \div 7) + 1
      BY <1>3 DEF IsoWeek
    <3> QED
      BY <3>1, <3>2
  <2>4. /\ m = 7 * (m \div 7) + (m % 7) /\ m % 7 \in 0..6 /\ m \div 7 \in Int
        /\ n = 7 * (n \div 7) + (n % 7) /\ n % 7 \in 0..6
    BY <2>2, SevenDays
  <2>5. PICK j \in Int : Monday(d) = 7 * j + 1
    BY Mondays
  <2>6. PICK k \in Int : Monday(e) = 7 * k + 1
    BY Mondays
  <2>7. m - n < 7 /\ n - m < 7
    <3> DEFINE q == n \div 7
               r == m % 7
               s == n % 7
    <3>1. /\ q \in Int /\ r \in 0..6 /\ s \in 0..6
          /\ m = 7 * q + r /\ n = 7 * q + s
      BY <2>3, <2>4
    <3> HIDE DEF m, n, q, r, s
    <3> QED
      BY <3>1
  <2>8. 7 * j - 7 * k < 7 /\ 7 * k - 7 * j < 7
    BY <1>1, <2>1, <2>5, <2>6, <2>7
  <2>9. j = k
    BY <2>8
  <2> QED
    BY <2>5, <2>6, <2>9
<1> QED
  BY <1>2, <1>3
=============================================================================
