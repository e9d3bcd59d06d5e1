----------------------------- MODULE DatesProofs -----------------------------
(***************************************************************************)
(* Proofs about Dates: the way a date takes through mktime and localtime,  *)
(* and what IsValid says of a task while nobody writes another date into   *)
(* the struct tm.                                                          *)
(***************************************************************************)
EXTENDS Dates, TLAPS

(* A year is 365 days long, or 366.                                        *)
LEMMA YearLength ==
    ASSUME NEW y \in Int
    PROVE  /\ DaysToYear(y) \in Int
           /\ DaysToYear(y + 1) = DaysToYear(y) + 365 + (IF Leap(y) THEN 1 ELSE 0)
<1>1. /\ y \div 4 = (y - 1) \div 4 + IF y % 4 = 0 THEN 1 ELSE 0
      /\ y \div 100 = (y - 1) \div 100 + IF y % 100 = 0 THEN 1 ELSE 0
      /\ y \div 400 = (y - 1) \div 400 + IF y % 400 = 0 THEN 1 ELSE 0
  OBVIOUS
<1>2. /\ y % 100 = 0 => y % 4 = 0
      /\ y % 400 = 0 => y % 100 = 0
  OBVIOUS
<1>3. /\ (y - 1) \div 4 \in Int /\ (y - 1) \div 100 \in Int /\ (y - 1) \div 400 \in Int
      /\ (y + 1) - 1 = y
  OBVIOUS
<1> QED
  BY <1>1, <1>2, <1>3 DEF DaysToYear, Leap

(* A year begins after all the days of an earlier one.                     *)
LEMMA YearsGrow ==
    ASSUME NEW y \in Int, NEW z \in Int, y <= z
    PROVE  DaysToYear(y) <= DaysToYear(z)
<1>1. /\ (y - 1) \div 4 - (y - 1) \div 100 <= (z - 1) \div 4 - (z - 1) \div 100
      /\ (y - 1) \div 400 <= (z - 1) \div 400
  OBVIOUS
<1>2. 365 * (y - 1) <= 365 * (z - 1)
  OBVIOUS
<1> QED
  BY <1>1, <1>2 DEF DaysToYear

(* The table of the library agrees with the lengths of the months.         *)
LEMMA MonthsAddUp ==
    ASSUME NEW y \in Int
    PROVE  /\ DaysToMonth(y, 0) = 0
           /\ \A m \in 0..11 : DaysToMonth(y, m) \in Int
           /\ \A m \in 0..10 : DaysToMonth(y, m + 1) = DaysToMonth(y, m) + MonthLength(y, m + 1)
           /\ DaysToMonth(y, 11) + MonthLength(y, 12)
                 = 365 + (IF Leap(y) THEN 1 ELSE 0)
<1>1. \A m \in 0..11 : m \in {0, 1, 2, 3, 4, 5, 6, 7, 8, 9, 10, 11}
  OBVIOUS
<1>2. /\ DaysToMonth(y, 0) = 0
      /\ DaysToMonth(y, 1) = 31
      /\ DaysToMonth(y, 2) = IF Leap(y) THEN 60 ELSE 59
      /\ DaysToMonth(y, 3) = IF Leap(y) THEN 91 ELSE 90
  BY DEF DaysToMonth
<1>3. /\ DaysToMonth(y, 4) = IF Leap(y) THEN 121 ELSE 120
      /\ DaysToMonth(y, 5) = IF Leap(y) THEN 152 ELSE 151
      /\ DaysToMonth(y, 6) = IF Leap(y) THEN 182 ELSE 181
      /\ DaysToMonth(y, 7) = IF Leap(y) THEN 213 ELSE 212
  BY DEF DaysToMonth
<1>4. /\ DaysToMonth(y, 8) = IF Leap(y) THEN 244 ELSE 243
      /\ DaysToMonth(y, 9) = IF Leap(y) THEN 274 ELSE 273
      /\ DaysToMonth(y, 10) = IF Leap(y) THEN 305 ELSE 304
      /\ DaysToMonth(y, 11) = IF Leap(y) THEN 335 ELSE 334
  BY DEF DaysToMonth
<1>5. \A m \in {1, 3, 5, 7, 8, 10, 12} : MonthLength(y, m) = 31
  BY DEF MonthLength
<1>6. /\ \A m \in {4, 6, 9, 11} : MonthLength(y, m) = 30
      /\ MonthLength(y, 2) = IF Leap(y) THEN 29 ELSE 28
  BY DEF MonthLength
<1>7. \A m \in 0..11 : DaysToMonth(y, m) \in Int
  BY <1>1, <1>2, <1>3, <1>4
<1>8. ASSUME NEW m \in 0..10
      PROVE  DaysToMonth(y, m + 1) = DaysToMonth(y, m) + MonthLength(y, m + 1)
  <2>1. CASE m \in {0, 1, 2, 3}
    BY <1>2, <1>3, <1>5, <1>6, <2>1
  <2>2. CASE m \in {4, 5, 6, 7}
    BY <1>3, <1>4, <1>5, <1>6, <2>2
  <2>3. CASE m \in {8, 9, 10}
    BY <1>4, <1>5, <1>6, <2>3
  <2> QED
    BY <2>1, <2>2, <2>3
<1> QED
  BY <1>2, <1>4, <1>5, <1>7, <1>8

(* The day a month begins, and the months of a year one after the other.   *)
LEMMA Starts ==
    ASSUME NEW y \in Int, NEW m \in 0..11
    PROVE  /\ Start(y, m) = DaysToYear(y) + DaysToMonth(y, m) + 1
           /\ Start(y, m) \in Int /\ MonthLength(y, m + 1) \in 28..31
           /\ m < 11 => Start(y, m + 1) = Start(y, m) + MonthLength(y, m + 1)
           /\ m = 11 => Start(y + 1, 0) = Start(y, m) + MonthLength(y, m + 1)
<1>1. ASSUME NEW z \in Int, NEW n \in 0..11
      PROVE  Start(z, n) = DaysToYear(z) + DaysToMonth(z, n) + 1
  <2>1. n \div 12 = 0 /\ n % 12 = n /\ (z - 1900) + 1900 + 0 = z
    OBVIOUS
  <2> QED
    BY <2>1 DEF Start, mktime
<1>2. MonthLength(y, m + 1) \in 28..31
  BY DEF MonthLength
<1>3. Start(y, m) = DaysToYear(y) + DaysToMonth(y, m) + 1 /\ Start(y, m) \in Int
  <2>1. DaysToYear(y) \in Int
    BY YearLength
  <2>2. DaysToMonth(y, m) \in Int
    BY MonthsAddUp
  <2>3. Start(y, m) = DaysToYear(y) + DaysToMonth(y, m) + 1
    BY <1>1
  <2> QED
    BY <2>1, <2>2, <2>3
<1>4. CASE m < 11
  <2>1. m \in 0..10 /\ m + 1 \in 0..11
    BY <1>4
  <2>2. /\ DaysToMonth(y, m + 1) = DaysToMonth(y, m) + MonthLength(y, m + 1)
        /\ DaysToMonth(y, m) \in Int /\ DaysToYear(y) \in Int
    BY <2>1, YearLength, MonthsAddUp
  <2>3. Start(y, m + 1) = DaysToYear(y) + DaysToMonth(y, m + 1) + 1
    BY <1>1, <2>1
  <2> QED
    BY <1>2, <1>3, <1>4, <2>2, <2>3
<1>5. CASE m = 11
  <2>1. /\ DaysToMonth(y, 11) + MonthLength(y, 12) = DaysToYear(y + 1) - DaysToYear(y)
        /\ DaysToMonth(y, 11) \in Int /\ DaysToYear(y) \in Int /\ DaysToYear(y + 1) \in Int
        /\ DaysToMonth(y + 1, 0) = 0
    <3>1. y + 1 \in Int
      OBVIOUS
    <3>2. /\ DaysToYear(y) \in Int /\ DaysToYear(y + 1) \in Int
          /\ DaysToYear(y + 1) = DaysToYear(y) + 365 + (IF Leap(y) THEN 1 ELSE 0)
      BY <3>1, YearLength
    <3>3. /\ DaysToMonth(y, 11) \in Int /\ DaysToMonth(y + 1, 0) = 0
          /\ DaysToMonth(y, 11) + MonthLength(y, 12) = 365 + (IF Leap(y) THEN 1 ELSE 0)
      BY <3>1, MonthsAddUp
    <3> QED
      BY <3>2, <3>3
  <2>2. Start(y + 1, 0) = DaysToYear(y + 1) + 0 + 1
    BY <1>1, <2>1
  <2>3. MonthLength(y, m + 1) = MonthLength(y, 12)
    BY <1>5
  <2> QED
    BY <1>2, <1>3, <1>5, <2>1, <2>2, <2>3
<1> QED
  BY <1>2, <1>3, <1>4, <1>5

(* What is added and compared are numbers.                                 *)
LEMMA Numbers ==
    /\ \A y \in Int, m \in 0..11 : Start(y, m) \in Int
    /\ \A y, m : MonthLength(y, m) \in 28..31
<1>1. ASSUME NEW y \in Int, NEW m \in 0..11 PROVE Start(y, m) \in Int
  BY Starts
<1>2. ASSUME NEW y, NEW m PROVE MonthLength(y, m) \in 28..31
  BY DEF MonthLength
<1> QED
  BY <1>1, <1>2

(* In a year, a month begins after all the days of an earlier one.         *)
LEMMA MonthsGrow ==
    ASSUME NEW y \in Int, NEW m \in 0..11, NEW n \in 0..11, m < n
    PROVE  Start(y, m) + MonthLength(y, m + 1) <= Start(y, n)
<1>1. ASSUME NEW i \in 0..11
      PROVE  /\ Start(y, i) \in Int
             /\ i < 11 => Start(y, i) + 28 <= Start(y, i + 1)
  <2>1. /\ Start(y, i) \in Int /\ MonthLength(y, i + 1) \in 28..31
        /\ i < 11 => Start(y, i + 1) = Start(y, i) + MonthLength(y, i + 1)
    BY Starts
  <2> QED
    BY <2>1
<1>2. /\ m < 11 /\ m + 1 \in 0..11
      /\ Start(y, m) + MonthLength(y, m + 1) = Start(y, m + 1)
  <2>1. m < 11 /\ m + 1 \in 0..11
    OBVIOUS
  <2>2. m < 11 => Start(y, m + 1) = Start(y, m) + MonthLength(y, m + 1)
    BY Starts
  <2> QED
    BY <2>1, <2>2
<1>3. \A i, k \in 0..11 : i <= k => Start(y, i) <= Start(y, k)
  <2> DEFINE S(i) == Start(y, i)
  <2>1. /\ \A i \in 0..11 : S(i) \in Int
        /\ S(0) <= S(1) /\ S(1) <= S(2) /\ S(2) <= S(3) /\ S(3) <= S(4)
        /\ S(4) <= S(5) /\ S(5) <= S(6) /\ S(6) <= S(7) /\ S(7) <= S(8)
        /\ S(8) <= S(9) /\ S(9) <= S(10) /\ S(10) <= S(11)
    BY <1>1
  <2>2. \A i \in 0..11 : i \in {0, 1, 2, 3, 4, 5, 6, 7, 8, 9, 10, 11}
    OBVIOUS
  <2> HIDE DEF S
  <2>3. \A i, k \in 0..11 : i <= k => S(i) <= S(k)
    BY <2>1, <2>2
  <2> QED
    BY <2>3 DEF S
<1> QED
  BY <1>2, <1>3

(* A month begins after all the days of an earlier one.                    *)
LEMMA StartsGrow ==
    ASSUME NEW y \in Int, NEW m \in 0..11, NEW z \in Int, NEW n \in 0..11,
           y < z \/ (y = z /\ m < n)
    PROVE  Start(y, m) + MonthLength(y, m + 1) <= Start(z, n)
<1>1. CASE y = z
  BY <1>1, MonthsGrow
<1>2. CASE y < z
  <2>1. Start(y, m) + MonthLength(y, m + 1) <= Start(y + 1, 0)
    <3>1. CASE m = 11
      BY <3>1, Starts
    <3>2. CASE m < 11
      <4>1. Start(y, m) + MonthLength(y, m + 1) <= Start(y, 11)
        BY <3>2, MonthsGrow
      <4>2. Start(y, 11) + MonthLength(y, 12) = Start(y + 1, 0) /\ MonthLength(y, 12) \in 28..31
        BY Starts
      <4>3. Start(y, 11) \in Int
        BY Numbers
      <4>4. Start(y, m) \in Int
        BY Numbers
      <4>5. MonthLength(y, m + 1) \in 28..31
        BY Numbers
      <4> QED
        BY <4>1, <4>2, <4>3, <4>4, <4>5
    <3> QED
      BY <3>1, <3>2
  <2>2. Start(y + 1, 0) <= Start(z, 0)
    <3>1. y + 1 \in Int /\ y + 1 <= z
      BY <1>2
    <3>2. DaysToYear(y + 1) <= DaysToYear(z)
      BY <3>1, YearsGrow
    <3>3. /\ Start(y + 1, 0) = DaysToYear(y + 1) + DaysToMonth(y + 1, 0) + 1
          /\ Start(z, 0) = DaysToYear(z) + DaysToMonth(z, 0) + 1
      BY <3>1, Starts
    <3>4. DaysToYear(y + 1) \in Int /\ DaysToYear(z) \in Int
      BY <3>1, YearLength
    <3>5. DaysToMonth(y + 1, 0) = 0 /\ DaysToMonth(z, 0) = 0
      BY <3>1, MonthsAddUp
    <3> QED
      BY <3>2, <3>3, <3>4, <3>5
  <2>3. Start(z, 0) <= Start(z, n)
    <3>1. Start(z, 0) \in Int /\ MonthLength(z, 1) \in 28..31 /\ Start(z, n) \in Int
      <4>1. Start(z, 0) \in Int
        BY Numbers
      <4>2. Start(z, n) \in Int
        BY Numbers
      <4>3. MonthLength(z, 1) \in 28..31
        BY Numbers
      <4> QED
        BY <4>1, <4>2, <4>3
    <3>2. CASE 0 < n
      <4>1. Start(z, 0) + MonthLength(z, 0 + 1) <= Start(z, n)
        BY <3>2, MonthsGrow
      <4> QED
        BY <3>1, <4>1
    <3>3. CASE n = 0
      BY <3>1, <3>3
    <3> QED
      BY <3>2, <3>3
  <2>4. Start(y, m) \in Int
    BY Numbers
  <2>5. Start(y + 1, 0) \in Int
    BY Numbers
  <2>6. Start(z, 0) \in Int
    BY Numbers
  <2>7. Start(z, n) \in Int
    BY Numbers
  <2>8. MonthLength(y, m + 1) \in 28..31
    BY Numbers
  <2> QED
    BY <2>1, <2>2, <2>3, <2>4, <2>5, <2>6, <2>7, <2>8
<1> QED
  BY <1>1, <1>2

(* The time of a date.                                                     *)
DateText == {x \in Text : x.form = "date"}

(* It is a number, and for a month of 1 to 12 the day counts from the      *)
(* beginning of that month.                                                *)
LEMMA Times ==
    ASSUME NEW x \in DateText
    PROVE  /\ x.m \in Int /\ x.d \in Int /\ x.y \in Int /\ Order(x) \in Int
           /\ x.m \in 1..12 => Order(x) = Start(x.y, x.m - 1) + x.d - 1
<1>1. x.m \in Int /\ x.d \in Int /\ x.y \in Int
  BY DEF DateText, Text
<1> DEFINE z == x.y - 1900 + 1900 + (x.m - 1) \div 12
           n == (x.m - 1) % 12
<1>2. z \in Int /\ n \in 0..11 /\ (x.m \in 1..12 => z = x.y /\ n = x.m - 1)
  BY <1>1
<1>3. Order(x) = DaysToYear(z) + DaysToMonth(z, n) + x.d
  BY DEF Order, Fields, mktime
<1> HIDE DEF z, n
<1>4. Order(x) = Start(z, n) + x.d - 1 /\ Start(z, n) \in Int
  <2>1. Start(z, n) = DaysToYear(z) + DaysToMonth(z, n) + 1
    BY <1>2, Starts
  <2>2. DaysToYear(z) \in Int
    BY <1>2, YearLength
  <2>3. DaysToMonth(z, n) \in Int
    BY <1>2, MonthsAddUp
  <2> QED
    BY <1>1, <1>3, <2>1, <2>2, <2>3
<1> QED
  BY <1>1, <1>2, <1>4

(* The greatest element, where there is one.                               *)
LEMMA MaxIs ==
    ASSUME NEW S, S \subseteq Int, NEW x \in S, \A y \in S : y <= x
    PROVE  Max(S) = x
<1>1. Max(S) \in S /\ \A y \in S : Max(S) >= y
  BY DEF Max
<1>2. Max(S) \in Int /\ x \in Int /\ Max(S) >= x /\ Max(S) <= x
  BY <1>1
<1> QED
  BY <1>2

(* localtime gives the day of the calendar at which a time lies.           *)
LocaltimeIs(time, y, m) ==
    /\ localtime(time) = [mday |-> time - Start(y, m) + 1, mon |-> m, year |-> y - 1900]
    /\ Start(y, m) <= time /\ time < Start(y, m) + MonthLength(y, m + 1)

(* Each time that is converted lies in a month, which localtime finds:     *)
(* Years surrounds it.                                                     *)
LEMMA Localtime ==
    ASSUME NEW x \in DateText \intersect Texts
    PROVE  \E y \in Int, m \in 0..11 : LocaltimeIs(Order(x), y, m)
<1> DEFINE time == Order(x)
           Y == {y \in Years : Start(y, 0) <= time}
<1>1. time \in Int
  BY Times
<1>2. PICK y \in Years : y + 1 \in Years /\ Start(y, 0) <= time /\ time < Start(y + 1, 0)
  BY YearsAssumption DEF DateText
<1>3. y \in Int /\ Years \subseteq Int
  BY YearsAssumption
<1> DEFINE M == {m \in 0..11 : Start(y, m) <= time}
<1> HIDE DEF time
<1>4. Max(Y) = y
  <2>1. ASSUME NEW z \in Y PROVE z <= y
    <3>1. CASE z > y
      <4>1. z = y + 1 \/ y + 1 < z
        BY <1>3, <3>1
      <4>2. Start(y + 1, 0) <= Start(z, 0)
        BY <1>3, <4>1, Starts, StartsGrow
      <4> QED
        BY <1>1, <1>2, <1>3, <4>2, Starts
    <3> QED
      BY <1>3, <3>1
  <2> QED
    BY <1>2, <1>3, <2>1, MaxIs
<1>5. PICK m \in 0..11 : Start(y, m) <= time /\ time < Start(y, m) + MonthLength(y, m + 1)
  <2> DEFINE S(i) == Start(y, i)
  <2>1. /\ \A i \in 0..11 : S(i) \in Int
        /\ \A i \in 0..10 : S(i + 1) = S(i) + MonthLength(y, i + 1)
        /\ S(11) + MonthLength(y, 12) = Start(y + 1, 0)
        /\ S(0) <= time
    BY <1>2, <1>3, Starts
  <2> HIDE DEF S
  <2>2. CASE S(11) <= time
    BY <1>1, <1>2, <1>3, <2>1, <2>2 DEF S
  <2>3. CASE ~(S(11) <= time)
    <3>1. PICK i \in 0..10 : S(i) <= time /\ ~(S(i + 1) <= time)
      BY <2>1, <2>3
    <3> QED
      BY <1>1, <2>1, <3>1 DEF S
  <2> QED
    BY <2>2, <2>3
<1>6. Max(M) = m
  <2>1. ASSUME NEW n \in M PROVE n <= m
    <3>1. CASE n > m
      <4>1. Start(y, m) + MonthLength(y, m + 1) <= Start(y, n)
        BY <1>3, <3>1, MonthsGrow
      <4>2. Start(y, m) \in Int
        BY <1>3, Numbers
      <4>3. Start(y, n) \in Int
        BY <1>3, Numbers
      <4>4. MonthLength(y, m + 1) \in 28..31
        BY Numbers
      <4>5. time < Start(y, m) + MonthLength(y, m + 1) /\ Start(y, n) <= time
        BY <1>5
      <4> QED
        BY <1>1, <4>1, <4>2, <4>3, <4>4, <4>5
    <3> QED
      BY <3>1
  <2> QED
    BY <1>5, <2>1, MaxIs
<1>7. localtime(time) = [mday |-> time - Start(y, m) + 1, mon |-> m, year |-> y - 1900]
  BY <1>4, <1>6 DEF localtime
<1> HIDE DEF Y, M
<1>8. LocaltimeIs(time, y, m)
  BY <1>5, <1>7 DEF LocaltimeIs
<1> QED
  BY <1>3, <1>8 DEF time

(* What it gives: a day of the calendar; the date itself if that is a day  *)
(* of the calendar; and if not, and the month is one, another day.         *)
LEMMA RoundTrip ==
    ASSUME NEW x \in DateText \intersect Texts
    PROVE  LET L == localtime(Order(x)) IN
           /\ L.mon \in 0..11 /\ L.year \in Int
           /\ L.mday \in 1..MonthLength(L.year + 1900, L.mon + 1)
           /\ IsCalendarDate(x) => L = Fields(x)
           /\ x.m \in 1..12 /\ ~IsCalendarDate(x) => L.mday # x.d
<1>1. PICK y \in Int, m \in 0..11 : LocaltimeIs(Order(x), y, m)
  BY Localtime
<1> DEFINE L == localtime(Order(x))
           s == Start(y, m)
           time == Order(x)
           len == MonthLength(y, m + 1)
<1>2. L.mon = m /\ L.mday = time - s + 1 /\ L.year = y - 1900 /\ s <= time /\ time < s + len
  BY <1>1 DEF LocaltimeIs
<1>3. /\ time \in Int /\ x.y \in Int /\ x.m \in Int /\ x.d \in Int
      /\ x.m \in 1..12 => time = Start(x.y, x.m - 1) + x.d - 1
  BY Times
<1>4. s \in Int
  BY Numbers
<1>5. len \in 28..31
  BY Numbers
<1>6. L.year + 1900 = y /\ L.mday \in 1..len
  BY <1>2, <1>3, <1>4, <1>5
<1>7. ASSUME x.m \in 1..12, \/ IsCalendarDate(x)
                            \/ L.mday = x.d
      PROVE  y = x.y /\ m = x.m - 1 /\ L.mday = x.d
  <2> DEFINE n == x.m - 1
             z == Start(x.y, n)
             last == MonthLength(x.y, x.m)
  <2>1. n \in 0..11 /\ n + 1 = x.m
    BY <1>7
  <2>2. z \in Int
    BY <1>3, <2>1, Numbers
  <2>3. last \in 28..31
    BY Numbers
  <2>4. time = z + x.d - 1
    BY <1>3, <1>7
  <2>5. CASE y < x.y \/ (y = x.y /\ m < n)
    <3>1. s + len <= z
      BY <1>3, <2>1, <2>5, StartsGrow
    <3>2. x.d < 1 /\ ~IsCalendarDate(x)
      BY <1>2, <1>3, <1>4, <1>5, <2>2, <2>4, <3>1 DEF IsCalendarDate
    <3> QED
      BY <1>6, <1>7, <3>2
  <2>6. CASE x.y < y \/ (x.y = y /\ n < m)
    <3>1. z + last <= s
      BY <1>3, <2>1, <2>6, StartsGrow
    <3>2. x.d > last /\ L.mday # x.d
      BY <1>2, <1>3, <1>4, <2>2, <2>3, <2>4, <3>1
    <3> QED
      BY <1>3, <1>7, <2>3, <3>2 DEF IsCalendarDate
  <2>7. CASE y = x.y /\ m = n
    BY <1>2, <1>3, <1>4, <2>4, <2>7
  <2> QED
    BY <1>3, <2>1, <2>5, <2>6, <2>7
<1>8. ASSUME IsCalendarDate(x) PROVE L = Fields(x)
  <2>1. y = x.y /\ m = x.m - 1 /\ L.mday = x.d
    BY <1>7, <1>8 DEF IsCalendarDate
  <2>2. L = [mday |-> time - s + 1, mon |-> m, year |-> y - 1900]
    BY <1>1 DEF LocaltimeIs
  <2> QED
    BY <1>2, <2>1, <2>2 DEF Fields
<1>9. ASSUME x.m \in 1..12, ~IsCalendarDate(x) PROVE L.mday # x.d
  <2>1. SUFFICES ASSUME L.mday = x.d PROVE IsCalendarDate(x)
    BY <1>9
  <2>2. y = x.y /\ m + 1 = x.m
    BY <1>3, <1>7, <1>9, <2>1
  <2> QED
    BY <1>6, <1>9, <2>1, <2>2 DEF IsCalendarDate
<1> QED
  BY <1>2, <1>6, <1>8, <1>9

(* Days of the calendar follow each other as their times do.               *)
LEMMA OrderIsTime ==
    ASSUME NEW x \in DateText, NEW z \in DateText, IsCalendarDate(x), IsCalendarDate(z)
    PROVE  Order(x) <= Order(z) <=> ~Before(z, x)
<1>1. ASSUME NEW a \in DateText, IsCalendarDate(a)
      PROVE  /\ a.m \in 1..12 /\ a.m - 1 \in 0..11 /\ a.y \in Int /\ a.d \in Int
             /\ Order(a) = Start(a.y, a.m - 1) + a.d - 1
             /\ 1 <= a.d /\ a.d <= MonthLength(a.y, a.m)
  <2>1. a.m \in 1..12 /\ a.d \in 1..MonthLength(a.y, a.m)
    BY <1>1 DEF IsCalendarDate
  <2>2. MonthLength(a.y, a.m) \in 28..31
    BY Numbers
  <2> QED
    BY <2>1, <2>2, Times
<1>2. ASSUME NEW a \in DateText, NEW b \in DateText, IsCalendarDate(a), IsCalendarDate(b)
      PROVE  Before(a, b) => Order(a) < Order(b)
  <2>1. /\ a.m - 1 \in 0..11 /\ a.y \in Int /\ a.d \in Int /\ a.m \in Int
        /\ Order(a) = Start(a.y, a.m - 1) + a.d - 1
        /\ a.d <= MonthLength(a.y, a.m)
    BY <1>1, <1>2
  <2>2. /\ b.m - 1 \in 0..11 /\ b.y \in Int /\ b.d \in Int /\ b.m \in Int
        /\ Order(b) = Start(b.y, b.m - 1) + b.d - 1
        /\ 1 <= b.d
    BY <1>1, <1>2
  <2>3. Start(a.y, a.m - 1) \in Int
    BY <2>1, Numbers
  <2>4. Start(b.y, b.m - 1) \in Int
    BY <2>2, Numbers
  <2>5. MonthLength(a.y, a.m) \in 28..31
    BY Numbers
  <2>6. CASE a.y < b.y \/ (a.y = b.y /\ a.m < b.m)
    <3>1. (a.m - 1) + 1 = a.m /\ (a.m < b.m => a.m - 1 < b.m - 1)
      BY <2>1, <2>2
    <3>2. Start(a.y, a.m - 1) + MonthLength(a.y, (a.m - 1) + 1) <= Start(b.y, b.m - 1)
      BY <2>1, <2>2, <2>6, <3>1, StartsGrow
    <3> QED
      BY <2>1, <2>2, <2>3, <2>4, <2>5, <3>1, <3>2
  <2>7. CASE a.y = b.y /\ a.m = b.m /\ a.d < b.d
    BY <2>1, <2>2, <2>3, <2>7
  <2> QED
    BY <2>6, <2>7 DEF Before
<1>3. Before(z, x) \/ Before(x, z) \/ Order(x) = Order(z)
  BY <1>1 DEF Before
<1>4. Order(x) \in Int /\ Order(z) \in Int
  BY Times
<1> QED
  BY <1>2, <1>3, <1>4
-----------------------------------------------------------------------------
(* The invariant.  Where a thread is.                                      *)
Place(t) ==
    /\ at[t] \in {"start", "end", "rest"} \/ verdict[t] # None => content[t] \in Contents
    /\ at[t] \in {"start", "end"} => ~Empty(Date(t))
    /\ mode[t] # "convert" => at[t] \in {"start", "end", "log"} /\ Readable(Date(t))
    /\ mode[t] = "write" => /\ writer = t
                            /\ fields[t] \in {WriteOrder, <<"mon", "mday">>, <<"mday">>}
    /\ mode[t] = "read"  => /\ at[t] # "log"
                            /\ fields[t] \in {ReadOrder, <<"mon", "year">>, <<"year">>}

(* The day that the conversion of its date gives, and the fields of it     *)
(* that are in the struct.                                                 *)
Day(t)     == localtime(Order(Date(t)))
Written(t) == CASE fields[t] = WriteOrder       -> {}
                [] fields[t] = <<"mon", "mday">> -> {"year"}
                [] OTHER                         -> {"year", "mon"}

Puts(t) == mode[t] = "write" => \A f \in Written(t) : tm[f] = Day(t)[f]

(* A thread that reads finds a day of the calendar as it is; where the     *)
(* date is none, the day or else the month differs, and stays different:   *)
(* whoever writes into the struct writes a day of the calendar, and writes *)
(* its year and its month before the day.                                  *)
Finds(t) ==
    LET x == Date(t) IN
    /\ tm["mon"] \in 0..11
    /\ alone[t] =>
         /\ IsCalendarDate(x) => \A f \in {"mday", "mon", "year"} : tm[f] = Fields(x)[f]
         /\ x.m \notin 1..12 => fields[t] # <<"year">>
         /\ x.m \in 1..12 /\ ~IsCalendarDate(x) => tm["mday"] # x.d /\ fields[t] = ReadOrder
         /\ \A o \in Thread : mode[o] = "write" =>
               \A f \in Written(o) : Day(o)[f] = Fields(x)[f]

(* What it has found out.                                                  *)
Good(x) == Readable(x) /\ IsCalendarDate(x)

Knows(t) ==
    LET c == content[t] IN
    /\ at[t] = "end"  => Empty(c.start) \/ Good(c.start)
    /\ at[t] = "rest" => \A x \in {c.start, c.end} : Empty(x) \/ Good(x)
    /\ verdict[t] # None => verdict[t] = Acceptable(c)

DatesTypeOK ==
    /\ tm \in [{"mday", "mon", "year"} -> Int]
    /\ at \in [Thread -> {"idle", "start", "end", "rest", "log"}]
    /\ mode \in [Thread -> {"convert", "write", "read"}]
    /\ alone \in [Thread -> BOOLEAN]
    /\ DOMAIN content = Thread /\ DOMAIN fields = Thread /\ DOMAIN verdict = Thread

DatesInv == DatesTypeOK /\ \A t \in Thread : /\ Place(t) /\ Puts(t)
                                             /\ mode[t] = "read" => Finds(t)
                                             /\ alone[t] => Knows(t)

(* The orders in which the fields are written and read, step by step.      *)
LEMMA Orders ==
    /\ Head(ReadOrder) = "mday" /\ Tail(ReadOrder) = <<"mon", "year">>
    /\ Head(<<"mon", "year">>) = "mon" /\ Tail(<<"mon", "year">>) = <<"year">>
    /\ Head(<<"year">>) = "year"
    /\ Head(WriteOrder) = "year" /\ Tail(WriteOrder) = <<"mon", "mday">>
    /\ Head(<<"mon", "mday">>) = "mon" /\ Tail(<<"mon", "mday">>) = <<"mday">>
    /\ Head(<<"mday">>) = "mday"
    /\ Len(ReadOrder) = 3 /\ Len(<<"mon", "year">>) = 2 /\ Len(<<"year">>) = 1
    /\ Len(WriteOrder) = 3 /\ Len(<<"mon", "mday">>) = 2 /\ Len(<<"mday">>) = 1
    /\ ReadOrder \notin {<<"mon", "year">>, <<"year">>} /\ <<"mon", "year">> # <<"year">>
    /\ WriteOrder \notin {<<"mon", "mday">>, <<"mday">>} /\ <<"mon", "mday">> # <<"mday">>
<1>1. Head(ReadOrder) = "mday" /\ Len(ReadOrder) = 3 /\ Len(<<"mon", "year">>) = 2 /\ Len(<<"year">>) = 1
  BY DEF ReadOrder
<1>2. Tail(ReadOrder) = <<"mon", "year">>
  BY DEF ReadOrder
<1>3. Head(<<"mon", "year">>) = "mon" /\ Head(<<"year">>) = "year"
  OBVIOUS
<1>4. Tail(<<"mon", "year">>) = <<"year">>
  OBVIOUS
<1>5. Head(WriteOrder) = "year" /\ Len(WriteOrder) = 3 /\ Len(<<"mon", "mday">>) = 2 /\ Len(<<"mday">>) = 1
  BY DEF WriteOrder
<1>6. Tail(WriteOrder) = <<"mon", "mday">>
  BY DEF WriteOrder
<1>7. Head(<<"mon", "mday">>) = "mon" /\ Head(<<"mday">>) = "mday"
  OBVIOUS
<1>8. Tail(<<"mon", "mday">>) = <<"mday">>
  OBVIOUS
<1> QED
  BY <1>1, <1>2, <1>3, <1>4, <1>5, <1>6, <1>7, <1>8

(* A thread that does not take the step.                                   *)
Same(s) == /\ at'[s] = at[s] /\ mode'[s] = mode[s] /\ content'[s] = content[s]
           /\ fields'[s] = fields[s] /\ verdict'[s] = verdict[s]

(* It stays where it is in its conversion, and what it knows stays true.   *)
LEMMA SameStays ==
    ASSUME NEW s \in Thread, Same(s)
    PROVE  /\ Date(s)' = Date(s) /\ Day(s)' = Day(s) /\ Written(s)' = Written(s)
           /\ Place(s) /\ (mode[s] = "write" => writer' = writer) => Place(s)'
           /\ Knows(s) => Knows(s)'
<1>1. Date(s)' = Date(s)
  BY DEF Same, Date
<1>2. Day(s)' = Day(s) /\ Written(s)' = Written(s)
  BY <1>1 DEF Same, Day, Written
<1>3. ASSUME Place(s), mode[s] = "write" => writer' = writer PROVE Place(s)'
  BY <1>1, <1>3 DEF Same, Place
<1>4. ASSUME Knows(s) PROVE Knows(s)'
  BY <1>4 DEF Same, Knows
<1> QED
  BY <1>1, <1>2, <1>3, <1>4

(* What a thread converts is a date.                                       *)
LEMMA Converts ==
    ASSUME NEW t \in Thread, Place(t), mode[t] # "convert"
    PROVE  Date(t) \in DateText \intersect Texts
<1>1. CASE at[t] = "log"
  BY <1>1, TodayAssumption DEF Place, Date, Readable, DateText, Texts
<1>2. CASE at[t] \in {"start", "end"}
  <2>1. content[t] \in Contents /\ Date(t) \in {content[t].start, content[t].end}
    BY <1>2 DEF Place, Date
  <2>2. content[t].start \in Text /\ content[t].end \in Text
    BY <2>1, ContentsAssumption DEF Content
  <2> QED
    BY <1>2, <2>1, <2>2 DEF Place, Readable, DateText, Texts
<1> QED
  BY <1>1, <1>2 DEF Place

(* The steps that leave the struct alone.                                  *)
Quiet(t) ==
    /\ tm' = tm /\ DatesTypeOK'
    /\ \A s \in Thread \ {t} : Same(s) /\ alone'[s] = alone[s]
    /\ \A s \in Thread \ {t} : mode[s] = "write" => writer' = writer
    /\ mode'[t] # "write" \/ Written(t)' = {}

(* They keep the invariant, if the thread that takes the step does.        *)
LEMMA QuietKeeps ==
    ASSUME DatesInv, NEW t \in Thread, Quiet(t), Place(t)',
           mode'[t] = "read" => Finds(t)', alone'[t] => Knows(t)'
    PROVE  DatesInv'
<1>1. ASSUME NEW s \in Thread \ {t}
      PROVE  Place(s)' /\ Puts(s)' /\ (mode'[s] = "read" => Finds(s)') /\ (alone'[s] => Knows(s)')
  <2>1. /\ Date(s)' = Date(s) /\ Day(s)' = Day(s) /\ Written(s)' = Written(s)
        /\ Place(s)' /\ (alone'[s] => Knows(s)')
    BY <1>1, SameStays DEF Quiet, DatesInv
  <2>2. Puts(s)'
    BY <1>1, <2>1 DEF Puts, Quiet, Same, DatesInv
  <2>3. ASSUME mode'[s] = "read" PROVE Finds(s)'
    <3>1. Finds(s) /\ fields'[s] = fields[s] /\ alone'[s] = alone[s]
      BY <1>1, <2>3 DEF Quiet, Same, DatesInv
    <3>2. ASSUME alone[s], NEW o \in Thread, mode'[o] = "write", NEW f \in Written(o)'
          PROVE  Day(o)'[f] = Fields(Date(s))[f]
      <4>1. o # t /\ mode[o] = "write"
        BY <3>2 DEF Quiet, Same
      <4>2. Day(o)' = Day(o) /\ Written(o)' = Written(o)
        BY <4>1, SameStays DEF Quiet
      <4> QED
        BY <3>1, <3>2, <4>1, <4>2 DEF Finds
    <3> QED
      BY <2>1, <3>1, <3>2 DEF Finds, Quiet
  <2> QED
    BY <2>1, <2>2, <2>3
<1>2. Puts(t)'
  BY DEF Quiet, Puts
<1> QED
  BY <1>1, <1>2 DEF Quiet, DatesInv

(* A task with a date that is none is not acceptable.                      *)
LEMMA BadDate ==
    ASSUME NEW c \in Contents, NEW x \in {c.start, c.end}, ~Empty(x), ~Good(x)
    PROVE  Acceptable(c) = FALSE
<1>1. ~Acceptable(c)
  BY DEF Acceptable, Empty, Good, Readable
<1> QED
  BY <1>1 DEF Acceptable

(* A task whose dates are days of the calendar is judged by their order    *)
(* and by the rest of it.                                                  *)
LEMMA GoodDates ==
    ASSUME NEW c \in Contents, \A x \in {c.start, c.end} : Empty(x) \/ Good(x)
    PROVE  (/\ Empty(c.start) <=> Empty(c.end)
            /\ ~Empty(c.start) => InOrder(c)
            /\ c.rest) = Acceptable(c)
<1>1. c.start \in Text /\ c.end \in Text /\ c.rest \in BOOLEAN
  BY ContentsAssumption DEF Content
<1>2. \A x \in {c.start, c.end} : Good(x) => x \in DateText /\ IsCalendarDate(x) /\ ~Empty(x)
  BY <1>1 DEF Good, Readable, DateText, Empty
<1>3. CASE Empty(c.start) /\ Empty(c.end)
  BY <1>1, <1>3 DEF Acceptable
<1>4. CASE Good(c.start) /\ Good(c.end)
  <2>1. InOrder(c) <=> ~Before(c.end, c.start)
    BY <1>2, <1>4, OrderIsTime DEF InOrder
  <2>2. \A x \in {c.start, c.end} : x.form = "date" /\ IsCalendarDate(x)
    BY <1>4 DEF Good, Readable
  <2>3. ~Empty(c.start) /\ ~Empty(c.end)
    BY <1>2, <1>4
  <2>4. Acceptable(c) <=> c.rest /\ InOrder(c)
    BY <2>1, <2>2, <2>3 DEF Acceptable
  <2> QED
    BY <2>3, <2>4 DEF Acceptable
<1>5. CASE ~(Empty(c.start) <=> Empty(c.end))
  <2>1. ~Acceptable(c)
    BY <1>5 DEF Acceptable, Empty
  <2> QED
    BY <1>5, <2>1 DEF Acceptable
<1> QED
  BY <1>2, <1>3, <1>4, <1>5

(* A thread returns, and what it returns is right if it was alone.         *)
LEMMA ReturnKeeps ==
    ASSUME DatesInv, NEW t \in Thread, NEW v, Return(t, v),
           UNCHANGED <<tm, writer, content, alone>>,
           content[t] \in Contents, alone[t] => v = Acceptable(content[t])
    PROVE  DatesInv'
<1>1. /\ verdict'[t] = v /\ at'[t] = "idle" /\ mode'[t] = "convert"
      /\ content'[t] = content[t] /\ alone'[t] = alone[t]
  BY DEF DatesInv, DatesTypeOK, Return
<1>2. Quiet(t)
  <2>1. DatesTypeOK'
    BY DEF DatesInv, DatesTypeOK, Return
  <2>2. \A s \in Thread \ {t} : Same(s)
    BY DEF DatesInv, DatesTypeOK, Return, Same
  <2> QED
    BY <1>1, <2>1, <2>2 DEF Quiet
<1>3. Place(t)'
  BY <1>1 DEF Place
<1>4. alone'[t] => Knows(t)'
  BY <1>1 DEF Knows
<1> QED
  BY <1>1, <1>2, <1>3, <1>4, QuietKeeps

(* A task is taken up, or the log.                                         *)
LEMMA TakesUp ==
    ASSUME DatesInv, NEW t \in Thread, Validate(t) \/ Log(t)
    PROVE  DatesInv'
<1>1. mode[t] = "convert" /\ mode' = mode /\ writer' = writer /\ verdict'[t] = None
  BY DEF DatesInv, DatesTypeOK, Place, Validate, Log
<1>2. CASE Validate(t)
  <2>1. PICK c \in Contents : /\ content' = [content EXCEPT ![t] = c]
                              /\ at' = [at EXCEPT ![t] = First(c)]
    BY <1>2 DEF Validate
  <2>2. First(c) \in {"start", "end", "rest"}
    BY DEF First
  <2>3. Quiet(t)
    <3>1. DatesTypeOK'
      BY <1>2, <2>1, <2>2 DEF DatesInv, DatesTypeOK, Validate
    <3>2. \A s \in Thread \ {t} : Same(s) /\ alone'[s] = alone[s]
      BY <1>2, <2>1 DEF DatesInv, DatesTypeOK, Validate, Same
    <3> QED
      BY <1>1, <1>2, <3>1, <3>2 DEF Quiet, Validate
  <2>4. content'[t] = c /\ at'[t] = First(c)
    BY <2>1 DEF DatesInv, DatesTypeOK
  <2>5. Place(t)'
    <3>1. at'[t] \in {"start", "end"} => Date(t)' = c[at'[t]]
      BY <2>4 DEF Date
    <3>2. First(c) \in {"start", "end"} => ~Empty(c[First(c)])
      BY DEF First
    <3> QED
      BY <1>1, <2>2, <2>4, <3>1, <3>2 DEF Place
  <2>6. Knows(t)'
    BY <1>1, <2>4 DEF Knows, First
  <2> QED
    BY <1>1, <2>3, <2>5, <2>6, QuietKeeps
<1>3. CASE Log(t)
  <2>1. Quiet(t)
    <3>1. DatesTypeOK'
      BY <1>3 DEF DatesInv, DatesTypeOK, Log
    <3>2. \A s \in Thread \ {t} : Same(s) /\ alone'[s] = alone[s]
      BY <1>3 DEF DatesInv, DatesTypeOK, Log, Same
    <3> QED
      BY <1>1, <1>3, <3>1, <3>2 DEF Quiet, Log
  <2>2. at'[t] = "log"
    BY <1>3 DEF DatesInv, DatesTypeOK, Log
  <2> QED
    BY <1>1, <2>1, <2>2, QuietKeeps DEF Place, Knows
<1> QED
  BY <1>2, <1>3

(* A conversion begins, or the text is no date.                            *)
LEMMA ConvertKeeps ==
    ASSUME DatesInv, NEW t \in Thread, Convert(t)
    PROVE  DatesInv'
<1>1. at[t] \in {"start", "end", "log"} /\ UNCHANGED <<tm, content, alone>>
  BY DEF Convert
<1>2. CASE ~Readable(Date(t)) /\ Return(t, FALSE) /\ writer' = writer
  <2>1. at[t] \in {"start", "end"}
    BY <1>1, <1>2, TodayAssumption DEF Date, Readable
  <2>2. /\ content[t] \in Contents /\ ~Empty(Date(t))
        /\ Date(t) \in {content[t].start, content[t].end}
    BY <2>1 DEF DatesInv, Place, Date
  <2>3. Acceptable(content[t]) = FALSE
    BY <1>2, <2>2, BadDate DEF Good
  <2> QED
    BY <1>1, <1>2, <2>2, <2>3, ReturnKeeps
<1>3. CASE /\ Readable(Date(t)) /\ writer = None /\ writer' = t
           /\ mode'   = [mode EXCEPT ![t] = "write"]
           /\ fields' = [fields EXCEPT ![t] = WriteOrder]
           /\ UNCHANGED <<at, verdict>>
  <2>1. /\ mode'[t] = "write" /\ fields'[t] = WriteOrder /\ Date(t)' = Date(t)
        /\ at'[t] = at[t] /\ content'[t] = content[t] /\ verdict'[t] = verdict[t]
        /\ alone'[t] = alone[t]
    BY <1>1, <1>3 DEF DatesInv, DatesTypeOK, Date
  <2>2. Quiet(t)
    <3>1. DatesTypeOK'
      BY <1>1, <1>3 DEF DatesInv, DatesTypeOK
    <3>2. \A s \in Thread \ {t} : Same(s) /\ alone'[s] = alone[s]
      BY <1>1, <1>3 DEF DatesInv, DatesTypeOK, Same
    <3>3. \A s \in Thread \ {t} : mode[s] # "write"
      BY <1>3, NoneAssumption DEF DatesInv, Place
    <3>4. Written(t)' = {}
      BY <2>1 DEF Written, WriteOrder
    <3> QED
      BY <1>1, <3>1, <3>2, <3>3, <3>4 DEF Quiet
  <2>3. Place(t)'
    BY <1>1, <1>3, <2>1 DEF DatesInv, Place
  <2>4. alone'[t] => Knows(t)'
    BY <2>1 DEF DatesInv, Knows
  <2> QED
    BY <2>1, <2>2, <2>3, <2>4, QuietKeeps
<1> QED
  BY <1>2, <1>3 DEF Convert

(* A field is compared.                                                    *)
LEMMA ReadKeeps ==
    ASSUME DatesInv, NEW t \in Thread, Read(t)
    PROVE  DatesInv'
<1> DEFINE x == Date(t)
           f == Head(fields[t])
           c == content[t]
<1>1. /\ mode[t] = "read" /\ Finds(t) /\ Place(t) /\ at[t] \in {"start", "end"}
      /\ fields[t] \in {ReadOrder, <<"mon", "year">>, <<"year">>}
      /\ UNCHANGED <<tm, writer, content, alone>>
  BY DEF Read, DatesInv, Place
<1>2. x \in DateText \intersect Texts /\ x.m \in Int /\ x.d \in Int
  BY <1>1, Converts, Times
<1>3. c \in Contents /\ ~Empty(x) /\ x \in {c.start, c.end} /\ Readable(x)
  BY <1>1 DEF Place, Date
<1>4. /\ Fields(x)["mday"] = x.d /\ Fields(x)["mon"] = x.m - 1
      /\ f \in {"mday", "mon", "year"}
  BY <1>1 DEF Fields, ReadOrder
<1>5. CASE tm[f] # Fields(x)[f] /\ Return(t, FALSE)
  <2>1. ASSUME alone[t] PROVE Acceptable(c) = FALSE
    <3>1. ~IsCalendarDate(x)
      BY <1>1, <1>4, <1>5, <2>1 DEF Finds
    <3> QED
      BY <1>3, <3>1, BadDate DEF Good
  <2> QED
    BY <1>1, <1>3, <1>5, <2>1, ReturnKeeps
<1>6. CASE /\ tm[f] = Fields(x)[f]
           /\ mode'   = [mode EXCEPT ![t] = IF Len(fields[t]) = 1 THEN "convert" ELSE @]
           /\ fields' = [fields EXCEPT ![t] = Tail(@)]
           /\ at'     = [at EXCEPT ![t] = IF Len(fields[t]) = 1 THEN Next(t) ELSE @]
           /\ UNCHANGED verdict
  <2>1. DatesTypeOK'
    BY <1>1, <1>6 DEF DatesInv, DatesTypeOK, Next
  <2>2. \A s \in Thread \ {t} : Same(s) /\ alone'[s] = alone[s]
    BY <1>1, <1>6 DEF DatesInv, DatesTypeOK, Same
  <2>3. Quiet(t)
    BY <1>1, <1>6, <2>1, <2>2 DEF Quiet, DatesInv, DatesTypeOK
  <2>4. /\ content'[t] = c /\ verdict'[t] = verdict[t] /\ alone'[t] = alone[t]
        /\ verdict[t] # None => Knows(t) \/ ~alone[t]
    BY <1>1, <1>6 DEF DatesInv
  <2>5. CASE Len(fields[t]) = 1
    <3>1. fields[t] = <<"year">>
      BY <1>1, <2>5 DEF ReadOrder
    <3>2. mode'[t] = "convert" /\ at'[t] = Next(t)
      BY <1>6, <2>5 DEF DatesInv, DatesTypeOK
    <3>3. alone[t] => Good(x)
      BY <1>1, <1>2, <1>3, <3>1 DEF Finds, Good, ReadOrder
    <3>4. Next(t) \in {"end", "rest"} /\ (Next(t) = "end" => at[t] = "start" /\ ~Empty(c.end))
      BY DEF Next
    <3>5. Place(t)'
      <4>1. Next(t) = "end" => Date(t)' = c.end
        BY <2>4, <3>2 DEF Date
      <4> QED
        BY <1>3, <2>4, <3>2, <3>4, <4>1 DEF Place
    <3>6. ASSUME alone[t] PROVE Knows(t)'
      <4>1. Good(x) /\ Knows(t)
        BY <3>3, <3>6 DEF DatesInv
      <4>2. CASE at[t] = "start"
        <5>1. x = c.start
          BY <4>2 DEF Date
        <5>2. Next(t) = "rest" => Empty(c.end)
          BY <4>2 DEF Next
        <5> QED
          BY <2>4, <3>2, <3>4, <4>1, <5>1, <5>2 DEF Knows
      <4>3. CASE at[t] = "end"
        <5>1. x = c.end /\ Next(t) = "rest"
          BY <4>3 DEF Date, Next
        <5> QED
          BY <2>4, <3>2, <3>4, <4>1, <4>3, <5>1 DEF Knows
      <4> QED
        BY <1>1, <4>2, <4>3
    <3> QED
      BY <2>3, <2>4, <3>2, <3>5, <3>6, QuietKeeps
  <2>6. CASE Len(fields[t]) # 1
    <3>1. /\ fields[t] \in {ReadOrder, <<"mon", "year">>}
          /\ mode'[t] = mode[t] /\ at'[t] = at[t] /\ fields'[t] = Tail(fields[t])
      BY <1>1, <1>6, <2>6 DEF DatesInv, DatesTypeOK
    <3>2. /\ fields[t] = ReadOrder => f = "mday" /\ fields'[t] = <<"mon", "year">>
          /\ fields[t] = <<"mon", "year">> => f = "mon" /\ fields'[t] = <<"year">>
          /\ fields'[t] # ReadOrder
      BY <3>1, Orders
    <3>3. Date(t)' = x
      BY <2>4, <3>1 DEF Date
    <3>4. Place(t)'
      BY <1>1, <2>4, <3>1, <3>2, <3>3 DEF Place
    <3>5. alone[t] => Knows(t)'
      BY <2>4, <3>1 DEF DatesInv, Knows
    <3>6. ASSUME alone[t], x.m \in 1..12 PROVE IsCalendarDate(x)
      <4>1. ~IsCalendarDate(x) => tm["mday"] # x.d /\ f = "mday"
        BY <1>1, <3>2, <3>6 DEF Finds
      <4> QED
        BY <1>4, <1>6, <4>1
    <3>7. x.m \notin 1..12 => fields'[t] # <<"year">>
      <4>1. tm["mon"] \in 0..11
        BY <1>1 DEF Finds
      <4>2. ASSUME f = "mon" PROVE x.m \in 1..12
        <5>1. tm["mon"] = x.m - 1
          BY <1>4, <1>6, <4>2
        <5> QED
          BY <1>2, <4>1, <5>1
      <4> QED
        BY <3>1, <3>2, <4>2
    <3>8. ASSUME alone[t], NEW o \in Thread, mode'[o] = "write", NEW k \in Written(o)'
          PROVE  Day(o)'[k] = Fields(x)[k]
      <4>1. o # t
        BY <1>1, <3>1, <3>8
      <4>2. mode[o] = "write" /\ Day(o)' = Day(o) /\ Written(o)' = Written(o)
        BY <2>2, <3>8, <4>1, SameStays DEF Same
      <4> QED
        BY <1>1, <3>8, <4>2 DEF Finds
    <3>9. Finds(t)'
      BY <1>1, <2>4, <3>3, <3>6, <3>7, <3>8 DEF Finds
    <3> QED
      BY <2>3, <2>4, <3>4, <3>5, <3>9, QuietKeeps
  <2> QED
    BY <2>5, <2>6
<1> QED
  BY <1>5, <1>6 DEF Read

(* The verdict on a task both of whose dates have been checked.            *)
LEMMA RestKeeps ==
    ASSUME DatesInv, NEW t \in Thread, Rest(t)
    PROVE  DatesInv'
<1> DEFINE c == content[t]
           v == /\ Empty(c.start) <=> Empty(c.end)
                /\ ~Empty(c.start) => InOrder(c)
                /\ c.rest
<1>1. at[t] = "rest" /\ Return(t, v) /\ UNCHANGED <<tm, writer, content, alone>>
  BY DEF Rest
<1>2. c \in Contents
  BY <1>1 DEF DatesInv, Place
<1>3. ASSUME alone[t] PROVE v = Acceptable(c)
  <2>1. \A x \in {c.start, c.end} : Empty(x) \/ Good(x)
    BY <1>1, <1>3 DEF DatesInv, Knows
  <2> QED
    BY <1>2, <2>1, GoodDates
<1> HIDE DEF v
<1> QED
  BY <1>1, <1>2, <1>3, ReturnKeeps

(* What a step of localtime does to the threads.                           *)
LEMMA WriteStep ==
    ASSUME DatesInv, NEW t \in Thread, Write(t)
    PROVE  LET f == Head(fields[t])
               v == Day(t)[f] IN
           /\ mode[t] = "write" /\ at[t] \in {"start", "end", "log"} /\ Readable(Date(t))
           /\ Date(t) \in DateText \intersect Texts
           /\ fields[t] \in {WriteOrder, <<"mon", "mday">>, <<"mday">>}
           /\ tm' = [tm EXCEPT ![f] = v] /\ f \in {"mday", "mon", "year"}
           /\ \A g \in Written(t) : tm[g] = Day(t)[g]
           /\ content' = content
           /\ \A o \in Thread : alone'[o] =
                 (alone[o] /\ (mode[o] = "read" => v = Fields(Date(o))[f]))
           /\ \A o \in Thread \ {t} : Same(o) /\ mode[o] # "write"
<1>1. mode[t] = "write" /\ content' = content
  BY DEF Write
<1>2. /\ Place(t) /\ at[t] \in {"start", "end", "log"} /\ Readable(Date(t)) /\ writer = t
      /\ fields[t] \in {WriteOrder, <<"mon", "mday">>, <<"mday">>}
      /\ \A g \in Written(t) : tm[g] = Day(t)[g]
  BY <1>1 DEF DatesInv, Place, Puts
<1>3. tm' = [tm EXCEPT ![Head(fields[t])] = Day(t)[Head(fields[t])]]
  BY DEF Write, Day, Order
<1>4. \A o \in Thread : alone'[o] =
         (alone[o] /\ (mode[o] = "read" =>
                          Day(t)[Head(fields[t])] = Fields(Date(o))[Head(fields[t])]))
  BY DEF Write, Day, Order
<1>5. \A o \in Thread \ {t} : Same(o)
  BY DEF Write, Return, Same, DatesInv, DatesTypeOK
<1>6. \A o \in Thread \ {t} : mode[o] # "write"
  BY <1>2 DEF DatesInv, Place
<1>7. Date(t) \in DateText \intersect Texts
  BY <1>1, <1>2, Converts
<1>8. Head(fields[t]) \in {"mday", "mon", "year"}
  BY <1>2, Orders
<1> QED
  BY <1>1, <1>2, <1>3, <1>4, <1>5, <1>6, <1>7, <1>8

(* The three writes: the year, the month, the day.                         *)
LEMMA WriteSplits ==
    ASSUME DatesInv, NEW t \in Thread, Write(t)
    PROVE  \/ /\ \/ /\ fields[t] = WriteOrder /\ fields'[t] = <<"mon", "mday">>
                    /\ Head(fields[t]) = "year" /\ Written(t) = {} /\ Written(t)' = {"year"}
                 \/ /\ fields[t] = <<"mon", "mday">> /\ fields'[t] = <<"mday">>
                    /\ Head(fields[t]) = "mon" /\ Written(t) = {"year"}
                    /\ Written(t)' = {"year", "mon"}
              /\ mode' = mode /\ writer' = writer /\ at' = at /\ verdict' = verdict
           \/ /\ fields[t] = <<"mday">> /\ Head(fields[t]) = "mday"
              /\ Written(t) = {"year", "mon"} /\ writer' = None
              /\ \/ at[t] = "log" /\ Return(t, None)
                 \/ /\ at[t] # "log" /\ mode' = [mode EXCEPT ![t] = "read"]
                    /\ fields' = [fields EXCEPT ![t] = ReadOrder]
                    /\ UNCHANGED <<at, verdict>>
<1>1. /\ mode[t] = "write"
      /\ fields[t] \in {WriteOrder, <<"mon", "mday">>, <<"mday">>}
  BY WriteStep
<1>2. CASE fields[t] \in {WriteOrder, <<"mon", "mday">>}
  <2>1. Len(fields[t]) # 1
    <3>1. Len(WriteOrder) = 3 /\ Len(<<"mon", "mday">>) = 2
      BY Orders
    <3> QED
      BY <1>2, <3>1
  <2>2. /\ fields' = [fields EXCEPT ![t] = Tail(fields[t])] /\ mode' = [mode EXCEPT ![t] = mode[t]]
        /\ writer' = writer /\ at' = at /\ verdict' = verdict
    BY <2>1 DEF Write
  <2>3. mode' = mode /\ fields'[t] = Tail(fields[t])
    BY <2>2 DEF DatesInv, DatesTypeOK
  <2>4. CASE fields[t] = WriteOrder
    <3>1. fields'[t] = <<"mon", "mday">> /\ Head(fields[t]) = "year"
      BY <2>3, <2>4, Orders
    <3>2. Written(t) = {} /\ Written(t)' = {"year"}
      BY <2>4, <3>1, Orders DEF Written
    <3> QED
      BY <2>2, <2>3, <2>4, <3>1, <3>2
  <2>5. CASE fields[t] = <<"mon", "mday">>
    <3>1. fields'[t] = <<"mday">> /\ Head(fields[t]) = "mon"
      BY <2>3, <2>5, Orders
    <3>2. Written(t) = {"year"} /\ Written(t)' = {"year", "mon"}
      BY <2>5, <3>1, Orders DEF Written
    <3> QED
      BY <2>2, <2>3, <2>5, <3>1, <3>2
  <2> QED
    BY <1>2, <2>4, <2>5
<1>3. CASE fields[t] = <<"mday">>
  <2>1. Len(fields[t]) = 1 /\ Head(fields[t]) = "mday" /\ Written(t) = {"year", "mon"}
    BY <1>3, Orders DEF Written
  <2>2. writer' = None
    BY <2>1 DEF Write
  <2>3. CASE at[t] = "log"
    BY <1>3, <2>1, <2>2, <2>3 DEF Write
  <2>4. CASE at[t] # "log"
    BY <1>3, <2>1, <2>2, <2>4 DEF Write
  <2> QED
    BY <2>3, <2>4
<1> QED
  BY <1>1, <1>2, <1>3

(* A thread that reads, while another one writes a field: if that is the   *)
(* field that the reader's own conversion gave, the struct still tells the *)
(* reader what it has to know.                                             *)
LEMMA WriteFinds ==
    ASSUME DatesInv, NEW t \in Thread, Write(t),
           NEW s \in Thread, s # t, mode[s] = "read"
    PROVE  Finds(s)'
<1> DEFINE x == Date(s)
           f == Head(fields[t])
           v == Day(t)[f]
<1>1. /\ tm' = [tm EXCEPT ![f] = v] /\ f \in {"mday", "mon", "year"}
      /\ DOMAIN tm = {"mday", "mon", "year"}
      /\ alone'[s] => alone[s] /\ v = Fields(x)[f]
      /\ Date(s)' = x /\ fields'[s] = fields[s] /\ Finds(s)
      /\ x \in DateText
  <2>1. Finds(s) /\ Place(s) /\ DOMAIN tm = {"mday", "mon", "year"}
    BY DEF DatesInv, DatesTypeOK
  <2>2. Date(s)' = x /\ fields'[s] = fields[s]
    BY WriteStep, SameStays DEF Same
  <2>3. x \in DateText
    BY <2>1, Converts
  <2> QED
    BY <2>1, <2>2, <2>3, WriteStep
<1>2. Day(t).mon \in 0..11 /\ Day(t).mday \in 1..MonthLength(Day(t).year + 1900, Day(t).mon + 1)
  BY WriteStep, RoundTrip DEF Day
<1>3. /\ x.m \in Int /\ x.d \in Int /\ x.y \in Int
      /\ Fields(x)["mday"] = x.d /\ Fields(x)["mon"] = x.m - 1 /\ Fields(x)["year"] = x.y - 1900
  BY <1>1, Times DEF Fields
<1>4. \A g \in {"mday", "mon", "year"} : tm'[g] = IF g = f THEN v ELSE tm[g]
  BY <1>1
<1>5. tm'["mon"] \in 0..11
  BY <1>1, <1>2, <1>4 DEF Finds
<1>6. ASSUME alone'[s] PROVE v = Fields(x)[f] /\ alone[s]
  BY <1>1, <1>6
<1>7. ASSUME alone'[s], x.m \in 1..12, ~IsCalendarDate(x)
      PROVE  tm'["mday"] # x.d /\ fields'[s] = ReadOrder
  <2>1. tm["mday"] # x.d /\ fields[s] = ReadOrder
    BY <1>1, <1>6, <1>7 DEF Finds
  <2>2. CASE f = "mday"
    <3>1. Written(t) = {"year", "mon"} /\ mode[t] = "write"
      BY <2>2, WriteStep, WriteSplits
    <3>2. Day(t)["year"] = Fields(x)["year"] /\ Day(t)["mon"] = Fields(x)["mon"]
      BY <1>1, <1>6, <1>7, <3>1 DEF Finds
    <3>3. Day(t).year + 1900 = x.y /\ Day(t).mon + 1 = x.m
      BY <1>3, <3>2
    <3>4. Day(t).mday # x.d
      BY <1>2, <1>7, <3>3 DEF IsCalendarDate
    <3> QED
      BY <1>1, <1>4, <2>1, <2>2, <3>4
  <2>3. CASE f # "mday"
    BY <1>1, <1>4, <2>1, <2>3
  <2> QED
    BY <2>2, <2>3
<1>8. ASSUME alone'[s], NEW o \in Thread, mode'[o] = "write", NEW g \in Written(o)'
      PROVE  Day(o)'[g] = Fields(x)[g]
  <2>1. o = t
    BY <1>8, WriteStep DEF Same
  <2>2. g \in Written(t) \/ g = f
    <3>1. mode'[t] # "write" \/ (mode' = mode /\ at' = at)
      BY WriteSplits DEF Return, DatesInv, DatesTypeOK
    <3>2. Written(t)' \subseteq Written(t) \union {f}
      BY <1>8, <2>1, WriteSplits DEF Return, DatesInv, DatesTypeOK
    <3> QED
      BY <1>8, <2>1, <3>2
  <2>3. Day(t)' = Day(t)
    <3>1. at'[t] = at[t] /\ content' = content
      BY <1>8, <2>1, WriteStep, WriteSplits DEF Return, DatesInv, DatesTypeOK
    <3> QED
      BY <3>1 DEF Day, Date
  <2>4. g \in Written(t) => Day(t)[g] = Fields(x)[g]
    BY <1>1, <1>6, <1>8, WriteStep DEF Finds
  <2> QED
    BY <1>6, <1>8, <2>1, <2>2, <2>3, <2>4
<1>9. ASSUME alone'[s], IsCalendarDate(x), NEW g \in {"mday", "mon", "year"}
      PROVE  tm'[g] = Fields(x)[g]
  BY <1>1, <1>4, <1>6, <1>9 DEF Finds
<1>10. ASSUME alone'[s], x.m \notin 1..12 PROVE fields'[s] # <<"year">>
  BY <1>1, <1>6, <1>10 DEF Finds
<1> QED
  BY <1>1, <1>5, <1>7, <1>8, <1>9, <1>10 DEF Finds

(* localtime puts a field into the struct.                                 *)
LEMMA WriteKeeps ==
    ASSUME DatesInv, NEW t \in Thread, Write(t)
    PROVE  DatesInv'
<1> DEFINE f == Head(fields[t])
           v == Day(t)[f]
           x == Date(t)
<1>1. /\ tm' = [tm EXCEPT ![f] = v] /\ f \in {"mday", "mon", "year"}
      /\ DOMAIN tm = {"mday", "mon", "year"} /\ content' = content
      /\ \A g \in Written(t) : tm[g] = Day(t)[g]
      /\ at[t] \in {"start", "end", "log"} /\ mode[t] = "write"
      /\ \A o \in Thread \ {t} : Same(o) /\ mode[o] # "write"
  BY WriteStep DEF DatesInv, DatesTypeOK
<1>2. /\ Day(t).mon \in 0..11 /\ Day(t).year \in Int
      /\ Day(t).mday \in 1..MonthLength(Day(t).year + 1900, Day(t).mon + 1)
      /\ IsCalendarDate(x) => Day(t) = Fields(x)
      /\ x.m \in 1..12 /\ ~IsCalendarDate(x) => Day(t).mday # x.d
      /\ x \in DateText
  BY WriteStep, RoundTrip DEF Day
<1>3. \A g \in {"mday", "mon", "year"} : tm'[g] = IF g = f THEN v ELSE tm[g]
  BY <1>1
<1>4. DatesTypeOK'
  <2>1. v \in Int
    <3>1. MonthLength(Day(t).year + 1900, Day(t).mon + 1) \in 28..31
      BY Numbers
    <3>2. Day(t).mday \in Int /\ Day(t).mon \in Int /\ Day(t).year \in Int
      BY <1>2, <3>1
    <3> QED
      BY <1>1, <3>2
  <2>2. tm' \in [{"mday", "mon", "year"} -> Int]
    BY <1>1, <2>1 DEF DatesInv, DatesTypeOK
  <2>3. alone' \in [Thread -> BOOLEAN]
    BY DEF Write, DatesInv, DatesTypeOK
  <2>4. /\ at' \in [Thread -> {"idle", "start", "end", "rest", "log"}]
        /\ mode' \in [Thread -> {"convert", "write", "read"}]
        /\ DOMAIN fields' = Thread /\ DOMAIN verdict' = Thread
    BY DEF Write, Return, DatesInv, DatesTypeOK
  <2> QED
    BY <1>1, <2>2, <2>3, <2>4 DEF DatesInv, DatesTypeOK
<1>5. \A o \in Thread : alone'[o] => alone[o]
  BY WriteStep
<1>6. ASSUME NEW s \in Thread \ {t}
      PROVE  Place(s)' /\ Puts(s)' /\ (mode'[s] = "read" => Finds(s)') /\ (alone'[s] => Knows(s)')
  <2>1. mode'[s] # "write" /\ Same(s) /\ mode[s] # "write"
    BY <1>1, <1>6 DEF Same
  <2>2. Place(s)' /\ (alone'[s] => Knows(s)')
    BY <1>5, <1>6, <2>1, SameStays DEF DatesInv
  <2>3. mode'[s] = "read" => Finds(s)'
    BY <1>6, <2>1, WriteFinds DEF Same
  <2> QED
    BY <2>1, <2>2, <2>3 DEF Puts
<1>7. CASE fields[t] # <<"mday">>
  <2>1. /\ mode' = mode /\ writer' = writer /\ at' = at /\ verdict' = verdict
        /\ fields'[t] \in {<<"mon", "mday">>, <<"mday">>}
        /\ Written(t)' = Written(t) \union {f}
    BY <1>7, WriteSplits
  <2>2. Date(t)' = Date(t) /\ Day(t)' = Day(t)
    BY <1>1, <2>1 DEF Date, Day
  <2>3. Place(t)'
    BY <1>1, <2>1, <2>2 DEF DatesInv, Place
  <2>4. Puts(t)'
    <3>1. Written(t) \subseteq {"mday", "mon", "year"}
      BY DEF Written
    <3> QED
      BY <1>1, <1>3, <2>1, <2>2, <3>1 DEF Puts
  <2>5. alone'[t] => Knows(t)'
    BY <1>1, <1>5, <2>1 DEF DatesInv, Knows
  <2> QED
    BY <1>1, <1>4, <1>6, <2>1, <2>3, <2>4, <2>5 DEF DatesInv
<1>8. CASE fields[t] = <<"mday">>
  <2>1. /\ f = "mday" /\ Written(t) = {"year", "mon"} /\ writer' = None
        /\ \/ at[t] = "log" /\ Return(t, None)
           \/ /\ at[t] # "log" /\ mode' = [mode EXCEPT ![t] = "read"]
              /\ fields' = [fields EXCEPT ![t] = ReadOrder]
              /\ UNCHANGED <<at, verdict>>
    BY <1>8, Orders, WriteSplits
  <2>2. \A g \in {"mday", "mon", "year"} : tm'[g] = Day(t)[g]
    BY <1>1, <1>3, <2>1
  <2>3. CASE at[t] = "log" /\ Return(t, None)
    <3>1. at'[t] = "idle" /\ mode'[t] = "convert" /\ verdict'[t] = None
      BY <2>3 DEF Return, DatesInv, DatesTypeOK
    <3>2. Place(t)' /\ Puts(t)' /\ Knows(t)'
      BY <3>1 DEF Place, Puts, Knows
    <3> QED
      BY <1>4, <1>6, <3>1, <3>2 DEF DatesInv
  <2>4. CASE /\ at[t] # "log" /\ mode' = [mode EXCEPT ![t] = "read"]
             /\ fields' = [fields EXCEPT ![t] = ReadOrder]
             /\ UNCHANGED <<at, verdict>>
    <3>1. mode'[t] = "read" /\ fields'[t] = ReadOrder /\ Date(t)' = x /\ at'[t] = at[t]
          /\ verdict'[t] = verdict[t] /\ content'[t] = content[t]
      BY <1>1, <2>4 DEF DatesInv, DatesTypeOK, Date
    <3>2. Place(t)'
      BY <1>1, <2>4, <3>1 DEF DatesInv, Place
    <3>3. alone'[t] => Knows(t)'
      BY <1>5, <3>1 DEF DatesInv, Knows
    <3>4. Finds(t)'
      <4>1. \A o \in Thread : mode'[o] # "write"
        BY <1>1, <3>1 DEF Same
      <4>2. tm'["mon"] \in 0..11
        BY <1>2, <2>2
      <4>3. IsCalendarDate(x) => \A g \in {"mday", "mon", "year"} : tm'[g] = Fields(x)[g]
        BY <1>2, <2>2
      <4>4. x.m \in 1..12 /\ ~IsCalendarDate(x) => tm'["mday"] # x.d
        BY <1>2, <2>2
      <4> QED
        BY <3>1, <4>1, <4>2, <4>3, <4>4, Orders DEF Finds
    <3> QED
      BY <1>4, <1>6, <3>1, <3>2, <3>3, <3>4 DEF DatesInv, Puts
  <2> QED
    BY <2>1, <2>3, <2>4
<1> QED
  BY <1>7, <1>8

(* Every step keeps the invariant.                                         *)
LEMMA NextKeeps ==
    ASSUME DatesInv, [DatesNext]_dateVars
    PROVE  DatesInv'
<1>1. CASE DatesNext
  <2>1. PICK t \in Thread : \/ Validate(t) \/ Log(t)
                            \/ Convert(t) \/ Write(t) \/ Read(t) \/ Rest(t)
    BY <1>1 DEF DatesNext
  <2>2. CASE Validate(t) \/ Log(t)
    BY <2>2, TakesUp
  <2>3. CASE Convert(t)
    BY <2>3, ConvertKeeps
  <2>4. CASE Write(t)
    BY <2>4, WriteKeeps
  <2>5. CASE Read(t)
    BY <2>5, ReadKeeps
  <2>6. CASE Rest(t)
    BY <2>6, RestKeeps
  <2> QED
    BY <2>1, <2>2, <2>3, <2>4, <2>5, <2>6
<1>2. CASE UNCHANGED dateVars
  <2>1. DatesTypeOK'
    BY <1>2 DEF DatesInv, DatesTypeOK, dateVars
  <2>2. ASSUME NEW s \in Thread
        PROVE  Same(s) /\ Date(s)' = Date(s) /\ Day(s)' = Day(s) /\ Written(s)' = Written(s)
    BY <1>2, SameStays DEF Same, dateVars
  <2>3. ASSUME NEW s \in Thread
        PROVE  Place(s)' /\ Puts(s)' /\ (mode'[s] = "read" => Finds(s)') /\ (alone'[s] => Knows(s)')
    <3>1. Place(s)' /\ (alone'[s] => Knows(s)')
      BY <1>2, <2>2, SameStays DEF DatesInv, dateVars
    <3>2. Puts(s)'
      BY <1>2, <2>2 DEF DatesInv, Puts, dateVars
    <3>3. mode'[s] = "read" => Finds(s)'
      BY <1>2, <2>2 DEF DatesInv, Finds, dateVars
    <3> QED
      BY <3>1, <3>2, <3>3
  <2> QED
    BY <2>1, <2>3 DEF DatesInv
<1> QED
  BY <1>1, <1>2
-----------------------------------------------------------------------------
(* As long as no other thread writes another date between the localtime of *)
(* a validation and the comparisons after it, TaskContent::IsValid is      *)
(* right: it accepts exactly the tasks whose dates are both missing or     *)
(* both days of the calendar in order, and whose other fields are known,   *)
(* for every content and any number of threads.                            *)
THEOREM AloneIsRight == Spec => []RightIfAlone
<1>1. Init => DatesInv
  <2>1. SUFFICES ASSUME Init PROVE DatesInv
    OBVIOUS
  <2>2. tm \in [{"mday", "mon", "year"} -> Int]
    BY <2>1, TodayAssumption DEF Init, Fields, Text
  <2>3. DatesTypeOK
    BY <2>1, <2>2 DEF Init, DatesTypeOK
  <2>4. ASSUME NEW t \in Thread PROVE Place(t) /\ Puts(t) /\ Knows(t) /\ mode[t] = "convert"
    BY <2>1 DEF Init, Place, Puts, Knows
  <2> QED
    BY <2>3, <2>4 DEF DatesInv
<1>2. DatesInv /\ [DatesNext]_dateVars => DatesInv'
  BY NextKeeps
<1>3. DatesInv => RightIfAlone
  BY DEF DatesInv, Knows, RightIfAlone
<1> QED
  BY <1>1, <1>2, <1>3, PTL DEF Spec
=============================================================================
