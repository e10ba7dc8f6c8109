----------------------- MODULE FilenamePatternsProofs -----------------------
(***************************************************************************)
(* For every date of the Gregorian calendar: the patterns match the names of *)
(* the week and none of the weeks around it, and the SAS names they miss are *)
(* some of the week's two ends, and just those.                              *)
(*                                                                         *)
(* A week reaches over the end of one month at most, and a month has 28 days *)
(* or more.  A cross product of the week's years, months and days then has   *)
(* nothing within a month of the week but the week itself.                   *)
(***************************************************************************)
EXTENDS FilenamePatterns, TLAPS

(* The dates, of whatever years. *)
Days ==
  {dt \in [year : Int, month : 1..12, day : 1..31, dow : 0..6] :
     dt.day <= DaysIn(dt.year, dt.month)}

(* A month has 28 to 31 days. *)
LEMMA MonthLengths ==
  ASSUME NEW year \in Int, NEW month \in 1..12
  PROVE  DaysIn(year, month) \in 28..31
BY DEF DaysIn

(* to is k days after dt, in the same month or in one beside it. *)
Shifted(dt, k, to) ==
  \/ /\ dt.day + k \in 1..DaysIn(dt.year, dt.month)
     /\ to.year = dt.year
     /\ to.month = dt.month
     /\ to.day = dt.day + k
  \/ /\ dt.day + k < 1
     /\ to.year = IF dt.month = 1 THEN dt.year - 1 ELSE dt.year
     /\ to.month = IF dt.month = 1 THEN 12 ELSE dt.month - 1
     /\ to.day = dt.day + k + DaysIn(to.year, to.month)
  \/ /\ dt.day + k > DaysIn(dt.year, dt.month)
     /\ to.year = IF dt.month = 12 THEN dt.year + 1 ELSE dt.year
     /\ to.month = IF dt.month = 12 THEN 1 ELSE dt.month + 1
     /\ to.day = dt.day + k - DaysIn(dt.year, dt.month)

(* A shift by less than a month is by one month at most. *)
LEMMA PlusIs ==
  ASSUME NEW dt \in Days, NEW k \in -27..27
  PROVE  /\ Plus(dt, k) \in Days
         /\ Plus(dt, k).dow = (dt.dow + k) % 7
         /\ Shifted(dt, k, Plus(dt, k))
<1> DEFINE day == dt.day + k
           last == IF dt.month = 1 THEN [year |-> dt.year - 1, month |-> 12]
                                   ELSE [year |-> dt.year, month |-> dt.month - 1]
           following == IF dt.month = 12 THEN [year |-> dt.year + 1, month |-> 1]
                                         ELSE [year |-> dt.year, month |-> dt.month + 1]
           On(m, d) == [year |-> m.year, month |-> m.month, day |-> d,
                        dow |-> (dt.dow + k) % 7]
<1>1. /\ dt.year \in Int /\ dt.month \in 1..12 /\ dt.day \in 1..31 /\ dt.dow \in 0..6
      /\ dt.day <= DaysIn(dt.year, dt.month) /\ DaysIn(dt.year, dt.month) \in 28..31
  BY MonthLengths DEF Days
<1>2. /\ last.year \in Int /\ last.month \in 1..12
      /\ DaysIn(last.year, last.month) \in 28..31
  BY <1>1, MonthLengths
<1>3. /\ following.year \in Int /\ following.month \in 1..12
      /\ DaysIn(following.year, following.month) \in 28..31
  BY <1>1, MonthLengths
<1>4. (dt.dow + k) % 7 \in 0..6
  BY <1>1
<1>5. CASE day < 1
  <2>1. Plus(dt, k) = On(last, day + DaysIn(last.year, last.month))
    BY <1>1, <1>5 DEF Plus
  <2>2. day + DaysIn(last.year, last.month) \in 1..DaysIn(last.year, last.month)
    BY <1>1, <1>2, <1>5
  <2> HIDE DEF last
  <2>3. Plus(dt, k) \in Days
    BY <1>2, <1>4, <2>1, <2>2 DEF Days
  <2> QED
    BY <1>1, <1>5, <2>1, <2>3 DEF last, Shifted
<1>6. CASE day > DaysIn(dt.year, dt.month)
  <2>1. Plus(dt, k) = On(following, day - DaysIn(dt.year, dt.month))
    BY <1>1, <1>6 DEF Plus
  <2>2. day - DaysIn(dt.year, dt.month) \in 1..DaysIn(following.year, following.month)
    BY <1>1, <1>3, <1>6
  <2> HIDE DEF following
  <2>3. Plus(dt, k) \in Days
    BY <1>3, <1>4, <2>1, <2>2 DEF Days
  <2> QED
    BY <1>1, <1>6, <2>1, <2>3 DEF following, Shifted
<1>7. CASE day \in 1..DaysIn(dt.year, dt.month)
  <2>1. Plus(dt, k) = On(dt, day)
    BY <1>1, <1>7 DEF Plus
  <2>2. Plus(dt, k) \in Days
    BY <1>1, <1>4, <1>7, <2>1 DEF Days
  <2> QED
    BY <1>1, <1>7, <2>1, <2>2 DEF Shifted
<1> QED
  BY <1>1, <1>5, <1>6, <1>7

(* Two dates are the same when their fields are. *)
LEMMA SameDay ==
  ASSUME NEW a \in Days, NEW b \in Days,
         a.year = b.year, a.month = b.month, a.day = b.day, a.dow = b.dow
  PROVE  a = b
BY DEF Days

(* Shifts add up. *)
LEMMA PlusPlus ==
  ASSUME NEW dt \in Days, NEW a \in -7..7, NEW b \in -20..20
  PROVE  Plus(Plus(dt, a), b) = Plus(dt, a + b)
<1> DEFINE m == Plus(dt, a)
           l == Plus(m, b)
           r == Plus(dt, a + b)
<1>0. a \in -27..27 /\ b \in -27..27 /\ a + b \in -27..27
  OBVIOUS
<1>1. m \in Days
  BY <1>0, PlusIs
<1>2. l \in Days /\ r \in Days
  BY <1>0, <1>1, PlusIs
<1>3. \A d \in Days : /\ d.year \in Int /\ d.month \in 1..12 /\ d.day \in 1..31 /\ d.dow \in 0..6
                      /\ d.day <= DaysIn(d.year, d.month) /\ DaysIn(d.year, d.month) \in 28..31
  BY MonthLengths DEF Days
<1>4. l.dow = r.dow
  <2>1. m.dow = (dt.dow + a) % 7 /\ l.dow = (m.dow + b) % 7 /\ r.dow = (dt.dow + (a + b)) % 7
    BY <1>0, <1>1, PlusIs
  <2>2. dt.dow \in Int
    BY <1>3
  <2> HIDE DEF m, l, r
  <2>3. \A x, y \in Int : ((x % 7) + y) % 7 = (x + y) % 7
    OBVIOUS
  <2>4. (((dt.dow + a) % 7) + b) % 7 = (dt.dow + a + b) % 7
    BY <2>2, <2>3
  <2> QED
    BY <2>1, <2>2, <2>4
<1>5. l.year = r.year /\ l.month = r.month /\ l.day = r.day
  <2>1. Shifted(dt, a, m) /\ Shifted(m, b, l) /\ Shifted(dt, a + b, r)
    BY <1>0, <1>1, PlusIs DEF Shifted
  <2> HIDE DEF m, l, r
  <2>2. /\ dt.year \in Int /\ dt.month \in 1..12 /\ dt.day \in 1..DaysIn(dt.year, dt.month)
        /\ m.year \in Int /\ m.month \in 1..12 /\ m.day \in 1..DaysIn(m.year, m.month)
        /\ l.year \in Int /\ l.month \in 1..12 /\ l.day \in 1..DaysIn(l.year, l.month)
        /\ r.year \in Int /\ r.month \in 1..12 /\ r.day \in 1..DaysIn(r.year, r.month)
        /\ DaysIn(dt.year, dt.month) \in 28..31 /\ DaysIn(m.year, m.month) \in 28..31
        /\ DaysIn(l.year, l.month) \in 28..31 /\ DaysIn(r.year, r.month) \in 28..31
    BY <1>1, <1>2, <1>3
  <2>3. CASE m.month = dt.month /\ m.year = dt.year /\ m.day = dt.day + a
    BY <2>1, <2>2, <2>3 DEF Shifted
  <2>4. CASE dt.day + a < 1
    <3>1. DaysIn(m.year, m.month) = m.day - (dt.day + a)
      BY <2>1, <2>2, <2>4 DEF Shifted
    <3>2. CASE m.day + b > DaysIn(m.year, m.month)
      <4>1. l.year = dt.year /\ l.month = dt.month
        BY <2>1, <2>2, <2>4, <3>2 DEF Shifted
      <4>2. l.day = dt.day + (a + b)
        BY <2>1, <2>2, <3>1, <3>2 DEF Shifted
      <4> QED
        BY <2>1, <2>2, <4>1, <4>2 DEF Shifted
    <3>3. CASE m.day + b \in 1..DaysIn(m.year, m.month)
      <4>1. dt.day + (a + b) < 1
        BY <2>2, <3>1, <3>3
      <4> QED
        BY <2>1, <2>2, <2>4, <3>1, <3>3, <4>1 DEF Shifted
    <3>4. m.day + b > 0
      BY <2>2, <2>4, <3>1
    <3> QED
      BY <2>2, <3>2, <3>3, <3>4
  <2>5. CASE dt.day + a > DaysIn(dt.year, dt.month)
    <3>1. m.day = dt.day + a - DaysIn(dt.year, dt.month)
      BY <2>1, <2>2, <2>5 DEF Shifted
    <3>2. CASE m.day + b < 1
      <4>1. l.year = dt.year /\ l.month = dt.month
        BY <2>1, <2>2, <2>5, <3>2 DEF Shifted
      <4>2. l.day = dt.day + (a + b)
        BY <2>1, <2>2, <3>1, <3>2, <4>1 DEF Shifted
      <4> QED
        BY <2>1, <2>2, <4>1, <4>2 DEF Shifted
    <3>3. CASE m.day + b \in 1..DaysIn(m.year, m.month)
      <4>1. dt.day + (a + b) > DaysIn(dt.year, dt.month)
        BY <2>2, <3>1, <3>3
      <4> QED
        BY <2>1, <2>2, <2>5, <3>1, <3>3, <4>1 DEF Shifted
    <3>4. m.day + b <= DaysIn(m.year, m.month)
      BY <2>2, <2>5, <3>1
    <3> QED
      BY <2>2, <3>2, <3>3, <3>4
  <2> QED
    BY <2>1, <2>2, <2>3, <2>4, <2>5 DEF Shifted
<1> QED
  BY <1>2, <1>4, <1>5, SameDay

-----------------------------------------------------------------------------
(* The Sunday of a day's week. *)
LEMMA Sundays ==
  ASSUME NEW now \in Days
  PROVE  /\ WeekStart(now) \in Days /\ WeekStart(now).dow = 0
         /\ Plus(WeekStart(now), 0) = WeekStart(now)
         /\ \A k \in -now.dow..(6 - now.dow) :
              Plus(now, k) = Plus(WeekStart(now), now.dow + k)
<1>1. now.dow \in 0..6 /\ -now.dow \in -7..7 /\ -now.dow \in -27..27
  <2>1. now.dow \in 0..6
    BY DEF Days
  <2> QED
    BY <2>1
<1>2. WeekStart(now) \in Days /\ WeekStart(now).dow = (now.dow + (-now.dow)) % 7
  BY <1>1, PlusIs DEF WeekStart
<1>3. WeekStart(now).dow = 0
  BY <1>1, <1>2
<1>4. ASSUME NEW i \in -20..20, -now.dow + i \in -27..27
      PROVE  Plus(WeekStart(now), i) = Plus(now, -now.dow + i)
  BY <1>1, PlusPlus DEF WeekStart
<1>5. Plus(WeekStart(now), 0) = WeekStart(now)
  <2>1. Plus(WeekStart(now), 0) = Plus(now, -now.dow + 0)
    <3>1. 0 \in -20..20 /\ -now.dow + 0 \in -27..27
      BY <1>1
    <3> QED
      BY <3>1, <1>4
  <2> QED
    BY <1>1, <2>1 DEF WeekStart
<1>6. ASSUME NEW k \in -now.dow..(6 - now.dow)
      PROVE  Plus(now, k) = Plus(WeekStart(now), now.dow + k)
  <2>1. now.dow + k \in -20..20 /\ -now.dow + (now.dow + k) = k /\ k \in -27..27
    BY <1>1
  <2> QED
    BY <1>4, <2>1
<1> QED
  BY <1>2, <1>3, <1>5, <1>6

(* A day near a week, but not of its n + 1 days, differs from all of them in its
   month or its number: also from any mixture of them.                          *)
LEMMA Apart ==
  ASSUME NEW sunday \in Days, NEW n \in 6..7,
         NEW k \in -20..27, k < 0 \/ k > n,
         NEW m \in 0..n, NEW d \in 0..n,
         Plus(sunday, k).month = Plus(sunday, m).month
  PROVE  Plus(sunday, k).day # Plus(sunday, d).day
<1> DEFINE P(i) == Plus(sunday, i)
<1>1. \A i \in -20..27 : Shifted(sunday, i, P(i)) /\ P(i) \in Days
  BY PlusIs
<1>2. /\ sunday.month \in 1..12
      /\ sunday.day \in 1..DaysIn(sunday.year, sunday.month)
      /\ DaysIn(sunday.year, sunday.month) \in 28..31
  BY MonthLengths DEF Days
<1>3. k \in -20..27 /\ m \in 0..7 /\ d \in 0..7 /\ (k < 0 \/ (k > m /\ k > d))
  OBVIOUS
<1>4. Shifted(sunday, k, P(k)) /\ Shifted(sunday, m, P(m)) /\ Shifted(sunday, d, P(d))
  BY <1>1, <1>3
<1>5. P(k).month = P(m).month
  OBVIOUS
<1> HIDE DEF P
<1>6. sunday.day + k >= 1
  BY <1>2, <1>3, <1>4, <1>5 DEF Shifted
<1>7. CASE sunday.day + k > DaysIn(sunday.year, sunday.month)
  <2>1. P(k).day = sunday.day + k - DaysIn(sunday.year, sunday.month)
    BY <1>2, <1>3, <1>4, <1>7 DEF Shifted
  <2>2. P(d).day \in {sunday.day + d, sunday.day + d - DaysIn(sunday.year, sunday.month)}
    BY <1>2, <1>3, <1>4 DEF Shifted
  <2>3. k > 0
    BY <1>2, <1>3, <1>7
  <2> QED
    BY <1>2, <1>3, <2>1, <2>2, <2>3 DEF P
<1>8. CASE sunday.day + k \in 1..DaysIn(sunday.year, sunday.month)
  <2>1. P(k).day = sunday.day + k
    BY <1>2, <1>3, <1>4, <1>8 DEF Shifted
  <2>2. P(d).day \in {sunday.day + d, sunday.day + d - DaysIn(sunday.year, sunday.month)}
    BY <1>2, <1>3, <1>4 DEF Shifted
  <2> QED
    BY <1>2, <1>3, <2>1, <2>2 DEF P
<1> QED
  BY <1>2, <1>3, <1>6, <1>7, <1>8

(* The days of a week, and the next Sunday, are in the month of one of the two. *)
LEMMA WithinTwoMonths ==
  ASSUME NEW sunday \in Days, NEW k \in 0..7
  PROVE  /\ Plus(sunday, k).year \in {sunday.year, Plus(sunday, 7).year}
         /\ Plus(sunday, k).month \in {sunday.month, Plus(sunday, 7).month}
<1>1. Shifted(sunday, k, Plus(sunday, k)) /\ Shifted(sunday, 7, Plus(sunday, 7))
  BY PlusIs
<1>2. /\ sunday.year \in Int /\ sunday.month \in 1..12
      /\ sunday.day \in 1..DaysIn(sunday.year, sunday.month)
      /\ DaysIn(sunday.year, sunday.month) \in 28..31
  BY MonthLengths DEF Days
<1> QED
  BY <1>1, <1>2 DEF Shifted

-----------------------------------------------------------------------------
(* Going on day by day, the model meets only dates of the calendar. *)
THEOREM TypeCorrect == Spec => []TypeOK
<1>1. Init => TypeOK
  BY FilenamePatternsAssumption DEF Init, TypeOK
<1>2. TypeOK /\ [NextDay]_today => TypeOK'
  <2> SUFFICES ASSUME TypeOK, NextDay PROVE TypeOK'
    BY DEF TypeOK
  <2>1. today \in Days /\ today.year \in Nat
    BY DEF TypeOK, Dates, Days
  <2>2. Plus(today, 1) \in Days /\ Shifted(today, 1, Plus(today, 1))
    BY <2>1, PlusIs
  <2>3. Plus(today, 1).year \in Nat
    BY <2>1, <2>2 DEF Shifted, Days
  <2> QED
    BY <2>2, <2>3 DEF NextDay, TypeOK, Dates, Days
<1> QED
  BY <1>1, <1>2, PTL DEF Spec

(* Whatever the date, over the ends of months and years: every name of the week is
   matched by the RYO pattern and by the schedule report's.                        *)
THEOREM NamesOfTheWeekMatch == Spec => []WeekNamesMatch
<1>1. TypeOK => WeekNamesMatch
  <2> SUFFICES ASSUME TypeOK, NEW k \in -today.dow..(6 - today.dow)
               PROVE  RyoMatches(today, Plus(today, k)) /\ ReportMatches(today, Plus(today, k))
    BY DEF WeekNamesMatch
  <2>1. today \in Days /\ today.dow \in 0..6
    BY DEF TypeOK, Dates, Days
  <2>2. Plus(today, k) = Plus(WeekStart(today), today.dow + k) /\ today.dow + k \in 0..6
    BY <2>1, Sundays
  <2>3. Plus(today, k) \in WeekDates(today)
    BY <2>2 DEF WeekDates
  <2> QED
    BY <2>3 DEF RyoMatches, ReportMatches
<1> QED
  BY <1>1, TypeCorrect, PTL

(* Whatever the date: no name of the twenty days before the week nor of the three
   weeks after it is matched, though the RYO and SAS patterns are cross products.  *)
THEOREM NeighboursNeverMatch == Spec => []LookalikesAreFarOff
<1>1. TypeOK => LookalikesAreFarOff
  <2> SUFFICES ASSUME TypeOK, NEW k \in (-20..-1) \cup (7..27)
               PROVE  LET date == Plus(Plus(today, -today.dow), k) IN
                        /\ ~RyoMatches(today, date)
                        /\ ~ReportMatches(today, date)
                        /\ \A hour \in 0..23 : k # 7 => ~SasMatches(today, date, hour)
    BY DEF LookalikesAreFarOff
  <2> DEFINE sunday == WeekStart(today)
  <2>1. today \in Days
    BY DEF TypeOK, Dates, Days
  <2>2. sunday \in Days /\ Plus(sunday, 0) = sunday /\ Plus(today, -today.dow) = sunday
    BY <2>1, Sundays DEF WeekStart
  <2>3. k \in -20..27 /\ (k < 0 \/ k > 6) /\ (k # 7 => k < 0 \/ k > 7)
    OBVIOUS
  <2>k. k \in -20..27 /\ (k < 0 \/ k > 6)
    BY <2>3
  <2>s. sunday \in Days
    BY <2>2
  <2>4. ~RyoMatches(today, Plus(sunday, k))
    <3> SUFFICES ASSUME RyoMatches(today, Plus(sunday, k)) PROVE FALSE
      OBVIOUS
    <3>1. PICK m \in 0..6 : Plus(sunday, k).month = Plus(sunday, m).month
      BY DEF RyoMatches, WeekDates
    <3>2. PICK d \in 0..6 : Plus(sunday, k).day = Plus(sunday, d).day
      BY DEF RyoMatches, WeekDates
    <3>3. 6 \in 6..7
      OBVIOUS
    <3> HIDE DEF sunday
    <3> QED
      BY <2>s, <2>k, <3>1, <3>2, <3>3, Apart
  <2>5. ~ReportMatches(today, Plus(sunday, k))
    <3> SUFFICES ASSUME NEW d \in 0..6, Plus(sunday, k) = Plus(sunday, d) PROVE FALSE
      BY DEF ReportMatches, WeekDates
    <3>1. Plus(sunday, k).month = Plus(sunday, d).month /\ Plus(sunday, k).day = Plus(sunday, d).day
      OBVIOUS
    <3>2. 6 \in 6..7
      OBVIOUS
    <3> HIDE DEF sunday
    <3> QED
      BY <2>s, <2>k, <3>1, <3>2, Apart
  <2>6. ASSUME NEW hour \in 0..23, k # 7, SasMatches(today, Plus(sunday, k), hour)
        PROVE  FALSE
    <3>1. PICK m \in 0..7 : Plus(sunday, k).month = Plus(sunday, m).month
      BY <2>2, <2>6 DEF SasMatches, EndUtc
    <3>2. PICK d \in 0..7 : Plus(sunday, k).day = Plus(sunday, d).day
      <4>1. \/ Plus(sunday, k).day = Plus(sunday, 0).day
            \/ Plus(sunday, k).day \in MidDays(today)
            \/ Plus(sunday, k).day = Plus(sunday, 7).day
        BY <2>2, <2>6 DEF SasMatches, EndUtc, Bare
      <4>2. MidDays(today) \subseteq {Plus(sunday, i).day : i \in 1..6}
        BY DEF MidDays
      <4> QED
        BY <4>1, <4>2
    <3>3. k < 0 \/ k > 7
      BY <2>3, <2>6
    <3>4. 7 \in 6..7 /\ k \in -20..27 /\ sunday \in Days
      BY <2>2
    <3> HIDE DEF sunday
    <3> QED
      BY <3>1, <3>2, <3>3, <3>4, Apart
  <2> QED
    BY <2>2, <2>4, <2>5, <2>6
<1> QED
  BY <1>1, TypeCorrect, PTL

(* Eight days on end have eight numbers. *)
LEMMA DaysDiffer ==
  ASSUME NEW sunday \in Days, NEW i \in 0..7, NEW k \in 0..7, i # k
  PROVE  Plus(sunday, i).day # Plus(sunday, k).day
<1>1. Shifted(sunday, i, Plus(sunday, i)) /\ Shifted(sunday, k, Plus(sunday, k))
  BY PlusIs
<1>2. /\ sunday.day \in 1..DaysIn(sunday.year, sunday.month)
      /\ DaysIn(sunday.year, sunday.month) \in 28..31
  BY MonthLengths DEF Days
<1> QED
  BY <1>1, <1>2 DEF Shifted

(* The days between a week's ends that the SAS pattern has: the last is left out when
   the offset shrinks.                                                               *)
LEMMA MidDaysAre ==
  ASSUME NEW now \in Days, NEW k \in 0..7
  PROVE  Plus(WeekStart(now), k).day \in MidDays(now)
         <=> k \in 1..6 /\ ~(k = 6 /\ EndOffset(now) < StartOffset(now))
<1>1. WeekStart(now) \in Days
  BY Sundays
<1>2. \A i \in 1..6 : Plus(WeekStart(now), i).day = Plus(WeekStart(now), k).day => i = k
  BY <1>1, DaysDiffer
<1>3. CASE EndOffset(now) < StartOffset(now)
  <2>1. MidDays(now) = {Plus(WeekStart(now), i).day : i \in 1..5}
    BY <1>3 DEF MidDays
  <2> QED
    BY <1>2, <1>3, <2>1
<1>4. CASE ~(EndOffset(now) < StartOffset(now))
  <2>1. MidDays(now) = {Plus(WeekStart(now), i).day : i \in 1..6}
    BY <1>4 DEF MidDays
  <2> QED
    BY <1>2, <1>4, <2>1
<1> QED
  BY <1>3, <1>4

(* Whatever the date: a SAS file is missed in its own week when its name is of the
   next Sunday, of the Saturday before daylight saving begins, or of the week's own
   Sunday with a day of one digit, and only then.                                  *)
THEOREM SasMissesNothingElse == Spec => []SasMissesTheEndsOnly
<1>1. TypeOK => SasMissesTheEndsOnly
  <2> SUFFICES ASSUME TypeOK, NEW k \in 0..6, NEW hour \in 0..23
               PROVE  LET name == SasHour(k, hour) IN
                        SasAccepts(today, name.date, name.hour)
                        <=> /\ name.date # EndUtc(today)
                            /\ ~(name.date.dow = 6 /\ EndOffset(today) < StartOffset(today))
                            /\ ~(name.date.dow = 0 /\ name.date.day < 10)
    BY DEF SasMissesTheEndsOnly
  <2> DEFINE sunday == WeekStart(today)
             offset == IF k = 0 /\ hour < 2 THEN StartOffset(today) ELSE EndOffset(today)
             later == k + (hour + offset) \div 24
             utc == (hour + offset) % 24
             date == Plus(sunday, later)
  <2>1. today \in Days
    BY DEF TypeOK, Dates, Days
  <2>2. sunday \in Days /\ sunday.dow = 0 /\ Plus(sunday, 0) = sunday
        /\ Plus(today, -today.dow) = sunday
    BY <2>1, Sundays DEF WeekStart
  <2>3. StartOffset(today) \in 4..5 /\ EndOffset(today) \in 4..5 /\ offset \in 4..5
    BY DEF StartOffset, EndOffset, UtcOffset
  <2>4. SasHour(k, hour) = [date |-> date, hour |-> utc]
    BY <2>2 DEF SasHour
  <2>5. later \in 0..7 /\ utc \in 0..23
    BY <2>3
  <2>6. later = 0 => utc >= StartOffset(today)
    BY <2>3
  <2>7. \A n \in 0..23, from \in 0..9 : n >= from => n \in RangePattern(23, from)
    BY DEF RangePattern
  <2> HIDE DEF later, utc, offset
  <2>8. date.dow = later % 7 /\ date.day \in Int
    <3>1. later \in -27..27
      BY <2>5
    <3>2. date.dow = (sunday.dow + later) % 7 /\ date \in Days
      BY <2>2, <3>1, PlusIs
    <3> HIDE DEF date, sunday
    <3> QED
      BY <2>2, <2>5, <3>2 DEF Days
  <2>9. \A i \in 0..7 : i # later => Plus(sunday, i).day # date.day
    BY <2>2, <2>5, DaysDiffer
  <2>10. date = EndUtc(today) <=> later = 7
    BY <2>5, <2>9 DEF EndUtc
  <2>11. InWeek(today, date) <=> later # 7
    <3>1. ASSUME later # 7 PROVE InWeek(today, date)
      BY <2>5, <3>1 DEF InWeek
    <3>2. ASSUME InWeek(today, date), later = 7 PROVE FALSE
      BY <2>9, <3>2 DEF InWeek
    <3> QED
      BY <3>1, <3>2
  <2>12. date.day \in MidDays(today)
         <=> later \in 1..6 /\ ~(later = 6 /\ EndOffset(today) < StartOffset(today))
    BY <2>1, <2>5, MidDaysAre
  <2>13. /\ date.year \in {sunday.year, Plus(sunday, 7).year}
         /\ date.month \in {sunday.month, Plus(sunday, 7).month}
    BY <2>2, <2>5, WithinTwoMonths
  <2>14. later # 0 => date.day # sunday.day
    BY <2>2, <2>9
  <2>15. later # 7 => date.day # Plus(sunday, 7).day
    BY <2>9
  <2>16. utc \in RangePattern(23, 0)
    BY <2>5, <2>7
  <2>17. later = 0 => utc \in RangePattern(23, StartOffset(today))
    BY <2>3, <2>5, <2>6, <2>7
  <2>18. SasAccepts(today, date, utc)
         <=> /\ later # 7
             /\ \/ date.day \in Bare(sunday.day) /\ utc \in RangePattern(23, StartOffset(today))
                \/ date.day \in MidDays(today)
                \/ date.day \in Bare(Plus(sunday, 7).day)
                   /\ utc \in RangePattern(EndOffset(today) - 1, 0)
    BY <2>11, <2>13, <2>16 DEF SasAccepts, SasMatches, EndUtc
  <2>19. later = 0 => date = sunday
    BY <2>2
  <2> HIDE DEF date, sunday
  <2>20. CASE later = 7
    BY <2>4, <2>10, <2>18, <2>20
  <2>21. CASE later = 0
    <3>1. SasAccepts(today, date, utc) <=> date.day \in Bare(sunday.day)
      BY <2>12, <2>15, <2>17, <2>18, <2>21 DEF Bare
    <3>2. date.day \in Bare(sunday.day) <=> ~(date.day < 10)
      BY <2>19, <2>21 DEF Bare
    <3>3. date # EndUtc(today) /\ date.dow = 0
      BY <2>8, <2>10, <2>21
    <3> QED
      BY <2>4, <3>1, <3>2, <3>3
  <2>22. CASE later \in 1..6
    <3>1. SasAccepts(today, date, utc)
          <=> ~(later = 6 /\ EndOffset(today) < StartOffset(today))
      BY <2>12, <2>14, <2>15, <2>18, <2>22 DEF Bare
    <3>2. date # EndUtc(today) /\ date.dow = later
      BY <2>8, <2>10, <2>22
    <3> QED
      BY <2>4, <2>22, <3>1, <3>2
  <2> QED
    BY <2>5, <2>20, <2>21, <2>22
<1> QED
  BY <1>1, TypeCorrect, PTL
=============================================================================
