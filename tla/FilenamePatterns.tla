-------------------------- MODULE FilenamePatterns --------------------------
(***************************************************************************)
(* Which names of draft files and schedule reports the jobs take for this   *)
(* week's: the patterns they build from today's date, and the check of the   *)
(* timestamp in a name that matches.  The RYO and SAS patterns are cross      *)
(* products of the week's years, months and days; SAS names are in UTC.       *)
(*                                                                         *)
(* A name is the fields of its timestamp down to the hour.  The date goes on *)
(* day by day, over the ends of months and years and the shifts of US        *)
(* daylight saving, on a Sunday at 02:00.                                    *)
(***************************************************************************)
EXTENDS Integers

CONSTANTS
  FirstDay,  \* bound: the date of the first state
  LastYear   \* bound: the last year

VARIABLE today

-----------------------------------------------------------------------------
(* The calendar *)

IsLeap(year) == year % 4 = 0 /\ (year % 100 # 0 \/ year % 400 = 0)

DaysIn(year, month) ==
  CASE month = 2 -> IF IsLeap(year) THEN 29 ELSE 28
    [] month \in {4, 6, 9, 11} -> 30
    [] OTHER -> 31

(* A calendar date and its day of the week, 0 for Sunday. *)
Dates ==
  {dt \in [year : Nat, month : 1..12, day : 1..31, dow : 0..6] :
     dt.day <= DaysIn(dt.year, dt.month)}

ASSUME FilenamePatternsAssumption ==
  /\ FirstDay \in Dates
  /\ LastYear \in Nat

(* Mutant: no carry into the next month. *)
PlusUncarried(dt, k) == [dt EXCEPT !.day = @ + k, !.dow = (@ + k) % 7]

(* The date k days after dt, at most four weeks away. *)
Plus(dt, k) ==
  LET day == dt.day + k
      last == IF dt.month = 1 THEN [year |-> dt.year - 1, month |-> 12]
                              ELSE [year |-> dt.year, month |-> dt.month - 1]
      following == IF dt.month = 12 THEN [year |-> dt.year + 1, month |-> 1]
                                    ELSE [year |-> dt.year, month |-> dt.month + 1]
      On(m, d) == [year |-> m.year, month |-> m.month, day |-> d, dow |-> (dt.dow + k) % 7]
  IN  CASE day < 1 -> On(last, day + DaysIn(last.year, last.month))
        [] day > DaysIn(dt.year, dt.month) -> On(following, day - DaysIn(dt.year, dt.month))
        [] OTHER -> On(dt, day)

(* Hours local time is behind UTC at midnight of a Sunday: EDT from the second
   Sunday of March, after its 02:00, to the first of November.                  *)
UtcOffset(sunday) ==
  IF \/ sunday.month \in 4..10
     \/ sunday.month = 3 /\ sunday.day > 14
     \/ sunday.month = 11 /\ sunday.day <= 7
    THEN 4 ELSE 5

-----------------------------------------------------------------------------
(* The week of `today' *)

(* Mutant: a Sunday is taken for the end of the week before. *)
SundayBefore(now) == Plus(now, -(IF now.dow = 0 THEN 7 ELSE now.dow))

(* relativedelta(weekday=SU(-1)) *)
WeekStart(now) == Plus(now, -now.dow)

(* rrule(DAILY) from the week's Sunday to relativedelta(weekday=SA(+1)) *)
WeekDates(now) == {Plus(WeekStart(now), k) : k \in 0..6}

(* check_if_this_week of a local date *)
InWeek(now, dt) == \E k \in 0..6 : dt = Plus(WeekStart(now), k)

-----------------------------------------------------------------------------
(* Mutant: the days are a range, from the least to the greatest. *)
RyoMatchesRange(now, dt) ==
  /\ \E date \in WeekDates(now) : dt.year = date.year
  /\ \E date \in WeekDates(now) : dt.month = date.month
  /\ \E date \in WeekDates(now) : date.day <= dt.day
  /\ \E date \in WeekDates(now) : dt.day <= date.day

(* assemble_ryo_filename_pattern: any of the years, the months and the days. *)
RyoMatches(now, dt) ==
  /\ \E date \in WeekDates(now) : dt.year = date.year
  /\ \E date \in WeekDates(now) : dt.month = date.month
  /\ \E date \in WeekDates(now) : dt.day = date.day

(* assemble_schedule_report_filename_pattern enumerates the dates. *)
ReportMatches(now, dt) == dt \in WeekDates(now)

(* _assemble_range_pattern: the two-digit numbers the alternatives match, by tens. *)
RangePattern(end_val, start_val) ==
  IF end_val < 10
    THEN start_val..end_val
    ELSE start_val..9
           \cup {n \in 10..99 : n \div 10 < end_val \div 10}
           \cup {n \in 10..99 : n \div 10 = end_val \div 10 /\ n % 10 <= end_val % 10}

(* The UTC offsets at the two ends of the week. *)
StartOffset(now) == UtcOffset(WeekStart(now))

EndOffset(now) == UtcOffset(Plus(WeekStart(now), 7))

(* end_est.astimezone(UTC): in the early hours of the next Sunday. *)
EndUtc(now) == Plus(WeekStart(now), 7)

(* dates[1:-1] of the rrule by 24 hours from start to rrule_end, both in UTC: when
   the offset shrinks, rrule_end is an hour short of the eighth date.             *)
MidDays(now) ==
  LET lastDate == IF EndOffset(now) < StartOffset(now) THEN 6 ELSE 7
  IN  {Plus(WeekStart(now), k).day : k \in 1..(lastDate - 1)}

(* {sday} and {eday}: a bare number, where the day in a name has two digits.  The
   days of names that the number matches: none for a day of one digit.             *)
Bare(day) == IF day < 10 THEN {} ELSE {day}

(* Mutant: the hours of the two ends are swapped. *)
SasMatchesSwapped(now, dt, hour) ==
  /\ dt.year \in {WeekStart(now).year, EndUtc(now).year}
  /\ dt.month \in {WeekStart(now).month, EndUtc(now).month}
  /\ \/ dt.day \in Bare(WeekStart(now).day) /\ hour \in RangePattern(EndOffset(now) - 1, 0)
     \/ dt.day \in MidDays(now) /\ hour \in RangePattern(23, 0)
     \/ dt.day \in Bare(EndUtc(now).day) /\ hour \in RangePattern(23, StartOffset(now))

(* assemble_sas_filename_pattern: the hours a day may have depend on the day.  The
   days between the two ends are of two digits, as in the names.                   *)
SasMatches(now, dt, hour) ==
  /\ dt.year \in {WeekStart(now).year, EndUtc(now).year}
  /\ dt.month \in {WeekStart(now).month, EndUtc(now).month}
  /\ \/ dt.day \in Bare(WeekStart(now).day) /\ hour \in RangePattern(23, StartOffset(now))
     \/ dt.day \in MidDays(now) /\ hour \in RangePattern(23, 0)
     \/ dt.day \in Bare(EndUtc(now).day) /\ hour \in RangePattern(EndOffset(now) - 1, 0)

(* download_file: the name matches, and its timestamp, taken for local time, is of
   this week.                                                                     *)
SasAccepts(now, dt, hour) == SasMatches(now, dt, hour) /\ InWeek(now, dt)

Init == today = FirstDay

NextDay ==
  /\ Plus(today, 1).year <= LastYear
  /\ today' = Plus(today, 1)

Spec == Init /\ [][NextDay]_today
-----------------------------------------------------------------------------
TypeOK == today \in Dates

(* Whatever day of the week a run is on, the patterns match every name of the week,
   over the ends of months and years.                                              *)
WeekNamesMatch ==
  \A k \in -today.dow..(6 - today.dow) :
    RyoMatches(today, Plus(today, k)) /\ ReportMatches(today, Plus(today, k))

(* The cross products let no name of the twenty days before the week through, nor of
   the three weeks after: last week's file is never the newest match, and what does
   slip through is older than anything of this week, unless a date is mistyped.
   The one exception is of SAS: a name of the next Sunday's first hours in UTC, made
   on Saturday night, is matched and then refused by the week check.  The schedule
   reports' pattern lets none through.                                             *)
LookalikesAreFarOff ==
  \A k \in (-20..-1) \cup (7..27) :
    LET date == Plus(Plus(today, -today.dow), k) IN
      /\ ~RyoMatches(today, date)
      /\ ~ReportMatches(today, date)
      /\ \A hour \in 0..23 : k # 7 => ~SasMatches(today, date, hour)

(* The hour, in UTC, at the given local time of the k-th day of this week; on the
   Sunday itself, of the hours before a change of the offset.                      *)
SasHour(k, hour) ==
  LET local == hour + (IF k = 0 /\ hour < 2 THEN StartOffset(today) ELSE EndOffset(today))
  IN  [date |-> Plus(Plus(today, -today.dow), k + local \div 24), hour |-> local % 24]

(* A SAS file is accepted by the runs of the week it was made in, but for these, and
   these never are: its name is of the next Sunday already, for the week's last
   hours; of the Saturday of the week in which daylight saving begins; or of the
   week's own Sunday when that is one of the first nine days of a month, although
   the pattern is to span the week "from local tz to UTC" (bal_sheet_job.py).  What
   is made from Monday to Thursday is accepted: SAS delivers on Wednesday.          *)
SasMissesTheEndsOnly ==
  \A k \in 0..6, hour \in 0..23 :
    LET name == SasHour(k, hour) IN
      SasAccepts(today, name.date, name.hour)
      <=> /\ name.date # EndUtc(today)
          /\ ~(name.date.dow = 6 /\ EndOffset(today) < StartOffset(today))
          /\ ~(name.date.dow = 0 /\ name.date.day < 10)
=============================================================================
