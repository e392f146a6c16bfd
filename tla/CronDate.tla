------------------------------ MODULE CronDate ------------------------------
(***************************************************************************)
(* The date arithmetic of the crontab: cronjob_find_next_exec_date()       *)
(* (src/libwzd-core/wzd_crontab.c) together with the two libc conversions  *)
(* it relies on, localtime() and mktime().                                 *)
(*                                                                         *)
(* Time is a count of seconds from an epoch that starts a year.  The       *)
(* calendar is a parameter: SecPerMin seconds per minute, MinPerHour       *)
(* minutes per hour, HourPerDay hours per day and a year of months whose   *)
(* lengths are MonthDays.  With 60/60/24 and the twelve month lengths this *)
(* is the libc calendar without leap years and DST; the model checks use a *)
(* scaled-down calendar in which every field still wraps.                  *)
(*                                                                         *)
(* A job specification is the record the code builds from the five cron   *)
(* strings after strtol(): a field is -1 for "*" and its number otherwise; *)
(* the month is kept as written (1-based) and decremented here, as the     *)
(* code does.  once = TRUE stands for the minutes string "ONCE".           *)
(***************************************************************************)
EXTENDS Integers, Sequences, SequencesExt

CONSTANTS SecPerMin, MinPerHour, HourPerDay, MonthDays

ASSUME CalendarAssumption ==
  /\ \A n \in {SecPerMin, MinPerHour, HourPerDay} : n \in Nat \ {0}
  /\ MonthDays \in Seq(Nat \ {0}) /\ Len(MonthDays) > 0

Wild == -1     \* the value strtol-parsing gives a "*" field in the code

NMonths == Len(MonthDays)
HourLen == MinPerHour * SecPerMin
DayLen  == HourPerDay * HourLen

\* Days in the months before month m (0-based month index m).
DaysBefore(m) == FoldLeft(LAMBDA a, b : a + b, 0, SubSeq(MonthDays, 1, m))

YearLen == DaysBefore(NMonths) * DayLen

\* localtime(): the broken-down time of t >= 0, with struct tm's
\* conventions (tm_mon 0-based, tm_mday 1-based).
Localtime(t) ==
  LET r    == t % YearLen
      yday == r \div DayLen
      mon  == CHOOSE m \in 0..NMonths-1 :
                DaysBefore(m) <= yday /\ yday < DaysBefore(m + 1)
      rest == r % DayLen
  IN [year |-> t \div YearLen, mon |-> mon, mday |-> yday - DaysBefore(mon) + 1,
      hour |-> rest \div HourLen, min |-> (rest % HourLen) \div SecPerMin,
      sec  |-> rest % SecPerMin]

\* mktime(): fields out of range are normalised.  tm_mon is brought into
\* 0..NMonths-1 by carrying into the year; every other field is a linear
\* offset from the first day of that month, so tm_mday = 0 is the last day
\* of the previous month and an hour past the end of the day is the next day.
Mktime(tm) ==
  LET year == tm.year + tm.mon \div NMonths
      mon  == tm.mon % NMonths
  IN year * YearLen + (DaysBefore(mon) + tm.mday - 1) * DayLen
       + tm.hour * HourLen + tm.min * SecPerMin + tm.sec

-----------------------------------------------------------------------------
(* Seeded fault, a plausible slip in cronjob_find_next_exec_date.         *)

\* The rollover test written with < : a target equal to now is kept.
RollsOverStrict(target, current) == target < current

-----------------------------------------------------------------------------
\* The code's rollover test "if (num_x <= tm_x) <next coarser field>++".
RollsOver(target, current) == target <= current

\* The value the code gives a field it pins: "if (num_x>0) x = num_x; else 0".
Pin(n) == IF n > 0 THEN n ELSE 0

-----------------------------------------------------------------------------
(***************************************************************************)
(* cronjob_find_next_exec_date(start, ...): 0 for a "ONCE" job; otherwise  *)
(* the coarsest fixed field selects a branch, which pins the finer fields  *)
(* and rolls the next coarser field over when the target is not later     *)
(* than the current value; all '*' adds one minute (seconds are kept).     *)
(***************************************************************************)
NextExecDate(start, spec) ==
  IF spec.once THEN 0 ELSE
  LET ltm == Localtime(start)
      numMonth == IF spec.month # Wild THEN spec.month - 1 ELSE Wild
      tm == CASE numMonth # Wild ->
                   [ltm EXCEPT !.sec = 0, !.min = Pin(spec.min),
                               !.hour = Pin(spec.hour), !.mday = Pin(spec.mday),
                               !.year = IF RollsOver(numMonth, ltm.mon) THEN @ + 1 ELSE @,
                               !.mon = numMonth]
              [] spec.mday # Wild ->
                   [ltm EXCEPT !.sec = 0, !.min = Pin(spec.min),
                               !.hour = Pin(spec.hour),
                               !.mon = IF RollsOver(spec.mday, ltm.mday) THEN @ + 1 ELSE @,
                               !.mday = spec.mday]
              [] spec.hour # Wild ->
                   [ltm EXCEPT !.sec = 0, !.min = Pin(spec.min),
                               !.mday = IF RollsOver(spec.hour, ltm.hour) THEN @ + 1 ELSE @,
                               !.hour = spec.hour]
              [] spec.min # Wild ->
                   [ltm EXCEPT !.sec = 0,
                               !.hour = IF RollsOver(spec.min, ltm.min) THEN @ + 1 ELSE @,
                               !.min = spec.min]
              [] OTHER -> [ltm EXCEPT !.min = @ + 1]
  IN Mktime(tm)

\* Reference: t satisfies every fixed field of spec (the fields of §4.6).
Matches(spec, t) ==
  LET tm == Localtime(t) IN
  /\ spec.min   = Wild \/ tm.min  = spec.min
  /\ spec.hour  = Wild \/ tm.hour = spec.hour
  /\ spec.mday  = Wild \/ tm.mday = spec.mday
  /\ spec.month = Wild \/ tm.mon  = spec.month - 1

\* The job specifications a configuration can write, over this calendar.
JobSpecs(mdays, months) ==
  [once : {FALSE}, min : {Wild} \cup 0..MinPerHour-1,
   hour : {Wild} \cup 0..HourPerDay-1, mday : {Wild} \cup mdays,
   month : {Wild} \cup months]

-----------------------------------------------------------------------------
(***************************************************************************)
(* The check of cronjob_find_next_exec_date over every start time of two  *)
(* years of a scaled calendar and every job specification of a set Specs. *)
(* A state is a job (spec) and the time its date is computed from (start); *)
(* a step follows the job's schedule as cronjob_run re-queues it, from one *)
(* date to the next, up to the end of the year after.  Crontab, which uses *)
(* only NextExecDate, gives these constants and variables fixed values.    *)
(***************************************************************************)
CONSTANTS Years, Specs

\* Dates past the end of the year after the start times are not followed.
Horizon == (Years + 1) * YearLen

VARIABLES start, spec
vars == <<start, spec>>

Init == /\ start \in 0..(Years * YearLen - 1)
        /\ spec \in Specs

Next == /\ NextExecDate(start, spec) < Horizon
        /\ start' = NextExecDate(start, spec)
        /\ UNCHANGED spec

Spec == Init /\ [][Next]_vars

\* A year of three months of 3, 2 and 3 days.
MCMonthDays == <<3, 2, 3>>

\* Specifications a site can configure over this calendar: the month is
\* either '*' or fixed together with a day-of-month; the day-of-month
\* is at most the length of the shortest month.
ShortestMonth == CHOOSE d \in {MonthDays[i] : i \in 1..NMonths} :
                   \A i \in 1..NMonths : d <= MonthDays[i]
MCSpecsWithinShortMonth ==
  {s \in JobSpecs(1..ShortestMonth, 1..NMonths) :
     s.month # Wild => s.mday # Wild}

\* Every recurring job of the calendar: each field '*' or any of its values,
\* days of the month up to the longest month.
MCSpecsAll ==
  LET longest == CHOOSE d \in {MonthDays[i] : i \in 1..NMonths} :
                   \A i \in 1..NMonths : MonthDays[i] <= d
  IN JobSpecs(1..longest, 1..NMonths)

\* A job with a fixed month and '*' as its day-of-month (e.g. "0 0 * 6 *").
MCSpecsMonthNoDay ==
  {s \in JobSpecs({}, 1..NMonths) : s.month # Wild /\ s.mday = Wild}

\* Every other recurring job.
MCSpecsNotMonthNoDay == MCSpecsAll \ MCSpecsMonthNoDay

\* A job with a day-of-month that some months do not have (e.g. "0 0 31 * *").
MCSpecsLongDay ==
  LET longest == CHOOSE d \in {MonthDays[i] : i \in 1..NMonths} :
                   \A i \in 1..NMonths : MonthDays[i] <= d
  IN {s \in JobSpecs((ShortestMonth+1)..longest, {}) : s.mday # Wild}

\* Both: the configurations whose fields some month cannot satisfy.
MCSpecsConfigEdge == MCSpecsMonthNoDay \cup MCSpecsLongDay

-----------------------------------------------------------------------------
\* The next run the crontab computes for a recurring job lies strictly
\* after the moment it is computed from: cronjob_run() re-queues a job with
\* this date, and a date in the past would make the job due again at once.
NextAfterStart == NextExecDate(start, spec) > start

\* The next run falls on a time that matches every fixed field of the job
\* (minute, hour, day-of-month, month), as §4.6 of the specification says
\* cron fields are interpreted.
NextMatchesSpec == Matches(spec, NextExecDate(start, spec))
=============================================================================
