------------------------------ MODULE Calendar ------------------------------
(***************************************************************************)
(* Local time and the recurrence of reminders (core/internal/timeparse,    *)
(* rrule.go).  An instant is a number of minutes, UTC, since midnight of   *)
(* Monday 1 January of the year 1; seconds are left out.  A day is a       *)
(* number of days since then; a weekday is 0 for Monday.                   *)
(***************************************************************************)
EXTENDS Integers, SequencesExt

CONSTANTS
  Standard,    \* minutes local time is ahead of UTC in winter
  Summers,     \* the periods [from, to) of summer time, as instants
  MaxSteps     \* bound: occurrences Next walks over (20000 in the code)

Day == 1440

(* Clocks are put forward at some distance from midnight, so that a local  *)
(* time that is skipped is read as one of the same day.                    *)
ASSUME ZoneAssumption ==
  /\ Standard \in -720 .. 840 /\ MaxSteps \in Nat
  /\ \A s \in Summers : s.from \in Int /\ s.to \in Int /\ (s.from + Standard) % Day \in 60 .. Day - 120

-----------------------------------------------------------------------------
(* The calendar of the time package.                                       *)

IsLeap(y) == y % 4 = 0 /\ (y % 100 # 0 \/ y % 400 = 0)
LastDay(y, m) ==
  CASE m = 2 -> IF IsLeap(y) THEN 29 ELSE 28
    [] m \in {4, 6, 9, 11} -> 30
    [] OTHER -> 31
NewYear(y) == 365 * (y - 1) + (y - 1) \div 4 - (y - 1) \div 100 + (y - 1) \div 400
BeforeMonth(y, m) == (367 * m - 362) \div 12 - (IF m <= 2 THEN 0 ELSE IF IsLeap(y) THEN 1 ELSE 2)
DayOf(y, m, d) == NewYear(y) + BeforeMonth(y, m) + d - 1
YearOf(day) == CHOOSE y \in day \div 366 + 1 .. day \div 365 + 1 : NewYear(y) <= day /\ day < NewYear(y + 1)
MonthOf(day, y) == CHOOSE m \in 1 .. 12 : DayOf(y, m, 1) <= day /\ day <= DayOf(y, m, LastDay(y, m))
InMonth(day, y, m) == [y |-> y, m |-> m, d |-> day - DayOf(y, m, 1) + 1]
InYear(day, y) == InMonth(day, y, MonthOf(day, y))
Civil(day) == InYear(day, YearOf(day))
Weekday(day) == day % 7

(* What is in force at an instant, and what time.Date makes of a local     *)
(* time: one the clocks skip is read with the offset before the change.    *)
Summer(t) == \E s \in Summers : s.from <= t /\ t < s.to
Offset(t) == IF Summer(t) THEN Standard + 60 ELSE Standard
FromLocal(local) ==
  LET first == local - Offset(local)
  IN IF Summer(first) = Summer(local) THEN first ELSE local - Offset(first)
At(day, minute) == FromLocal(day * Day + minute)
LocalDay(t) == (t + Offset(t)) \div Day
LocalMinute(t) == (t + Offset(t)) % Day

-----------------------------------------------------------------------------
(* Rules.  The text form is a sequence of its parts.                       *)

Frequencies == {"DAILY", "WEEKLY", "MONTHLY"}
DayCodes == [MO |-> 0, TU |-> 1, WE |-> 2, TH |-> 3, FR |-> 4, SA |-> 5, SU |-> 6]
NoRule == [freq |-> "", interval |-> 1, byDay |-> {}]

GoodPart(p) ==
  \/ p.key = "FREQ" /\ p.freq \in Frequencies
  \/ p.key = "INTERVAL" /\ p.n \in 1 .. 366
  \/ p.key = "BYDAY" /\ p.days # {} /\ p.days \subseteq DOMAIN DayCodes
ReadPart(r, p) ==
  CASE p.key = "FREQ" -> [r EXCEPT !.freq = p.freq]
    [] p.key = "INTERVAL" -> [r EXCEPT !.interval = p.n]
    [] OTHER -> [r EXCEPT !.byDay = @ \cup {DayCodes[d] : d \in p.days}]

(* ParseRule: the rules the parts can mean, none if they are refused.      *)
ParseRule(parts) ==
  LET read[i \in 0 .. Len(parts)] == IF i = 0 THEN NoRule ELSE ReadPart(read[i - 1], parts[i])
  IN {x \in {read[Len(parts)]} :
                  /\ \A i \in DOMAIN parts : GoodPart(parts[i])
                  /\ x.freq # ""
                  /\ x.byDay # {} => x.freq = "WEEKLY"}

WeekStart(day) == day - Weekday(day)

(* Mutant: the hours between two Mondays are not rounded to days. *)
WeeksApart_exact(from, day) == ((At(WeekStart(day), 0) - At(WeekStart(from), 0)) \div Day) \div 7

(* The clocks may change between two Mondays.                              *)
WeeksApart(from, day) ==
  ((At(WeekStart(day), 0) - At(WeekStart(from), 0) + Day \div 2) \div Day) \div 7

(* The day the loop of Next goes to from the day cur.                      *)
NextDay(r, from, cur) ==
  LET days == IF r.byDay = {} THEN {Weekday(from)} ELSE r.byDay
      c == Civil(cur)
      month == c.m + r.interval - 1
      y == c.y + month \div 12
      m == (month % 12) + 1
  IN CASE r.freq = "DAILY" -> cur + r.interval
       [] r.freq = "MONTHLY" -> DayOf(y, m, Min({Civil(from).d, LastDay(y, m)}))
       [] OTHER -> Min({d \in cur + 1 .. cur + 7 * r.interval + 7 :
                          Weekday(d) \in days /\ WeeksApart(from, d) % r.interval = 0})

(* Rule.Next: the first occurrence after `after`, counting from `from`.    *)
RuleNext(r, from, after) ==
  LET minute == LocalMinute(from)
      walk[k \in 0 .. MaxSteps] ==
        IF k = 0 THEN from
        ELSE LET t == walk[k - 1]
             IN IF k > 1 /\ t > after THEN t ELSE At(NextDay(r, LocalDay(from), LocalDay(t)), minute)
  IN walk[MaxSteps]
=============================================================================
