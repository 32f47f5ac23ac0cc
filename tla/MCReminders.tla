---------------------------- MODULE MCReminders -----------------------------
(***************************************************************************)
(* Instances of Reminders for TLC.  A tick stands for about a minute, the  *)
(* length of a lease; the time a failing reminder is set aside is scaled   *)
(* down from ten minutes to two ticks.  On the calendar a tick is one day  *)
(* or ten, in Brussels, around the changes of the clocks, of February and  *)
(* of the year.                                                            *)
(***************************************************************************)
EXTENDS ReminderTimes, TLC

CONSTANTS r1, r2, n1, n2, w1, w2

(* 01:00 UTC on the last Sundays of March and October.                     *)
LastSunday(y, m) == Max({d \in DayOf(y, m, 20) .. DayOf(y, m, 31) : Weekday(d) = 6})
SummerOf(y) == [from |-> LastSunday(y, 3) * 1440 + 60, to |-> LastSunday(y, 10) * 1440 + 60]
Brussels == {SummerOf(y) : y \in 2026 .. 2029}

Reading(y, m, d, stride, minute, past) ==
  [start |-> DayOf(y, m, d), stride |-> stride, minute |-> minute, past |-> past]
Calendars ==
  { Reading(2026, 3, 26, 1, 9 * 60, 0), Reading(2026, 10, 23, 1, 23 * 60 + 30, 45),
    Reading(2026, 12, 28, 1, 9 * 60, 1), Reading(2028, 2, 26, 1, 0, 0),
    Reading(2027, 1, 21, 10, 9 * 60, 600), Reading(2026, 10, 5, 10, 18 * 60, 1) }

Freq(f) == [key |-> "FREQ", freq |-> f]
Interval(n) == [key |-> "INTERVAL", n |-> n]
ByDay(days) == [key |-> "BYDAY", days |-> days]
Rules ==
  { <<Freq("DAILY")>>, <<Freq("DAILY"), Interval(3)>>, <<Interval(2), Freq("WEEKLY")>>,
    <<Freq("WEEKLY"), Interval(2), ByDay({"MO", "TU", "SU"})>>, <<Freq("WEEKLY"), ByDay({"FR", "SA"})>>,
    <<Freq("MONTHLY")>>, <<Freq("MONTHLY"), Interval(3)>>,
    <<Freq("DAILY"), ByDay({"MO"})>>, <<Interval(2)>>, <<Freq("DAILY"), Interval(0)>> }

Anything == [words |-> <<>>, ahead |-> Unset, weekday |-> Unset, month |-> Unset, dom |-> Unset,
             notToday |-> FALSE, minute |-> 9 * 60]
Said ==
  { [Anything EXCEPT !.words = <<W("tomorrow")>>, !.ahead = 1],
    [Anything EXCEPT !.words = <<W("tonight")>>, !.ahead = 0, !.minute = 20 * 60],
    [Anything EXCEPT !.words = <<W("today"), W("at"), W("noon")>>, !.ahead = 0, !.minute = 12 * 60],
    [Anything EXCEPT !.words = <<N(6), Half("pm")>>, !.minute = 18 * 60],
    [Anything EXCEPT !.words = <<Clock(2, 30), W("tomorrow")>>, !.ahead = 1, !.minute = 150],
    [Anything EXCEPT !.words = <<WeekdayWord(4), Clock(23, 45)>>, !.weekday = 4, !.minute = 23 * 60 + 45],
    [Anything EXCEPT !.words = <<W("next"), WeekdayWord(6)>>, !.weekday = 6, !.notToday = TRUE],
    [Anything EXCEPT !.words = <<N(1), Month(3), Hour12(12, "am")>>, !.dom = 1, !.month = 3, !.minute = 0],
    [Anything EXCEPT !.words = <<Month(12), N(31)>>, !.dom = 31, !.month = 12],
    [Anything EXCEPT !.words = <<W("in"), N(2), Unit(1440)>>, !.ahead = 2, !.minute = Unset],
    [Anything EXCEPT !.words = <<W("in"), W("a"), Unit(7 * 1440)>>, !.ahead = 7, !.minute = Unset] }
Texts == {<<W("other")>>, <<W("other"), N(3), W("other")>>}
=============================================================================
