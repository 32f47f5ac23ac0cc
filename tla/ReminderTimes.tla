---------------------------- MODULE ReminderTimes ----------------------------
(***************************************************************************)
(* The reminders of Reminders read on a calendar.  Reminders counts time   *)
(* in ticks; here a tick is a number of days, from days at which months,   *)
(* years and the clocks change.  What the job, done and restoring compute  *)
(* from the occurrence a row holds and the clock is compared with what the *)
(* rule says, and what a chat command reads with what its words say.       *)
(***************************************************************************)
EXTENDS Reminders, TimeParse

CONSTANTS
  Readings,     \* of a tick: [start, stride, minute, past], days and minutes of the day
  RuleTexts,    \* recurrences, as ParseRule reads them
  Expressions,  \* [words, ahead, weekday, month, dom, notToday, minute]: what words say
  Asides        \* what follows a time in !remind

(* The loop of Next goes far enough to pass the present.                   *)
ASSUME ReadingsAssumption ==
  /\ \A c \in Readings : /\ c.start \in Nat /\ c.stride \in Nat /\ c.minute \in 0 .. Day - 1 /\ c.past \in Nat
                         /\ (c.stride * MaxTime + 2) * Day + c.past <= MaxSteps * Day
  /\ \A text \in RuleTexts : text \in Seq(Range(text))

Occurrence(c, tick) == At(c.start + c.stride * tick, c.minute)
Moment(c, tick) == Occurrence(c, tick) + c.past

(* The days a rule names, counting from the day of an occurrence.          *)
MonthNo(day) == 12 * Civil(day).y + Civil(day).m
InRule(r, first, day) ==
  CASE r.freq = "DAILY" -> (day - first) % r.interval = 0
    [] r.freq = "WEEKLY" ->
         /\ Weekday(day) \in IF r.byDay = {} THEN {Weekday(first)} ELSE r.byDay
         /\ ((WeekStart(day) - WeekStart(first)) \div 7) % r.interval = 0
    [] r.freq = "MONTHLY" ->
         /\ (MonthNo(day) - MonthNo(first)) % r.interval = 0
         /\ Civil(day).d = Min({Civil(first).d, LastDay(Civil(day).y, Civil(day).m)})

IsNext(r, from, after, t) ==
  LET first == LocalDay(from)
      minute == LocalMinute(from)
  IN /\ t > after
     /\ t = At(LocalDay(t), minute) /\ LocalDay(t) > first /\ InRule(r, first, LocalDay(t))
     /\ \A day \in first + 1 .. LocalDay(t) - 1 : At(day, minute) > after => ~ InRule(r, first, day)

RuleIsFollowed(due, tick) ==
  \A c \in Readings, text \in RuleTexts : \A r \in ParseRule(text) :
    LET from == Occurrence(c, due)
        present == Moment(c, tick)
    IN IsNext(r, from, present, RuleNext(r, from, present))

(* The pairs of an occurrence and a tick for which the rules are followed; *)
(* occurrences far ahead of the clock do not depend on it and are not      *)
(* asked for.                                                              *)
Followed == {p \in {<<due, tick>> : due \in 1 .. MaxTime + MaxDue, tick \in 1 .. MaxTime} :
               RuleIsFollowed(p[1], p[2])}

(* The next occurrence of a recurring reminder is after the present, on a  *)
(* day of its rule, at the time of day of the occurrence before, whatever  *)
(* the clocks did in between, and none is left out that could still be     *)
(* kept, however long nothing ran (CORE-R10: "09:00 stays 09:00").         *)
RecurrenceKeepsItsTime ==
  \A r \in Reminders :
    Recurs(r) /\ row[r].due <= MaxTime + MaxDue => <<row[r].due, now>> \in Followed

-----------------------------------------------------------------------------
(* What words say of a day and of the time of day.                         *)
Fits(e, today, day) ==
  /\ e.ahead # Unset => day = today + e.ahead
  /\ e.weekday # Unset => Weekday(day) = e.weekday
  /\ e.dom # Unset => Civil(day).d = e.dom /\ Civil(day).m = e.month
  /\ e.notToday => day # today
MinuteOf(e, present) == IF e.minute = Unset THEN LocalMinute(present) ELSE e.minute

FirstThatFits(e, present, today, result) ==
  LET Ahead(day) == Fits(e, today, day) /\ At(day, MinuteOf(e, present)) > present
  IN /\ result = {} => \A day \in today .. today + 30 : ~ Ahead(day)
     /\ \A t \in result :
          /\ Ahead(LocalDay(t)) /\ t = At(LocalDay(t), MinuteOf(e, present))
          /\ \A day \in today .. LocalDay(t) - 1 : ~ Ahead(day)
          /\ \A text \in Asides : SplitWhen(e.words \o text, present) = {[when |-> t, text |-> text]}

IsUnderstood(e, present) ==
  /\ FirstThatFits(e, present, LocalDay(present), Parse(e.words, present))
  /\ ParseSnooze(e.words, present) = Parse(e.words, present)

Understood == {p \in {<<tick, c>> : tick \in 1 .. MaxTime, c \in Readings} :
                 \A e \in Expressions : IsUnderstood(e, Moment(p[2], p[1]))}

(* Whenever a command is given, a time it accepts is the first one after   *)
(* the present that its words fit, so a weekday or a time that is over     *)
(* today means the next one, and it is refused only when no such day is    *)
(* near; the text that follows is not taken for part of the time           *)
(* (CORE-R2, CORE-R11b).                                                   *)
TimeIsUnderstood == \A c \in Readings : <<now, c>> \in Understood
=============================================================================
