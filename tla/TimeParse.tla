----------------------------- MODULE TimeParse -----------------------------
(***************************************************************************)
(* The time expressions people type in chat (core/internal/timeparse,      *)
(* timeparse.go).  An expression is a sequence of words; a word is a       *)
(* record whose field w says what it is, with its number where it has one. *)
(* What an expression means is a set of instants: one, or none when it is  *)
(* refused.                                                                *)
(***************************************************************************)
EXTENDS Calendar

DefaultHour == 9
Unset == -1

W(w) == [w |-> w]
N(n) == [w |-> "number", n |-> n]
Clock(h, m) == [w |-> "clock", h |-> h, m |-> m, half |-> ""]     \* 18:30
Hour12(h, half) == [w |-> "clock", h |-> h, m |-> 0, half |-> half] \* 9am
Half(half) == [w |-> "half", half |-> half]                       \* am, pm
WeekdayWord(d) == [w |-> "weekday", n |-> d]
Month(m) == [w |-> "month", n |-> m]
IsoDate(y, m, d) == [w |-> "iso", y |-> y, m |-> m, d |-> d]
Unit(minutes) == [w |-> "unit", n |-> minutes]
Brief(n, minutes) == [w |-> "brief", n |-> n, unit |-> minutes]  \* 10m

Is(words, i, w) == i \in DOMAIN words /\ words[i].w = w
NumberAt(words, i, S) == Is(words, i, "number") /\ words[i].n \in S

-----------------------------------------------------------------------------
(* parseRelative, for what follows "in".                                   *)

Later(present, n, unit) ==
  IF n \notin 1 .. 10000 THEN {}
  ELSE IF unit % Day = 0 THEN {At(LocalDay(present) + n * (unit \div Day), LocalMinute(present))}
  ELSE {present + n * unit}

Relative(rest, present) ==
  LET two == Len(rest) = 2 /\ Is(rest, 2, "unit")
  IN CASE Len(rest) = 3 /\ Is(rest, 1, "half") /\ Is(rest, 2, "a") /\ Is(rest, 3, "unit") /\ rest[3].n = 60 -> {present + 30}
       [] two /\ Is(rest, 1, "a") -> Later(present, 1, rest[2].n)
       [] two /\ Is(rest, 1, "number") -> Later(present, rest[1].n, rest[2].n)
       [] Len(rest) = 1 /\ Is(rest, 1, "brief") -> Later(present, rest[1].n, rest[1].unit)
       [] OTHER -> {}

(* parseClock: the minute of the day and the words it takes, or nothing.   *)
ClockAt(words, i) ==
  LET x == words[i]
      own == x.w = "clock" /\ x.half # ""
      given == ~ own /\ Is(words, i + 1, "half")
      half == IF own THEN x.half ELSE IF given THEN words[i + 1].half ELSE ""
      h == IF x.w = "number" THEN x.n ELSE x.h
      m == IF x.w = "number" THEN 0 ELSE x.m
      hour == IF half = "" THEN h ELSE (h % 12) + (IF half = "pm" THEN 12 ELSE 0)
      good == /\ x.w = "clock" \/ (x.w = "number" /\ half # "")
              /\ h \in IF half = "" THEN 0 .. 23 ELSE 1 .. 12
              /\ m \in 0 .. 59
  IN IF good THEN {[at |-> hour * 60 + m, took |-> IF given THEN 2 ELSE 1]} ELSE {}

(* A day of a month, of the year that is named or of the first one in      *)
(* which it is not over; AddDate turns 29 February into 1 March.           *)
DayIn(y, m, d, took) == IF d > LastDay(y, m) THEN {} ELSE {[day |-> DayOf(y, m, d), took |-> took]}
ComingDay(y, m, d, today) ==
  {[x EXCEPT !.day = IF @ < today THEN DayOf(y + 1, m, d) ELSE @] : x \in DayIn(y, m, d, 2)}
Build(d, m, words, i, today) ==
  IF NumberAt(words, i, 2000 .. 2200) THEN DayIn(words[i].n, m, d, 3) ELSE ComingDay(YearOf(today), m, d, today)

(* parseDate: the day and the words it takes, or nothing. *)
DateAt(words, i, today) ==
  CASE Is(words, i, "iso") -> IF words[i].d < 1 THEN {} ELSE DayIn(words[i].y, words[i].m, words[i].d, 1)
    [] NumberAt(words, i, 1 .. 31) /\ Is(words, i + 1, "month") ->
         Build(words[i].n, words[i + 1].n, words, i + 2, today)
    [] Is(words, i, "month") /\ NumberAt(words, i + 1, 1 .. 31) ->
         Build(words[i + 1].n, words[i].n, words, i + 2, today)
    [] OTHER -> {}

-----------------------------------------------------------------------------
(* What the loop of Parse has read: the day, the minute, whether the day   *)
(* came from a weekday, a "next" that waits for one, and the words to skip. *)

Unread == [day |-> Unset, at |-> Unset, weekday |-> FALSE, next |-> FALSE, skip |-> 0, bad |-> FALSE]
SetDay(s, day) == [s EXCEPT !.day = day, !.bad = @ \/ s.day # Unset]
SetTime(s, minute) == [s EXCEPT !.at = minute, !.bad = @ \/ s.at # Unset]

(* The days until a weekday. *)
DaysTo(from, d, next) == IF next /\ Weekday(from) = d THEN 7 ELSE (d - Weekday(from)) % 7

ReadNumbers(s, clock, date) ==
  IF clock # {} THEN LET c == CHOOSE c \in clock : TRUE
                     IN [SetTime(s, c.at) EXCEPT !.skip = c.took - 1]
  ELSE IF date # {} THEN LET d == CHOOSE d \in date : TRUE
                         IN [SetDay(s, d.day) EXCEPT !.skip = d.took - 1]
  ELSE [s EXCEPT !.bad = TRUE]

ReadWord(s, words, i, today) ==
  LET x == words[i]
  IN CASE s.skip > 0 -> [s EXCEPT !.skip = @ - 1]
       [] x.w = "at" -> s
       [] x.w = "today" -> SetDay(s, today)
       [] x.w = "tomorrow" -> SetDay(s, today + 1)
       [] x.w = "tonight" -> SetTime(SetDay(s, today), 20 * 60)
       [] x.w = "next" /\ Is(words, i + 1, "weekday") -> [s EXCEPT !.next = TRUE]
       [] x.w = "weekday" ->
            [SetDay(s, today + DaysTo(today, x.n, s.next)) EXCEPT !.weekday = TRUE, !.next = FALSE]
       [] x.w = "noon" -> SetTime(s, 12 * 60)
       [] x.w = "midnight" -> SetTime(s, 0)
       [] OTHER -> ReadNumbers(s, ClockAt(words, i), DateAt(words, i, today))

(* Mutant: a weekday whose time is over is refused. *)
Instant_past(s, present, today) ==
  LET minute == IF s.at = Unset THEN DefaultHour * 60 ELSE s.at
      day == IF s.day = Unset THEN today ELSE s.day
  IN {At(day, minute)}

(* The instant: a time alone is the next such time, a weekday whose time   *)
(* is over is the one a week later, another day that is over is refused.   *)
Instant(s, present, today) ==
  LET minute == IF s.at = Unset THEN DefaultHour * 60 ELSE s.at
      day == IF s.day = Unset THEN today ELSE s.day
      later == IF s.day = Unset THEN {1} ELSE IF s.weekday THEN {7} ELSE {}
  IN IF At(day, minute) > present THEN {At(day, minute)} ELSE {At(day + n, minute) : n \in later}

Read(words, today) ==
  LET read[i \in 0 .. Len(words)] == IF i = 0 THEN Unread ELSE ReadWord(read[i - 1], words, i, today)
  IN read[Len(words)]

Meaning(s, present) ==
  IF s.bad \/ (s.day = Unset /\ s.at = Unset) THEN {} ELSE Instant(s, present, LocalDay(present))

(* Parse. *)
Parse(words, present) ==
  IF words = <<>> THEN {}
  ELSE IF Is(words, 1, "in") THEN Relative(Tail(words), present)
  ELSE Meaning(Read(words, LocalDay(present)), present)

(* SplitWhen: the longest prefix of at most six words that is a time, and  *)
(* the words that follow it.                                               *)
Longest(splits) == {x \in splits : \A y \in splits : Len(x.text) <= Len(y.text)}
SplitWhen(words, present) ==
  Longest(UNION {{[when |-> t, text |-> SubSeq(words, n + 1, Len(words))] : t \in Parse(SubSeq(words, 1, n), present)}
                 : n \in 1 .. Min({Len(words), 6})})

(* ParseSnooze: a duration, or else any time expression. *)
ParseSnooze(words, present) ==
  LET duration == IF words = <<>> \/ Is(words, 1, "in") THEN {} ELSE Relative(words, present)
  IN duration \cup {t \in Parse(words, present) : duration = {}}
=============================================================================
