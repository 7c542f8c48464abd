------------------------------ MODULE Rfc3339 ------------------------------
(***************************************************************************)
(* rfc3339_to_epoch_ms (src/src/exchanges/mod.rs): the exchange's clock    *)
(* walks through the calendar and stamps messages; other texts of the same *)
(* shape arrive as well.  A text is given by its fields, each a number or  *)
(* Bad; an instant is a pair of a day and a millisecond of the day, since  *)
(* milliseconds since the epoch do not fit TLC's integers.                 *)
(***************************************************************************)
EXTENDS Integers, FiniteSets, Sequences

CONSTANTS
  FirstYears,   \* years in which a walk can begin
  MaxDays,      \* bound: days of a walk
  Times,        \* times of the day at which a message can be stamped
  Others,       \* texts that are not stamps of the clock
  Bad,          \* a field that does not parse as a number
  None

VARIABLES
  date,     \* the day on the exchange's calendar
  days,     \* its distance from 1970-01-01
  walked,   \* days walked so far
  text,     \* the last text received
  sentAt,   \* the instant the clock stamped it, None if it did not
  parsed    \* what rfc3339_to_epoch_ms made of it

clockVars == <<date, days, walked, text, sentAt, parsed>>

DayMs == 86400000

\* A time of the day: ms milliseconds after the second, written as the digits
\* frac of a fraction, of which zeros at the end may be left out and further
\* digits added.
Written(frac, ms) ==
  LET digits == <<ms \div 100, (ms \div 10) % 10, ms % 10>>
  IN  \A i \in 1 .. 3 : digits[i] = IF i <= Len(frac) THEN frac[i] ELSE 0
Time ==
  {t \in [hour : 0 .. 23, min : 0 .. 59, sec : 0 .. 59,
          frac : Seq(0 .. 9), ms : 0 .. 999] : Written(t.frac, t.ms)}

Field == Int \cup {Bad}
Text  == [parts : BOOLEAN, year : Field, month : Field, day : Field,
          hour : Field, min : Field, sec : Field, frac : Seq((0 .. 9) \cup {Bad})]

ASSUME StampAssumption ==
  /\ FirstYears \subseteq Int /\ MaxDays \in Nat /\ Bad \notin Int
  /\ Times \subseteq Time /\ Others \subseteq Text

----------------------------------------------------------------------------
(* The calendar.                                                           *)

Leap(y)  == y % 4 = 0 /\ (y % 100 # 0 \/ y % 400 = 0)
LastDay(y, m) ==
  IF m = 2 THEN IF Leap(y) THEN 29 ELSE 28
  ELSE IF m \in {4, 6, 9, 11} THEN 30 ELSE 31

Tomorrow(d) ==
  IF d.day < LastDay(d.year, d.month) THEN [d EXCEPT !.day = @ + 1]
  ELSE IF d.month < 12 THEN [d EXCEPT !.month = @ + 1, !.day = 1]
  ELSE [year |-> d.year + 1, month |-> 1, day |-> 1]

\* From 1970-01-01 to the first day of y.
DaysBefore(y) ==
  IF y >= 1970 THEN 365 * (y - 1970) + Cardinality({k \in 1970 .. y - 1 : Leap(k)})
               ELSE 365 * (y - 1970) - Cardinality({k \in y .. 1969 : Leap(k)})

----------------------------------------------------------------------------
(* The code.                                                               *)

\* Mutant: the rule for full centuries is left out.
DaysFromCivilJulian(y0, m, d) ==
  LET y   == IF m <= 2 THEN y0 - 1 ELSE y0
      era == y \div 400
      yoe == y - era * 400
      doy == (153 * (IF m > 2 THEN m - 3 ELSE m + 9) + 2) \div 5 + d - 1
  IN  era * 146097 + yoe * 365 + yoe \div 4 + doy - 719468

\* days_from_civil; \div rounds down where the code corrects for rounding to
\* zero.
DaysFromCivil(y0, m, d) ==
  LET y   == IF m <= 2 THEN y0 - 1 ELSE y0
      era == y \div 400
      yoe == y - era * 400
      doy == (153 * (IF m > 2 THEN m - 3 ELSE m + 9) + 2) \div 5 + d - 1
      doe == yoe * 365 + yoe \div 4 - yoe \div 100 + doy
  IN  era * 146097 + doe - 719468

\* The first three digits of the fraction, padded on the right.
Millis(frac) ==
  LET digit(i) == IF i <= Len(frac) THEN frac[i] ELSE 0
  IN  100 * digit(1) + 10 * digit(2) + digit(3)

\* Mutant: an instant before the epoch is passed on.
NotNegativeUnchecked(instant) == instant

\* u64::try_from
NotNegative(instant) == IF instant[1] < 0 THEN None ELSE instant

\* The instant that is ms after the beginning of day n.
Instant(n, ms) == <<n + ms \div DayMs, ms % DayMs>>

\* t.parts: the text ends in Z and has one T, three parts of a date and three
\* of a time.
Parse(t) ==
  IF \/ ~t.parts
     \/ Bad \in {t.year, t.month, t.day, t.hour, t.min, t.sec}
     \/ t.month \notin 1 .. 12 \/ t.day \notin 1 .. 31
     \/ t.hour > 23 \/ t.min > 59 \/ t.sec > 60
     \/ \E i \in DOMAIN t.frac : t.frac[i] = Bad
  THEN None
  ELSE NotNegative(Instant(DaysFromCivil(t.year, t.month, t.day),
         ((t.hour * 60 + t.min) * 60 + t.sec) * 1000 + Millis(t.frac)))

----------------------------------------------------------------------------
(* Messages.                                                               *)

ClockInit ==
  /\ \E y \in FirstYears :
       date = [year |-> y, month |-> 1, day |-> 1] /\ days = DaysBefore(y)
  /\ walked = 0
  /\ text = None /\ sentAt = None /\ parsed = None

\* Midnight.
NextDay ==
  /\ walked < MaxDays
  /\ date' = Tomorrow(date) /\ days' = days + 1 /\ walked' = walked + 1
  /\ text' = None /\ sentAt' = None /\ parsed' = None

Receive(t, from) ==
  /\ text' = t /\ sentAt' = from /\ parsed' = Parse(t)
  /\ UNCHANGED <<date, days, walked>>

\* A message stamped by the clock, its fraction written with any precision.
Stamped(t) ==
  [parts |-> TRUE, year |-> date.year, month |-> date.month, day |-> date.day,
   hour |-> t.hour, min |-> t.min, sec |-> t.sec, frac |-> t.frac]
Stamp ==
  \E t \in Times :
    Receive(Stamped(t), <<days, t.hour * 3600000 + t.min * 60000 + t.sec * 1000 + t.ms>>)

ReceiveOther == \E t \in Others : Receive(t, None)

ClockNext == NextDay \/ Stamp \/ ReceiveOther

ClockSpec == ClockInit /\ [][ClockNext]_clockVars

----------------------------------------------------------------------------
(* Properties.                                                             *)

\* What is handed on fits a u64 and a millisecond belongs to one day.
InstantOK ==
  /\ date.month \in 1 .. 12 /\ date.day \in 1 .. LastDay(date.year, date.month)
  /\ parsed \in (Nat \X (0 .. DayMs - 1)) \cup {None}

\* A time stamp of the exchange's clock is read as the instant at which it was
\* taken, on every day of the calendar and with every precision; only
\* instants before the epoch have none.
ReadsTheClock ==
  sentAt # None => parsed = IF days < 0 THEN None ELSE sentAt
============================================================================
