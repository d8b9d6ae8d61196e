------------------------------- MODULE Recurrence -------------------------------
(***************************************************************************)
(* The due date of the next occurrence of a recurring task (recurrence.ts  *)
(* and spawnNextOccurrenceIn of service.ts) along a chain of occurrences   *)
(* completed early, in time or late.  A day is a number, whose month, day  *)
(* of the month and day of the week are those of the calendar.             *)
(***************************************************************************)
EXTENDS Integers, FiniteSetsExt

CONSTANTS
    LeapMonths,     \* the Februaries of 29 days; the others have 28
    FirstWeekday,   \* of day 0: 0 for a Monday
    Months,         \* bound: months the calendar holds, from month 0, a January
    Rule,           \* recurrence rules
    NoDue

ASSUME RecurrenceAssumption ==
    /\ Months \in Nat /\ LeapMonths \subseteq Nat /\ FirstWeekday \in 0..6
    /\ \A r \in Rule :
          /\ r.freq \in {"DAILY", "WEEKLY", "MONTHLY", "YEARLY"} /\ r.interval \in 1..365
          /\ r.weekdays \subseteq 1..7 /\ r.monthDay \in 0..31     \* 0: none
    /\ NoDue \notin Int

VARIABLES
    rule,       \* of the chain
    start, due, \* of its last occurrence
    day         \* today

recurrenceVars == <<rule, start, due, day>>

-----------------------------------------------------------------------------
(* The calendar.                                                           *)

DaysInMonth(m) ==
    CASE m % 12 = 1             -> IF m \in LeapMonths THEN 29 ELSE 28
      [] m % 12 \in {3, 5, 8, 10} -> 30
      [] OTHER                  -> 31

MonthStart[m \in 0..Months] == IF m = 0 THEN 0 ELSE MonthStart[m - 1] + DaysInMonth(m - 1)

Calendar == 0..(MonthStart[Months] - 1)
MonthOf == [d \in Calendar |-> CHOOSE m \in 0..(Months - 1) : MonthStart[m] <= d /\ d < MonthStart[m + 1]]
DayOfMonth(d) == d - MonthStart[MonthOf[d]] + 1
IsoWeekday(d) == ((d + FirstWeekday) % 7) + 1
Monday(d) == d + 1 - IsoWeekday(d)

-----------------------------------------------------------------------------
(* recurrence.ts.                                                          *)

Least(a, b) == IF a <= b THEN a ELSE b

\* The day asked for, or the last of a shorter month.
AddMonths(d, months, targetDay) ==
    LET m == MonthOf[d] + months
        wanted == IF targetDay = 0 THEN DayOfMonth(d) ELSE targetDay
    IN  MonthStart[m] + Least(wanted, DaysInMonth(m)) - 1

\* Seeded fault: the weeks skipped are counted from the day, not from its Monday.
WeeksLaterFromDay(r, d) == d + 7 * r.interval + Min(r.weekdays) - 1

WeeksLater(r, d) == Monday(d) + 7 * r.interval + Min(r.weekdays) - 1

NextOccurrence(r, d) ==
    CASE r.freq = "DAILY" -> d + r.interval
      [] r.freq = "WEEKLY" ->
            LET later == {w \in r.weekdays : w > IsoWeekday(d)}
            IN  IF r.weekdays = {} THEN d + 7 * r.interval
                ELSE IF later # {} THEN d + Min(later) - IsoWeekday(d)
                ELSE WeeksLater(r, d)
      [] r.freq = "MONTHLY" -> AddMonths(d, r.interval, r.monthDay)
      [] OTHER -> AddMonths(d, 12 * r.interval, 0)

\* Without a due date, the occurrences are counted from today.
Source == IF due = NoDue THEN day ELSE due

Latest == IF Source >= day THEN Source ELSE day
MonthsLater == IF rule.freq = "YEARLY" THEN 12 * rule.interval ELSE rule.interval

\* The loop that catches up stops there.  Every pass of it goes a day later at least.
Passes == 1000

\* Bound: the occurrence is not so late that the loop could stop short, and the calendar
\* holds the one that follows today and the due date.
Covered ==
    /\ Latest - Source <= Passes /\ Latest \in Calendar
    /\ rule.freq \in {"MONTHLY", "YEARLY"} => MonthOf[Latest] + MonthsLater < Months

\* Occurrences that are late already are passed.
CatchUp[d \in 0..Latest] ==
    LET next == NextOccurrence(rule, d) IN
    IF next >= day THEN next ELSE CatchUp[next]

-----------------------------------------------------------------------------
RecurrenceInit ==
    /\ rule \in Rule /\ day \in Calendar
    /\ due \in Calendar \cup {NoDue} /\ start \in Calendar \cup {NoDue}
    /\ start # NoDue /\ due # NoDue => start <= due

\* The occurrence is completed: the next one lasts as many days.
SpawnNextOccurrence ==
    /\ due' = CatchUp[Source]
    /\ start' = IF start = NoDue \/ due = NoDue THEN NoDue ELSE due' - (due - start)
    /\ UNCHANGED <<rule, day>>

NextDay == day' = day + 1 /\ UNCHANGED <<rule, start, due>>

RecurrenceNext == Covered /\ (SpawnNextOccurrence \/ NextDay)

RecurrenceSpec == RecurrenceInit /\ [][RecurrenceNext]_recurrenceVars

-----------------------------------------------------------------------------
(* Properties.                                                             *)

\* The days a rule names after an occurrence.  A month that lacks the day asked for has
\* its last day instead; the month of the occurrence has no other.
Named(d) ==
    CASE rule.freq = "DAILY" -> (d - Source) % rule.interval = 0
      [] rule.freq = "WEEKLY" ->
            /\ (Monday(d) - Monday(Source)) % (7 * rule.interval) = 0
            /\ IF rule.weekdays = {} THEN IsoWeekday(d) = IsoWeekday(Source) ELSE IsoWeekday(d) \in rule.weekdays
      [] OTHER ->
            LET wanted == IF rule.freq = "YEARLY" \/ rule.monthDay = 0 THEN DayOfMonth(Source) ELSE rule.monthDay
            IN  /\ MonthOf[d] > MonthOf[Source] /\ (MonthOf[d] - MonthOf[Source]) % MonthsLater = 0
                /\ DayOfMonth(d) = Least(wanted, DaysInMonth(MonthOf[d]))

\* Without a day in the rule, a day of the month that some months lack is lost after them.
Drifts ==
    \/ rule.freq = "MONTHLY" /\ rule.monthDay = 0 /\ DayOfMonth(Source) > 28
    \/ rule.freq = "YEARLY" /\ MonthOf[Source] % 12 = 1 /\ DayOfMonth(Source) > 28

\* The next occurrence is due on the first day the rule names, from today on: a late
\* completion skips no day that is still to come and adds none that is past.
FirstNamedDay ==
    [][SpawnNextOccurrence /\ ~Drifts =>
          /\ due' > Source /\ due' >= day /\ Named(due')
          /\ \A d \in (Source + 1)..(due' - 1) : d >= day => ~Named(d)]_recurrenceVars
=============================================================================
