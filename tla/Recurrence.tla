----------------------------- MODULE Recurrence -----------------------------
(***************************************************************************)
(* obsidian-markdown/recurrence.ts: the dates of a recurring task's next   *)
(* occurrence.  A date is a day number; the rrule library is external and  *)
(* modelled by the hits its rules have: a monthly or yearly rule without   *)
(* an explicit day only hits months that have its start's day, which is    *)
(* why the code walks the query back day by day.  The rule is followed on  *)
(* the calendar alone; the distances between a task's dates are measured   *)
(* on the server's clock, which is set forward and back and, in a zone     *)
(* that crosses the date line, leaves out a day.                           *)
(***************************************************************************)
EXTENDS Integers, FiniteSets, FiniteSetsExt

CONSTANTS
  Tasks,            \* recurring tasks: [rule, due, scheduled, start]
  FirstYear,        \* day 0 is January 1 of this year
  ClockChanges,     \* day -> minutes the clock is set forward (or, negative, back) on it
  CompletionDelays, \* days between the reference date and its completion
  MaxCompletions    \* bound: how often a task is completed

VARIABLES
  task,             \* the open occurrence: its rule and dates
  previous,         \* the occurrence completed to get it
  dropScheduled,    \* removeScheduledDateOnRecurrence
  completions

vars == <<task, previous, dropScheduled, completions>>

NoDate == -1        \* a date the task does not have
Horizon == 48       \* months an rrule query looks ahead in this model

-----------------------------------------------------------------------------
(* The calendar: months are numbered from January of FirstYear. *)

Leap(year) == year % 4 = 0 /\ (year % 100 # 0 \/ year % 400 = 0)
YearOf(month) == FirstYear + month \div 12
DaysIn(month) ==
  CASE month % 12 = 1 -> IF Leap(YearOf(month)) THEN 29 ELSE 28
    [] month % 12 \in {3, 5, 8, 10} -> 30
    [] OTHER -> 31

DaysBefore == <<0, 31, 59, 90, 120, 151, 181, 212, 243, 273, 304, 334>>
FirstDay(month) ==
  LET leapDays == {y \in FirstYear .. YearOf(month) :
                     Leap(y) /\ (y < YearOf(month) \/ month % 12 > 1)}
  IN  365 * (month \div 12) + DaysBefore[(month % 12) + 1] + Cardinality(leapDays)
MonthOf(date) ==
  CHOOSE month \in (date \div 31) .. (date \div 28) :
    FirstDay(month) <= date /\ date < FirstDay(month) + DaysIn(month)
DayOf(date) == date - FirstDay(MonthOf(date)) + 1
Date(month, day) == FirstDay(month) + day - 1

-----------------------------------------------------------------------------
(* The clock of the zone: when a day starts, in minutes, and the days it    *)
(* leaves out, whose dates are read as the day after.                       *)
MinutesADay == 24 * 60
Change(day) == ClockChanges[day]
SetForward(days) == MapThenSumSet(Change, DOMAIN ClockChanges \intersect days)
StartOfDay(day) ==
  MinutesADay * day - SetForward({e \in DOMAIN ClockChanges : e < day})

Skipped(day) == day \in DOMAIN ClockChanges /\ Change(day) = MinutesADay
InZone(day) == IF Skipped(day) THEN day + 1 ELSE day

(* The whole days between two starts, cut off toward zero. *)
WholeDays(minutes) ==
  IF minutes >= 0 THEN minutes \div MinutesADay ELSE -((-minutes) \div MinutesADay)

-----------------------------------------------------------------------------
(* RRule.after: the first hit of the rule started on `start' after `day'.   *)
HitsOnDays(start, step, monthDay) ==
  {Date(m, monthDay) : m \in {n \in {MonthOf(start) + k * step : k \in 0 .. Horizon \div step} :
                                monthDay <= DaysIn(n)}}
Hits(rule, start) ==
  IF rule.unit = "day" THEN {start + k * rule.interval : k \in 0 .. 1}
  ELSE HitsOnDays(start, IF rule.unit = "year" THEN 12 * rule.interval ELSE rule.interval,
                  IF rule.monthDay = 0 THEN DayOf(start) ELSE rule.monthDay)
FirstOf(hits) == IF hits = {} THEN NoDate ELSE Min(hits)
RRuleAfter(rule, start, day) ==
  IF rule.count = 1 THEN NoDate
  ELSE FirstOf({hit \in Hits(rule, start) : hit >= start /\ hit > day})

SkipsTooFar(rule, from, hit) ==
  \/ /\ rule.unit = "month" /\ rule.monthDay = 0
     /\ MonthOf(hit) - MonthOf(from) > rule.interval
  \/ /\ rule.unit = "year"
     /\ YearOf(MonthOf(hit)) - YearOf(MonthOf(from)) > rule.interval

(* Mutant: the library's next hit is taken as it is. *)
LibraryHit(rule, anchor) == RRuleAfter(rule, anchor, anchor)

(* correctedNextHit: while the hit skips further than the interval, start   *)
(* and query one day earlier, at most WALK_BACK_ITERATION_CAP times.        *)
WalkBackIterationCap == 100
HitUnlessLate(rule, from, hit, earlier) ==
  IF hit = NoDate \/ ~SkipsTooFar(rule, from, hit) THEN hit ELSE earlier
CorrectedNextHit(rule, anchor) ==
  LET earliest == anchor - Min({WalkBackIterationCap - 1, anchor})
      walk[from \in earliest .. anchor] ==
        HitUnlessLate(rule, from, RRuleAfter(rule, from, from),
                      IF from = earliest THEN NoDate ELSE walk[from - 1])
  IN  walk[anchor]

(* resolvedReferenceDate: the first date present, the scheduled one last    *)
(* when it is about to be dropped.                                          *)
ReferenceDate(dates) ==
  LET first(a, b) == IF a # NoDate THEN a ELSE b
  IN  first(dates.due, IF dropScheduled THEN first(dates.start, dates.scheduled)
                       ELSE first(dates.scheduled, dates.start))

(* nextOccurrenceDates, for a task with at least one date. *)
NextHit(today) ==
  CorrectedNextHit(task.rule, IF task.rule.whenDone THEN today ELSE ReferenceDate(task))

(* shiftByReferenceOffset *)
Shifted(date, reference, next) ==
  InZone(InZone(next) + WholeDays(StartOfDay(date) - StartOfDay(reference)))

NextDates(hit) ==
  LET shifted(date) == IF date = NoDate THEN NoDate
                       ELSE Shifted(date, ReferenceDate(task), hit)
      drops == dropScheduled /\ (task.start # NoDate \/ task.due # NoDate)
  IN  [rule |-> task.rule,
       due |-> shifted(task.due), start |-> shifted(task.start),
       scheduled |-> IF drops THEN NoDate ELSE shifted(task.scheduled)]

-----------------------------------------------------------------------------
Init ==
  /\ task \in Tasks
  /\ previous = [none |-> TRUE]
  /\ dropScheduled \in BOOLEAN
  /\ completions = 0

Complete ==
  \E delay \in CompletionDelays :
    LET today == ReferenceDate(task) + delay
    IN  /\ completions < MaxCompletions
        /\ \E hit \in {NextHit(today)} \ {NoDate} :   \* else completed without a spawn
             task' = NextDates(hit)
        /\ previous' = [task |-> task, today |-> today]
        /\ completions' = completions + 1
        /\ UNCHANGED dropScheduled

Next == Complete

Spec == Init /\ [][Next]_vars
-----------------------------------------------------------------------------
(* The next occurrence is one interval after its anchor, never on or before *)
(* it and never an interval late: a monthly or yearly rule lands in the     *)
(* month its interval names, on the anchor's day or, where that month has   *)
(* no such day, on its last; a rule that names its day waits for a month    *)
(* that has it.  Where the zone skips that day, it is the day after.        *)
ReferenceFields ==
  {f \in {"due", "start", "scheduled"} : previous.task[f] = ReferenceDate(previous.task)}

OneIntervalLater ==
  completions > 0 =>
    LET rule == task.rule
        anchor == IF rule.whenDone THEN previous.today ELSE ReferenceDate(previous.task)
        written == {task[f] : f \in {g \in ReferenceFields : task[g] # NoDate}}
    IN  \E next \in written \union {day - 1 : day \in written} :
          /\ written = {InZone(next)}
          /\ next > anchor
          /\ rule.unit = "day" => next = anchor + rule.interval
          /\ rule.unit # "day" /\ rule.monthDay = 0 =>
               /\ MonthOf(next) - MonthOf(anchor)
                    = rule.interval * (IF rule.unit = "year" THEN 12 ELSE 1)
               /\ DayOf(next) = Min({DayOf(anchor), DaysIn(MonthOf(next))})
          /\ rule.unit = "month" /\ rule.monthDay # 0 =>
               /\ DayOf(next) = rule.monthDay
               /\ \A m \in MonthOf(anchor) .. MonthOf(next) - 1 :
                    (m - MonthOf(anchor)) % rule.interval = 0 /\ rule.monthDay <= DaysIn(m)
                      => Date(m, rule.monthDay) <= anchor

(* The dates of an occurrence move together: every date that survives keeps *)
(* its distance to the one the rule moved, and none appears or disappears   *)
(* but the scheduled date the setting drops, which never is the only one.   *)
(* The distance changes where the clock makes it, and nowhere else: it      *)
(* loses the days, begun ones included, that the clock was set forward      *)
(* between the two old dates, which is one for an hour in spring; and a new *)
(* date the zone skips is a day later.                                      *)
Apart(dates, f, g) == dates[f] - dates[g]
DaysBetween(old, f, g) == Min({old[f], old[g]}) .. Max({old[f], old[g]}) - 1
DaysLost(minutes) == -((-minutes) \div MinutesADay)
Closer(distance, days) == IF distance > 0 THEN distance - days ELSE distance + days

DatesMoveTogether ==
  completions > 0 =>
    LET old == previous.task
        fields == {"due", "scheduled", "start"}
        kept == {f \in fields : task[f] # NoDate}
    IN  /\ kept \intersect ReferenceFields # {}
        /\ \A f \in kept, g \in kept \intersect ReferenceFields :
             LET lost == DaysLost(SetForward(DaysBetween(old, f, g)))
                 distance == Closer(Apart(old, f, g), lost)
             IN  \/ Apart(task, f, g) = distance
                 \/ Apart(task, f, g) = distance + 1 /\ Skipped(task[f] - 1)
        /\ \A f \in fields \ kept :
             old[f] = NoDate \/ (f = "scheduled" /\ dropScheduled)
        /\ \A f \in kept : old[f] # NoDate
=============================================================================
