------------------------------ MODULE RuleTime ------------------------------
(***************************************************************************)
(* The clock arithmetic of the rule engine (rule_execution.c): when a time *)
(* range contains an instant, when a daily or a simple timer is due.       *)
(*                                                                         *)
(* An instant counts seconds from the midnight that begins a Sunday.  The  *)
(* length of a day, of a minute and of a week are parameters, so that a    *)
(* week can be checked exhaustively.  A set of days is the bit mask        *)
(* DaysOfWeekRecord: member d is bit d, 1 is Sunday.                       *)
(***************************************************************************)
EXTENDS Integers, FiniteSets

CONSTANTS Day,         \* seconds of a day
          Minute,      \* seconds of a minute
          DaysPerWeek

ASSUME ClockAssumption ==
  /\ Day \in Nat \ {0}
  /\ Minute \in Nat \ {0} /\ 2 * Minute <= Day
  /\ DaysPerWeek \in Nat \ {0}

WeekDays == 0..(DaysPerWeek - 1)  \* tm_wday
DayBits == 1..DaysPerWeek         \* bits of DaysOfWeekRecord
Saturday == DaysPerWeek           \* DaysOfWeekSaturday

WDay(t) == (t \div Day) % DaysPerWeek
SecOfDay(t) == t % Day

\* Bit tm_wday + 1 of the mask is set.
OnDay(days, wday) == wday + 1 \in days

-----------------------------------------------------------------------------
\* Bug: the day before Sunday is forgotten.
DayBeforeWithoutWrap(days) == {d - 1 : d \in days}

\* daysOfWeek >> 1, with the bit that falls out put back as Saturday.
DayBefore(days) ==
  LET shifted == {d - 1 : d \in days}
  IN IF 0 \in shifted THEN shifted \cup {Saturday} ELSE shifted

\* A range of a rule: from start to end inclusive on the days of its mask; if
\* it ends before it starts it runs over midnight.
InTimeRange(tr, t) ==
  IF tr.start < tr.end
  THEN OnDay(tr.days, WDay(t)) /\ tr.start <= SecOfDay(t) /\ SecOfDay(t) <= tr.end
  ELSE \/ OnDay(tr.days, WDay(t)) /\ SecOfDay(t) <= tr.end
       \/ OnDay(DayBefore(tr.days), WDay(t)) /\ SecOfDay(t) >= tr.start

\* TimeRangeIsNuLL: a rule without a range is never restricted.
Allowed(tr, t) == tr.days = {} \/ InTimeRange(tr, t)

-----------------------------------------------------------------------------
\* t is in the minute of a daily timer.
InDailyMinute(c, t) ==
  /\ OnDay(c.days, WDay(t))
  /\ c.time <= SecOfDay(t)
  /\ SecOfDay(t) < c.time + Minute

\* CalculateDailyTimerCondition; last is lastExecutedTime.
DailyDue(c, last, t) ==
  InDailyMinute(c, t) /\ t - last[WDay(t)] >= Minute

\* Bug: the end of the minute is recorded in place of the instant.
DailyMarkedToEnd(c, last, t) ==
  IF InDailyMinute(c, t) THEN [last EXCEPT ![WDay(t)] = t + Minute] ELSE last

\* DailyTimerConditionMarkDayIsExecuted.
DailyMarked(c, last, t) ==
  IF InDailyMinute(c, t) THEN [last EXCEPT ![WDay(t)] = t] ELSE last

\* Bug: one repetition too many.
SimpleDueOnceMore(c, t) ==
  /\ t >= c.start
  /\ (t - c.start) % c.interval = 0
  /\ (t - c.start) \div c.interval <= c.count

\* CalculateSimpleTimerCondition, for an interval that is not zero.
SimpleDue(c, t) ==
  /\ t >= c.start
  /\ (t - c.start) % c.interval = 0
  /\ (t - c.start) \div c.interval < c.count

=============================================================================
