----------------------------- MODULE RuleEngine -----------------------------
(***************************************************************************)
(* The rule engine at work (rule_manager.c, rule_execution.c).  Threads:   *)
(*                                                                         *)
(*   "timer"    RuleMgr_CheckAndExecute: about once a second it checks the *)
(*              rules that start with a timer;                             *)
(*   Reporters  application threads in IOTA_PropertiesReport, which caches *)
(*              the reported values and checks the other rules;            *)
(*   Slots      threads made by executeCommandCallback, one per command;   *)
(*              they call the application's handler, which may itself      *)
(*              report a property.                                         *)
(*                                                                         *)
(* g_ruleMutex (lock) protects the rules; nothing protects the cache of    *)
(* reported values, g_cacheDeviceDataJSON.  A service has one property, so *)
(* services stand for properties.  The rules themselves do not change      *)
(* here: RuleStore is about that.                                          *)
(***************************************************************************)
EXTENDS RuleTime, Sequences, TLC

CONSTANTS
  Rules,          \* g_ruleInfosList
  Reporters,      \* application threads that report properties
  Slots,          \* threads the process may have for commands
  Services,       \* services of the device
  NoReport,       \* "this caller reports nothing"
  Values,         \* values the application reports
  HandlerValues,  \* values the command handler may report; {}: it reports none
  Boot,           \* clock when the engine starts
  Horizon,        \* bound: last instant looked at
  LateHorizon,    \* bound: the same when rounds of the timer may be late
  MaxReports,     \* bound: reports of the application
  Prompt          \* the schedulers looked at: see prompt

\* A condition is a timer or a comparison of a service's value.
IsDaily(c) == c.kind = "daily"
IsSimple(c) == c.kind = "simple"
IsData(c) == c.kind = "data"

DailyTimers == [kind : {"daily"}, time : Nat, days : SUBSET DayBits]

SimpleTimers == [kind : {"simple"}, start : Int, interval : Nat \ {0}, count : Int]

Comparisons ==
  [kind : {"data"}, service : Services, op : {"<", "=", ">", "<=", ">="}, value : Int]
    \cup [kind : {"data"}, service : Services, op : {"between"}, value : Int, high : Int]

RuleInfo ==
  [active : BOOLEAN, logic : {"and", "or"}, commands : Nat,
   range : [days : SUBSET DayBits, start : Int, end : Int],
   conds : Seq(DailyTimers \cup SimpleTimers \cup Comparisons)]

Timer == "timer"
NoThread == "none"
Callers == Reporters \cup Slots
Threads == Callers \cup {Timer}

ASSUME EngineAssumption ==
  /\ Rules \in Seq(RuleInfo)
  /\ Values \cup HandlerValues \subseteq Int
  /\ Boot \in Nat /\ Boot >= Minute
  /\ Horizon \in Nat /\ LateHorizon \in Boot..Horizon /\ MaxReports \in Nat
  /\ Prompt \subseteq BOOLEAN
  /\ Reporters \cap Slots = {} /\ {Timer, NoThread} \cap Callers = {}

VARIABLES
  prompt,   \* TRUE: the scheduler lets a round of the timer end within its second
  clock,    \* seconds
  lock,     \* owner of g_ruleMutex
  pc,       \* where each thread is
  wake,     \* when the timer thread's usleep ends
  now,      \* epochTime of each thread's round
  idx,      \* the rule a round looks at next
  report,   \* what a caller reports
  cache,    \* g_cacheDeviceDataJSON: a sequence of [service, value]
  last,     \* lastExecutedTime of each condition of each rule
  reports,  \* reports of the application so far
  fired,    \* history: epochTime of the rounds of the timer that executed a rule
  alone,    \* history: callers whose report overlaps no other report
  overlap   \* history: two reports have overlapped

vars == <<prompt, clock, lock, pc, wake, now, idx, report, cache, last, reports, fired, alone, overlap>>

PCs == {"idle", "drop", "add", "wantCheck", "checking", "wantPeek", "handler"}
Report == [service : Services, value : Values \cup HandlerValues]

TypeOK ==
  /\ clock \in Boot..Horizon
  /\ lock \in Threads \cup {NoThread}
  /\ pc \in [Threads -> PCs]
  /\ wake \in Boot..(Horizon + 1)
  /\ now \in [Threads -> 0..Horizon]
  /\ idx \in [Threads -> 1..(Len(Rules) + 1)]
  /\ report \in [Callers -> Report \cup {NoReport}]
  /\ cache \in Seq(Report)
  /\ \A i \in DOMAIN Rules : \A k \in DOMAIN Rules[i].conds :
       last[i][k] \in [WeekDays -> 0..Horizon]
  /\ reports \in 0..MaxReports
  /\ fired \in [DOMAIN Rules -> Seq(Boot..Horizon)]
  /\ alone \subseteq Callers
  /\ prompt \in Prompt /\ overlap \in BOOLEAN

Init ==
  /\ prompt \in Prompt
  /\ clock = Boot
  /\ lock = NoThread
  /\ pc = [t \in Threads |-> "idle"]
  /\ wake = Boot
  /\ now = [t \in Threads |-> 0]
  /\ idx = [t \in Threads |-> 1]
  /\ report = [t \in Callers |-> NoReport]
  /\ cache = <<>>
  /\ last = [i \in DOMAIN Rules |->
               [k \in DOMAIN Rules[i].conds |-> [d \in WeekDays |-> 0]]]
  /\ reports = 0
  /\ fired = [i \in DOMAIN Rules |-> <<>>]
  /\ alone = {}
  /\ overlap = FALSE

-----------------------------------------------------------------------------
(* CheckRuleInfoListAndExecute for one rule.                               *)

\* IOTA_JsonFindServiceInListById: the first entry of the service.
Entries(s) == {i \in DOMAIN cache : cache[i].service = s}
First(s) == CHOOSE i \in Entries(s) : \A j \in Entries(s) : i <= j
CachedValue(s) == cache[First(s)].value

\* CalculateDeviceDataCondition on a number.
Compare(c, v) ==
  CASE c.op = "<" -> v < c.value
    [] c.op = "=" -> v = c.value
    [] c.op = ">" -> v > c.value
    [] c.op = "<=" -> v <= c.value
    [] c.op = ">=" -> v >= c.value
    [] c.op = "between" -> c.value <= v /\ v <= c.high

Met(i, k, t) ==
  LET c == Rules[i].conds[k]
  IN CASE IsDaily(c) -> DailyDue(c, last[i][k], t)
       [] IsSimple(c) -> SimpleDue(c, t)
       [] IsData(c) -> Compare(c, CachedValue(c.service))

\* RuleInfoHasTimer looks at the first condition only.
HasTimer(i) ==
  Rules[i].conds # <<>> /\ ~ IsData(Rules[i].conds[1])

\* CalculateConditions: an unreadable property makes the rule be skipped.  What
\* IsTriggeredByTimer found before is overwritten.
ConditionsHold(i, t) ==
  LET ks == DOMAIN Rules[i].conds
  IN /\ \A k \in ks : LET c == Rules[i].conds[k]
                      IN IsData(c) => Entries(c.service) # {}
     /\ IF Rules[i].logic = "and" THEN \A k \in ks : Met(i, k, t)
                                  ELSE \E k \in ks : Met(i, k, t)

Executes(i, isTimer, t) ==
  /\ Rules[i].active
  /\ HasTimer(i) = isTimer
  /\ Allowed(Rules[i].range, t)
  /\ ConditionsHold(i, t)

\* Bug: an executed daily timer is not marked.
UnmarkedAfter(i, t) == last[i]

\* Every daily timer of an executed rule is marked.
MarkedAfter(i, t) ==
  [k \in DOMAIN last[i] |->
     LET c == Rules[i].conds[k]
     IN IF IsDaily(c) THEN DailyMarked(c, last[i][k], t) ELSE last[i][k]]

\* A thread slot is free when no command thread occupies it; without a free one
\* pthread_create fails and the command is dropped.
FreeSlots == {s \in Slots : pc[s] = "idle"}

\* ExecuteActionList: a new thread for each enabled command.
Started(i) ==
  {S \in SUBSET FreeSlots :
     IF Rules[i].commands <= Cardinality(FreeSlots)
     THEN Cardinality(S) = Rules[i].commands ELSE S = FreeSlots}

\* Bug: the handler is called on the thread that holds g_ruleMutex.
CheckRuleInline(t) ==
  LET i == idx[t]
      runs == Executes(i, t = Timer, now[t])
  IN /\ pc[t] = "checking"
     /\ i <= Len(Rules)
     /\ pc' = IF runs /\ Rules[i].commands > 0 THEN [pc EXCEPT ![t] = "wantCheck"] ELSE pc
     /\ last' = IF runs THEN [last EXCEPT ![i] = MarkedAfter(i, now[t])] ELSE last
     /\ fired' = IF runs /\ t = Timer THEN [fired EXCEPT ![i] = Append(@, now[t])] ELSE fired
     /\ idx' = [idx EXCEPT ![t] = i + 1]
     /\ UNCHANGED <<prompt, clock, lock, wake, now, report, cache, reports, alone, overlap>>

CheckRule(t) ==
  LET i == idx[t]
      runs == Executes(i, t = Timer, now[t])
  IN /\ pc[t] = "checking"
     /\ i <= Len(Rules)
     /\ \E S \in (IF runs THEN Started(i) ELSE {{}}) :
          pc' = [u \in Threads |-> IF u \in S THEN "handler" ELSE pc[u]]
     /\ last' = IF runs THEN [last EXCEPT ![i] = MarkedAfter(i, now[t])] ELSE last
     /\ fired' = IF runs /\ t = Timer THEN [fired EXCEPT ![i] = Append(@, now[t])] ELSE fired
     /\ idx' = [idx EXCEPT ![t] = i + 1]
     /\ UNCHANGED <<prompt, clock, lock, wake, now, report, cache, reports, alone, overlap>>

\* pthread_mutex_lock, with the clock already read.
LockToCheck(t) ==
  /\ pc[t] = "wantCheck"
  /\ lock = NoThread
  /\ lock' = t
  /\ pc' = [pc EXCEPT ![t] = "checking"]
  /\ idx' = [idx EXCEPT ![t] = 1]
  /\ UNCHANGED <<prompt, clock, wake, now, report, cache, last, reports, fired, alone, overlap>>

\* The end of a round.  The timer thread sleeps to the next full second; a
\* report is over, and with it the command thread that made it.
Checked(t) ==
  /\ pc[t] = "checking"
  /\ idx[t] > Len(Rules)
  /\ lock' = NoThread
  /\ pc' = [pc EXCEPT ![t] = "idle"]
  /\ wake' = IF t = Timer THEN clock + 1 ELSE wake
  /\ report' = IF t = Timer THEN report ELSE [report EXCEPT ![t] = NoReport]
  /\ alone' = alone \ {t}
  /\ UNCHANGED <<prompt, clock, now, idx, cache, last, reports, fired, overlap>>

-----------------------------------------------------------------------------
(* The timer thread.                                                       *)

\* The clock is read first, then the list is looked at under the lock.
TimerWake ==
  /\ pc[Timer] = "idle"
  /\ clock >= wake
  /\ now' = [now EXCEPT ![Timer] = clock]
  /\ pc' = [pc EXCEPT ![Timer] = "wantPeek"]
  /\ UNCHANGED <<prompt, clock, lock, wake, idx, report, cache, last, reports, fired, alone, overlap>>

TimerPeek ==
  /\ pc[Timer] = "wantPeek"
  /\ lock = NoThread
  /\ pc' = [pc EXCEPT ![Timer] = IF Rules = <<>> THEN "idle" ELSE "wantCheck"]
  /\ wake' = IF Rules = <<>> THEN clock + 1 ELSE wake
  /\ UNCHANGED <<prompt, clock, lock, now, idx, report, cache, last, reports, fired, alone, overlap>>

-----------------------------------------------------------------------------
(* IOTA_PropertiesReportPayload, for any caller.                           *)

Reporting == {t \in Callers : pc[t] \in {"drop", "add", "wantCheck", "checking"}}

BeginReport(t, r) ==
  /\ report' = [report EXCEPT ![t] = r]
  /\ pc' = [pc EXCEPT ![t] = "drop"]
  /\ alone' = IF Reporting = {} THEN {t} ELSE {}
  /\ overlap' = (overlap \/ Reporting # {})
  /\ UNCHANGED <<prompt, clock, lock, wake, now, idx, cache, last, fired>>

IOTA_PropertiesReport(t, r) ==
  /\ t \in Reporters
  /\ pc[t] = "idle"
  /\ reports < MaxReports
  /\ reports' = reports + 1
  /\ BeginReport(t, r)

\* Bug: the old entry of the service is kept.
CacheDropNothing(t) ==
  /\ pc[t] = "drop"
  /\ pc' = [pc EXCEPT ![t] = "add"]
  /\ UNCHANGED <<prompt, clock, lock, wake, now, idx, report, cache, last, reports, fired, alone, overlap>>

\* RuleMgr_CachePropertiesValue, first half: the old entry is deleted.
CacheDrop(t) ==
  LET s == report[t].service
  IN /\ pc[t] = "drop"
     /\ cache' = IF Entries(s) = {} THEN cache
                 ELSE SubSeq(cache, 1, First(s) - 1)
                        \o SubSeq(cache, First(s) + 1, Len(cache))
     /\ pc' = [pc EXCEPT ![t] = "add"]
     /\ UNCHANGED <<prompt, clock, lock, wake, now, idx, report, last, reports, fired, alone, overlap>>

\* Second half: the new entry is added.  RuleMgr_CheckAndExecuteNoTimers then
\* reads the clock.
CacheAdd(t) ==
  /\ pc[t] = "add"
  /\ cache' = Append(cache, report[t])
  /\ now' = [now EXCEPT ![t] = clock]
  /\ pc' = [pc EXCEPT ![t] = "wantCheck"]
  /\ UNCHANGED <<prompt, clock, lock, wake, idx, report, last, reports, fired, alone, overlap>>

-----------------------------------------------------------------------------
(* The application's command handler, on a thread of its own.              *)

HandlerReturns(s) ==
  /\ pc[s] = "handler"
  /\ pc' = [pc EXCEPT ![s] = "idle"]
  /\ UNCHANGED <<prompt, clock, lock, wake, now, idx, report, cache, last, reports, fired, alone, overlap>>

HandlerReports(s, r) ==
  /\ pc[s] = "handler"
  /\ r.value \in HandlerValues
  /\ BeginReport(s, r)
  /\ UNCHANGED reports

-----------------------------------------------------------------------------
Tick ==
  /\ clock < IF prompt THEN Horizon ELSE LateHorizon
  /\ prompt => pc[Timer] = "idle" /\ clock < wake
  /\ clock' = clock + 1
  /\ UNCHANGED <<prompt, lock, pc, wake, now, idx, report, cache, last, reports, fired, alone, overlap>>

Step(t) ==
  \/ LockToCheck(t) \/ CheckRule(t) \/ Checked(t)
  \/ t = Timer /\ (TimerWake \/ TimerPeek)
  \/ t \in Callers /\ (CacheDrop(t) \/ CacheAdd(t))
  \/ t \in Slots /\ (HandlerReturns(t) \/ \E r \in Report : HandlerReports(t, r))

Next ==
  \/ Tick
  \/ \E t \in Threads : Step(t)
  \/ \E t \in Reporters, r \in [service : Services, value : Values] :
       IOTA_PropertiesReport(t, r)

\* Every thread that can run is scheduled.
Fairness == \A t \in Threads : WF_vars(Step(t))

Spec == Init /\ [][Next]_vars
FairSpec == Spec /\ Fairness

-----------------------------------------------------------------------------
(* Properties.                                                             *)

\* Rules whose only condition is of a given kind and that nothing else limits.
Only(i, kind) ==
  /\ Rules[i].active /\ Rules[i].range.days = {}
  /\ Len(Rules[i].conds) = 1 /\ Rules[i].conds[1].kind = kind

\* A daily timer executes at most once in its minute, however late the rounds of
\* the timer thread come and however long they wait for g_ruleMutex; and no
\* timer executes outside its schedule.
DailyAtMostOnce ==
  \A i \in DOMAIN Rules : Only(i, "daily") =>
    \A m, n \in DOMAIN fired[i] :
      /\ InDailyMinute(Rules[i].conds[1], fired[i][m])
      /\ m # n => fired[i][m] \div Day # fired[i][n] \div Day

\* The instants a timer is due, by the meaning of its parameters.
Schedule(c) ==
  IF IsDaily(c)
  THEN {t \in Boot..clock : /\ OnDay(c.days, WDay(t))
                            /\ \/ SecOfDay(t) = c.time
                               \/ /\ t = Boot
                                  /\ SecOfDay(t) \in c.time..(c.time + Minute - 1)}
  ELSE {c.start + n * c.interval : n \in 0..(c.count - 1)} \cap (Boot..clock)

\* When each round ends within its second, timers execute exactly at the instants
\* of their schedule, each once: no repetition is lost or doubled.
TimersOnSchedule ==
  prompt /\ pc[Timer] = "idle" /\ clock < wake =>
    \A i \in DOMAIN Rules :
      Only(i, "daily") \/ Only(i, "simple") =>
        /\ {fired[i][n] : n \in DOMAIN fired[i]} = Schedule(Rules[i].conds[1])
        /\ Len(fired[i]) = Cardinality(Schedule(Rules[i].conds[1]))

\* The ranges a rule can have.
TimeRanges == [days : SUBSET DayBits, start : 0..(Day - 1), end : 0..(Day - 1)]

\* The instants of one listed day d of week w that the range covers: within the
\* day, or, over midnight, from the evening before to the morning of d.
Window(tr, w, d) ==
  LET midnight == (w * DaysPerWeek + (d - 1)) * Day
  IN IF tr.start < tr.end THEN (midnight + tr.start)..(midnight + tr.end)
                          ELSE (midnight - Day + tr.start)..(midnight + tr.end)

\* The week an instant is in.
Week(t) == (t \div Day) \div DaysPerWeek

\* The mask arithmetic of CheckRuleInfoListAndExecute admits an instant exactly
\* when it lies in the window of a listed day, also in the night from Saturday
\* to Sunday and from one week to the next: a night counts as that of the day it
\* ends on.  It is a fact about operators, looked at when the engine starts: for every
\* range and every second of the week from then on.
RangeIsUnionOfWindows ==
  Init => \A tr \in TimeRanges, t \in clock..(clock + DaysPerWeek * Day - 1) :
            InTimeRange(tr, t) <=>
              \E w \in 0..(Week(t) + 1), d \in tr.days : t \in Window(tr, w, d)

\* Rule i, whose only condition is on the service that t reports, is judged by
\* that report: it starts its command if and only if the value meets it.
Judged(t, i) ==
  /\ CheckRule(t) /\ idx[t] = i
  /\ Only(i, "data") /\ Rules[i].commands > 0
  /\ Rules[i].conds[1].service = report[t].service
  /\ FreeSlots # {}
  => (FreeSlots' # FreeSlots <=> Compare(Rules[i].conds[1], report[t].value))

\* As long as no two reports have overlapped, each is judged by the value it
\* reports, whatever the timer thread does meanwhile.
ReportTriggers ==
  [][~ overlap => \A t \in alone, i \in DOMAIN Rules : Judged(t, i)]_vars

\* A report that overlaps no other is judged by its value, whatever happened
\* before it: the promise of the README, which does not hold.
LoneReportTriggers ==
  [][\A t \in alone, i \in DOMAIN Rules : Judged(t, i)]_vars

\* Executing commands on threads of their own prevents the deadlock that a handler
\* which reports a property would meet: every round and every command ends.
RoundsEnd == \A t \in Threads : pc[t] # "idle" ~> pc[t] = "idle"

=============================================================================
