--------------------------- MODULE RuleEngineProofs ---------------------------
(***************************************************************************)
(* What the rule engine guarantees for every list of rules, every number   *)
(* of reporters and command threads, and every length of a day, a minute   *)
(* and a week.                                                             *)
(*                                                                         *)
(* Timers rest on the record of lastExecutedTime (DailyRecord): only the   *)
(* timer thread executes a rule that starts with a timer, and what it last *)
(* executed on a day of the week is recorded for that day.  Reports rest   *)
(* on the cache (CacheFollows): with one report at a time it has the entry *)
(* of that report, and no other of its service, until the round is over.   *)
(***************************************************************************)
EXTENDS RuleEngine, WellFoundedInduction, FiniteSetTheorems, SequenceTheorems, TLAPS

\* What lastExecutedTime of the conditions of rule i can be.
Marks(i) == [DOMAIN Rules[i].conds -> [WeekDays -> 0..Horizon]]

\* lastExecutedTime has a place for each condition of each rule.
MarksTyped ==
  /\ last \in [DOMAIN Rules -> UNION {Marks(i) : i \in DOMAIN Rules}]
  /\ \A i \in DOMAIN Rules : last[i] \in Marks(i)

\* A caller between the beginning and the end of its report.
InReport == {"drop", "add", "wantCheck", "checking"}

\* No round has read a clock that is still to come, and who reports has a report.
RoundsTyped ==
  /\ \A t \in Threads : now[t] <= clock
  /\ pc[Timer] \in {"idle", "wantPeek", "wantCheck", "checking"}
  /\ pc[Timer] # "idle" => Boot <= now[Timer]
  /\ \A t \in Callers : pc[t] \in InReport => report[t] \in Report

\* The types of the engine.
EngineTyped == TypeOK /\ MarksTyped /\ RoundsTyped

-----------------------------------------------------------------------------
(* Numbers.                                                                *)

\* A set of naturals that is not empty has a least member.
LEMMA LeastNatural ==
  ASSUME NEW E \in SUBSET Nat, E # {}
  PROVE  \E x \in E : \A y \in E : x <= y
<1> DEFINE R == {xy \in Nat \X Nat : xy[1] < xy[2]}
<1>1. IsWellFoundedOn(R, Nat)
  BY NatLessThanWellFounded DEF OpToRel
<1>2. PICK x \in E : \A y \in E : ~ (<<y, x>> \in R)
  BY <1>1, WFMin, Zenon
<1>3. ASSUME NEW y \in E PROVE x <= y
  <2>1. ~ (<<y, x>> \in R) /\ <<y, x>> \in Nat \X Nat
    BY <1>2
  <2>2. ~ (y < x)
    BY <2>1
  <2> QED BY <2>2
<1> QED BY <1>3

\* Division with remainder.
LEMMA Division ==
  ASSUME NEW D \in Nat \ {0}, NEW t \in Nat
  PROVE  /\ t \div D \in Nat /\ t % D \in 0..(D - 1)
         /\ t = D * (t \div D) + (t % D)
<1>1. t \div D \in Nat /\ t % D \in 0..(D - 1)
  OBVIOUS
<1>2. t = D * (t \div D) + (t % D)
  BY Z3
<1> QED BY <1>1, <1>2

\* The quotient and the remainder of a sum of that form.
LEMMA Recomposed ==
  ASSUME NEW D \in Nat \ {0}, NEW a \in Nat, NEW x \in 0..(D - 1)
  PROVE  (D * a + x) \div D = a /\ (D * a + x) % D = x
<1>1. D * a \in Nat
  OBVIOUS
<1>2. \A y \in 0..(D - 1) : (D * a + y) \div D = a /\ (D * a + y) % D = y
  BY <1>1
<1> QED BY <1>2

\* The day and the second of an instant.
LEMMA DayAndSecond ==
  ASSUME NEW t \in Nat
  PROVE  /\ t \div Day \in Nat /\ SecOfDay(t) \in 0..(Day - 1)
         /\ t = Day * (t \div Day) + SecOfDay(t)
         /\ WDay(t) \in WeekDays
<1>1. Day \in Nat \ {0} /\ DaysPerWeek \in Nat \ {0}
  BY ClockAssumption
<1>2. /\ t \div Day \in Nat /\ t % Day \in 0..(Day - 1)
      /\ t = Day * (t \div Day) + (t % Day)
  BY <1>1, Division
<1>3. (t \div Day) % DaysPerWeek \in 0..(DaysPerWeek - 1)
  BY <1>1, <1>2, Division
<1>4. SecOfDay(t) = t % Day /\ WDay(t) = (t \div Day) % DaysPerWeek
  BY DEF SecOfDay, WDay
<1> QED BY ONLY <1>2, <1>3, <1>4 DEF WeekDays

\* The first entry of a service in the cache is one of its entries.
LEMMA FirstIsEntry ==
  ASSUME NEW s, cache \in Seq(Report), Entries(s) # {}
  PROVE  First(s) \in Entries(s)
<1>1. Entries(s) \in SUBSET Nat
  BY DEF Entries
<1>2. \E i \in Entries(s) : \A j \in Entries(s) : i <= j
  BY <1>1, LeastNatural
<1> QED BY <1>2 DEF First

-----------------------------------------------------------------------------
(* Types.                                                                  *)

\* The engine starts with values of its types.
LEMMA EngineTypedInit == Init => EngineTyped
<1> SUFFICES ASSUME Init PROVE EngineTyped
  OBVIOUS
<1> USE EngineAssumption, ClockAssumption DEF Init
<1>1. TypeOK
  <2>1. 0 \in 0..Horizon /\ 1 \in 1..(Len(Rules) + 1) /\ Boot \in Boot..Horizon /\ Boot \in Boot..(Horizon + 1)
    OBVIOUS
  <2>2. \A i \in DOMAIN Rules : \A k \in DOMAIN Rules[i].conds : last[i][k] \in [WeekDays -> 0..Horizon]
    BY <2>1
  <2>3. fired \in [DOMAIN Rules -> Seq(Boot..Horizon)]
    OBVIOUS
  <2>4. cache \in Seq(Report)
    OBVIOUS
  <2>5. pc \in [Threads -> PCs] /\ now \in [Threads -> 0..Horizon] /\ idx \in [Threads -> 1..(Len(Rules) + 1)]
    BY <2>1 DEF PCs
  <2>6. /\ lock \in Threads \cup {NoThread} /\ report \in [Callers -> Report \cup {NoReport}]
        /\ reports \in 0..MaxReports /\ alone \subseteq Callers
    OBVIOUS
  <2>7. clock \in Boot..Horizon /\ wake \in Boot..(Horizon + 1)
    BY <2>1
  <2>8. prompt \in Prompt /\ overlap \in BOOLEAN
    BY Zenon
  <2> QED BY ONLY <2>2, <2>3, <2>4, <2>5, <2>6, <2>7, <2>8 DEF TypeOK
<1>2. MarksTyped
  <2>1. \A i \in DOMAIN Rules : last[i] \in Marks(i)
    BY DEF Marks
  <2> QED BY <2>1 DEF MarksTyped
<1>3. RoundsTyped
  BY DEF RoundsTyped, InReport, Threads
<1> QED BY <1>1, <1>2, <1>3 DEF EngineTyped

\* Marking the daily timers of a rule leaves its marks of their type.
LEMMA MarkedTyped ==
  ASSUME NEW i \in DOMAIN Rules, MarksTyped, NEW t \in 0..Horizon
  PROVE  MarkedAfter(i, t) \in Marks(i)
<1>1. t \in Nat /\ WDay(t) \in WeekDays
  BY DayAndSecond, EngineAssumption
<1>2. last[i] \in Marks(i)
  BY DEF MarksTyped
<1>3. DOMAIN last[i] = DOMAIN Rules[i].conds
  BY <1>2 DEF Marks
<1>4. \A k \in DOMAIN Rules[i].conds : last[i][k] \in [WeekDays -> 0..Horizon]
  BY <1>2 DEF Marks
<1>5. ASSUME NEW k \in DOMAIN Rules[i].conds, NEW c
      PROVE  DailyMarked(c, last[i][k], t) \in [WeekDays -> 0..Horizon]
  BY <1>4, <1>1 DEF DailyMarked
<1> QED BY <1>3, <1>4, <1>5 DEF MarkedAfter, Marks

\* A step that leaves the history of the rules and the shared cache alone keeps the
\* types if it keeps those of the rest.
LEMMA QuietTyped ==
  ASSUME EngineTyped, UNCHANGED <<last, fired, cache>>,
         clock' \in Boot..Horizon, lock' \in Threads \cup {NoThread}, pc' \in [Threads -> PCs],
         wake' \in Boot..(Horizon + 1), now' \in [Threads -> 0..Horizon],
         idx' \in [Threads -> 1..(Len(Rules) + 1)], report' \in [Callers -> Report \cup {NoReport}],
         reports' \in 0..MaxReports, alone' \subseteq Callers, prompt' \in Prompt, overlap' \in BOOLEAN,
         RoundsTyped'
  PROVE  EngineTyped'
<1>1. TypeOK'
  BY DEF EngineTyped, TypeOK
<1>2. MarksTyped'
  BY DEF EngineTyped, MarksTyped
<1> QED BY <1>1, <1>2 DEF EngineTyped

\* A check of a rule keeps the types.
LEMMA CheckTyped ==
  ASSUME EngineTyped, NEW t \in Threads, CheckRule(t)
  PROVE  EngineTyped'
<1> DEFINE i == idx[t]
           runs == Executes(i, t = Timer, now[t])
<1> USE EngineAssumption
<1>1. i \in DOMAIN Rules /\ i \in Nat /\ i + 1 \in 1..(Len(Rules) + 1) /\ now[t] \in 0..Horizon
  <2>1. idx[t] \in 1..(Len(Rules) + 1) /\ now[t] \in 0..Horizon
    BY DEF EngineTyped, TypeOK
  <2>2. idx[t] <= Len(Rules)
    BY DEF CheckRule
  <2>3. Len(Rules) \in Nat /\ DOMAIN Rules = 1..Len(Rules)
    BY DEF RuleInfo
  <2> QED BY ONLY <2>1, <2>2, <2>3
<1>2. PICK S \in SUBSET FreeSlots : pc' = [u \in Threads |-> IF u \in S THEN "handler" ELSE pc[u]]
  BY DEF CheckRule, Started
<1>3. \A u \in Threads : pc'[u] = pc[u] \/ (u \in Slots /\ pc[u] = "idle" /\ pc'[u] = "handler")
  BY <1>2 DEF FreeSlots
<1>4. pc' \in [Threads -> PCs]
  BY <1>2 DEF EngineTyped, TypeOK, PCs
<1>5. idx' \in [Threads -> 1..(Len(Rules) + 1)]
  BY <1>1 DEF CheckRule, EngineTyped, TypeOK
<1>6. MarksTyped'
  <2>1. MarksTyped /\ MarkedAfter(i, now[t]) \in Marks(i)
    BY <1>1, MarkedTyped DEF EngineTyped
  <2>2. last' = last \/ last' = [last EXCEPT ![i] = MarkedAfter(i, now[t])]
    BY DEF CheckRule
  <2> HIDE DEF i
  <2>3. \A j \in DOMAIN Rules : last'[j] \in Marks(j)
    BY <2>1, <2>2, <1>1 DEF MarksTyped
  <2>4. last' \in [DOMAIN Rules -> UNION {Marks(j) : j \in DOMAIN Rules}]
    BY <2>1, <2>2, <1>1 DEF MarksTyped
  <2> QED BY <2>3, <2>4 DEF MarksTyped
<1>7. \A j \in DOMAIN Rules : \A k \in DOMAIN Rules[j].conds : last'[j][k] \in [WeekDays -> 0..Horizon]
  BY <1>6 DEF MarksTyped, Marks
<1>8. fired' \in [DOMAIN Rules -> Seq(Boot..Horizon)]
  <2>1. fired \in [DOMAIN Rules -> Seq(Boot..Horizon)]
    BY DEF EngineTyped, TypeOK
  <2>2. CASE t = Timer
    <3>1. now[t] \in Boot..Horizon
      BY <2>2, <1>1 DEF CheckRule, EngineTyped, RoundsTyped
    <3>2. Append(fired[i], now[t]) \in Seq(Boot..Horizon)
      BY <3>1, <2>1, <1>1
    <3>3. fired' = fired \/ fired' = [fired EXCEPT ![i] = Append(@, now[t])]
      BY DEF CheckRule
    <3> HIDE DEF i
    <3> QED BY <3>2, <3>3, <2>1, <1>1
  <2>3. CASE t # Timer
    BY <2>1, <2>3 DEF CheckRule
  <2> QED BY <2>2, <2>3
<1>9. RoundsTyped'
  BY <1>3 DEF CheckRule, EngineTyped, RoundsTyped, InReport, Threads, Callers
<1>10. UNCHANGED <<prompt, clock, lock, wake, now, report, cache, reports, alone, overlap>>
  BY DEF CheckRule
<1>11. TypeOK'
  BY ONLY <1>4, <1>5, <1>7, <1>8, <1>10, EngineTyped DEF EngineTyped, TypeOK
<1> QED BY <1>11, <1>6, <1>9 DEF EngineTyped

\* A report that begins keeps the types.
LEMMA BeginTyped ==
  ASSUME EngineTyped, NEW t \in Callers, NEW r \in Report, BeginReport(t, r), reports' \in 0..MaxReports
  PROVE  EngineTyped'
<1> USE DEF EngineTyped
<1>1. t \in Threads /\ t # Timer
  BY EngineAssumption DEF Threads
<1>2. pc' \in [Threads -> PCs] /\ report' \in [Callers -> Report \cup {NoReport}] /\ alone' \subseteq Callers
  BY <1>1 DEF BeginReport, TypeOK, PCs
<1>3. overlap' \in BOOLEAN
  BY Zenon DEF BeginReport, TypeOK
<1>4. RoundsTyped'
  BY <1>1, EngineAssumption DEF BeginReport, RoundsTyped, TypeOK, InReport, Threads
<1>5. UNCHANGED <<prompt, clock, lock, wake, now, idx, cache, last, fired>>
  BY DEF BeginReport
<1> QED BY ONLY <1>2, <1>3, <1>4, <1>5, EngineTyped, reports' \in 0..MaxReports, QuietTyped DEF EngineTyped, TypeOK

\* Every step keeps the types.
LEMMA EngineTypedStep == EngineTyped /\ [Next]_vars => EngineTyped'
<1> SUFFICES ASSUME EngineTyped, [Next]_vars PROVE EngineTyped'
  OBVIOUS
<1> USE EngineAssumption
<1>a. TypeOK /\ MarksTyped /\ RoundsTyped
  BY DEF EngineTyped
<1>b. Timer \in Threads /\ Callers \subseteq Threads /\ Timer \notin Callers
  BY DEF Threads
<1>1. ASSUME NEW t \in Threads, LockToCheck(t) PROVE EngineTyped'
  <2>1. pc' \in [Threads -> PCs] /\ lock' \in Threads \cup {NoThread} /\ idx' \in [Threads -> 1..(Len(Rules) + 1)]
    <3>1. 1 \in 1..(Len(Rules) + 1)
      BY DEF RuleInfo
    <3> QED BY <1>1, <1>a, <3>1 DEF LockToCheck, TypeOK, PCs
  <2>2. RoundsTyped'
    BY <1>1, <1>a, <1>b DEF LockToCheck, RoundsTyped, TypeOK, InReport
  <2>3. UNCHANGED <<prompt, clock, wake, now, report, cache, last, reports, fired, alone, overlap>>
    BY <1>1 DEF LockToCheck
  <2> QED BY ONLY <1>a, EngineTyped, <2>1, <2>2, <2>3, QuietTyped DEF TypeOK
<1>2. ASSUME NEW t \in Threads, CheckRule(t) PROVE EngineTyped'
  BY <1>2, CheckTyped
<1>3. ASSUME NEW t \in Threads, Checked(t) PROVE EngineTyped'
  <2>1. pc' \in [Threads -> PCs] /\ lock' \in Threads \cup {NoThread}
    BY <1>3, <1>a DEF Checked, TypeOK, PCs
  <2>2. report' \in [Callers -> Report \cup {NoReport}] /\ alone' \subseteq Callers
    BY <1>3, <1>a, <1>b DEF Checked, TypeOK
  <2>3. wake' \in Boot..(Horizon + 1)
    BY <1>3, <1>a DEF Checked, TypeOK
  <2>4. RoundsTyped'
    BY <1>3, <1>a, <1>b DEF Checked, RoundsTyped, TypeOK, InReport
  <2>5. UNCHANGED <<prompt, clock, now, idx, cache, last, reports, fired, overlap>>
    BY <1>3 DEF Checked
  <2> QED BY ONLY <1>a, EngineTyped, <2>1, <2>2, <2>3, <2>4, <2>5, QuietTyped DEF TypeOK
<1>4. CASE TimerWake
  <2>1. pc' \in [Threads -> PCs]
    BY <1>4, <1>a DEF TimerWake, TypeOK, PCs
  <2>2. now' \in [Threads -> 0..Horizon] /\ Boot <= now'[Timer] /\ now'[Timer] <= clock
    BY <1>4, <1>a, <1>b DEF TimerWake, TypeOK
  <2>3. RoundsTyped'
    BY <1>4, <1>a, <1>b, <2>2 DEF TimerWake, RoundsTyped, TypeOK, InReport
  <2>4. UNCHANGED <<prompt, clock, lock, wake, idx, report, cache, last, reports, fired, alone, overlap>>
    BY <1>4 DEF TimerWake
  <2> QED BY ONLY <1>a, EngineTyped, <2>1, <2>2, <2>3, <2>4, QuietTyped DEF TypeOK
<1>5. CASE TimerPeek
  <2>1. pc' \in [Threads -> PCs]
    BY <1>5, <1>a DEF TimerPeek, TypeOK, PCs
  <2>2. wake' \in Boot..(Horizon + 1)
    BY <1>5, <1>a DEF TimerPeek, TypeOK
  <2>3. RoundsTyped'
    BY <1>5, <1>a, <1>b DEF TimerPeek, RoundsTyped, TypeOK, InReport
  <2>4. UNCHANGED <<prompt, clock, lock, now, idx, report, cache, last, reports, fired, alone, overlap>>
    BY <1>5 DEF TimerPeek
  <2> QED BY ONLY <1>a, EngineTyped, <2>1, <2>2, <2>3, <2>4, QuietTyped DEF TypeOK
<1>6. ASSUME NEW t \in Callers, CacheDrop(t) PROVE EngineTyped'
  <2> DEFINE s == report[t].service
  <2>1. pc' \in [Threads -> PCs]
    BY <1>6, <1>a DEF CacheDrop, TypeOK, PCs
  <2>2. cache \in Seq(Report) /\ Len(cache) \in Nat /\ DOMAIN cache = 1..Len(cache)
    BY <1>a DEF TypeOK
  <2>3. cache' \in Seq(Report)
    <3>1. CASE Entries(s) = {}
      BY <1>6, <2>2, <3>1 DEF CacheDrop
    <3>2. CASE Entries(s) # {}
      <4>1. First(s) \in 1..Len(cache)
        BY <3>2, <2>2, FirstIsEntry DEF Entries
      <4>2. SubSeq(cache, 1, First(s) - 1) \in Seq(Report) /\ SubSeq(cache, First(s) + 1, Len(cache)) \in Seq(Report)
        BY <4>1, <2>2
      <4>3. cache' = SubSeq(cache, 1, First(s) - 1) \o SubSeq(cache, First(s) + 1, Len(cache))
        BY <1>6, <3>2 DEF CacheDrop
      <4> QED BY ONLY <4>2, <4>3
    <3> QED BY <3>1, <3>2
  <2>4. RoundsTyped'
    BY <1>6, <1>a, <1>b DEF CacheDrop, RoundsTyped, TypeOK, InReport
  <2>5. UNCHANGED <<prompt, clock, lock, wake, now, idx, report, last, reports, fired, alone, overlap>>
    BY <1>6 DEF CacheDrop
  <2>6. MarksTyped'
    BY <1>a, <2>5 DEF MarksTyped
  <2>7. TypeOK'
    BY ONLY <1>a, <2>1, <2>3, <2>5 DEF TypeOK
  <2> QED BY <2>4, <2>6, <2>7 DEF EngineTyped
<1>7. ASSUME NEW t \in Callers, CacheAdd(t) PROVE EngineTyped'
  <2>1. pc' \in [Threads -> PCs] /\ now' \in [Threads -> 0..Horizon]
    BY <1>7, <1>a, <1>b, SMTT(30) DEF CacheAdd, TypeOK, PCs
  <2>2. cache' \in Seq(Report)
    BY <1>7, <1>a DEF CacheAdd, TypeOK, RoundsTyped, InReport
  <2>3. RoundsTyped'
    BY <1>7, <1>a, <1>b DEF CacheAdd, RoundsTyped, TypeOK, InReport
  <2>4. UNCHANGED <<prompt, clock, lock, wake, idx, report, last, reports, fired, alone, overlap>>
    BY <1>7 DEF CacheAdd
  <2>5. MarksTyped'
    BY <1>a, <2>4 DEF MarksTyped
  <2>6. TypeOK'
    BY ONLY <1>a, <2>1, <2>2, <2>4 DEF TypeOK
  <2> QED BY <2>3, <2>5, <2>6 DEF EngineTyped
<1>8. ASSUME NEW s \in Slots, HandlerReturns(s) PROVE EngineTyped'
  <2>1. pc' \in [Threads -> PCs]
    BY <1>8, <1>a DEF HandlerReturns, TypeOK, PCs
  <2>2. RoundsTyped'
    BY <1>8, <1>a, <1>b DEF HandlerReturns, RoundsTyped, TypeOK, InReport, Callers
  <2>3. UNCHANGED <<prompt, clock, lock, wake, now, idx, report, cache, last, reports, fired, alone, overlap>>
    BY <1>8 DEF HandlerReturns
  <2> QED BY ONLY <1>a, EngineTyped, <2>1, <2>2, <2>3, QuietTyped DEF TypeOK
<1>9. ASSUME NEW s \in Slots, NEW r \in Report, HandlerReports(s, r) PROVE EngineTyped'
  <2>1. BeginReport(s, r) /\ reports' \in 0..MaxReports /\ s \in Callers
    BY <1>9, <1>a DEF HandlerReports, TypeOK, Callers
  <2> QED BY ONLY <2>1, EngineTyped, BeginTyped
<1>10. ASSUME NEW t \in Reporters, NEW r \in [service : Services, value : Values], IOTA_PropertiesReport(t, r)
       PROVE EngineTyped'
  <2>1. BeginReport(t, r) /\ reports' \in 0..MaxReports /\ t \in Callers /\ r \in Report
    BY <1>10, <1>a DEF IOTA_PropertiesReport, TypeOK, Callers, Report
  <2> QED BY ONLY <2>1, EngineTyped, BeginTyped
<1>11. CASE Tick
  <2>1. clock' \in Boot..Horizon /\ clock <= clock'
    BY <1>11, <1>a DEF Tick, TypeOK
  <2>2. RoundsTyped'
    BY <1>11, <1>a, <2>1 DEF Tick, RoundsTyped, TypeOK, InReport
  <2>3. UNCHANGED <<prompt, lock, pc, wake, now, idx, report, cache, last, reports, fired, alone, overlap>>
    BY <1>11 DEF Tick
  <2> QED BY ONLY <1>a, EngineTyped, <2>1, <2>2, <2>3, QuietTyped DEF TypeOK
<1>12. CASE UNCHANGED vars
  BY ONLY <1>12, EngineTyped DEF vars, EngineTyped, TypeOK, MarksTyped, RoundsTyped
<1> QED
  BY ONLY [Next]_vars, <1>1, <1>2, <1>3, <1>4, <1>5, <1>6, <1>7, <1>8, <1>9, <1>10, <1>11, <1>12 DEF Next, Step

\* TLC checks it as TypeOK: the clock, the marks of the timers, the cache of reported
\* values and the rounds of every thread stay within their types, for every list of rules.
THEOREM EngineTypes == Spec => []TypeOK
<1>1. Spec => []EngineTyped
  BY EngineTypedInit, EngineTypedStep, PTL DEF Spec
<1>2. EngineTyped => TypeOK
  BY DEF EngineTyped
<1> QED BY <1>1, <1>2, PTL

-----------------------------------------------------------------------------
(* Timers.                                                                 *)

\* Rule i has executed in its minute only, never later than the round that the timer
\* thread is in, and what it last executed on a day of the week is recorded for it.
Covered(i) ==
  /\ \A m \in DOMAIN fired[i] :
       /\ InDailyMinute(Rules[i].conds[1], fired[i][m])
       /\ fired[i][m] <= now[Timer]
       /\ fired[i][m] <= last[i][1][WDay(fired[i][m])]
  /\ \A d \in WeekDays : last[i][1][d] # 0 =>
       \E m \in DOMAIN fired[i] : fired[i][m] = last[i][1][d]

\* It executed on days that differ.
OncePerDay(i) ==
  \A m, n \in DOMAIN fired[i] : m # n => fired[i][m] \div Day # fired[i][n] \div Day

\* The record of every rule that is a daily timer.
DailyRecord == \A i \in DOMAIN Rules : Only(i, "daily") => Covered(i) /\ OncePerDay(i)

\* The only condition of a rule that is a timer.
LEMMA OnlyTimer ==
  ASSUME NEW i \in DOMAIN Rules, NEW kind \in {"daily", "simple"}, Only(i, kind)
  PROVE  /\ HasTimer(i) /\ DOMAIN Rules[i].conds = {1}
         /\ kind = "daily" => Rules[i].conds[1] \in DailyTimers
         /\ kind = "simple" => Rules[i].conds[1] \in SimpleTimers
<1>1. Rules[i] \in RuleInfo
  BY EngineAssumption
<1>2. Rules[i].conds \in Seq(DailyTimers \cup SimpleTimers \cup Comparisons) /\ Len(Rules[i].conds) = 1
  BY <1>1 DEF RuleInfo, Only
<1>3. DOMAIN Rules[i].conds = {1} /\ Rules[i].conds # <<>>
      /\ Rules[i].conds[1] \in DailyTimers \cup SimpleTimers \cup Comparisons
  BY <1>2
<1>4. Rules[i].conds[1].kind = kind
  BY DEF Only
<1>5. \A c \in SimpleTimers \cup Comparisons : c.kind # "daily"
  BY DEF SimpleTimers, Comparisons
<1>6. \A c \in DailyTimers \cup Comparisons : c.kind # "simple"
  BY DEF DailyTimers, Comparisons
<1> QED BY <1>3, <1>4, <1>5, <1>6 DEF HasTimer, IsData

\* A rule that is a daily timer executes when the timer is due, which marks it.
LEMMA DailyExecutes ==
  ASSUME NEW i \in DOMAIN Rules, Only(i, "daily"), EngineTyped, NEW t
  PROVE  /\ Executes(i, TRUE, t) <=> DailyDue(Rules[i].conds[1], last[i][1], t)
         /\ MarkedAfter(i, t)[1] = DailyMarked(Rules[i].conds[1], last[i][1], t)
<1> DEFINE c == Rules[i].conds[1]
<1>1. HasTimer(i) /\ DOMAIN Rules[i].conds = {1} /\ c \in DailyTimers
  BY OnlyTimer
<1>2. IsDaily(c) /\ ~ IsSimple(c) /\ ~ IsData(c)
  BY <1>1 DEF DailyTimers, IsDaily, IsSimple, IsData
<1>3. Met(i, 1, t) <=> DailyDue(c, last[i][1], t)
  BY <1>2 DEF Met
<1>4. ConditionsHold(i, t) <=> Met(i, 1, t)
  BY <1>1, <1>2 DEF ConditionsHold
<1>5. Rules[i].active /\ Allowed(Rules[i].range, t)
  BY DEF Only, Allowed
<1>6. Executes(i, TRUE, t) <=> DailyDue(c, last[i][1], t)
  BY <1>1, <1>3, <1>4, <1>5 DEF Executes
<1>7. DOMAIN last[i] = {1}
  BY <1>1 DEF EngineTyped, MarksTyped, Marks
<1>8. MarkedAfter(i, t)[1] = DailyMarked(c, last[i][1], t)
  BY <1>7, <1>2 DEF MarkedAfter
<1> QED BY <1>6, <1>8

\* A rule that is a simple timer executes when the timer is due.
LEMMA SimpleExecutes ==
  ASSUME NEW i \in DOMAIN Rules, Only(i, "simple"), NEW t
  PROVE  Executes(i, TRUE, t) <=> SimpleDue(Rules[i].conds[1], t)
<1> DEFINE c == Rules[i].conds[1]
<1>1. HasTimer(i) /\ DOMAIN Rules[i].conds = {1} /\ c \in SimpleTimers
  BY OnlyTimer
<1>2. IsSimple(c) /\ ~ IsDaily(c) /\ ~ IsData(c)
  BY <1>1 DEF SimpleTimers, IsDaily, IsSimple, IsData
<1>3. Met(i, 1, t) <=> SimpleDue(c, t)
  BY <1>2 DEF Met
<1>4. ConditionsHold(i, t) <=> Met(i, 1, t)
  BY <1>1, <1>2 DEF ConditionsHold
<1>5. Rules[i].active /\ Allowed(Rules[i].range, t)
  BY DEF Only, Allowed
<1> QED BY <1>1, <1>3, <1>4, <1>5 DEF Executes

\* A rule with a timer in front is executed and marked by the timer thread only, in the
\* step that checks it.
LEMMA CheckOfTimer ==
  ASSUME EngineTyped, NEW t \in Threads, CheckRule(t), NEW i \in DOMAIN Rules, HasTimer(i)
  PROVE  IF t = Timer /\ idx[t] = i /\ Executes(i, TRUE, now[t])
         THEN last'[i] = MarkedAfter(i, now[t]) /\ fired'[i] = Append(fired[i], now[t])
         ELSE last'[i] = last[i] /\ fired'[i] = fired[i]
<1> DEFINE j == idx[t]
           runs == Executes(j, t = Timer, now[t])
<1>1. last \in [DOMAIN Rules -> UNION {Marks(k) : k \in DOMAIN Rules}] /\ fired \in [DOMAIN Rules -> Seq(Boot..Horizon)]
  BY DEF EngineTyped, MarksTyped, TypeOK
<1>2. /\ last' = IF runs THEN [last EXCEPT ![j] = MarkedAfter(j, now[t])] ELSE last
      /\ fired' = IF runs /\ t = Timer THEN [fired EXCEPT ![j] = Append(@, now[t])] ELSE fired
  BY DEF CheckRule
<1>3. CASE j # i
  <2>1. last'[i] = last[i] /\ fired'[i] = fired[i]
    <3> HIDE DEF j, runs
    <3> QED BY <1>1, <1>2, <1>3
  <2> QED BY <2>1, <1>3
<1>4. CASE j = i /\ t # Timer
  <2>1. ~ runs
    BY <1>4, Zenon DEF Executes
  <2> QED BY <2>1, <1>2, <1>4
<1>5. CASE j = i /\ t = Timer
  <2>1. runs <=> Executes(i, TRUE, now[t])
    BY <1>5, Zenon
  <2>2. CASE runs
    <3>1. Executes(i, TRUE, now[t])
      BY <2>1, <2>2
    <3>2. last' = [last EXCEPT ![i] = MarkedAfter(i, now[t])] /\ fired' = [fired EXCEPT ![i] = Append(@, now[t])]
      BY <1>2, <2>2, <1>5
    <3>3. last'[i] = MarkedAfter(i, now[t]) /\ fired'[i] = Append(fired[i], now[t])
      BY ONLY <3>2, <1>1, i \in DOMAIN Rules
    <3> QED BY <3>1, <3>3, <1>5
  <2>3. CASE ~ runs
    BY <2>1, <2>3, <1>2
  <2> QED BY <2>2, <2>3
<1> QED BY <1>3, <1>4, <1>5

\* What leaves the timers alone: every step but the check of a rule.
LEMMA OtherSteps ==
  ASSUME [Next]_vars
  PROVE  UNCHANGED <<last, fired>> \/ \E t \in Threads : CheckRule(t)
<1>1. ASSUME NEW t \in Threads, Step(t), ~ CheckRule(t) PROVE UNCHANGED <<last, fired>>
  BY <1>1 DEF Step, LockToCheck, Checked, TimerWake, TimerPeek, CacheDrop, CacheAdd, HandlerReturns,
              HandlerReports, BeginReport
<1>2. ASSUME NEW t \in Reporters, NEW r \in [service : Services, value : Values], IOTA_PropertiesReport(t, r)
      PROVE  UNCHANGED <<last, fired>>
  BY <1>2 DEF IOTA_PropertiesReport, BeginReport
<1>3. Tick \/ UNCHANGED vars => UNCHANGED <<last, fired>>
  BY DEF Tick, vars
<1> QED BY <1>1, <1>2, <1>3 DEF Next

\* The clock that the timer thread has read never goes back.
LEMMA TimerClock ==
  ASSUME EngineTyped, [Next]_vars
  PROVE  now'[Timer] \in Nat /\ now[Timer] \in Nat /\ now[Timer] <= now'[Timer]
<1> USE EngineAssumption
<1>a. now \in [Threads -> 0..Horizon] /\ clock \in Boot..Horizon /\ Timer \in Threads
      /\ now[Timer] <= clock /\ Timer \notin Callers
  BY DEF EngineTyped, TypeOK, RoundsTyped, Threads
<1>1. ASSUME NEW t \in Threads, Step(t) PROVE now' = now \/ now' = [now EXCEPT ![Timer] = clock]
                                              \/ \E u \in Callers : now' = [now EXCEPT ![u] = clock]
  BY <1>1 DEF Step, LockToCheck, CheckRule, Checked, TimerWake, TimerPeek, CacheDrop, CacheAdd, HandlerReturns,
              HandlerReports, BeginReport
<1>2. ASSUME NEW t \in Reporters, NEW r \in [service : Services, value : Values], IOTA_PropertiesReport(t, r)
      PROVE  now' = now
  BY <1>2 DEF IOTA_PropertiesReport, BeginReport
<1>3. Tick \/ UNCHANGED vars => now' = now
  BY DEF Tick, vars
<1>4. now' = now \/ now' = [now EXCEPT ![Timer] = clock] \/ \E u \in Callers : now' = [now EXCEPT ![u] = clock]
  BY <1>1, <1>2, <1>3 DEF Next
<1> QED BY <1>4, <1>a

\* Two instants of one minute of one day are less than a minute apart; an earlier one
\* of the same minute that is less than a minute away is of the same day.
LEMMA MinutesOfDays ==
  ASSUME NEW f \in Nat, NEW t \in Nat, NEW h \in Nat, f <= t,
         h <= SecOfDay(f), SecOfDay(f) < h + Minute, h <= SecOfDay(t), SecOfDay(t) < h + Minute
  PROVE  t - f < Minute <=> f \div Day = t \div Day
<1> DEFINE a == f \div Day
           b == t \div Day
           r == SecOfDay(f)
           q == SecOfDay(t)
<1>1. /\ a \in Nat /\ b \in Nat /\ r \in 0..(Day - 1) /\ q \in 0..(Day - 1)
      /\ f = Day * a + r /\ t = Day * b + q
  BY DayAndSecond
<1>2. Day \in Nat \ {0} /\ Minute \in Nat \ {0} /\ 2 * Minute <= Day
  BY ClockAssumption
<1>3. h <= r /\ r < h + Minute /\ h <= q /\ q < h + Minute
  OBVIOUS
<1> HIDE DEF a, b, r, q
<1>4. CASE a = b
  BY <1>1, <1>2, <1>3, <1>4
<1>5. CASE a < b
  <2>1. Day * b >= Day * a + Day
    <3>1. PICK k \in Nat : b = a + 1 + k
      <4>1. b - a - 1 \in Nat /\ b = a + 1 + (b - a - 1)
        BY <1>1, <1>5
      <4> QED BY <4>1
    <3>2. Day * b = Day * a + Day + Day * k
      BY <3>1, <1>1, <1>2
    <3>3. Day * k \in Nat /\ Day * a \in Nat /\ Day * b \in Nat
      BY <3>1, <1>1, <1>2
    <3> QED BY <3>2, <3>3, <1>2
  <2>2. Day * b \in Nat /\ Day * a \in Nat
    BY <1>1, <1>2
  <2>3. t - f > Day - Minute
    BY <2>1, <2>2, <1>1, <1>2, <1>3
  <2>4. t - f >= Minute
    BY <2>3, <1>2
  <2> QED BY <2>4, <1>2, <1>5, <1>1
<1>6. CASE a > b
  <2>1. Day * a >= Day * b + Day
    <3>1. PICK k \in Nat : a = b + 1 + k
      <4>1. a - b - 1 \in Nat /\ a = b + 1 + (a - b - 1)
        BY <1>1, <1>6
      <4> QED BY <4>1
    <3>2. Day * a = Day * b + Day + Day * k
      BY <3>1, <1>1, <1>2
    <3>3. Day * k \in Nat /\ Day * a \in Nat /\ Day * b \in Nat
      BY <3>1, <1>1, <1>2
    <3> QED BY <3>2, <3>3, <1>2
  <2>2. Day * b \in Nat /\ Day * a \in Nat
    BY <1>1, <1>2
  <2>3. f > t
    BY <2>1, <2>2, <1>1, <1>2
  <2> QED BY <2>3
<1>7. a = b \/ a < b \/ a > b
  BY <1>1
<1> QED BY <1>4, <1>5, <1>6, <1>7

\* An execution keeps the record of a daily timer: it comes on another day than those
\* before it, and is recorded in its turn.
LEMMA DailyExecuted ==
  ASSUME NEW i \in DOMAIN Rules, Only(i, "daily"), EngineTyped, Covered(i), OncePerDay(i),
         NEW t \in Nat, t = now[Timer], t = now'[Timer], DailyDue(Rules[i].conds[1], last[i][1], t),
         last'[i] = MarkedAfter(i, t), fired'[i] = Append(fired[i], t)
  PROVE  Covered(i)' /\ OncePerDay(i)'
<1> DEFINE c == Rules[i].conds[1]
           f == fired[i]
           L == last[i][1]
           n == Len(f) + 1
<1>1. c \in DailyTimers /\ DOMAIN Rules[i].conds = {1}
  BY OnlyTimer
<1>2. f \in Seq(Boot..Horizon) /\ L \in [WeekDays -> 0..Horizon]
  BY <1>1 DEF EngineTyped, TypeOK
<1>3. /\ DOMAIN fired'[i] = 1..n /\ fired'[i][n] = t /\ n \notin DOMAIN f /\ DOMAIN f = 1..(n - 1)
      /\ \A m \in DOMAIN f : fired'[i][m] = f[m] /\ f[m] \in Nat
  <2>1. Len(f) \in Nat /\ DOMAIN f = 1..Len(f) /\ \A m \in DOMAIN f : f[m] \in Nat
    BY <1>2, EngineAssumption, SMTT(30)
  <2>2. PICK g : g = Append(f, t)
    OBVIOUS
  <2>3. fired'[i] = g
    BY <2>2
  <2> HIDE DEF f
  <2>4. Len(g) = Len(f) + 1 /\ DOMAIN g = 1..Len(g) /\ g[Len(f) + 1] = t /\ \A m \in DOMAIN f : g[m] = f[m]
    BY <2>2, <2>1, <1>2
  <2> QED BY ONLY <2>1, <2>3, <2>4
<1>4. last'[i][1] = [L EXCEPT ![WDay(t)] = t]
  <2>1. last'[i][1] = DailyMarked(c, L, t)
    BY DailyExecutes
  <2> QED BY <2>1 DEF DailyMarked, DailyDue
<1>5. WDay(t) \in WeekDays /\ InDailyMinute(c, t) /\ t - L[WDay(t)] >= Minute
  BY DayAndSecond DEF DailyDue
<1>6. last'[i][1][WDay(t)] = t /\ \A d \in WeekDays : d # WDay(t) => last'[i][1][d] = L[d]
  BY <1>2, <1>4, <1>5
<1>7. \A m \in DOMAIN f : /\ InDailyMinute(c, f[m]) /\ f[m] <= t /\ f[m] <= L[WDay(f[m])]
                          /\ WDay(f[m]) \in WeekDays
  <2>1. \A m \in DOMAIN f : InDailyMinute(c, f[m]) /\ f[m] <= t /\ f[m] <= L[WDay(f[m])]
    BY DEF Covered
  <2>2. \A m \in DOMAIN f : WDay(f[m]) \in WeekDays
    BY <1>3, DayAndSecond
  <2> QED BY <2>1, <2>2
<1>8. ASSUME NEW m \in DOMAIN f PROVE f[m] \div Day # t \div Day
  <2> SUFFICES ASSUME f[m] \div Day = t \div Day PROVE FALSE
    OBVIOUS
  <2>1. WDay(f[m]) = WDay(t)
    BY DEF WDay
  <2>2. f[m] <= L[WDay(t)] /\ L[WDay(t)] \in Nat /\ f[m] \in Nat
    BY <2>1, <1>7, <1>2, <1>3, <1>5, EngineAssumption, SMTT(30)
  <2>3. t - f[m] >= Minute
    BY <2>2, <1>5, ClockAssumption, SMTT(30)
  <2>4. /\ c.time \in Nat /\ c.time <= SecOfDay(f[m]) /\ SecOfDay(f[m]) < c.time + Minute
        /\ c.time <= SecOfDay(t) /\ SecOfDay(t) < c.time + Minute
    BY <1>1, <1>5, <1>7 DEF InDailyMinute, DailyTimers
  <2>5. t - f[m] < Minute
    BY <2>2, <2>4, <1>7, MinutesOfDays
  <2> QED BY <2>2, <2>3, <2>5, ClockAssumption
<1>9. OncePerDay(i)'
  BY <1>3, <1>8 DEF OncePerDay
<1>10. ASSUME NEW m \in DOMAIN fired'[i]
       PROVE  /\ InDailyMinute(c, fired'[i][m]) /\ fired'[i][m] <= now'[Timer]
              /\ fired'[i][m] <= last'[i][1][WDay(fired'[i][m])]
  <2>1. CASE m = n
    BY <2>1, <1>3, <1>5, <1>6
  <2>2. CASE m \in DOMAIN f
    <3>1. fired'[i][m] = f[m]
      BY <2>2, <1>3
    <3>2. f[m] <= last'[i][1][WDay(f[m])]
      BY <2>2, <1>6, <1>7
    <3> QED BY <3>1, <3>2, <2>2, <1>7
  <2> QED BY <2>1, <2>2, <1>3
<1>11. ASSUME NEW d \in WeekDays, last'[i][1][d] # 0
       PROVE  \E m \in DOMAIN fired'[i] : fired'[i][m] = last'[i][1][d]
  <2>1. CASE d = WDay(t)
    BY <2>1, <1>3, <1>6, SMTT(30)
  <2>2. CASE d # WDay(t)
    <3>1. PICK m \in DOMAIN f : f[m] = L[d]
      BY <2>2, <1>6, <1>11 DEF Covered
    <3> QED BY <3>1, <2>2, <1>3, <1>6
  <2> QED BY <2>1, <2>2
<1>12. Covered(i)'
  BY <1>10, <1>11 DEF Covered
<1> QED BY <1>9, <1>12

\* A step that does not execute a daily timer keeps its record.
LEMMA DailyUnchanged ==
  ASSUME NEW i \in DOMAIN Rules, EngineTyped, [Next]_vars, Covered(i), OncePerDay(i),
         last'[i] = last[i], fired'[i] = fired[i]
  PROVE  Covered(i)' /\ OncePerDay(i)'
<1>1. now'[Timer] \in Nat /\ now[Timer] \in Nat /\ now[Timer] <= now'[Timer]
  BY TimerClock
<1>2. \A m \in DOMAIN fired[i] : fired[i][m] \in Nat
  BY EngineAssumption, SMTT(30) DEF EngineTyped, TypeOK
<1>3. \A m \in DOMAIN fired[i] : fired[i][m] <= now'[Timer]
  BY <1>1, <1>2 DEF Covered
<1>4. Covered(i)'
  BY <1>3 DEF Covered
<1>5. OncePerDay(i)'
  BY DEF OncePerDay
<1> QED BY <1>4, <1>5

\* The engine starts with nothing recorded.
LEMMA DailyRecordInit == Init => DailyRecord
<1> SUFFICES ASSUME Init, NEW i \in DOMAIN Rules, Only(i, "daily") PROVE Covered(i) /\ OncePerDay(i)
  BY DEF DailyRecord
<1>1. fired[i] = <<>> /\ DOMAIN fired[i] = {}
  BY DEF Init
<1>2. last[i][1] = [d \in WeekDays |-> 0]
  BY OnlyTimer DEF Init
<1> QED BY <1>1, <1>2 DEF Covered, OncePerDay

\* Every step keeps the records.
LEMMA DailyRecordStep == EngineTyped /\ DailyRecord /\ [Next]_vars => DailyRecord'
<1> SUFFICES ASSUME EngineTyped, DailyRecord, [Next]_vars, NEW i \in DOMAIN Rules, Only(i, "daily")
             PROVE  Covered(i)' /\ OncePerDay(i)'
  BY DEF DailyRecord, Only
<1>1. Covered(i) /\ OncePerDay(i)
  BY DEF DailyRecord
<1>2. CASE UNCHANGED <<last, fired>>
  BY <1>1, <1>2, DailyUnchanged
<1>3. ASSUME NEW t \in Threads, CheckRule(t) PROVE Covered(i)' /\ OncePerDay(i)'
  <2>1. HasTimer(i)
    BY OnlyTimer
  <2>2. CASE t = Timer /\ idx[t] = i /\ Executes(i, TRUE, now[t])
    <3>1. last'[i] = MarkedAfter(i, now[Timer]) /\ fired'[i] = Append(fired[i], now[Timer])
      BY <2>1, <2>2, <1>3, CheckOfTimer
    <3>2. now'[Timer] = now[Timer] /\ now[Timer] \in Nat
      BY <1>3, EngineAssumption DEF CheckRule, EngineTyped, TypeOK, Threads
    <3>3. DailyDue(Rules[i].conds[1], last[i][1], now[Timer])
      BY <2>2, DailyExecutes
    <3> QED BY <1>1, <3>1, <3>2, <3>3, DailyExecuted
  <2>3. CASE ~ (t = Timer /\ idx[t] = i /\ Executes(i, TRUE, now[t]))
    <3>1. last'[i] = last[i] /\ fired'[i] = fired[i]
      BY <2>1, <2>3, <1>3, CheckOfTimer, Zenon
    <3> QED BY <3>1, <1>1, DailyUnchanged
  <2> QED BY <2>2, <2>3
<1> QED BY <1>2, <1>3, OtherSteps

\* TLC checks it as DailyAtMostOnce: a daily timer executes at most once on a day, and
\* only in its minute, however late the rounds of the timer thread come.  The argument is
\* the record of lastExecutedTime: what executed on a day of the week is recorded for it,
\* and two instants of one minute are too near for the second to be due.
THEOREM DailyOnce == Spec => []DailyAtMostOnce
<1>1. EngineTyped /\ DailyRecord /\ [Next]_vars => EngineTyped' /\ DailyRecord'
  BY EngineTypedStep, DailyRecordStep
<1>2. Init => EngineTyped /\ DailyRecord
  BY EngineTypedInit, DailyRecordInit
<1>3. EngineTyped /\ DailyRecord => DailyAtMostOnce
  BY DEF DailyRecord, DailyAtMostOnce, Covered, OncePerDay
<1> QED BY <1>1, <1>2, <1>3, PTL DEF Spec

-----------------------------------------------------------------------------
(* The schedule.                                                           *)

\* t is an instant of the schedule of timer c.
ScheduledAt(c, t) ==
  IF IsDaily(c)
  THEN /\ OnDay(c.days, WDay(t))
       /\ \/ SecOfDay(t) = c.time
          \/ t = Boot /\ SecOfDay(t) \in c.time..(c.time + Minute - 1)
  ELSE \E n \in 0..(c.count - 1) : t = c.start + n * c.interval

\* The last second that rule i has been checked for, if the rounds are prompt.
Seen(i) ==
  IF \/ pc[Timer] = "idle" /\ clock < wake
     \/ pc[Timer] = "checking" /\ idx[Timer] > i
  THEN clock ELSE clock - 1

\* Rule i has executed at the instants of its schedule up to then, each once.
Kept(i) ==
  /\ \A t \in Nat : (\E m \in DOMAIN fired[i] : fired[i][m] = t) <=>
                    t \in Boot..Seen(i) /\ ScheduledAt(Rules[i].conds[1], t)
  /\ \A m, n \in DOMAIN fired[i] : m # n => fired[i][m] # fired[i][n]

\* A prompt timer thread checks each second in that second.
InTime ==
  /\ pc[Timer] = "idle" => wake \in {clock, clock + 1}
  /\ pc[Timer] # "idle" => now[Timer] = clock

\* Rule i is a timer and nothing else.
IsTimer(i) == Only(i, "daily") \/ Only(i, "simple")

\* Under prompt rounds every timer has kept to its schedule.
ScheduleKept == prompt => \A i \in DOMAIN Rules : IsTimer(i) => InTime /\ Kept(i)

\* A simple timer is due at the multiples of its interval, as often as it counts.
LEMMA SimpleSchedule ==
  ASSUME NEW c \in SimpleTimers, NEW t \in Nat
  PROVE  SimpleDue(c, t) <=> ScheduledAt(c, t)
<1> DEFINE u == t - c.start
           k == c.interval
<1>1. c.start \in Int /\ c.interval \in Nat \ {0} /\ c.count \in Int /\ ~ IsDaily(c)
  BY DEF SimpleTimers, IsDaily
<1>2. ScheduledAt(c, t) <=> \E n \in 0..(c.count - 1) : t = c.start + n * c.interval
  BY <1>1 DEF ScheduledAt
<1>3. ASSUME SimpleDue(c, t) PROVE ScheduledAt(c, t)
  <2>1. u \in Nat /\ u % k = 0 /\ u \div k < c.count
    BY <1>1, <1>3 DEF SimpleDue
  <2>2. PICK n \in Nat : n = u \div k /\ u = k * n + (u % k)
    BY <2>1, <1>1, Division
  <2>3. n \in 0..(c.count - 1)
    BY <2>1, <2>2, <1>1
  <2>4. t = c.start + n * c.interval
    BY <2>1, <2>2, <1>1
  <2> QED BY <2>3, <2>4, <1>2
<1>4. ASSUME ScheduledAt(c, t) PROVE SimpleDue(c, t)
  <2>1. PICK n \in 0..(c.count - 1) : t = c.start + n * c.interval
    BY <1>2, <1>4
  <2>2. n \in Nat /\ n < c.count /\ n * c.interval \in Nat
    BY <1>1
  <2>3. u = n * k /\ t >= c.start
    BY <2>1, <2>2, <1>1
  <2>4. \A D \in Nat \ {0} : (n * D) % D = 0 /\ (n * D) \div D = n
    BY <2>2
  <2>5. u % k = 0 /\ u \div k = n
    BY <2>3, <2>4, <1>1
  <2> QED BY <2>2, <2>3, <2>5 DEF SimpleDue
<1> QED BY <1>3, <1>4

\* The instant of the same day at which it was second h.
LEMMA EarlierSecond ==
  ASSUME NEW t \in Nat, NEW h \in Nat, h < SecOfDay(t)
  PROVE  \E s \in Nat : /\ s = t - (SecOfDay(t) - h) /\ s < t
                        /\ s \div Day = t \div Day /\ SecOfDay(s) = h
<1>1. PICK a \in Nat, q \in 0..(Day - 1) : a = t \div Day /\ q = SecOfDay(t) /\ t = Day * a + q
  BY DayAndSecond
<1>2. PICK D \in Nat \ {0} : D = Day
  BY ClockAssumption
<1>3. D * a \in Nat /\ h < q /\ h \in 0..(D - 1) /\ q \in Nat /\ t = D * a + q
  BY <1>1, <1>2
<1>4. PICK s \in Nat : s = D * a + h
  BY <1>3
<1>5. s \div D = a /\ s % D = h
  BY <1>3, <1>4, Recomposed, Zenon
<1>6. s = t - (q - h) /\ s < t
  BY ONLY <1>3, <1>4, a \in Nat, h \in Nat, t \in Nat
<1> QED BY <1>1, <1>2, <1>5, <1>6 DEF SecOfDay

\* An instant between two of one day is of that day.
LEMMA SameDay ==
  ASSUME NEW s \in Nat, NEW f \in Nat, NEW t \in Nat, s <= f, f <= t, s \div Day = t \div Day
  PROVE  f \div Day = t \div Day /\ SecOfDay(f) = SecOfDay(s) + (f - s)
<1>1. PICK a \in Nat, q \in 0..(Day - 1) : a = t \div Day /\ q = SecOfDay(t) /\ t = Day * a + q
  BY DayAndSecond
<1>2. PICK p \in 0..(Day - 1) : p = SecOfDay(s) /\ s = Day * a + p
  BY <1>1, DayAndSecond
<1>3. PICK D \in Nat \ {0} : D = Day
  BY ClockAssumption
<1>4. PICK x \in 0..(D - 1) : f = D * a + x /\ x = p + (f - s)
  <2>1. D * a \in Nat
    BY <1>1
  <2>2. f - D * a \in 0..(D - 1) /\ f = D * a + (f - D * a) /\ f - D * a = p + (f - s)
    BY <2>1, <1>1, <1>2, <1>3
  <2> QED BY <2>2
<1>5. f \div D = a /\ f % D = x
  BY <1>4, Recomposed, Zenon
<1> QED BY <1>1, <1>2, <1>3, <1>4, <1>5 DEF SecOfDay

\* A daily timer is due exactly where its schedule says, if it has kept to it before.
LEMMA DailySchedule ==
  ASSUME EngineTyped, NEW i \in DOMAIN Rules, Only(i, "daily"), Covered(i), Kept(i),
         clock \in Nat, Seen(i) = clock - 1
  PROVE  DailyDue(Rules[i].conds[1], last[i][1], clock) <=> ScheduledAt(Rules[i].conds[1], clock)
<1> DEFINE c == Rules[i].conds[1]
           t == clock
           L == last[i][1]
           h == c.time
<1> USE EngineAssumption, ClockAssumption
<1>1. c \in DailyTimers /\ DOMAIN Rules[i].conds = {1}
  BY OnlyTimer
<1>2. L \in [WeekDays -> 0..Horizon] /\ Boot <= t
  BY <1>1 DEF EngineTyped, TypeOK
<1>3. h \in Nat /\ IsDaily(c) /\ WDay(t) \in WeekDays /\ SecOfDay(t) \in Nat
  <2>1. WDay(t) \in WeekDays /\ SecOfDay(t) \in 0..(Day - 1)
    BY ONLY clock \in Nat, DayAndSecond
  <2>2. h \in Nat /\ IsDaily(c)
    BY <1>1 DEF DailyTimers, IsDaily
  <2> QED BY <2>1, <2>2
<1>4. \A s \in Nat : (\E m \in DOMAIN fired[i] : fired[i][m] = s) <=> s \in Boot..(t - 1) /\ ScheduledAt(c, s)
  BY DEF Kept
<1>5. \A s \in Nat : ScheduledAt(c, s) <=>
                       OnDay(c.days, WDay(s)) /\ \/ SecOfDay(s) = h
                                                 \/ s = Boot /\ SecOfDay(s) \in h..(h + Minute - 1)
  BY <1>3 DEF ScheduledAt
<1>6. ASSUME ScheduledAt(c, t) PROVE DailyDue(c, L, t)
  <2>1. InDailyMinute(c, t)
    BY <1>3, <1>5, <1>6, SMTT(30) DEF InDailyMinute
  <2>2. CASE L[WDay(t)] = 0
    BY <2>1, <2>2, <1>2 DEF DailyDue
  <2>3. CASE L[WDay(t)] # 0
    <3>1. PICK m \in DOMAIN fired[i] : fired[i][m] = L[WDay(t)]
      BY <2>3, <1>3 DEF Covered
    <3>2. PICK f \in Nat : f = L[WDay(t)]
      BY <1>2, <1>3
    <3>3. f \in Boot..(t - 1) /\ InDailyMinute(c, f)
      BY <3>1, <3>2, <1>4 DEF Covered
    <3>4. SecOfDay(t) = h
      BY <3>3, <1>5, <1>6
    <3>5. h <= SecOfDay(f) /\ SecOfDay(f) < h + Minute /\ h <= SecOfDay(t) /\ SecOfDay(t) < h + Minute
      BY <3>3, <2>1, DayAndSecond DEF InDailyMinute
    <3>6. f \div Day # t \div Day
      <4>1. f <= f /\ f <= t /\ f < t
        BY <3>3
      <4>2. f \div Day = t \div Day => SecOfDay(t) = SecOfDay(f) + (t - f)
        BY ONLY <4>1, SameDay, f \in Nat, clock \in Nat
      <4>3. SecOfDay(f) \in Nat
        BY ONLY f \in Nat, Day \in Nat \ {0}, DayAndSecond
      <4>4. h \in Nat
        BY <1>3
      <4> QED BY ONLY <4>1, <4>2, <4>3, <4>4, <3>4, <3>5, f \in Nat, clock \in Nat
    <3>7. ~ (t - f < Minute)
      <4>1. f <= t
        BY <3>3
      <4> QED BY ONLY <4>1, <3>5, <3>6, <1>3, MinutesOfDays, f \in Nat, clock \in Nat
    <3> QED BY <3>2, <3>7, <2>1 DEF DailyDue
  <2> QED BY <2>2, <2>3
<1>7. ASSUME DailyDue(c, L, t), ~ ScheduledAt(c, t) PROVE FALSE
  <2>1. OnDay(c.days, WDay(t)) /\ h <= SecOfDay(t) /\ SecOfDay(t) < h + Minute /\ t - L[WDay(t)] >= Minute
    BY <1>7 DEF DailyDue, InDailyMinute
  <2>2. h < SecOfDay(t) /\ Boot < t
    <3>1. ~ (SecOfDay(t) = h \/ (t = Boot /\ SecOfDay(t) \in h..(h + Minute - 1)))
      BY ONLY <1>5, <1>7, <2>1, clock \in Nat
    <3>2. h \in Nat /\ SecOfDay(t) \in Nat /\ Boot \in Nat /\ Minute \in Nat /\ Boot <= t
      BY <1>2, <1>3
    <3> QED BY ONLY <2>1, <3>1, <3>2, clock \in Nat
  <2>3. PICK s \in Nat : s = t - (SecOfDay(t) - h) /\ s < t /\ s \div Day = t \div Day /\ SecOfDay(s) = h
    BY <2>2, <1>3, EarlierSecond
  \* An instant of the minute before t that was executed makes t too early.
  <2>4. ASSUME NEW f \in Nat, s <= f, f < t, f \div Day = t \div Day, ScheduledAt(c, f), Boot <= f PROVE FALSE
    <3>1. PICK m \in DOMAIN fired[i] : fired[i][m] = f
      BY <2>4, <1>4, SMTT(30)
    <3>2. WDay(f) = WDay(t)
      BY <2>4 DEF WDay
    <3>3. f <= L[WDay(f)]
      BY <3>1 DEF Covered
    <3>4. PICK l \in Nat : l = L[WDay(t)]
      BY <1>2, <1>3
    <3>5. f <= l /\ t - l >= Minute
      BY <3>2, <3>3, <3>4, <2>1
    <3>6. t - s < Minute
      BY ONLY <2>1, <2>3, <1>3, clock \in Nat, s \in Nat, Minute \in Nat
    <3> QED BY ONLY <3>5, <3>6, <2>4, clock \in Nat, s \in Nat, f \in Nat, l \in Nat, Minute \in Nat
  <2>5. CASE Boot <= s
    <3>1. WDay(s) = WDay(t)
      BY <2>3 DEF WDay
    <3>2. ScheduledAt(c, s)
      BY <3>1, <2>1, <2>3, <1>5
    <3> QED BY <3>2, <2>3, <2>4, <2>5
  <2>6. CASE s < Boot
    <3>1. Boot \div Day = t \div Day /\ SecOfDay(Boot) = h + (Boot - s)
      <4>1. s <= Boot /\ Boot <= t /\ Boot \in Nat
        BY ONLY <2>2, <2>6, clock \in Nat, s \in Nat, EngineAssumption
      <4> QED BY ONLY <4>1, <2>3, clock \in Nat, s \in Nat, SameDay
    <3>2. WDay(Boot) = WDay(t)
      BY <3>1 DEF WDay
    <3>3. SecOfDay(Boot) \in h..(h + Minute - 1)
      BY ONLY <3>1, <2>1, <2>2, <2>3, <2>6, <1>3, clock \in Nat, s \in Nat, Boot \in Nat, Minute \in Nat
    <3>4. ScheduledAt(c, Boot)
      BY <3>2, <3>3, <2>1, <1>5
    <3>5. s <= Boot
      BY <2>6
    <3> QED BY <3>1, <3>4, <3>5, <2>2, <2>4
  <2> QED BY <2>5, <2>6
<1> QED BY <1>6, <1>7

\* When the timer thread is prompt it stays so, and every step but its check of rule i
\* leaves the last second seen for rule i where it was.
LEMMA SeenStep ==
  ASSUME EngineTyped, [Next]_vars, prompt, InTime, NEW i \in DOMAIN Rules
  PROVE  /\ InTime'
         /\ IF CheckRule(Timer) /\ idx[Timer] = i
            THEN Seen(i) = clock - 1 /\ Seen(i)' = clock /\ now[Timer] = clock
            ELSE Seen(i)' = Seen(i)
<1> USE EngineAssumption
<1>a. /\ clock \in Nat /\ wake \in Nat /\ i \in Nat /\ i >= 1 /\ i <= Len(Rules) /\ Len(Rules) \in Nat /\ Rules # <<>>
      /\ idx \in [Threads -> 1..(Len(Rules) + 1)] /\ pc \in [Threads -> PCs] /\ now \in [Threads -> 0..Horizon]
      /\ pc[Timer] \in {"idle", "wantPeek", "wantCheck", "checking"}
      /\ Timer \in Threads /\ Timer \notin Slots /\ Timer \notin Callers
  <2>1. DOMAIN Rules = 1..Len(Rules) /\ Len(Rules) \in Nat
    OBVIOUS
  <2>2. Rules # <<>>
    BY <2>1
  <2> QED BY <2>1, <2>2, SMTT(30) DEF EngineTyped, TypeOK, RoundsTyped, Threads, Callers
<1>b. idx[Timer] \in Nat
  BY <1>a
<1>1. ASSUME NEW t \in Threads, t # Timer, Step(t)
      PROVE  UNCHANGED <<clock, wake>> /\ pc'[Timer] = pc[Timer] /\ idx'[Timer] = idx[Timer] /\ now'[Timer] = now[Timer]
  <2>1. CASE LockToCheck(t)
    BY <1>1, <1>a, <2>1 DEF LockToCheck
  <2>2. CASE CheckRule(t)
    <3>1. PICK S \in SUBSET FreeSlots : pc' = [u \in Threads |-> IF u \in S THEN "handler" ELSE pc[u]]
      BY <2>2 DEF CheckRule, Started
    <3>2. pc'[Timer] = pc[Timer]
      BY <3>1, <1>a DEF FreeSlots
    <3>3. UNCHANGED <<clock, wake, now>> /\ idx' = [idx EXCEPT ![t] = idx[t] + 1]
      BY <2>2 DEF CheckRule
    <3> QED BY <3>2, <3>3, <1>1, <1>a
  <2>3. CASE Checked(t)
    BY <1>1, <1>a, <2>3 DEF Checked
  <2>4. CASE t \in Callers /\ (CacheDrop(t) \/ CacheAdd(t))
    BY <1>1, <1>a, <2>4 DEF CacheDrop, CacheAdd
  <2>5. CASE t \in Slots /\ HandlerReturns(t)
    BY <1>1, <1>a, <2>5 DEF HandlerReturns
  <2>6. ASSUME NEW r \in Report, HandlerReports(t, r)
        PROVE  UNCHANGED <<clock, wake>> /\ pc'[Timer] = pc[Timer] /\ idx'[Timer] = idx[Timer] /\ now'[Timer] = now[Timer]
    BY <1>1, <1>a, <2>6 DEF HandlerReports, BeginReport
  <2> QED BY ONLY <1>1, <2>1, <2>2, <2>3, <2>4, <2>5, <2>6 DEF Step
<1>2. ASSUME NEW t \in Reporters, NEW r \in [service : Services, value : Values], IOTA_PropertiesReport(t, r)
      PROVE  UNCHANGED <<clock, wake>> /\ pc'[Timer] = pc[Timer] /\ idx'[Timer] = idx[Timer] /\ now'[Timer] = now[Timer]
  BY <1>2, <1>a DEF IOTA_PropertiesReport, BeginReport, Callers
<1>3. CASE UNCHANGED <<clock, wake>> /\ pc'[Timer] = pc[Timer] /\ idx'[Timer] = idx[Timer] /\ now'[Timer] = now[Timer]
  <2>1. InTime' /\ Seen(i)' = Seen(i)
    BY <1>3 DEF InTime, Seen
  <2>2. CASE CheckRule(Timer) /\ idx[Timer] = i
    BY <2>2, <1>3, <1>a DEF CheckRule
  <2> QED BY <2>1, <2>2
<1>4. CASE LockToCheck(Timer)
  <2>1. /\ UNCHANGED <<clock, wake, now>> /\ pc[Timer] = "wantCheck" /\ pc'[Timer] = "checking" /\ idx'[Timer] = 1
    BY <1>4, <1>a DEF LockToCheck
  <2>2. ~ CheckRule(Timer)
    BY <2>1 DEF CheckRule
  <2> QED BY <2>1, <2>2, <1>a DEF InTime, Seen
<1>5. CASE CheckRule(Timer)
  <2>1. PICK S \in SUBSET FreeSlots : pc' = [u \in Threads |-> IF u \in S THEN "handler" ELSE pc[u]]
    BY <1>5 DEF CheckRule, Started
  <2>2. /\ UNCHANGED <<clock, wake, now>> /\ pc[Timer] = "checking" /\ pc'[Timer] = "checking"
        /\ idx'[Timer] = idx[Timer] + 1
    BY <1>5, <2>1, <1>a DEF CheckRule, FreeSlots
  <2>3. InTime' /\ now[Timer] = clock
    BY <2>2 DEF InTime
  <2>4. Seen(i) = (IF idx[Timer] > i THEN clock ELSE clock - 1)
    BY <2>2 DEF Seen
  <2>5. Seen(i)' = (IF idx[Timer] + 1 > i THEN clock ELSE clock - 1)
    BY <2>2 DEF Seen
  <2> QED BY ONLY <1>5, <2>3, <2>4, <2>5, <1>a, <1>b
<1>6. CASE Checked(Timer)
  <2>1. /\ UNCHANGED <<clock, idx, now>> /\ pc[Timer] = "checking" /\ pc'[Timer] = "idle" /\ wake' = clock + 1
        /\ idx[Timer] > Len(Rules)
    BY <1>6, <1>a DEF Checked
  <2>2. ~ CheckRule(Timer)
    <3>1. ~ (idx[Timer] <= Len(Rules))
      BY ONLY <2>1, <1>a, <1>b
    <3> QED BY ONLY <3>1 DEF CheckRule
  <2>3. idx[Timer] > i
    BY <2>1, <1>a, <1>b
  <2>4. InTime'
    BY <2>1 DEF InTime
  <2>5. Seen(i) = clock /\ Seen(i)' = clock
    BY <2>1, <2>3, <1>a DEF Seen
  <2> QED BY <2>2, <2>4, <2>5
<1>7. CASE TimerWake
  <2>1. /\ UNCHANGED <<clock, idx, wake>> /\ pc[Timer] = "idle" /\ pc'[Timer] = "wantPeek" /\ now'[Timer] = clock
        /\ clock >= wake
    BY <1>7, <1>a DEF TimerWake
  <2>2. ~ CheckRule(Timer)
    BY <2>1 DEF CheckRule
  <2> QED BY <2>1, <2>2, <1>a DEF InTime, Seen
<1>8. CASE TimerPeek
  <2>1. /\ UNCHANGED <<clock, idx, now, wake>> /\ pc[Timer] = "wantPeek" /\ pc'[Timer] = "wantCheck"
    BY <1>8, <1>a DEF TimerPeek
  <2>2. ~ CheckRule(Timer)
    BY <2>1 DEF CheckRule
  <2> QED BY <2>1, <2>2, <1>a DEF InTime, Seen
<1>9. CASE Tick
  <2>1. /\ UNCHANGED <<pc, idx, now, wake>> /\ pc[Timer] = "idle" /\ clock < wake /\ clock' = clock + 1
    BY <1>9 DEF Tick
  <2>2. wake = clock + 1
    BY <2>1, <1>a DEF InTime
  <2>3. ~ CheckRule(Timer)
    BY <2>1 DEF CheckRule
  <2> QED BY <2>1, <2>2, <2>3, <1>a DEF InTime, Seen
<1>10. CASE UNCHANGED vars
  BY <1>3, <1>10 DEF vars
<1>11. Step(Timer) => LockToCheck(Timer) \/ CheckRule(Timer) \/ Checked(Timer) \/ TimerWake \/ TimerPeek
  BY <1>a DEF Step
<1> QED BY ONLY [Next]_vars, <1>1, <1>2, <1>3, <1>4, <1>5, <1>6, <1>7, <1>8, <1>9, <1>10, <1>11 DEF Next

\* The engine starts before the first second of any schedule is over.
LEMMA ScheduleInit == Init => ScheduleKept
<1> SUFFICES ASSUME Init PROVE ScheduleKept
  OBVIOUS
<1>1. InTime
  BY EngineAssumption DEF Init, InTime, Threads
<1>2. ASSUME NEW i \in DOMAIN Rules PROVE Kept(i)
  <2>1. fired[i] = <<>> /\ DOMAIN fired[i] = {}
    BY DEF Init
  <2>2. pc[Timer] = "idle" /\ wake = Boot /\ clock = Boot
    BY DEF Init, Threads
  <2>3. Seen(i) = Boot - 1
    BY <2>2, EngineAssumption DEF Seen
  <2>4. Boot..Seen(i) = {}
    BY <2>3, EngineAssumption
  <2> QED BY <2>1, <2>4 DEF Kept
<1> QED BY <1>1, <1>2 DEF ScheduleKept

\* A timer that the schedule lists for this second executes when it is checked.
LEMMA KeptExecuted ==
  ASSUME EngineTyped, NEW i \in DOMAIN Rules, Kept(i), Seen(i) = clock - 1, Seen(i)' = clock,
         ScheduledAt(Rules[i].conds[1], clock), fired'[i] = Append(fired[i], clock)
  PROVE  Kept(i)'
<1> DEFINE c == Rules[i].conds[1]
           f == fired[i]
           n == Len(f) + 1
<1>1. f \in Seq(Boot..Horizon) /\ clock \in Nat /\ Boot <= clock /\ Boot \in Nat
  BY EngineAssumption DEF EngineTyped, TypeOK
<1>2. /\ DOMAIN fired'[i] = 1..n /\ fired'[i][n] = clock /\ n \notin DOMAIN f /\ DOMAIN f = 1..(n - 1) /\ n \in Nat
      /\ \A m \in DOMAIN f : fired'[i][m] = f[m] /\ f[m] \in Nat
  <2>1. Len(f) \in Nat /\ DOMAIN f = 1..Len(f) /\ \A m \in DOMAIN f : f[m] \in Nat
    BY <1>1, EngineAssumption
  <2>2. PICK g : g = Append(f, clock)
    OBVIOUS
  <2>3. fired'[i] = g
    BY <2>2
  <2> HIDE DEF f
  <2>4. Len(g) = Len(f) + 1 /\ DOMAIN g = 1..Len(g) /\ g[Len(f) + 1] = clock /\ \A m \in DOMAIN f : g[m] = f[m]
    BY <2>2, <2>1, <1>1
  <2> QED BY ONLY <2>1, <2>3, <2>4
<1>3. \A s \in Nat : (\E m \in DOMAIN f : f[m] = s) <=> s \in Boot..(clock - 1) /\ ScheduledAt(c, s)
  BY DEF Kept
<1>4. \A m, k \in DOMAIN f : m # k => f[m] # f[k]
  BY DEF Kept
<1>5. \A m \in DOMAIN f : f[m] # clock
  BY <1>1, <1>2, <1>3
<1>6. DOMAIN fired'[i] = DOMAIN f \cup {n}
  BY <1>2
<1> HIDE DEF f, n
<1>7. \A m, k \in DOMAIN fired'[i] : m # k => fired'[i][m] # fired'[i][k]
  BY ONLY <1>2, <1>4, <1>5, <1>6
<1>8. ASSUME NEW s \in Nat
      PROVE (\E m \in DOMAIN fired'[i] : fired'[i][m] = s) <=> s \in Boot..clock /\ ScheduledAt(c, s)
  <2>1. (\E m \in DOMAIN fired'[i] : fired'[i][m] = s) <=> (s = clock \/ \E m \in DOMAIN f : f[m] = s)
    BY ONLY <1>2, <1>6
  <2>2. s \in Boot..clock <=> s = clock \/ s \in Boot..(clock - 1)
    BY <1>1
  <2> HIDE DEF c
  <2>3. ScheduledAt(c, clock)
    BY DEF c
  <2> QED BY ONLY <2>1, <2>2, <2>3, <1>1, <1>3
<1>9. \A s \in Nat : (\E m \in DOMAIN fired'[i] : fired'[i][m] = s) <=> s \in Boot..Seen(i)' /\ ScheduledAt(c, s)'
  BY <1>8 DEF ScheduledAt
<1> QED BY <1>7, <1>9 DEF Kept

\* Every step keeps the timers to their schedules.
LEMMA ScheduleStep == EngineTyped /\ DailyRecord /\ ScheduleKept /\ [Next]_vars => ScheduleKept'
<1> SUFFICES ASSUME EngineTyped, DailyRecord, ScheduleKept, [Next]_vars, prompt'
             PROVE  \A i \in DOMAIN Rules : IsTimer(i) => InTime' /\ Kept(i)'
  BY DEF ScheduleKept, IsTimer, Only
<1>1. prompt' = prompt
  BY DEF Next, Step, LockToCheck, CheckRule, Checked, TimerWake, TimerPeek, CacheDrop, CacheAdd, HandlerReturns,
         HandlerReports, BeginReport, IOTA_PropertiesReport, Tick, vars
<1>2. SUFFICES ASSUME NEW i \in DOMAIN Rules, IsTimer(i) PROVE InTime' /\ Kept(i)'
  OBVIOUS
<1>3. prompt /\ InTime /\ Kept(i)
  BY <1>1, <1>2 DEF ScheduleKept
<1>4. InTime'
  BY <1>3, SeenStep
<1>5. Kept(i)'
  <2> DEFINE c == Rules[i].conds[1]
  <2>1. Kept(i) /\ HasTimer(i)
    BY <1>2, <1>3, OnlyTimer DEF IsTimer
  <2>2. clock \in Nat /\ Timer \in Threads
    BY EngineAssumption DEF EngineTyped, TypeOK, Threads
  <2>3. CASE Seen(i)' = Seen(i) /\ fired'[i] = fired[i]
    BY <2>1, <2>3 DEF Kept, ScheduledAt
  <2>4. CASE CheckRule(Timer) /\ idx[Timer] = i
    <3>1. Seen(i) = clock - 1 /\ Seen(i)' = clock /\ now[Timer] = clock
      BY <2>4, <1>3, SeenStep
    <3>2. Executes(i, TRUE, clock) <=> ScheduledAt(c, clock)
      <4>1. CASE Only(i, "daily")
        <5>1. Covered(i)
          BY <4>1 DEF DailyRecord
        <5>2. DailyDue(c, last[i][1], clock) <=> ScheduledAt(c, clock)
          BY <4>1, <5>1, <2>1, <2>2, <3>1, DailySchedule
        <5> QED BY <4>1, <5>2, DailyExecutes
      <4>2. CASE Only(i, "simple")
        <5>1. c \in SimpleTimers
          BY <4>2, OnlyTimer
        <5> QED BY <4>2, <5>1, <2>2, SimpleExecutes, SimpleSchedule
      <4> QED BY <4>1, <4>2, <1>2 DEF IsTimer
    <3>3. CASE ScheduledAt(c, clock)
      <4>1. fired'[i] = Append(fired[i], clock)
        BY <3>1, <3>2, <3>3, <2>1, <2>2, <2>4, CheckOfTimer
      <4> QED BY <4>1, <3>1, <3>3, <2>1, KeptExecuted
    <3>4. CASE ~ ScheduledAt(c, clock)
      <4>1. fired'[i] = fired[i]
        BY <3>1, <3>2, <3>4, <2>1, <2>2, <2>4, CheckOfTimer
      <4>2. \A s \in Nat : s \in Boot..clock /\ ScheduledAt(c, s) <=> s \in Boot..(clock - 1) /\ ScheduledAt(c, s)
        <5>1. \A s \in Nat : s \in Boot..clock => s = clock \/ s \in Boot..(clock - 1)
          BY <2>2, EngineAssumption
        <5>2. \A s \in Nat : s \in Boot..(clock - 1) => s \in Boot..clock
          BY <2>2, EngineAssumption
        <5> HIDE DEF c
        <5> QED BY ONLY <5>1, <5>2, <3>4
      <4>3. \A s \in Nat : (\E m \in DOMAIN fired[i] : fired[i][m] = s) <=> s \in Boot..(clock - 1) /\ ScheduledAt(c, s)
        BY <2>1, <3>1 DEF Kept
      <4>4. \A s \in Nat : (\E m \in DOMAIN fired'[i] : fired'[i][m] = s) <=> s \in Boot..Seen(i)' /\ ScheduledAt(c, s)
        BY ONLY <4>1, <4>2, <4>3, <3>1
      <4>5. \A m, k \in DOMAIN fired'[i] : m # k => fired'[i][m] # fired'[i][k]
        BY <4>1, <2>1 DEF Kept
      <4> QED BY <4>4, <4>5 DEF Kept, ScheduledAt
    <3> QED BY <3>3, <3>4
  <2>5. CASE ~ (CheckRule(Timer) /\ idx[Timer] = i)
    <3>1. Seen(i)' = Seen(i)
      BY <2>5, <1>3, SeenStep, Zenon
    <3>2. CASE UNCHANGED <<last, fired>>
      BY <3>1, <3>2, <2>3
    <3>3. ASSUME NEW t \in Threads, CheckRule(t) PROVE fired'[i] = fired[i]
      <4>1. ~ (t = Timer /\ idx[t] = i /\ Executes(i, TRUE, now[t]))
        BY <2>5, <3>3
      <4> QED BY <4>1, <3>3, <2>1, CheckOfTimer, Zenon
    <3> QED BY <3>1, <3>2, <3>3, <2>3, OtherSteps
  <2> QED BY <2>4, <2>5
<1> QED BY <1>4, <1>5

\* A sequence without repetition is as long as the set of its members is large.
LEMMA LengthOfDistinct ==
  ASSUME NEW T, NEW f \in Seq(T), \A m, n \in DOMAIN f : m # n => f[m] # f[n]
  PROVE  Len(f) = Cardinality({f[n] : n \in DOMAIN f})
<1> DEFINE R == {f[n] : n \in DOMAIN f}
<1>1. Len(f) \in Nat /\ DOMAIN f = 1..Len(f) /\ f \in [DOMAIN f -> R]
  OBVIOUS
<1>2. IsFiniteSet(1..Len(f)) /\ Cardinality(1..Len(f)) = Len(f)
  <2>1. \A n \in Int : IsFiniteSet(1..n) /\ Cardinality(1..n) = IF 1 > n THEN 0 ELSE n - 1 + 1
    BY FS_Interval
  <2>2. \A n \in Nat : Cardinality(1..n) = n
    BY <2>1
  <2> QED BY ONLY <1>1, <2>1, <2>2
<1>3. f \in Bijection(DOMAIN f, R)
  <2>1. \A a, b \in DOMAIN f : f[a] = f[b] => a = b
    OBVIOUS
  <2>2. \A t \in R : \E s \in DOMAIN f : f[s] = t
    OBVIOUS
  <2> HIDE DEF R
  <2>3. f \in Injection(DOMAIN f, R) /\ f \in Surjection(DOMAIN f, R)
    BY ONLY <1>1, <2>1, <2>2 DEF Injection, Surjection, IsInjective
  <2> QED BY <2>3 DEF Bijection
<1>4. ExistsBijection(1..Len(f), R)
  BY <1>1, <1>3 DEF ExistsBijection
<1> HIDE DEF R
<1>5. Cardinality(R) = Len(f)
  BY <1>2, <1>4, FS_Bijection
<1> QED BY <1>5 DEF R

\* Between two rounds the last second seen is the present one.
LEMMA ScheduleFollows == EngineTyped /\ ScheduleKept => TimersOnSchedule
<1> SUFFICES ASSUME EngineTyped, ScheduleKept, prompt, pc[Timer] = "idle", clock < wake,
                    NEW i \in DOMAIN Rules, IsTimer(i)
             PROVE  /\ {fired[i][n] : n \in DOMAIN fired[i]} = Schedule(Rules[i].conds[1])
                    /\ Len(fired[i]) = Cardinality(Schedule(Rules[i].conds[1]))
  BY DEF TimersOnSchedule, IsTimer
<1> DEFINE c == Rules[i].conds[1]
           f == fired[i]
           R == {f[n] : n \in DOMAIN f}
<1>1. Kept(i) /\ Seen(i) = clock
  BY DEF ScheduleKept, Seen
<1>2. f \in Seq(Boot..Horizon) /\ Boot \in Nat /\ clock \in Nat
  BY EngineAssumption DEF EngineTyped, TypeOK
<1>3. \A n \in DOMAIN f : f[n] \in Nat
  BY <1>2, EngineAssumption
<1>4. \A t \in Nat : t \in R <=> t \in Boot..clock /\ ScheduledAt(c, t)
  BY <1>1 DEF Kept
<1>5. \A t \in Nat : t \in Schedule(c) <=> t \in Boot..clock /\ ScheduledAt(c, t)
  <2> HIDE DEF c
  <2> QED BY <1>2 DEF Schedule, ScheduledAt
<1>6. R \subseteq Nat
  BY <1>3
<1>7. Schedule(c) \subseteq Nat
  <2>1. Boot..clock \subseteq Nat
    BY <1>2
  <2>2. Schedule(c) \subseteq Boot..clock
    BY DEF Schedule
  <2> QED BY <2>1, <2>2
<1> HIDE DEF c, R
<1>8. R = Schedule(c)
  BY <1>4, <1>5, <1>6, <1>7
<1>9. Len(f) = Cardinality(R)
  BY <1>1, <1>2, LengthOfDistinct DEF Kept, R
<1> QED BY <1>8, <1>9 DEF c, R

\* TLC checks it as TimersOnSchedule: when each round of the timer thread ends within its
\* second, a daily and a simple timer execute exactly at the instants that their
\* parameters mean, each once.  For a daily timer that rests on its record: the first
\* instant of the minute, or the start of the engine, is due, and then none is until the
\* minute is over; the minute before it was on another day, and a day is two minutes long.
THEOREM OnSchedule == Spec => []TimersOnSchedule
<1>1. EngineTyped /\ DailyRecord /\ ScheduleKept /\ [Next]_vars => EngineTyped' /\ DailyRecord' /\ ScheduleKept'
  BY EngineTypedStep, DailyRecordStep, ScheduleStep
<1>2. Init => EngineTyped /\ DailyRecord /\ ScheduleKept
  BY EngineTypedInit, DailyRecordInit, ScheduleInit
<1> QED BY <1>1, <1>2, ScheduleFollows, PTL DEF Spec

-----------------------------------------------------------------------------
(* Reports.                                                                *)

\* One caller reports at a time.
OneReporting == \A t, u \in Reporting : t = u

\* The cache has at most one entry for each service.
OneEntry == \A j, k \in DOMAIN cache : cache[j].service = cache[k].service => j = k

\* The cache has no entry for a service while its entry is replaced.
NoneWhileReplaced == \A t \in Callers : pc[t] = "add" => Entries(report[t].service) = {}

\* What a caller has cached is there until its round is over.
CachedStays ==
  \A t \in Callers : pc[t] \in {"wantCheck", "checking"} => \E j \in DOMAIN cache : cache[j] = report[t]

\* As long as no two reports have overlapped, the cache is in step with the report under way.
CacheFollows == ~ overlap => OneReporting /\ OneEntry /\ NoneWhileReplaced /\ CachedStays

\* g is made of the entries of c other than k, in their order.
Remains(c, k, g) ==
  \A m \in DOMAIN g : \E j \in DOMAIN c : j # k /\ g[m] = c[j] /\ j = IF m < k THEN m ELSE m + 1

\* What remains of the cache without its entry k.
LEMMA WithoutEntry ==
  ASSUME NEW T, NEW c \in Seq(T), NEW k \in DOMAIN c, NEW g,
         g = SubSeq(c, 1, k - 1) \o SubSeq(c, k + 1, Len(c))
  PROVE  Remains(c, k, g)
<1>1. Len(c) \in Nat /\ DOMAIN c = 1..Len(c) /\ k \in 1..Len(c)
  OBVIOUS
<1>2. PICK a : a = SubSeq(c, 1, k - 1)
  OBVIOUS
<1>3. PICK b : b = SubSeq(c, k + 1, Len(c))
  OBVIOUS
<1>4. a \in Seq(T) /\ Len(a) = k - 1 /\ \A m \in 1..(k - 1) : a[m] = c[m]
  BY <1>1, <1>2
<1>5. b \in Seq(T) /\ Len(b) = Len(c) - k /\ \A m \in 1..(Len(c) - k) : b[m] = c[m + k]
  <2>1. PICK h : h = k + 1
    OBVIOUS
  <2>2. h \in Int /\ h <= Len(c) + 1 /\ h >= 1 /\ Len(c) \in Int
    BY <1>1, <2>1
  <2>3. b = SubSeq(c, h, Len(c))
    BY <1>3, <2>1
  <2>4. Len(b) = Len(c) - h + 1 /\ b \in Seq(T)
    BY ONLY <2>2, <2>3, <1>1, c \in Seq(T)
  <2>5. \A m \in 1..(Len(c) - h + 1) : b[m] = c[h + m - 1]
    BY ONLY <2>2, <2>3, <1>1, c \in Seq(T)
  <2>6. Len(c) - h + 1 = Len(c) - k
    BY ONLY <1>1, <2>1
  <2>7. \A m \in 1..(Len(c) - k) : b[m] = c[m + k]
    <3> SUFFICES ASSUME NEW m \in 1..(Len(c) - k) PROVE b[m] = c[m + k]
      OBVIOUS
    <3>1. b[m] = c[h + m - 1]
      BY ONLY <2>5, <2>6, m \in 1..(Len(c) - k)
    <3>2. h + m - 1 = m + k
      BY ONLY <1>1, <2>1, m \in 1..(Len(c) - k)
    <3> QED BY ONLY <3>1, <3>2, Zenon
  <2> QED BY ONLY <2>4, <2>6, <2>7
<1>6. /\ DOMAIN g = 1..(Len(c) - 1)
      /\ \A m \in 1..(Len(c) - 1) : g[m] = IF m <= k - 1 THEN a[m] ELSE b[m - (k - 1)]
  <2>1. g = a \o b
    BY <1>2, <1>3
  <2>2. Len(g) = Len(a) + Len(b) /\ DOMAIN g = 1..Len(g)
    BY ONLY <2>1, <1>4, <1>5
  <2>3. Len(a) + Len(b) = Len(c) - 1
    BY ONLY <1>1, <1>4, <1>5
  <2>4. \A m \in 1..(Len(a) + Len(b)) : g[m] = IF m <= Len(a) THEN a[m] ELSE b[m - Len(a)]
    BY ONLY <2>1, <1>4, <1>5, ConcatProperties
  <2> QED BY ONLY <2>2, <2>3, <2>4, <1>4
<1>7. ASSUME NEW m \in DOMAIN g
      PROVE  \E j \in DOMAIN c : j # k /\ g[m] = c[j] /\ j = IF m < k THEN m ELSE m + 1
  <2>1. CASE m < k
    <3>1. m \in 1..(k - 1) /\ m \in 1..Len(c) /\ m # k
      BY ONLY <1>1, <1>6, <2>1, m \in DOMAIN g
    <3>2. g[m] = c[m]
      BY ONLY <1>1, <1>4, <1>6, <3>1, m \in DOMAIN g
    <3> QED BY ONLY <1>1, <2>1, <3>1, <3>2
  <2>2. CASE ~ (m < k)
    <3>1. m - (k - 1) \in 1..(Len(c) - k) /\ m - (k - 1) + k = m + 1 /\ m + 1 \in 1..Len(c) /\ m + 1 # k /\ ~ (m <= k - 1)
      BY ONLY <1>1, <1>6, <2>2, m \in DOMAIN g
    <3>2. g[m] = b[m - (k - 1)]
      BY ONLY <1>6, <3>1, m \in DOMAIN g
    <3>3. b[m - (k - 1)] = c[m + 1]
      BY ONLY <1>5, <3>1
    <3> QED BY ONLY <1>1, <2>2, <3>1, <3>2, <3>3
  <2> QED BY <2>1, <2>2
<1> QED BY <1>7 DEF Remains

\* With one entry for each service, deleting that of a service leaves none of it and one
\* of each other service.
LEMMA DropLeavesNone ==
  ASSUME EngineTyped, NEW t \in Callers, CacheDrop(t),
         \A j, k \in DOMAIN cache : cache[j].service = cache[k].service => j = k
  PROVE  /\ Entries(report[t].service)' = {}
         /\ \A j, k \in DOMAIN cache' : cache'[j].service = cache'[k].service => j = k
<1> DEFINE s == report[t].service
<1>1. cache \in Seq(Report) /\ report' = report
  BY DEF EngineTyped, TypeOK, CacheDrop
<1>2. CASE Entries(s) = {}
  <2>1. cache' = cache
    BY <1>2 DEF CacheDrop
  <2> QED BY <2>1, <1>1, <1>2 DEF Entries
<1>3. CASE Entries(s) # {}
  <2>1. PICK k \in DOMAIN cache : k = First(s) /\ cache[k].service = s
    BY <1>1, <1>3, FirstIsEntry DEF Entries
  <2>2. cache' = SubSeq(cache, 1, k - 1) \o SubSeq(cache, k + 1, Len(cache))
    BY <1>3, <2>1 DEF CacheDrop
  <2>3. \A m \in DOMAIN cache' : \E j \in DOMAIN cache :
           j # k /\ cache'[m] = cache[j] /\ j = IF m < k THEN m ELSE m + 1
    <3>1. PICK g : g = cache'
      OBVIOUS
    <3>2. g = SubSeq(cache, 1, k - 1) \o SubSeq(cache, k + 1, Len(cache))
      BY <2>2, <3>1
    <3>3. Remains(cache, k, g)
      BY ONLY <1>1, <3>2, k \in DOMAIN cache, WithoutEntry
    <3> QED BY <3>1, <3>3 DEF Remains
  <2>4. \A m \in DOMAIN cache' : cache'[m].service # s
    BY <2>1, <2>3
  <2>5. ASSUME NEW m \in DOMAIN cache', NEW n \in DOMAIN cache', cache'[m].service = cache'[n].service
        PROVE  m = n
    <3>1. PICK j \in DOMAIN cache : cache'[m] = cache[j] /\ (j = IF m < k THEN m ELSE m + 1)
      BY <2>3
    <3>2. PICK i \in DOMAIN cache : cache'[n] = cache[i] /\ (i = IF n < k THEN n ELSE n + 1)
      BY <2>3
    <3>3. i = j
      BY <3>1, <3>2, <2>5
    <3>4. m \in Int /\ n \in Int /\ k \in Int
      <4>1. cache' \in Seq(Report)
        BY EngineTypedStep DEF Next, Step, Threads, EngineTyped, TypeOK, CacheDrop
      <4> QED BY <4>1, <1>1
    <3>5. ~ (n < k /\ n = m + 1 /\ ~ (m < k)) /\ ~ (m < k /\ m = n + 1 /\ ~ (n < k))
      BY <3>4
    <3> QED BY ONLY <3>1, <3>2, <3>3, <3>4, <3>5
  <2> QED BY <2>4, <2>5, <1>1 DEF Entries
<1> QED BY <1>2, <1>3

\* A step that leaves the cache and the reports alone keeps them if no caller comes into a
\* report or out of a place in it.
LEMMA CacheQuiet ==
  ASSUME UNCHANGED <<cache, report, overlap>>, CacheFollows,
         \A t \in Callers : \/ pc'[t] = pc[t] \/ pc'[t] \notin InReport
                            \/ pc[t] = "wantCheck" /\ pc'[t] = "checking"
  PROVE  CacheFollows'
<1> SUFFICES ASSUME ~ overlap PROVE (OneReporting /\ OneEntry /\ NoneWhileReplaced /\ CachedStays)'
  BY DEF CacheFollows
<1>1. OneReporting /\ OneEntry /\ NoneWhileReplaced /\ CachedStays
  BY DEF CacheFollows
<1>2. OneReporting'
  BY <1>1 DEF OneReporting, Reporting, InReport
<1>3. OneEntry'
  BY <1>1 DEF OneEntry
<1>4. NoneWhileReplaced'
  BY <1>1 DEF NoneWhileReplaced, InReport, Entries
<1>5. CachedStays'
  BY <1>1 DEF CachedStays, InReport
<1> QED BY <1>2, <1>3, <1>4, <1>5

\* The engine starts with an empty cache and no report.
LEMMA CacheInit == Init => CacheFollows
<1> SUFFICES ASSUME Init PROVE CacheFollows
  OBVIOUS
<1>1. \A t \in Callers : pc[t] = "idle"
  BY DEF Init, Threads
<1>2. cache = <<>> /\ DOMAIN cache = {}
  BY DEF Init
<1> QED BY <1>1, <1>2 DEF CacheFollows, OneReporting, OneEntry, NoneWhileReplaced, CachedStays, Reporting

\* A report that begins overlaps another or finds none.
LEMMA CacheBegin ==
  ASSUME EngineTyped, CacheFollows, NEW t \in Callers, NEW r, BeginReport(t, r)
  PROVE  CacheFollows'
<1> SUFFICES ASSUME ~ overlap' PROVE (OneReporting /\ OneEntry /\ NoneWhileReplaced /\ CachedStays)'
  BY DEF CacheFollows
<1>1. ~ overlap /\ Reporting = {}
  BY Zenon DEF BeginReport
<1>2. OneReporting /\ OneEntry /\ NoneWhileReplaced /\ CachedStays
  BY <1>1 DEF CacheFollows
<1>3. pc \in [Threads -> PCs] /\ t \in Threads /\ Callers \subseteq Threads
  BY DEF EngineTyped, TypeOK, Threads
<1>4. pc' = [pc EXCEPT ![t] = "drop"] /\ cache' = cache
  BY DEF BeginReport
<1>5. \A u \in Callers : pc[u] \notin InReport
  BY <1>1 DEF Reporting, InReport
<1>6. \A u \in Callers : u # t => pc'[u] \notin InReport
  BY <1>3, <1>4, <1>5
<1>7. pc'[t] = "drop"
  BY <1>3, <1>4
<1>8. OneReporting'
  BY <1>6 DEF OneReporting, Reporting, InReport
<1>9. OneEntry'
  BY <1>2, <1>4 DEF OneEntry
<1>10. NoneWhileReplaced' /\ CachedStays'
  BY <1>6, <1>7 DEF NoneWhileReplaced, CachedStays, InReport
<1> QED BY <1>8, <1>9, <1>10

\* Every step keeps the cache in step with the reports.
LEMMA CacheStep == EngineTyped /\ CacheFollows /\ [Next]_vars => CacheFollows'
<1> SUFFICES ASSUME EngineTyped, CacheFollows, [Next]_vars PROVE CacheFollows'
  OBVIOUS
<1>a. /\ pc \in [Threads -> PCs] /\ Callers \subseteq Threads /\ cache \in Seq(Report)
      /\ \A t \in Callers : pc[t] \in InReport => report[t] \in Report
      /\ Timer \in Threads /\ Timer \notin Callers /\ report \in [Callers -> Report \cup {NoReport}]
  BY EngineAssumption DEF EngineTyped, TypeOK, Threads, RoundsTyped
<1>1. ASSUME NEW t \in Threads, LockToCheck(t) PROVE CacheFollows'
  <2>1. pc' = [pc EXCEPT ![t] = "checking"] /\ pc[t] = "wantCheck" /\ UNCHANGED <<cache, report, overlap>>
    BY <1>1 DEF LockToCheck
  <2> QED BY <2>1, <1>a, CacheQuiet
<1>2. ASSUME NEW t \in Threads, CheckRule(t) PROVE CacheFollows'
  <2>1. PICK S \in SUBSET FreeSlots : pc' = [u \in Threads |-> IF u \in S THEN "handler" ELSE pc[u]]
    BY <1>2 DEF CheckRule, Started
  <2>2. UNCHANGED <<cache, report, overlap>>
    BY <1>2 DEF CheckRule
  <2>3. \A u \in Callers : pc'[u] = pc[u] \/ pc'[u] \notin InReport
    BY <2>1, <1>a DEF InReport
  <2> QED BY <2>2, <2>3, CacheQuiet
<1>3. ASSUME NEW t \in Threads, Checked(t) PROVE CacheFollows'
  <2>1. /\ pc' = [pc EXCEPT ![t] = "idle"] /\ UNCHANGED <<cache, overlap>> /\ pc[t] = "checking"
        /\ report' = IF t = Timer THEN report ELSE [report EXCEPT ![t] = NoReport]
    BY <1>3 DEF Checked
  <2>2. SUFFICES ASSUME ~ overlap PROVE (OneReporting /\ OneEntry /\ NoneWhileReplaced /\ CachedStays)'
    BY <2>1 DEF CacheFollows
  <2>3. OneReporting /\ OneEntry /\ NoneWhileReplaced /\ CachedStays
    BY <2>2 DEF CacheFollows
  <2>4. \A u \in Callers : u # t => pc'[u] = pc[u] /\ report'[u] = report[u]
    BY <2>1, <1>a
  <2>5. pc'[t] = "idle"
    BY <2>1, <1>a
  <2>6. OneReporting'
    BY <2>3, <2>4, <2>5 DEF OneReporting, Reporting
  <2>7. OneEntry'
    BY <2>1, <2>3 DEF OneEntry
  <2>8. NoneWhileReplaced'
    BY <2>1, <2>3, <2>4, <2>5 DEF NoneWhileReplaced, Entries
  <2>9. CachedStays'
    BY <2>1, <2>3, <2>4, <2>5 DEF CachedStays
  <2> QED BY <2>6, <2>7, <2>8, <2>9
<1>4. CASE TimerWake
  <2>1. pc' = [pc EXCEPT ![Timer] = "wantPeek"] /\ UNCHANGED <<cache, report, overlap>>
    BY <1>4 DEF TimerWake
  <2> QED BY <2>1, <1>a, CacheQuiet
<1>5. CASE TimerPeek
  <2>1. \A u \in Callers : pc'[u] = pc[u]
    BY <1>5, <1>a DEF TimerPeek
  <2>2. UNCHANGED <<cache, report, overlap>>
    BY <1>5 DEF TimerPeek
  <2> QED BY <2>1, <2>2, CacheQuiet
<1>6. ASSUME NEW t \in Callers, CacheDrop(t) PROVE CacheFollows'
  <2>1. pc' = [pc EXCEPT ![t] = "add"] /\ UNCHANGED <<report, overlap>> /\ pc[t] = "drop"
    BY <1>6 DEF CacheDrop
  <2>2. SUFFICES ASSUME ~ overlap PROVE (OneReporting /\ OneEntry /\ NoneWhileReplaced /\ CachedStays)'
    BY <2>1 DEF CacheFollows
  <2>3. OneReporting /\ OneEntry
    BY <2>2 DEF CacheFollows
  <2>4. \A u \in Callers : u # t => pc'[u] = pc[u] /\ pc[u] \notin InReport
    BY <2>1, <2>3, <1>a DEF OneReporting, Reporting, InReport
  <2>5. pc'[t] = "add"
    BY <2>1, <1>a
  <2>6. OneReporting'
    BY <2>4 DEF OneReporting, Reporting, InReport
  <2>7. Entries(report[t].service)' = {} /\ OneEntry'
    BY <1>6, <2>3, DropLeavesNone DEF OneEntry
  <2>8. NoneWhileReplaced'
    BY <2>4, <2>7 DEF NoneWhileReplaced, InReport, Entries
  <2>9. CachedStays'
    BY <2>4, <2>5 DEF CachedStays, InReport
  <2> QED BY <2>6, <2>7, <2>8, <2>9
<1>7. ASSUME NEW t \in Callers, CacheAdd(t) PROVE CacheFollows'
  <2>1. /\ pc' = [pc EXCEPT ![t] = "wantCheck"] /\ UNCHANGED <<report, overlap>> /\ pc[t] = "add"
        /\ cache' = Append(cache, report[t])
    BY <1>7 DEF CacheAdd
  <2>2. SUFFICES ASSUME ~ overlap PROVE (OneReporting /\ OneEntry /\ NoneWhileReplaced /\ CachedStays)'
    BY <2>1 DEF CacheFollows
  <2>3. OneReporting /\ OneEntry /\ NoneWhileReplaced
    BY <2>2 DEF CacheFollows
  <2>4. \A u \in Callers : u # t => pc'[u] = pc[u] /\ pc[u] \notin InReport
    BY <2>1, <2>3, <1>a DEF OneReporting, Reporting, InReport
  <2>5. pc'[t] = "wantCheck"
    BY <2>1, <1>a
  <2>6. OneReporting'
    BY <2>4 DEF OneReporting, Reporting, InReport
  <2>7. \A j \in DOMAIN cache : cache[j].service # report[t].service
    BY <2>1, <2>3 DEF NoneWhileReplaced, Entries
  <2>8. /\ \A j \in DOMAIN cache' :
               (j \in DOMAIN cache /\ cache'[j] = cache[j]) \/ (j = Len(cache) + 1 /\ cache'[j] = report[t])
        /\ Len(cache) + 1 \in DOMAIN cache' /\ cache'[Len(cache) + 1] = report[t]
    <3>1. PICK g : g = Append(cache, report[t])
      OBVIOUS
    <3>2. report[t] \in Report /\ cache \in Seq(Report) /\ cache' = g
      BY <2>1, <1>a, <3>1 DEF InReport
    <3>3. /\ Len(g) = Len(cache) + 1 /\ DOMAIN g = 1..Len(g) /\ g[Len(cache) + 1] = report[t]
          /\ \A j \in 1..Len(cache) : g[j] = cache[j]
      BY ONLY <3>1, <3>2, AppendProperties
    <3>4. Len(cache) \in Nat /\ DOMAIN cache = 1..Len(cache)
      BY <3>2
    <3>5. \A j \in 1..(Len(cache) + 1) : j \in 1..Len(cache) \/ j = Len(cache) + 1
      BY <3>4
    <3>6. Len(cache) + 1 \in 1..(Len(cache) + 1)
      BY <3>4
    <3>7. /\ \A j \in DOMAIN g : (j \in DOMAIN cache /\ g[j] = cache[j]) \/ (j = Len(cache) + 1 /\ g[j] = report[t])
          /\ Len(cache) + 1 \in DOMAIN g /\ g[Len(cache) + 1] = report[t]
      BY ONLY <3>3, <3>4, <3>5, <3>6
    <3> QED BY ONLY <3>2, <3>7
  <2>9. OneEntry'
    BY <2>3, <2>7, <2>8 DEF OneEntry
  <2>10. NoneWhileReplaced'
    BY <2>4, <2>5 DEF NoneWhileReplaced, InReport
  <2>11. CachedStays'
    BY <2>1, <2>4, <2>8 DEF CachedStays, InReport
  <2> QED BY <2>6, <2>9, <2>10, <2>11
<1>8. ASSUME NEW s \in Slots, HandlerReturns(s) PROVE CacheFollows'
  <2>1. pc' = [pc EXCEPT ![s] = "idle"] /\ UNCHANGED <<cache, report, overlap>>
    BY <1>8 DEF HandlerReturns
  <2>2. \A u \in Callers : pc'[u] = pc[u] \/ pc'[u] \notin InReport
    BY <2>1, <1>a DEF InReport
  <2> QED BY <2>1, <2>2, CacheQuiet
<1>9. ASSUME NEW s \in Slots, NEW r \in Report, HandlerReports(s, r) PROVE CacheFollows'
  BY <1>9, CacheBegin DEF HandlerReports, Callers
<1>10. ASSUME NEW t \in Reporters, NEW r \in [service : Services, value : Values], IOTA_PropertiesReport(t, r)
       PROVE  CacheFollows'
  BY <1>10, CacheBegin DEF IOTA_PropertiesReport, Callers
<1>11. CASE Tick \/ UNCHANGED vars
  <2>1. UNCHANGED <<pc, cache, report, overlap>>
    BY <1>11 DEF Tick, vars
  <2> QED BY <2>1, CacheQuiet
<1> QED
  BY ONLY [Next]_vars, <1>1, <1>2, <1>3, <1>4, <1>5, <1>6, <1>7, <1>8, <1>9, <1>10, <1>11 DEF Next, Step

\* The check of a rule on the reported service finds the reported value, and the command
\* takes a free thread if and only if the value meets the condition.
LEMMA ReportIsJudged ==
  ASSUME EngineTyped, CacheFollows, ~ overlap, NEW t \in Callers, NEW i \in DOMAIN Rules
  PROVE  Judged(t, i)
<1> SUFFICES ASSUME CheckRule(t), idx[t] = i, Only(i, "data"), Rules[i].commands > 0,
                    Rules[i].conds[1].service = report[t].service, FreeSlots # {}
             PROVE  FreeSlots' # FreeSlots <=> Compare(Rules[i].conds[1], report[t].value)
  BY DEF Judged
<1> DEFINE c == Rules[i].conds[1]
           runs == Executes(i, t = Timer, now[t])
<1>1. t # Timer /\ t \in Threads /\ Slots \subseteq Threads /\ pc \in [Threads -> PCs] /\ cache \in Seq(Report)
  BY EngineAssumption DEF Threads, Callers, EngineTyped, TypeOK
<1>2. DOMAIN Rules[i].conds = {1} /\ Rules[i].conds # <<>> /\ IsData(c) /\ ~ IsDaily(c) /\ ~ IsSimple(c)
  <2>1. Rules[i] \in RuleInfo
    BY EngineAssumption
  <2>2. Rules[i].conds \in Seq(DailyTimers \cup SimpleTimers \cup Comparisons) /\ Len(Rules[i].conds) = 1
        /\ c.kind = "data"
    BY <2>1 DEF RuleInfo, Only
  <2>3. DOMAIN Rules[i].conds = {1} /\ Rules[i].conds # <<>>
    BY <2>2
  <2> QED BY <2>2, <2>3 DEF IsData, IsDaily, IsSimple
<1>3. PICK j \in DOMAIN cache : cache[j] = report[t]
  BY DEF CacheFollows, CachedStays, CheckRule
<1>4. Entries(c.service) # {} /\ CachedValue(c.service) = report[t].value
  <2>1. j \in Entries(c.service)
    BY <1>3 DEF Entries
  <2>2. First(c.service) \in Entries(c.service)
    BY <2>1, <1>1, FirstIsEntry
  <2>3. First(c.service) = j
    BY <2>1, <2>2 DEF CacheFollows, OneEntry, Entries
  <2> QED BY <2>1, <2>3, <1>3 DEF CachedValue
<1>5. Met(i, 1, now[t]) <=> Compare(c, report[t].value)
  BY <1>2, <1>4 DEF Met
<1>6. ConditionsHold(i, now[t]) <=> Met(i, 1, now[t])
  BY <1>2, <1>4 DEF ConditionsHold
<1>7. Rules[i].active /\ Allowed(Rules[i].range, now[t]) /\ ~ HasTimer(i)
  BY <1>2 DEF Only, Allowed, HasTimer
<1>8. runs <=> Compare(c, report[t].value)
  <2>1. HasTimer(i) = (t = Timer)
    BY <1>1, <1>7, Zenon DEF HasTimer
  <2> QED BY <2>1, <1>5, <1>6, <1>7 DEF Executes
<1>9. PICK S \in (IF runs THEN Started(i) ELSE {{}}) :
        pc' = [u \in Threads |-> IF u \in S THEN "handler" ELSE pc[u]]
  BY DEF CheckRule
<1> HIDE DEF c, runs
<1>10. CASE runs
  <2>1. S \subseteq FreeSlots /\ S # {}
    <3>1. S \in Started(i)
      BY <1>9, <1>10
    <3>2. S \subseteq FreeSlots
      BY <3>1 DEF Started
    <3>3. Cardinality(S) = Rules[i].commands \/ S = FreeSlots
      BY <3>1 DEF Started
    <3>4. S = {} => Cardinality(S) = 0
      BY FS_EmptySet
    <3>5. Rules[i].commands # 0
      BY EngineAssumption, SMTT(30) DEF RuleInfo
    <3> QED BY <3>2, <3>3, <3>4, <3>5
  <2>2. PICK s \in S : s \in FreeSlots /\ pc'[s] = "handler"
    BY <2>1, <1>1, <1>9 DEF FreeSlots
  <2>3. s \notin FreeSlots'
    BY <2>2 DEF FreeSlots
  <2> QED BY <2>2, <2>3, <1>8, <1>10 DEF c
<1>11. CASE ~ runs
  <2>1. S = {}
    BY <1>9, <1>11
  <2>2. \A s \in Slots : pc'[s] = pc[s]
    BY <2>1, <1>1, <1>9
  <2>3. FreeSlots' = FreeSlots
    BY <2>2 DEF FreeSlots
  <2> QED BY <2>3, <1>8, <1>11 DEF c
<1> QED BY <1>10, <1>11

\* TLC checks it as ReportTriggers: as long as no two reports have overlapped, a report is
\* judged by the value it reports, whatever the timer thread and the command threads do
\* meanwhile, although nothing protects the cache of reported values.
THEOREM ReportsTrigger == Spec => ReportTriggers
<1>1. EngineTyped /\ CacheFollows /\ [Next]_vars => EngineTyped' /\ CacheFollows'
  BY EngineTypedStep, CacheStep
<1>2. Init => EngineTyped /\ CacheFollows
  BY EngineTypedInit, CacheInit
<1>3. EngineTyped /\ CacheFollows => [~ overlap => \A t \in alone, i \in DOMAIN Rules : Judged(t, i)]_vars
  <2> SUFFICES ASSUME EngineTyped, CacheFollows, ~ overlap, NEW t \in alone, NEW i \in DOMAIN Rules
               PROVE  Judged(t, i)
    OBVIOUS
  <2>1. t \in Callers
    BY DEF EngineTyped, TypeOK
  <2> QED BY <2>1, ReportIsJudged
<1> QED BY <1>1, <1>2, <1>3, PTL DEF Spec, ReportTriggers

-----------------------------------------------------------------------------
(* Time ranges.                                                            *)

\* A later day begins when an earlier one is over.
LEMMA NextMultiple ==
  ASSUME NEW D \in Nat, NEW a \in Nat, NEW b \in Nat, a < b
  PROVE  D * a + D <= D * b
<1>1. PICK k \in Nat : b = a + 1 + k
  <2>1. b - a - 1 \in Nat /\ b = a + 1 + (b - a - 1)
    OBVIOUS
  <2> QED BY <2>1
<1>2. D * b = D * a + D + D * k
  BY <1>1
<1>3. D * k \in Nat /\ D * a \in Nat /\ D * b \in Nat
  BY <1>1
<1> QED BY <1>2, <1>3

\* An instant within the window of a day, or within that of a night.
LEMMA InWindow ==
  ASSUME NEW t \in Nat, NEW b \in Nat, NEW x \in 0..(Day - 1), NEW y \in 0..(Day - 1)
  PROVE  /\ t \in (b * Day + x)..(b * Day + y)
              <=> t \div Day = b /\ x <= SecOfDay(t) /\ SecOfDay(t) <= y
         /\ y <= x => (t \in (b * Day - Day + x)..(b * Day + y)
              <=> \/ t \div Day + 1 = b /\ x <= SecOfDay(t)
                  \/ t \div Day = b /\ SecOfDay(t) <= y)
<1>1. PICK a \in Nat, r \in 0..(Day - 1) : a = t \div Day /\ r = SecOfDay(t) /\ t = Day * a + r
  BY DayAndSecond
<1>2. PICK D \in Nat \ {0} : D = Day
  BY ClockAssumption
<1>3. PICK p \in Nat, q \in Nat : p = D * a /\ q = D * b /\ q = b * D
  <2>1. D * a \in Nat /\ D * b \in Nat /\ D * b = b * D
    OBVIOUS
  <2> QED BY <2>1
<1>4. a < b => p + D <= q
  BY <1>3, NextMultiple
<1>5. b < a => q + D <= p
  BY <1>3, NextMultiple
<1>6. a + 1 < b => p + D + D <= q
  <2>1. a + 1 < b => D * (a + 1) + D <= D * b
    BY NextMultiple
  <2>2. D * (a + 1) = p + D
    BY <1>3
  <2> QED BY <2>1, <2>2, <1>3
<1>7. a + 1 = b => p + D = q
  <2>1. D * (a + 1) = p + D
    BY <1>3
  <2> QED BY <2>1, <1>3
<1>8. a = b => p = q
  BY <1>3
<1>9. t = p + r /\ r \in 0..(D - 1) /\ x \in 0..(D - 1) /\ y \in 0..(D - 1)
  BY <1>1, <1>2, <1>3
<1>10. t \in (q + x)..(q + y) <=> a = b /\ x <= r /\ r <= y
  BY ONLY <1>4, <1>5, <1>8, <1>9, a \in Nat, b \in Nat, p \in Nat, q \in Nat, D \in Nat \ {0}, t \in Nat
<1>11. ASSUME y <= x PROVE t \in (q - D + x)..(q + y) <=> (a + 1 = b /\ x <= r) \/ (a = b /\ r <= y)
  BY ONLY <1>4, <1>5, <1>6, <1>7, <1>8, <1>9, <1>11, a \in Nat, b \in Nat, p \in Nat, q \in Nat,
          D \in Nat \ {0}, t \in Nat
<1> QED BY ONLY <1>1, <1>2, <1>3, <1>10, <1>11

\* Days by their weeks.
LEMMA DayOfWeek ==
  ASSUME NEW t \in Nat, NEW w \in Nat, NEW d \in DayBits
  PROVE  /\ w * DaysPerWeek + (d - 1) \in Nat
         /\ t \div Day = w * DaysPerWeek + (d - 1) <=> w = Week(t) /\ WDay(t) + 1 = d
         /\ t \div Day + 1 = w * DaysPerWeek + (d - 1)
              <=> \/ w = Week(t) /\ WDay(t) + 2 = d
                  \/ w = Week(t) + 1 /\ WDay(t) + 1 = DaysPerWeek /\ d = 1
<1>1. PICK W \in Nat \ {0} : W = DaysPerWeek
  BY ClockAssumption
<1>2. PICK a \in Nat : a = t \div Day
  BY DayAndSecond
<1>3. PICK k \in Nat, x \in 0..(W - 1) : k = Week(t) /\ x = WDay(t) /\ a = W * k + x
  <2>1. a \div W \in Nat /\ a % W \in 0..(W - 1) /\ a = W * (a \div W) + (a % W)
    BY Division
  <2> QED BY <2>1, <1>1, <1>2 DEF Week, WDay
<1>4. d \in 1..W
  BY <1>1 DEF DayBits
<1>5. PICK p \in Nat, q \in Nat : p = W * k /\ q = W * w /\ q = w * W
  <2>1. W * k \in Nat /\ W * w \in Nat /\ W * w = w * W
    OBVIOUS
  <2> QED BY <2>1
<1>6. k < w => p + W <= q
  BY <1>5, NextMultiple
<1>7. w < k => q + W <= p
  BY <1>5, NextMultiple
<1>8. w = k => q = p
  BY <1>5
<1>9. w = k + 1 => q = p + W
  BY <1>5
<1>10. k + 1 < w => p + W + W <= q
  <2>1. k + 1 < w => W * (k + 1) + W <= W * w
    BY NextMultiple
  <2>2. W * (k + 1) = p + W
    BY <1>5
  <2> QED BY <2>1, <2>2, <1>5
<1>11. q + (d - 1) \in Nat
  BY ONLY <1>4, q \in Nat, W \in Nat \ {0}
<1>12. a = q + (d - 1) <=> w = k /\ x + 1 = d
  BY ONLY <1>3, <1>4, <1>5, <1>6, <1>7, <1>8, a \in Nat, p \in Nat, q \in Nat, k \in Nat, w \in Nat,
          x \in 0..(W - 1), W \in Nat \ {0}
<1>13. a + 1 = q + (d - 1) <=> (w = k /\ x + 2 = d) \/ (w = k + 1 /\ x + 1 = W /\ d = 1)
  BY ONLY <1>3, <1>4, <1>5, <1>6, <1>7, <1>8, <1>9, <1>10, a \in Nat, p \in Nat, q \in Nat, k \in Nat, w \in Nat,
          x \in 0..(W - 1), W \in Nat \ {0}
<1> QED BY ONLY <1>1, <1>2, <1>3, <1>5, <1>11, <1>12, <1>13

\* The mask arithmetic on a range, for every instant there can be.
LEMMA RangeMeansWindows ==
  ASSUME NEW tr \in TimeRanges, NEW t \in Nat
  PROVE  InTimeRange(tr, t) <=> \E w \in 0..(Week(t) + 1), d \in tr.days : t \in Window(tr, w, d)
<1> DEFINE x == tr.start
           y == tr.end
           r == SecOfDay(t)
<1>1. x \in 0..(Day - 1) /\ y \in 0..(Day - 1) /\ tr.days \subseteq DayBits
  BY DEF TimeRanges
<1>2. Week(t) \in Nat /\ WDay(t) \in WeekDays /\ DaysPerWeek \in Nat \ {0} /\ r \in 0..(Day - 1)
  <2>1. t \div Day \in Nat /\ WDay(t) \in WeekDays /\ r \in 0..(Day - 1)
    BY DayAndSecond
  <2>2. DaysPerWeek \in Nat \ {0}
    BY ClockAssumption
  <2>3. (t \div Day) \div DaysPerWeek \in Nat
    BY ONLY <2>1, <2>2, Division
  <2> QED BY ONLY <2>1, <2>2, <2>3 DEF Week
<1>3. ASSUME NEW w \in Nat, NEW d \in DayBits
      PROVE  t \in Window(tr, w, d) <=>
               IF x < y THEN w = Week(t) /\ WDay(t) + 1 = d /\ x <= r /\ r <= y
               ELSE \/ w = Week(t) /\ WDay(t) + 1 = d /\ r <= y
                    \/ w = Week(t) /\ WDay(t) + 2 = d /\ x <= r
                    \/ w = Week(t) + 1 /\ WDay(t) + 1 = DaysPerWeek /\ d = 1 /\ x <= r
  <2>1. PICK b \in Nat : b = w * DaysPerWeek + (d - 1)
    BY DayOfWeek
  <2>2. /\ t \div Day = b <=> w = Week(t) /\ WDay(t) + 1 = d
        /\ t \div Day + 1 = b <=> \/ w = Week(t) /\ WDay(t) + 2 = d
                                  \/ w = Week(t) + 1 /\ WDay(t) + 1 = DaysPerWeek /\ d = 1
    BY <2>1, DayOfWeek
  <2>3. /\ t \in (b * Day + x)..(b * Day + y) <=> t \div Day = b /\ x <= r /\ r <= y
        /\ y <= x => (t \in (b * Day - Day + x)..(b * Day + y)
                        <=> \/ t \div Day + 1 = b /\ x <= r
                            \/ t \div Day = b /\ r <= y)
    BY ONLY <1>1, InWindow, t \in Nat, b \in Nat
  <2>4. Window(tr, w, d) = IF x < y THEN (b * Day + x)..(b * Day + y) ELSE (b * Day - Day + x)..(b * Day + y)
    BY ONLY <2>1 DEF Window
  <2> HIDE DEF x, y, r
  <2>5. CASE x < y
    BY ONLY <2>2, <2>3, <2>4, <2>5
  <2>6. CASE ~ (x < y)
    <3>1. y <= x
      BY <2>6, <1>1, ClockAssumption
    <3> QED BY ONLY <2>2, <2>3, <2>4, <2>6, <3>1
  <2> QED BY <2>5, <2>6
<1>4. (WDay(t) + 1 \in DayBefore(tr.days)) <=>
        (WDay(t) + 2 \in tr.days) \/ (WDay(t) + 1 = DaysPerWeek /\ 1 \in tr.days)
  <2> DEFINE shifted == {d - 1 : d \in tr.days}
  <2>1. \A n \in Nat : n \in shifted <=> n + 1 \in tr.days
    BY <1>1, <1>2 DEF DayBits
  <2>2. 0 \in shifted <=> 1 \in tr.days
    BY <2>1
  <2>3. WDay(t) + 1 \in Nat /\ WDay(t) + 1 + 1 = WDay(t) + 2
    BY ONLY <1>2 DEF WeekDays
  <2>4. WDay(t) + 1 \in shifted <=> WDay(t) + 2 \in tr.days
    BY ONLY <2>1, <2>3
  <2>5. DayBefore(tr.days) = IF 0 \in shifted THEN shifted \cup {DaysPerWeek} ELSE shifted
    BY DEF DayBefore, Saturday
  <2> QED BY ONLY <2>2, <2>4, <2>5
<1>5. CASE x < y
  <2>1. InTimeRange(tr, t) <=> WDay(t) + 1 \in tr.days /\ x <= r /\ r <= y
    BY <1>5 DEF InTimeRange, OnDay
  <2>2. Week(t) \in 0..(Week(t) + 1)
    BY ONLY <1>2
  <2>3. \A w \in 0..(Week(t) + 1) : w \in Nat
    BY ONLY <1>2
  <2> HIDE DEF x, y, r
  <2>4. \A w \in 0..(Week(t) + 1), d \in tr.days :
          t \in Window(tr, w, d) <=> w = Week(t) /\ WDay(t) + 1 = d /\ x <= r /\ r <= y
    BY ONLY <1>1, <1>3, <1>5, <2>3
  <2> QED BY ONLY <2>1, <2>2, <2>4
<1>6. CASE ~ (x < y)
  <2>1. InTimeRange(tr, t) <=> \/ WDay(t) + 1 \in tr.days /\ r <= y
                               \/ WDay(t) + 1 \in DayBefore(tr.days) /\ x <= r
    <3>1. x <= r <=> r >= x
      BY ONLY <1>1, <1>2, ClockAssumption
    <3> QED BY ONLY <3>1, <1>6 DEF InTimeRange, OnDay
  <2>2. Week(t) \in 0..(Week(t) + 1) /\ Week(t) + 1 \in 0..(Week(t) + 1)
    BY ONLY <1>2
  <2>3. \A w \in 0..(Week(t) + 1) : w \in Nat
    BY ONLY <1>2
  <2> HIDE DEF x, y, r
  <2>4. \A w \in 0..(Week(t) + 1), d \in tr.days :
          t \in Window(tr, w, d) <=> \/ w = Week(t) /\ WDay(t) + 1 = d /\ r <= y
                                     \/ w = Week(t) /\ WDay(t) + 2 = d /\ x <= r
                                     \/ w = Week(t) + 1 /\ WDay(t) + 1 = DaysPerWeek /\ d = 1 /\ x <= r
    BY ONLY <1>1, <1>3, <1>6, <2>3
  <2> QED BY ONLY <2>1, <2>2, <2>4, <1>4
<1> QED BY <1>5, <1>6

\* TLC checks it as RangeIsUnionOfWindows: the mask arithmetic on a range admits an
\* instant exactly when it lies in the window of a listed day, for every length of a day
\* and of a week and every range.
THEOREM RangesAreWindows == Spec => []RangeIsUnionOfWindows
<1>1. EngineTyped => RangeIsUnionOfWindows
  <2> SUFFICES ASSUME EngineTyped, NEW tr \in TimeRanges, NEW t \in clock..(clock + DaysPerWeek * Day - 1)
               PROVE  InTimeRange(tr, t) <=> \E w \in 0..(Week(t) + 1), d \in tr.days : t \in Window(tr, w, d)
    BY DEF RangeIsUnionOfWindows
  <2>1. clock \in Nat
    BY EngineAssumption DEF EngineTyped, TypeOK
  <2>2. t \in Nat
    BY <2>1
  <2> QED BY <2>2, RangeMeansWindows
<1> QED BY <1>1, EngineTypedInit, EngineTypedStep, PTL DEF Spec

=============================================================================
