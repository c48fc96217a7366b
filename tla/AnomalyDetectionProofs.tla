----------------------- MODULE AnomalyDetectionProofs -----------------------
(***************************************************************************)
(* The invariants of AnomalyDetection, for every list of tasks, every      *)
(* buffer and every size of events; and that what is proved of the ring    *)
(* holds with all the switching around it.                                 *)
(*                                                                         *)
(* The handler of a message sets one flag after the other and acquires or  *)
(* releases what belongs to it before the flag is set.  The invariant says *)
(* how far it has come: the flags before nth are set, and the descriptor   *)
(* follows the flag or, between the hook and the flag, its new value.      *)
(***************************************************************************)
EXTENDS AnomalyDetection, BruteForceProofs

\* The flags of the tasks that the loop has passed are set.
FlagsSet ==
  /\ handler \in {"task", "clear", "check"} =>
       \A n \in 1..(nth - 1) : check[Tasks[n]] = newCheck[Tasks[n]]
  /\ handler \in {"idle", "switch", "join", "cut", "write"} => check = newCheck

\* A hook is called for a task that has one.
AtHook ==
  /\ handler = "clear" => Task = "brute"
  /\ handler = "check" => Task \in {"tamper", "brute"}

\* The thread runs while its flag says so, except that it ends before the flag is cleared.
ThreadFollows ==
  /\ handler # "join" => (running <=> at # "none")
  /\ handler = "join" => running /\ ~ SecurityConfig
  /\ handler \in {"idle", "cut", "write"} => (running <=> SecurityConfig)

\* The flag that the monitor follows: between the hook and SetCheck it is the new one.
TamperOn ==
  IF handler = "check" /\ Task = "tamper" THEN newCheck["tamper"] ELSE check["tamper"]

\* The monitor of memory is at work while its flag says so.
MonitorFollows ==
  /\ TamperOn => gFd # 0
  /\ open <=> TamperOn /\ gFd # -1

\* Unless the file was lost it holds what the messages asked for, and so does what the
\* handler is about to set.
StoreFollows ==
  ~ torn =>
    /\ handler # "write" => file = wanted \/ (file = NoFile /\ wanted = Off)
    /\ handler = "idle" /\ file = NoFile => newCheck = Off
    /\ handler # "idle" => newCheck = goal

\* What a report has taken off the descriptor is in its buffer, or was looked at; the
\* index is past the start of the buffer once something was.
EventsFollow ==
  /\ taken <=> hit \/ length > 0
  /\ hit <=> index > 0
  /\ length > 0 => at = "read"
  /\ at \notin {"read", "send"} => ~ taken

\* The inductive invariant of the anomaly detection.
AnomalyInvariant ==
  /\ RingInvariant /\ AnomalyTypeOK
  /\ FlagsSet /\ AtHook /\ ThreadFollows /\ MonitorFollows /\ StoreFollows /\ EventsFollow

-----------------------------------------------------------------------------
\* What every case of a step needs.
LEMMA TaskFacts ==
  /\ Len(Tasks) \in Nat \ {0} /\ DOMAIN Tasks = 1..Len(Tasks)
  /\ \A n \in 1..Len(Tasks) : Tasks[n] \in TaskSet
  /\ \A t \in TaskSet : \E n \in 1..Len(Tasks) : t = Tasks[n]
  /\ "tamper" \in TaskSet /\ "brute" \in TaskSet
  /\ Off \in [TaskSet -> BOOLEAN] /\ ~ Off["tamper"]
<1>1. DOMAIN Tasks = 1..Len(Tasks) /\ Len(Tasks) \in Nat
  BY AnomalyAssumption
<1>2. "tamper" \in TaskSet /\ "brute" \in TaskSet
  BY AnomalyAssumption
<1>3. \A t \in TaskSet : \E n \in 1..Len(Tasks) : t = Tasks[n]
  BY <1>1 DEF TaskSet
<1>4. Len(Tasks) # 0
  BY <1>1, <1>2, <1>3
<1>5. \A n \in 1..Len(Tasks) : Tasks[n] \in TaskSet
  BY <1>1 DEF TaskSet
<1> QED BY <1>1, <1>2, <1>3, <1>4, <1>5 DEF Off

\* What is loaded is a setting of every task.
LEMMA LoadIsSetting ==
  ASSUME NEW f \in [TaskSet -> BOOLEAN], NEW text \in {NoFile} \cup Messages
  PROVE  Detect_LoadJsonData(f, text) \in [TaskSet -> BOOLEAN]
<1>1. DOMAIN text \subseteq TaskSet /\ \A t \in DOMAIN text : text[t] \in BOOLEAN
  BY DEF Messages, NoFile
<1> QED BY <1>1 DEF Detect_LoadJsonData

\* A budget that is spent from is a budget.
LEMMA SpendKeepsType ==
  ASSUME budget \in Budget, NEW what \in {"messages", "system", "tampers", "faults"}, Spend(what)
  PROVE  budget' \in Budget
<1> USE DEF Spend, Budget
<1>1. CASE what = "messages"
  BY <1>1
<1>2. CASE what = "system"
  BY <1>2
<1>3. CASE what = "tampers"
  BY <1>3
<1>4. CASE what = "faults"
  BY <1>4
<1> QED BY <1>1, <1>2, <1>3, <1>4

\* An event at the head of the queue has a size, and what is behind it is a queue.
LEMMA HeadIsSize ==
  ASSUME events \in Seq(EventSizes), events # <<>>
  PROVE  Head(events) \in Nat \ {0} /\ Tail(events) \in Seq(EventSizes)
<1>1. Head(events) \in EventSizes /\ Tail(events) \in Seq(EventSizes)
  OBVIOUS
<1> QED BY <1>1, AnomalyAssumption

\* The empty queue is a queue.
LEMMA NoEvents == <<>> \in Seq(EventSizes)
OBVIOUS

\* A file that was written is not an empty one.
LEMMA SettingIsFile ==
  ASSUME NEW f \in [TaskSet -> BOOLEAN]
  PROVE  f # NoFile
<1>1. "tamper" \in DOMAIN f
  BY TaskFacts
<1> QED BY <1>1 DEF NoFile

\* A file that was written is loaded whole, one that was not changes nothing.
LEMMA LoadOfFile ==
  ASSUME NEW f \in [TaskSet -> BOOLEAN], NEW g \in [TaskSet -> BOOLEAN]
  PROVE  Detect_LoadJsonData(f, g) = g /\ Detect_LoadJsonData(f, NoFile) = f
BY DEF Detect_LoadJsonData, NoFile

\* A step of the composition is a step of the ring, or leaves it alone.
LEMMA StepIsRingStep == [AnomalyNext]_anomalyVars => [BruteNext]_bruteVars
<1> SUFFICES ASSUME [AnomalyNext]_anomalyVars PROVE [BruteNext]_bruteVars
  OBVIOUS
<1> USE DEF BruteNext, ReportReads
<1>1. CASE Load \/ FileTampered
  BY <1>1 DEF Load, FileTampered
<1>2. CASE Detect_ParseShadowGetOrPropertiesSet
  BY <1>2 DEF Detect_ParseShadowGetOrPropertiesSet, FileTamperCheckInit, FileTamperCheckDestroy,
              InitIndex, InitRecords, SetCheck, SwitchThread, Joined, CutFile, WriteFile
<1>3. CASE ReportThread
  BY <1>3 DEF ReportThread, NextTask, PlainReport, FileTamperCheckGetReport, ReadEvents,
              TakeEvent, Iterate, ReadEnds, LoginBruteForceReport, Send, ThreadEnds
<1>4. CASE LoginSystem \/ Restart
  BY <1>4 DEF LoginSystem, Restart
<1>5. CASE UNCHANGED anomalyVars
  BY <1>5 DEF anomalyVars
<1> QED BY <1>1, <1>2, <1>3, <1>4, <1>5 DEF AnomalyNext

\* The ring's part of the invariant is preserved: BruteForceProofs.
LEMMA RingPart == RingInvariant /\ [AnomalyNext]_anomalyVars => RingInvariant'
BY StepIsRingStep, TypeStep, TimesStep, LineStep, IndexStep, RingStep DEF RingInvariant

-----------------------------------------------------------------------------
(* One step per action.                                                    *)

\* The steps of the MQTT thread and of the system around preserve the types.
LEMMA TypesStep == AnomalyInvariant /\ [AnomalyNext]_anomalyVars => AnomalyTypeOK'
<1> SUFFICES ASSUME AnomalyInvariant, [AnomalyNext]_anomalyVars PROVE AnomalyTypeOK'
  OBVIOUS
<1>0. BruteTypeOK'
  BY RingPart DEF AnomalyInvariant, RingInvariant
<1> USE <1>0, TaskFacts DEF AnomalyInvariant, AnomalyTypeOK, MonitorFd,
        flags, mqtt, reader, thread, monitor, store, others
<1>1. CASE Load
  <2>1. budget' \in Budget
    BY <1>1, SpendKeepsType DEF Load
  <2>2. PICK m \in budget.kinds : newCheck' = Loaded(m) /\ goal' = Detect_LoadJsonData(wanted, m)
    BY <1>1 DEF Load
  <2>3. m \in Messages
    BY <2>2 DEF Budget
  <2>4. file \in {NoFile} \cup Messages
    BY DEF Messages
  <2>5. Detect_LoadJsonData(newCheck, file) \in [TaskSet -> BOOLEAN]
    BY <2>4, LoadIsSetting
  <2>6. newCheck' \in [TaskSet -> BOOLEAN] /\ goal' \in [TaskSet -> BOOLEAN]
    BY <2>2, <2>3, <2>5, LoadIsSetting DEF Loaded
  <2> QED BY <1>1, <2>1, <2>6 DEF Load
<1>2. CASE FileTamperCheckInit
  <2>1. gFd' \in {-1, MonitorFd} /\ events' \in {events, <<>>} /\ handler' = "check"
    BY <1>2 DEF FileTamperCheckInit
  <2>4. events' \in Seq(EventSizes)
    BY <2>1, NoEvents
  <2>2. open' \in BOOLEAN
    BY <1>2, Zenon DEF FileTamperCheckInit
  <2>3. UNCHANGED <<flags, nth, running, thread, store, budget>>
    BY <1>2 DEF FileTamperCheckInit
  <2> QED BY <2>1, <2>2, <2>3, <2>4
<1>3. CASE FileTamperCheckDestroy
  BY <1>3 DEF FileTamperCheckDestroy
<1>4. CASE InitIndex
  BY <1>4 DEF InitIndex
<1>5. CASE InitRecords
  BY <1>5 DEF InitRecords
<1>6. CASE SetCheck
  BY <1>6 DEF SetCheck, Task
<1>7. CASE SwitchThread
  <2>1. UNCHANGED <<check, newCheck, nth, reader, gFd, open, events, file, wanted, goal, torn, budget>>
    BY <1>7 DEF SwitchThread
  <2>2. at' \in {at, "next"} /\ turn' \in {turn, 1} /\ handler' \in {"cut", "join"}
    BY <1>7 DEF SwitchThread
  <2>3. running' \in BOOLEAN
    BY <1>7, Zenon DEF SwitchThread
  <2> QED BY <2>1, <2>2, <2>3
<1>8. CASE Joined
  BY <1>8 DEF Joined
<1>9. CASE CutFile
  <2>1. budget' \in Budget
    BY <1>9, SpendKeepsType DEF CutFile
  <2>2. goal' \in {goal, wanted} /\ file' \in {file, NoFile} /\ handler' \in {"write", "idle"}
    BY <1>9 DEF CutFile
  <2>3. torn' \in BOOLEAN
    BY <1>9, Zenon DEF CutFile
  <2>4. UNCHANGED <<flags, nth, running, thread, monitor, wanted>>
    BY <1>9 DEF CutFile
  <2> QED BY <2>1, <2>2, <2>3, <2>4
<1>10. CASE WriteFile
  BY <1>10, ZenonT(60) DEF WriteFile
<1>11. CASE NextTask
  BY <1>11 DEF NextTask, PassOn
<1>12. CASE PlainReport
  BY <1>12 DEF PlainReport
<1>13. CASE FileTamperCheckGetReport
  BY <1>13 DEF FileTamperCheckGetReport
<1>14. CASE TakeEvent
  <2>1. events # <<>> /\ length + Head(events) <= BufLen
    BY <1>14 DEF TakeEvent, Fits
  <2>2. Head(events) \in Nat \ {0} /\ Tail(events) \in Seq(EventSizes)
    BY <2>1, HeadIsSize
  <2>3. length + Head(events) \in 0..BufLen
    BY <2>1, <2>2
  <2>4. length' = length + Head(events) /\ events' = Tail(events) /\ taken' = TRUE
    BY <1>14 DEF TakeEvent
  <2>5. UNCHANGED <<check, newCheck, handler, nth, running, at, turn, rFd, index, hit, gFd, open,
                    file, wanted, goal, torn, budget>>
    BY <1>14 DEF TakeEvent
  <2> QED BY <2>2, <2>3, <2>4, <2>5, SMTT(60)
<1>22. CASE Iterate
  <2>1. UNCHANGED <<check, newCheck, handler, nth, running, at, turn, rFd, taken, gFd, open, events,
                    file, wanted, goal, torn, budget>>
    BY <1>22 DEF Iterate
  <2>2. index' \in 0..BufLen /\ length' \in 0..BufLen
    BY <1>22, AnomalyAssumption DEF Iterate
  <2>3. hit' \in BOOLEAN
    BY <1>22, Zenon DEF Iterate
  <2> QED BY <2>1, <2>2, <2>3
<1>23. CASE ReadEnds
  BY <1>23 DEF ReadEnds
<1>15. CASE LoginBruteForceReport
  BY <1>15 DEF LoginBruteForceReport
<1>16. CASE Send
  <2>1. hit' \in BOOLEAN /\ taken' \in BOOLEAN /\ length' = 0 /\ index' = 0 /\ rFd' = 0
    BY <1>16 DEF Send, ReaderGone
  <2>2. turn' \in DOMAIN Tasks
    BY <1>16 DEF Send, PassOn
  <2> QED BY <1>16, <2>1, <2>2, AnomalyAssumption DEF Send
<1>17. CASE ThreadEnds
  <2>1. hit' \in BOOLEAN /\ taken' \in BOOLEAN /\ length' = 0 /\ index' = 0 /\ rFd' = 0
    BY <1>17 DEF ThreadEnds, ReaderGone
  <2> QED BY <1>17, <2>1, AnomalyAssumption DEF ThreadEnds
<1>18. CASE FileTampered
  <2>1. budget' \in Budget
    BY <1>18, SpendKeepsType DEF FileTampered
  <2>2. events' \in Seq(EventSizes)
    BY <1>18 DEF FileTampered
  <2> QED BY <1>18, <2>1, <2>2 DEF FileTampered
<1>19. CASE LoginSystem
  BY <1>19, SpendKeepsType DEF LoginSystem
<1>20. CASE Restart
  <2>1. budget' \in Budget
    BY <1>20, SpendKeepsType DEF Restart
  <2>2. UNCHANGED <<file, wanted>> /\ check' = Off /\ newCheck' = Off /\ goal' = wanted
    BY <1>20 DEF Restart
  <2>3. torn' = (torn \/ handler = "write")
    BY <1>20 DEF Restart
  <2>4. torn' \in BOOLEAN
    BY <2>3
  <2>5. handler' = "idle" /\ nth' = 1 /\ at' = "none" /\ turn' = 1 /\ gFd' = 0
    BY <1>20 DEF Restart
  <2>6. running' \in BOOLEAN /\ open' \in BOOLEAN /\ events' = <<>>
    BY <1>20 DEF Restart
  <2>7. rFd' = 0 /\ length' = 0 /\ index' = 0 /\ hit' \in BOOLEAN /\ taken' \in BOOLEAN
    BY <1>20 DEF Restart, ReaderGone
  <2> QED BY <2>1, <2>2, <2>4, <2>5, <2>6, <2>7, AnomalyAssumption
<1>21. CASE UNCHANGED anomalyVars
  BY <1>21 DEF anomalyVars
<1> QED
  BY <1>1, <1>2, <1>3, <1>4, <1>5, <1>6, <1>7, <1>8, <1>9, <1>10, <1>11, <1>12, <1>13, <1>14,
     <1>15, <1>16, <1>17, <1>18, <1>19, <1>20, <1>21, <1>22, <1>23
  DEF AnomalyNext, Detect_ParseShadowGetOrPropertiesSet, ReportThread, ReadEvents

-----------------------------------------------------------------------------
\* What the reporting thread and the system around it leave alone.
LEMMA OtherSteps ==
  /\ ReportThread => UNCHANGED <<check, newCheck, handler, nth, running, gFd, open, file, wanted, goal, torn>>
  /\ ReportThread => (at' # "none" <=> at # "none" /\ ~ ThreadEnds)
  /\ FileTampered \/ LoginSystem \/ UNCHANGED anomalyVars =>
       UNCHANGED <<check, newCheck, handler, nth, running, at, gFd, open, file, wanted, goal, torn>>
<1>1. ReportThread => UNCHANGED <<check, newCheck, handler, nth, running, gFd, open, file, wanted, goal, torn>>
  BY DEF ReportThread, NextTask, PlainReport, FileTamperCheckGetReport, ReadEvents,
         TakeEvent, Iterate, ReadEnds, LoginBruteForceReport, Send, ThreadEnds, others, monitor, flags, mqtt, store
<1>2. ReportThread => (at' # "none" <=> at # "none" /\ ~ ThreadEnds)
  BY DEF ReportThread, NextTask, PlainReport, FileTamperCheckGetReport, ReadEvents,
         TakeEvent, Iterate, ReadEnds, LoginBruteForceReport, Send, ThreadEnds
<1>3. FileTampered \/ LoginSystem \/ UNCHANGED anomalyVars =>
       UNCHANGED <<check, newCheck, handler, nth, running, at, gFd, open, file, wanted, goal, torn>>
  BY DEF FileTampered, LoginSystem, anomalyVars, flags, mqtt, thread, monitor, store
<1> QED BY <1>1, <1>2, <1>3

\* The steps of the MQTT thread and of the system around leave the reader alone and do not
\* move the thread out of a report.
LEMMA ReaderAlone ==
  /\ Load \/ Detect_ParseShadowGetOrPropertiesSet \/ FileTampered \/ LoginSystem \/ UNCHANGED anomalyVars
       => UNCHANGED reader /\ (at' = at \/ (at' = "next" /\ at = "none") \/ (SwitchThread /\ at' = "next"))
BY DEF Detect_ParseShadowGetOrPropertiesSet, Load, FileTamperCheckInit, FileTamperCheckDestroy,
       InitIndex, InitRecords, SetCheck, SwitchThread, Joined, CutFile, WriteFile, FileTampered,
       LoginSystem, anomalyVars, thread

\* The handler's loop sets the flags in order, and its hooks are those of their task.
LEMMA FlagsStep == AnomalyInvariant /\ [AnomalyNext]_anomalyVars => FlagsSet' /\ AtHook'
<1> SUFFICES ASSUME AnomalyInvariant, [AnomalyNext]_anomalyVars PROVE FlagsSet' /\ AtHook'
  OBVIOUS
<1> USE TaskFacts DEF AnomalyInvariant, AnomalyTypeOK, FlagsSet, AtHook, Task, flags, mqtt
<1>1. CASE Load
  BY <1>1 DEF Load
<1>2. CASE FileTamperCheckInit
  BY <1>2 DEF FileTamperCheckInit
<1>3. CASE FileTamperCheckDestroy
  BY <1>3 DEF FileTamperCheckDestroy
<1>4. CASE InitIndex
  BY <1>4 DEF InitIndex
<1>5. CASE InitRecords
  BY <1>5 DEF InitRecords
<1>6. CASE SetCheck
  <2>1. \A n \in 1..nth : check'[Tasks[n]] = newCheck[Tasks[n]]
    <3> SUFFICES ASSUME NEW n \in 1..nth PROVE check'[Tasks[n]] = newCheck[Tasks[n]]
      OBVIOUS
    <3>1. CASE Tasks[n] = Tasks[nth]
      BY <1>6, <3>1 DEF SetCheck
    <3>2. CASE Tasks[n] # Tasks[nth]
      <4>1. n \in 1..(nth - 1)
        BY <3>2
      <4> QED BY <1>6, <3>2, <4>1 DEF SetCheck
    <3> QED BY <3>1, <3>2
  <2>2. CASE nth < Len(Tasks)
    BY <1>6, <2>1, <2>2, SMTT(30) DEF SetCheck
  <2>3. CASE nth = Len(Tasks)
    <3>1. \A t \in TaskSet : check'[t] = newCheck[t]
      BY <2>1, <2>3
    <3>2. check' \in [TaskSet -> BOOLEAN]
      BY <1>6 DEF SetCheck
    <3>3. check' = newCheck
      BY <3>1, <3>2
    <3> QED BY <1>6, <2>3, <3>3 DEF SetCheck
  <2> QED BY <2>2, <2>3
<1>7. CASE SwitchThread
  BY <1>7 DEF SwitchThread
<1>8. CASE Joined
  BY <1>8 DEF Joined
<1>9. CASE CutFile
  BY <1>9 DEF CutFile
<1>10. CASE WriteFile
  BY <1>10 DEF WriteFile
<1>11. CASE ReportThread
  BY <1>11, OtherSteps
<1>12. CASE FileTampered
  BY <1>12, OtherSteps
<1>13. CASE LoginSystem
  BY <1>13, OtherSteps
<1>14. CASE Restart
  BY <1>14 DEF Restart
<1>15. CASE UNCHANGED anomalyVars
  BY <1>15, OtherSteps
<1> QED
  BY <1>1, <1>2, <1>3, <1>4, <1>5, <1>6, <1>7, <1>8, <1>9, <1>10, <1>11, <1>12, <1>13, <1>14, <1>15
  DEF AnomalyNext, Detect_ParseShadowGetOrPropertiesSet

\* The reporting thread is started and ended with its flag.
LEMMA ThreadStep == AnomalyInvariant /\ [AnomalyNext]_anomalyVars => ThreadFollows'
<1> SUFFICES ASSUME AnomalyInvariant, [AnomalyNext]_anomalyVars PROVE ThreadFollows'
  OBVIOUS
<1> USE DEF AnomalyInvariant, AnomalyTypeOK, ThreadFollows, SecurityConfig, flags, thread
<1>1. CASE Load
  BY <1>1 DEF Load
<1>2. CASE FileTamperCheckInit
  BY <1>2 DEF FileTamperCheckInit
<1>3. CASE FileTamperCheckDestroy
  BY <1>3 DEF FileTamperCheckDestroy
<1>4. CASE InitIndex
  BY <1>4 DEF InitIndex
<1>5. CASE InitRecords
  BY <1>5 DEF InitRecords
<1>6. CASE SetCheck
  BY <1>6 DEF SetCheck
<1>7. CASE SwitchThread
  <2>0. handler = "switch" /\ UNCHANGED newCheck /\ SecurityConfig' = SecurityConfig
    BY <1>7 DEF SwitchThread
  <2>1. CASE SecurityConfig /\ ~ running
    BY <1>7, <2>0, <2>1, Zenon DEF SwitchThread
  <2>2. CASE ~ SecurityConfig /\ running
    BY <1>7, <2>0, <2>2, Zenon DEF SwitchThread
  <2>3. CASE SecurityConfig = running
    BY <1>7, <2>0, <2>3, Zenon DEF SwitchThread
  <2> QED BY <1>7, <2>1, <2>2, <2>3 DEF SwitchThread
<1>8. CASE Joined
  BY <1>8 DEF Joined
<1>9. CASE CutFile
  BY <1>9 DEF CutFile
<1>10. CASE WriteFile
  BY <1>10 DEF WriteFile
<1>11. CASE ReportThread
  <2>1. ThreadEnds => handler = "join"
    BY DEF ThreadEnds
  <2>2. UNCHANGED <<newCheck, handler, running>> /\ (at' # "none" <=> at # "none" /\ ~ ThreadEnds)
    BY <1>11, OtherSteps
  <2> QED BY <2>1, <2>2
<1>12. CASE FileTampered
  BY <1>12, OtherSteps
<1>13. CASE LoginSystem
  BY <1>13, OtherSteps
<1>14. CASE Restart
  <2>1. ~ running' /\ at' = "none" /\ handler' = "idle"
    BY <1>14 DEF Restart
  <2>2. ~ SecurityConfig'
    BY <1>14 DEF Restart, Off
  <2> QED BY <2>1, <2>2
<1>15. CASE UNCHANGED anomalyVars
  BY <1>15, OtherSteps
<1> QED
  BY <1>1, <1>2, <1>3, <1>4, <1>5, <1>6, <1>7, <1>8, <1>9, <1>10, <1>11, <1>12, <1>13, <1>14, <1>15
  DEF AnomalyNext, Detect_ParseShadowGetOrPropertiesSet

\* The monitor is opened and closed before the flag it follows is set.
LEMMA MonitorStep == AnomalyInvariant /\ [AnomalyNext]_anomalyVars => MonitorFollows'
<1> SUFFICES ASSUME AnomalyInvariant, [AnomalyNext]_anomalyVars PROVE MonitorFollows'
  OBVIOUS
<1> USE TaskFacts DEF AnomalyInvariant, AnomalyTypeOK, AtHook, MonitorFollows, TamperOn, Task, MonitorFd, flags, mqtt, monitor
<1>1. CASE Load
  BY <1>1 DEF Load
<1>2. CASE FileTamperCheckInit
  BY <1>2 DEF FileTamperCheckInit, TurnsOn
<1>3. CASE FileTamperCheckDestroy
  BY <1>3 DEF FileTamperCheckDestroy, TurnsOff
<1>4. CASE InitIndex
  BY <1>4 DEF InitIndex
<1>5. CASE InitRecords
  BY <1>5 DEF InitRecords
<1>6. CASE SetCheck
  BY <1>6 DEF SetCheck, Hooked, TurnsOn, TurnsOff
<1>7. CASE SwitchThread
  BY <1>7 DEF SwitchThread
<1>8. CASE Joined
  BY <1>8 DEF Joined
<1>9. CASE CutFile
  BY <1>9 DEF CutFile
<1>10. CASE WriteFile
  BY <1>10 DEF WriteFile
<1>11. CASE ReportThread
  BY <1>11, OtherSteps
<1>12. CASE FileTampered
  BY <1>12, OtherSteps
<1>13. CASE LoginSystem
  BY <1>13, OtherSteps
<1>14. CASE Restart
  BY <1>14 DEF Restart
<1>15. CASE UNCHANGED anomalyVars
  BY <1>15, OtherSteps
<1> QED
  BY <1>1, <1>2, <1>3, <1>4, <1>5, <1>6, <1>7, <1>8, <1>9, <1>10, <1>11, <1>12, <1>13, <1>14, <1>15
  DEF AnomalyNext, Detect_ParseShadowGetOrPropertiesSet

\* The file, the settings in hand and what the messages asked for stay together.
LEMMA StoreStep == AnomalyInvariant /\ [AnomalyNext]_anomalyVars => StoreFollows'
<1> SUFFICES ASSUME AnomalyInvariant, [AnomalyNext]_anomalyVars PROVE StoreFollows'
  OBVIOUS
<1> USE TaskFacts DEF AnomalyInvariant, AnomalyTypeOK, StoreFollows, flags, store
<1>1. CASE Load
  <2> SUFFICES ASSUME ~ torn PROVE newCheck' = goal' /\ UNCHANGED <<file, wanted>>
    BY <1>1 DEF Load
  <2>1. Detect_LoadJsonData(newCheck, file) = wanted
    BY <1>1, LoadOfFile DEF Load
  <2> QED BY <1>1, <2>1 DEF Load, Loaded
<1>2. CASE FileTamperCheckInit
  BY <1>2 DEF FileTamperCheckInit
<1>3. CASE FileTamperCheckDestroy
  BY <1>3 DEF FileTamperCheckDestroy
<1>4. CASE InitIndex
  BY <1>4 DEF InitIndex
<1>5. CASE InitRecords
  BY <1>5 DEF InitRecords
<1>6. CASE SetCheck
  BY <1>6 DEF SetCheck
<1>7. CASE SwitchThread
  BY <1>7 DEF SwitchThread
<1>8. CASE Joined
  BY <1>8 DEF Joined
<1>9. CASE CutFile
  BY <1>9 DEF CutFile
<1>10. CASE WriteFile
  BY <1>10, SettingIsFile DEF WriteFile
<1>11. CASE ReportThread
  BY <1>11, OtherSteps
<1>12. CASE FileTampered
  BY <1>12, OtherSteps
<1>13. CASE LoginSystem
  BY <1>13, OtherSteps
<1>14. CASE Restart
  BY <1>14 DEF Restart
<1>15. CASE UNCHANGED anomalyVars
  BY <1>15, OtherSteps
<1> QED
  BY <1>1, <1>2, <1>3, <1>4, <1>5, <1>6, <1>7, <1>8, <1>9, <1>10, <1>11, <1>12, <1>13, <1>14, <1>15
  DEF AnomalyNext, Detect_ParseShadowGetOrPropertiesSet

\* The alarm of a report follows the events that it takes.
LEMMA EventsStep == AnomalyInvariant /\ [AnomalyNext]_anomalyVars => EventsFollow'
<1> SUFFICES ASSUME AnomalyInvariant, [AnomalyNext]_anomalyVars PROVE EventsFollow'
  OBVIOUS
<1> USE AnomalyAssumption DEF AnomalyInvariant, AnomalyTypeOK, EventsFollow, reader
<1>1. CASE SwitchThread
  <2>1. UNCHANGED reader /\ (at' = at \/ (at' = "next" /\ ~ running))
    BY <1>1 DEF SwitchThread
  <2>2. ~ running => at = "none"
    BY <1>1 DEF SwitchThread, ThreadFollows
  <2> QED BY <2>1, <2>2
<1>2. CASE /\ ~ SwitchThread
           /\ Load \/ Detect_ParseShadowGetOrPropertiesSet \/ FileTampered \/ LoginSystem \/ UNCHANGED anomalyVars
  <2>1. UNCHANGED reader /\ (at' = at \/ (at' = "next" /\ at = "none"))
    BY <1>2, ReaderAlone
  <2> QED BY <2>1
<1>3. CASE NextTask \/ PlainReport \/ FileTamperCheckGetReport
  <2>1. UNCHANGED <<length, index, hit, taken>> /\ at \in {"next", "report"}
    BY <1>3 DEF NextTask, PlainReport, FileTamperCheckGetReport
  <2> QED BY <2>1
<1>4. CASE TakeEvent
  <2>1. events # <<>> /\ at = "read"
    BY <1>4 DEF TakeEvent, Fits
  <2>2. Head(events) \in Nat \ {0}
    BY <2>1, HeadIsSize
  <2>3. length' > 0 /\ taken' /\ UNCHANGED <<at, hit, index>>
    BY <1>4, <2>2 DEF TakeEvent
  <2> QED BY <2>1, <2>3
<1>5. CASE Iterate
  <2>1. at = "read" /\ length > 0 /\ taken /\ length' = 0 /\ UNCHANGED <<at, taken>>
    BY <1>5 DEF Iterate
  <2>2. CASE index < length
    <3>1. hit' /\ index' > 0
      BY <1>5, <2>1, <2>2 DEF Iterate
    <3> QED BY <2>1, <3>1
  <2>3. CASE index >= length
    <3>1. UNCHANGED <<index, hit>> /\ index > 0
      BY <1>5, <2>1, <2>3 DEF Iterate
    <3> QED BY <2>1, <3>1
  <2> QED BY <2>2, <2>3
<1>6. CASE ReadEnds
  BY <1>6 DEF ReadEnds
<1>7. CASE LoginBruteForceReport
  <2>1. UNCHANGED <<length, index, hit, taken>> /\ at \in {"report", "lines"} /\ at' \in {"lines", "send"}
    BY <1>7 DEF LoginBruteForceReport
  <2> QED BY <2>1
<1>8. CASE Send \/ ThreadEnds \/ Restart
  <2>1. ReaderGone
    BY <1>8 DEF Send, ThreadEnds, Restart
  <2> QED BY <2>1 DEF ReaderGone
<1> QED
  BY <1>1, <1>2, <1>3, <1>4, <1>5, <1>6, <1>7, <1>8 DEF AnomalyNext, ReportThread, ReadEvents

-----------------------------------------------------------------------------
(* The theorems.                                                           *)

\* At first every check is off and nothing is stored or open.
LEMMA AnomalyInitial == AnomalyInit => AnomalyInvariant
<1> SUFFICES ASSUME AnomalyInit PROVE AnomalyInvariant
  OBVIOUS
<1> USE TaskFacts DEF AnomalyInit
<1>1. RingInvariant
  BY RingInit
<1>2. AnomalyTypeOK
  <2>1. running \in BOOLEAN /\ open \in BOOLEAN /\ hit \in BOOLEAN /\ taken \in BOOLEAN /\ torn \in BOOLEAN
    OBVIOUS
  <2>2. budget \in Budget
    BY AnomalyAssumption
  <2> QED BY <1>1, <2>1, <2>2, AnomalyAssumption DEF RingInvariant, AnomalyTypeOK
<1>3. FlagsSet /\ AtHook /\ StoreFollows
  BY DEF FlagsSet, AtHook, StoreFollows
<1>4. ThreadFollows
  BY DEF ThreadFollows, SecurityConfig, Off
<1>5. MonitorFollows
  BY DEF MonitorFollows, TamperOn
<1>6. EventsFollow
  BY DEF EventsFollow
<1> QED BY <1>1, <1>2, <1>3, <1>4, <1>5, <1>6 DEF AnomalyInvariant

\* The invariant holds in every behaviour of the two threads, with restarts.
THEOREM AnomalyInvariance == AnomalySpec => []AnomalyInvariant
<1>1. AnomalyInvariant /\ [AnomalyNext]_anomalyVars => AnomalyInvariant'
  <2> SUFFICES ASSUME AnomalyInvariant, [AnomalyNext]_anomalyVars PROVE AnomalyInvariant'
    OBVIOUS
  <2>1. RingInvariant'
    BY RingPart DEF AnomalyInvariant
  <2> QED BY <2>1, TypesStep, FlagsStep, ThreadStep, MonitorStep, StoreStep, EventsStep DEF AnomalyInvariant
<1> QED BY AnomalyInitial, <1>1, PTL DEF AnomalySpec

\* Every state of the detection is well typed: the threads' indices stay in g_mTasks.
THEOREM AnomalyTypes == AnomalySpec => []AnomalyTypeOK
BY AnomalyInvariance, PTL DEF AnomalyInvariant

\* After Detect_ParseShadowGetOrPropertiesSet has set its switches, the reporting thread
\* runs exactly if a check is on and the inotify descriptor is open exactly if its check
\* is on and inotify_init succeeded, for every list of tasks.
THEOREM NoResourceIsLost == AnomalySpec => []ResourcesFollowChecks
<1>1. AnomalyInvariant => ResourcesFollowChecks
  <2> SUFFICES ASSUME AnomalyInvariant, handler \in {"idle", "cut", "write"}
               PROVE  /\ (at # "none") <=> \E t \in TaskSet : check[t]
                      /\ open <=> check["tamper"] /\ gFd # -1
    BY DEF ResourcesFollowChecks
  <2>1. check = newCheck
    BY DEF AnomalyInvariant, FlagsSet
  <2>2. (at # "none") <=> \E t \in TaskSet : check[t]
    BY <2>1 DEF AnomalyInvariant, ThreadFollows, SecurityConfig
  <2>3. open <=> check["tamper"] /\ gFd # -1
    BY DEF AnomalyInvariant, MonitorFollows, TamperOn
  <2> QED BY <2>2, <2>3
<1> QED BY AnomalyInvariance, <1>1, PTL

\* When Detect_ReportShadowDesired writes the file, the checks in force are what all the
\* messages ever stored ask for, across restarts at every other step.
THEOREM SettingsAreKept == AnomalySpec => SettingsSurvive
<1>1. AnomalyInvariant => [WriteFile => check = wanted']_anomalyVars
  BY DEF AnomalyInvariant, FlagsSet, StoreFollows, WriteFile
<1> QED BY AnomalyInvariance, <1>1, PTL DEF SettingsSurvive

\* The alarm that FileTamperCheckGetReport sends tells whether the report has taken events
\* off the descriptor, for every buffer, every size of events and any number of reads.
THEOREM NoEventIsDropped == AnomalySpec => []AlarmTellsEvents
<1>1. AnomalyInvariant => AlarmTellsEvents
  BY DEF AnomalyInvariant, EventsFollow, AlarmTellsEvents
<1> QED BY AnomalyInvariance, <1>1, PTL

\* The composition takes steps of the ring or leaves it alone: what BruteForceProofs proves
\* carries over.
LEMMA AnomalyImplementsRing == AnomalySpec => BruteSpec
<1>1. AnomalyInit => BruteInit
  BY DEF AnomalyInit
<1> QED BY <1>1, StepIsRingStep, PTL DEF AnomalySpec, BruteSpec

\* With both threads and all the switching the ring holds the failures read last ...
THEOREM RingInComposition == AnomalySpec => []RingIsRecent
BY AnomalyImplementsRing, RingHoldsTheLatest, PTL

\* ... and the alarm tells whether the last Cnt failures were read within Interval.
THEOREM AlarmInComposition == AnomalySpec => AlarmIsReadBurst
BY AnomalyImplementsRing, AlarmTellsReadBurst, PTL

=============================================================================
