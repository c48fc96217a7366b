-------------------------- MODULE AnomalyDetection --------------------------
(***************************************************************************)
(* The detection of anomalies (detect_anomaly.c), in the build with        *)
(* SECURITY_AWARENESS_ENABLE: the MQTT thread switches checks on and off   *)
(* as the shadow says and stores the settings in a file; a thread of its   *)
(* own reports, one task after the other.  They share the tasks' flags,    *)
(* the descriptor of the file monitor and the ring of BruteForce, and no   *)
(* lock.                                                                   *)
(*                                                                         *)
(* A message names the checks it sets: a function on some of the tasks.    *)
(* A file that is absent, empty or torn is the empty function.  The kernel *)
(* gives the lowest free descriptor, so that one number stands for the     *)
(* monitor; a descriptor taken by another part meanwhile is left out.      *)
(* That a second event of one report reads an argument that was not passed *)
(* (va_arg) is undefined: it goes on, or aborts, for which a Restart       *)
(* stands.                                                                 *)
(***************************************************************************)
EXTENDS BruteForce

CONSTANTS
  Tasks,        \* g_mTasks: a sequence of names
  Silent,       \* tasks whose getReport is NULL
  BufLen,       \* EVENT_BUF_LEN, in units of EVENT_SIZE
  EventSizes,   \* sizes of an event with its name, in units of EVENT_SIZE
  Budgets       \* bounds: messages, and which, system steps, tampers, restarts and failing opens

TaskSet == {Tasks[i] : i \in DOMAIN Tasks}

\* A message: the settings it carries.
Messages == UNION {[S -> BOOLEAN] : S \in SUBSET TaskSet}

Budget == [messages : Nat, kinds : SUBSET Messages, system : Nat, tampers : Nat, faults : Nat]

ASSUME AnomalyAssumption ==
  /\ Tasks \in Seq(STRING) /\ {"tamper", "brute"} \subseteq TaskSet
  /\ Silent \subseteq TaskSet \ {"tamper", "brute"}
  /\ BufLen \in Nat /\ EventSizes \subseteq Nat \ {0}
  /\ Budgets \subseteq Budget

VARIABLES
  check, newCheck,  \* of g_mTasks
  handler,          \* where the MQTT thread stands in Detect_ParseShadowGetOrPropertiesSet
  nth,              \* the task that its loop is at
  running,          \* g_reportMemoryTaskRunning
  at, turn,         \* where the reporting thread stands, and the task it is at
  gFd,              \* g_fileTamperCheckArgs.monitorFd
  open,             \* the descriptor is open
  events,           \* the sizes of the events that it has to read
  rFd,              \* the reader's copy of the descriptor
  length, index,    \* what one read has put into the buffer; i, how far buf was looked at
  hit,              \* file_tamper_alarm of the report
  taken,            \* history: the report has taken events off the descriptor
  file,             \* DetectConfigPath
  wanted, goal,     \* history: what the messages stored, and the one in hand, ask for
  torn,             \* history: the file was cut off and not written
  budget            \* what is left of one of the Budgets

flags == <<check, newCheck>>
mqtt == <<handler, nth>>
reader == <<rFd, length, index, hit, taken>>
thread == <<at, turn, reader>>
monitor == <<gFd, open, events>>
store == <<file, wanted, goal, torn>>
anomalyVars == <<bruteVars, flags, mqtt, running, thread, monitor, store, budget>>

MonitorFd == 3
Off == [t \in TaskSet |-> FALSE]
NoFile == [t \in {} |-> FALSE]

AnomalyTypeOK ==
  /\ BruteTypeOK
  /\ check \in [TaskSet -> BOOLEAN] /\ newCheck \in [TaskSet -> BOOLEAN]
  /\ handler \in {"idle", "task", "clear", "check", "switch", "join", "cut", "write"}
  /\ nth \in DOMAIN Tasks
  /\ running \in BOOLEAN
  /\ at \in {"none", "next", "report", "read", "lines", "send"}
  /\ turn \in DOMAIN Tasks
  /\ gFd \in {0, -1, MonitorFd} /\ rFd \in {0, -1, MonitorFd}
  /\ open \in BOOLEAN /\ events \in Seq(EventSizes)
  /\ length \in 0..BufLen /\ index \in 0..BufLen
  /\ hit \in BOOLEAN /\ taken \in BOOLEAN
  /\ file \in {NoFile} \cup [TaskSet -> BOOLEAN]
  /\ wanted \in [TaskSet -> BOOLEAN] /\ goal \in [TaskSet -> BOOLEAN]
  /\ torn \in BOOLEAN
  /\ budget \in Budget

AnomalyInit ==
  /\ BruteInit
  /\ check = Off /\ newCheck = Off
  /\ handler = "idle" /\ nth = 1
  /\ running = FALSE
  /\ at = "none" /\ turn = 1
  /\ rFd = 0 /\ length = 0 /\ index = 0 /\ hit = FALSE /\ taken = FALSE
  /\ gFd = 0 /\ open = FALSE /\ events = <<>>
  /\ file = NoFile /\ wanted = Off /\ goal = Off /\ torn = FALSE
  /\ budget \in Budgets

-----------------------------------------------------------------------------
(* Detect_ParseShadowGetOrPropertiesSet, on the MQTT thread.               *)

Spend(what) == budget[what] > 0 /\ budget' = [budget EXCEPT ![what] = @ - 1]

\* Detect_LoadJsonData: the checks that the text names are set.
Detect_LoadJsonData(f, text) == [t \in TaskSet |-> IF t \in DOMAIN text THEN text[t] ELSE f[t]]

\* Bug: the file is loaded after the message.
LoadedFileLast(m) == Detect_LoadJsonData(Detect_LoadJsonData(newCheck, m), file)

\* The file first, then the message.
Loaded(m) == Detect_LoadJsonData(Detect_LoadJsonData(newCheck, file), m)

Load ==
  /\ handler = "idle" /\ Spend("messages")
  /\ \E m \in budget.kinds :
       /\ newCheck' = Loaded(m)
       /\ goal' = Detect_LoadJsonData(wanted, m)
  /\ handler' = "task" /\ nth' = 1
  /\ UNCHANGED <<bruteVars, check, running, thread, monitor, file, wanted, torn>>

Task == Tasks[nth]
TurnsOn == newCheck[Task] /\ ~ check[Task]
TurnsOff == ~ newCheck[Task] /\ check[Task]

\* FileTamperCheckInit: inotify_init may fail; the task is switched on all the same.
FileTamperCheckInit ==
  /\ handler = "task" /\ Task = "tamper" /\ TurnsOn
  /\ \/ gFd' = MonitorFd /\ open' = TRUE /\ events' = <<>>
     \/ gFd' = -1 /\ UNCHANGED <<open, events>>
  /\ handler' = "check"
  /\ UNCHANGED <<bruteVars, flags, nth, running, thread, store, budget>>

\* The descriptor is closed while the flag still says that the task is on.
FileTamperCheckDestroy ==
  /\ handler = "task" /\ Task = "tamper" /\ TurnsOff
  /\ open' = (open /\ gFd # MonitorFd)
  /\ events' = IF open' THEN events ELSE <<>>
  /\ handler' = "check"
  /\ UNCHANGED <<bruteVars, flags, nth, running, thread, gFd, store, budget>>

\* LoginBruteForceCheckInit, in two steps.
InitIndex ==
  /\ handler = "task" /\ Task = "brute" /\ TurnsOn
  /\ ResetIndex
  /\ handler' = "clear"
  /\ UNCHANGED <<flags, nth, running, thread, monitor, store, budget>>

InitRecords ==
  /\ handler = "clear"
  /\ \E found \in BOOLEAN : ResetRecords(found)
  /\ handler' = "check"
  /\ UNCHANGED <<flags, nth, running, thread, monitor, store, budget>>

Hooked == (Task = "tamper" /\ (TurnsOn \/ TurnsOff)) \/ (Task = "brute" /\ TurnsOn)

\* The flag is set after init or destroy, or at once where there is none to call.
SetCheck ==
  /\ handler = "check" \/ (handler = "task" /\ ~ Hooked)
  /\ check' = [check EXCEPT ![Task] = newCheck[Task]]
  /\ \/ nth < Len(Tasks) /\ nth' = nth + 1 /\ handler' = "task"
     \/ nth = Len(Tasks) /\ nth' = 1 /\ handler' = "switch"
  /\ UNCHANGED <<bruteVars, newCheck, running, thread, monitor, store, budget>>

SecurityConfig == \E t \in TaskSet : newCheck[t]

\* Bug: the thread is stopped when any check is switched off.
SwitchStopsEarly ==
  /\ handler = "switch"
  /\ \/ /\ SecurityConfig /\ ~ running
        /\ at' = "next" /\ turn' = 1 /\ running' = TRUE /\ handler' = "cut"
     \/ /\ (\E t \in TaskSet : ~ newCheck[t]) /\ running
        /\ handler' = "join" /\ UNCHANGED <<at, turn, running>>
     \/ /\ ~ (SecurityConfig /\ ~ running) /\ ~ ((\E t \in TaskSet : ~ newCheck[t]) /\ running)
        /\ handler' = "cut" /\ UNCHANGED <<at, turn, running>>
  /\ UNCHANGED <<bruteVars, flags, nth, reader, monitor, store, budget>>

\* The thread is started with the first check and cancelled with the last.
SwitchThread ==
  /\ handler = "switch"
  /\ \/ /\ SecurityConfig /\ ~ running
        /\ at' = "next" /\ turn' = 1 /\ running' = TRUE /\ handler' = "cut"
     \/ /\ ~ SecurityConfig /\ running
        /\ handler' = "join" /\ UNCHANGED <<at, turn, running>>
     \/ /\ SecurityConfig = running
        /\ handler' = "cut" /\ UNCHANGED <<at, turn, running>>
  /\ UNCHANGED <<bruteVars, flags, nth, reader, monitor, store, budget>>

\* Bug: the flag is not cleared.
JoinedKeepsFlag ==
  /\ handler = "join" /\ at = "none"
  /\ handler' = "cut"
  /\ UNCHANGED <<bruteVars, flags, nth, running, thread, monitor, store, budget>>

\* pthread_join returns once the thread has ended.
Joined ==
  /\ handler = "join" /\ at = "none"
  /\ running' = FALSE
  /\ handler' = "cut"
  /\ UNCHANGED <<bruteVars, flags, nth, thread, monitor, store, budget>>

\* Detect_ReportShadowDesired: fopen cuts the file off, the settings are written, and
\* sent.  If it fails, the settings are in force and sent but not stored.
CutFile ==
  /\ handler = "cut"
  /\ \/ /\ file' = NoFile /\ handler' = "write"
        /\ UNCHANGED <<goal, torn, budget>>
     \/ /\ Spend("faults") /\ handler' = "idle"
        /\ goal' = wanted /\ torn' = (torn \/ file = NoFile)
        /\ UNCHANGED file
  /\ UNCHANGED <<bruteVars, flags, nth, running, thread, monitor, wanted>>

WriteFile ==
  /\ handler = "write"
  /\ file' = newCheck
  /\ wanted' = IF torn THEN newCheck ELSE goal
  /\ goal' = wanted'
  /\ torn' = FALSE
  /\ handler' = "idle"
  /\ UNCHANGED <<bruteVars, flags, nth, running, thread, monitor, budget>>

Detect_ParseShadowGetOrPropertiesSet ==
  \/ FileTamperCheckInit \/ FileTamperCheckDestroy \/ InitIndex \/ InitRecords
  \/ SetCheck \/ SwitchThread \/ Joined \/ CutFile \/ WriteFile

-----------------------------------------------------------------------------
(* Detect_ReportDetectionInfoEntry, the reporting thread.                  *)

Reported == Tasks[turn]
others == <<flags, mqtt, running, store, budget>>

\* Bug: the loop over the tasks has no end.
PassOnForever == turn' = turn + 1

PassOn == turn' = IF turn = Len(Tasks) THEN 1 ELSE turn + 1

NextTask ==
  /\ at = "next"
  /\ \/ check[Reported] /\ Reported \notin Silent /\ at' = "report" /\ UNCHANGED turn
     \/ ~ (check[Reported] /\ Reported \notin Silent) /\ PassOn /\ UNCHANGED at
  /\ UNCHANGED <<bruteVars, reader, monitor, others>>

\* A task that only looks at the system.
PlainReport ==
  /\ at = "report" /\ Reported \notin {"tamper", "brute"}
  /\ at' = "send"
  /\ UNCHANGED <<bruteVars, turn, reader, monitor, others>>

FileTamperCheckGetReport ==
  /\ at = "report" /\ Reported = "tamper"
  /\ rFd' = gFd
  /\ at' = "read"
  /\ UNCHANGED <<bruteVars, turn, length, index, hit, taken, monitor, others>>

\* InotifyReadEventsAndIterate: read takes whole events while they fit the buffer.
Readable == open /\ rFd = MonitorFd
Fits == events # <<>> /\ length + Head(events) <= BufLen

TakeEvent ==
  /\ at = "read" /\ Readable /\ Fits
  /\ length' = length + Head(events) /\ events' = Tail(events)
  /\ taken' = TRUE
  /\ UNCHANGED <<bruteVars, at, turn, rFd, index, hit, gFd, open, others>>

\* Bug: each read sets the alarm anew.
IterateForgets ==
  /\ at = "read" /\ length > 0 /\ ~ (Readable /\ Fits)
  /\ hit' = (index < length)
  /\ index' = IF index < length THEN length ELSE index
  /\ length' = 0
  /\ UNCHANGED <<bruteVars, at, turn, rFd, taken, monitor, others>>

\* The events in the buffer are looked at from the index on, which the next read does not
\* set back.  Where it points into an event, what follows is undefined.
Iterate ==
  /\ at = "read" /\ length > 0 /\ ~ (Readable /\ Fits)
  /\ \/ index < length /\ hit' = TRUE
        /\ index' \in IF index = 0 THEN {length} ELSE length..BufLen
     \/ index >= length /\ UNCHANGED <<index, hit>>
  /\ length' = 0
  /\ UNCHANGED <<bruteVars, at, turn, rFd, taken, monitor, others>>

\* There is nothing to read (EAGAIN).
ReadEnds ==
  /\ at = "read" /\ length = 0 /\ Readable /\ events = <<>>
  /\ at' = "send"
  /\ UNCHANGED <<bruteVars, turn, reader, monitor, others>>

ReadEvents == TakeEvent \/ Iterate \/ ReadEnds

\* Another error is no end: read fails again and again, for the descriptor is not open,
\* or the first event does not fit the buffer (EINVAL).
Spins == at = "read" /\ length = 0 /\ (~ Readable \/ (events # <<>> /\ ~ Fits))

LoginBruteForceReport ==
  /\ \/ /\ at = "report" /\ Reported = "brute"
        /\ \/ ReportBegins /\ at' = "lines"
           \/ (\E found \in BOOLEAN : ReportsNothing(found)) /\ at' = "send"
     \/ /\ at = "lines"
        /\ \/ (ReadLine \/ TakeSlot \/ Store \/ Wrap \/ Look) /\ UNCHANGED at
           \/ ReportEnds /\ at' = "send"
  /\ UNCHANGED <<turn, reader, monitor, others>>

\* Bug: the index outlives the report.
ReaderKeepsIndex ==
  /\ rFd' = 0 /\ length' = 0 /\ hit' = FALSE /\ taken' = FALSE
  /\ UNCHANGED index

\* The locals of the report are gone.
ReaderGone == rFd' = 0 /\ length' = 0 /\ index' = 0 /\ hit' = FALSE /\ taken' = FALSE

\* Detect_ReportModuleInfo.
Send ==
  /\ at = "send"
  /\ at' = "next" /\ PassOn /\ ReaderGone
  /\ UNCHANGED <<bruteVars, monitor, others>>

\* The thread meets pthread_cancel where it reads, prints, sends or sleeps.
ThreadEnds ==
  /\ handler = "join" /\ at # "none"
  /\ \/ step = "closed" /\ UNCHANGED bruteVars
     \/ ReportCancelled
  /\ at' = "none" /\ turn' = 1 /\ ReaderGone
  /\ UNCHANGED <<monitor, others>>

ReportThread ==
  \/ NextTask \/ PlainReport \/ FileTamperCheckGetReport \/ ReadEvents
  \/ LoginBruteForceReport \/ Send \/ ThreadEnds

-----------------------------------------------------------------------------
(* The system around.                                                      *)

FileTampered ==
  /\ open /\ Spend("tampers")
  /\ \E n \in EventSizes : events' = Append(events, n)
  /\ UNCHANGED <<bruteVars, flags, mqtt, running, thread, gFd, open, store>>

LoginSystem ==
  /\ Spend("system")
  /\ Tick \/ LoginFails \/ Rotate
  /\ UNCHANGED <<flags, mqtt, running, thread, monitor, store>>

\* The program ends and starts again: only the file is left.
Restart ==
  /\ Spend("faults")
  /\ Reboot
  /\ check' = Off /\ newCheck' = Off
  /\ handler' = "idle" /\ nth' = 1 /\ running' = FALSE
  /\ at' = "none" /\ turn' = 1 /\ ReaderGone
  /\ gFd' = 0 /\ open' = FALSE /\ events' = <<>>
  /\ goal' = wanted /\ torn' = (torn \/ handler = "write")
  /\ UNCHANGED <<file, wanted>>

AnomalyNext ==
  \/ Load \/ Detect_ParseShadowGetOrPropertiesSet
  \/ ReportThread
  \/ FileTampered \/ LoginSystem \/ Restart

\* The two threads are scheduled; messages, logins, events and crashes need not come.
AnomalySpec ==
  /\ AnomalyInit /\ [][AnomalyNext]_anomalyVars
  /\ WF_anomalyVars(Detect_ParseShadowGetOrPropertiesSet)
  /\ WF_anomalyVars(ReportThread)

-----------------------------------------------------------------------------
(* Properties.                                                             *)

\* Once the switches of a message are set, the thread runs exactly if a check is on,
\* and the monitor is open exactly if its check is on and it could be opened: neither
\* a thread nor a descriptor is lost.
ResourcesFollowChecks ==
  handler \in {"idle", "cut", "write"} =>
    /\ (at # "none") <=> \E t \in TaskSet : check[t]
    /\ open <=> check["tamper"] /\ gFd # -1

\* Once a message is handled the checks are those that all messages ever stored ask
\* for, across restarts; unless the program ended between cutting the file off
\* and writing it, or the first file could not be opened.
SettingsSurvive == [][WriteFile => check = wanted']_anomalyVars

\* A task whose check stays on is reported again and again, whatever is switched
\* meanwhile; unless the thread spins on a descriptor that is not open or on an event
\* that does not fit.
ReportsGoOn ==
  \A t \in TaskSet \ Silent :
    <>[](check[t] /\ ~ Spins) => []<>(at = "send" /\ Reported = t)

\* file_tamper_alarm of a report that is sent tells whether it has taken events off the
\* descriptor: none is dropped unseen, although the index into the buffer is not set back
\* for the second read and events of it are skipped.
AlarmTellsEvents == at = "send" => (hit <=> taken)

\* What the file monitor sees is in the next report of it, unless the monitor is
\* closed or the thread spins.
TamperIsReported ==
  events # <<>> ~> ((at = "send" /\ Reported = "tamper" /\ hit) \/ ~ open \/ Spins)

=============================================================================
