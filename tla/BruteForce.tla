----------------------------- MODULE BruteForce -----------------------------
(***************************************************************************)
(* The detection of brute-force logins (detect_anomaly.c): failed logins   *)
(* are read from the system's log, their times kept in a ring of Cnt       *)
(* records, and an alarm raised when the ring spans less than Interval.    *)
(*                                                                         *)
(* The log is the sequence of its lines about failed logins; a line says   *)
(* how often its message repeats.  Offsets count lines.  A rotation        *)
(* truncates the log.  The code dates a failure by the moment at which its *)
(* line is read, once per line, not by the login: the clock rests while a  *)
(* line is in hand, and the times of the model are times of reading.       *)
(*                                                                         *)
(* The MQTT thread initialises the ring, the reporting thread fills it;    *)
(* no lock is shared.  The report is stepwise at the accesses that the     *)
(* other thread may see, and so is the initialisation; the loop that       *)
(* clears the records is one step.                                         *)
(***************************************************************************)
EXTENDS Integers, Sequences

CONSTANTS
  Cnt,       \* LOGIN_BRUTE_FORCE_LOGIN_CNT
  Interval,  \* LOGIN_BRUTE_FORCE_LOGIN_INTERVAL
  Start,     \* the clock at first: seconds since 1970
  Repeats,   \* how often the message of a line may repeat
  Horizon,   \* bound: the clock stops here
  MaxLines   \* bound: the lines of a log

\* The clock of the device is set: the zeros of a cleared ring are long past.
ASSUME RingAssumption ==
  /\ Cnt \in Nat \ {0} /\ Interval \in Nat
  /\ Start \in Nat /\ Start >= Interval
  /\ Repeats \subseteq Nat \ {0}
  /\ Horizon \in Nat /\ MaxLines \in Nat

VARIABLES
  clock,
  log,       \* AUTH_LOG_FILE
  offset,    \* fileOffset
  records,   \* loginFailedTimeRecords
  oldest,    \* oldestRecordIndex
  step,      \* where the report stands
  pos,       \* the position in the open log
  size,      \* st_size of the open log
  left,      \* repetitions of the line in hand that are not recorded yet
  slot,      \* the record that is about to be written
  alarm,     \* hasBruteForceLogin of the report
  recent,    \* history: recent[k] is the k-th last failure recorded since the check began
  raced      \* history: the check began without the log, or with a line in hand

ring == <<records, oldest, recent, raced>>
report == <<step, pos, size, left, slot, alarm>>
bruteVars == <<clock, log, offset, ring, report>>

Slots == 0..(Cnt - 1)
Never == -1

BruteTypeOK ==
  /\ clock \in Nat
  /\ log \in Seq(Repeats)
  /\ offset \in Nat
  /\ records \in [Slots -> Nat]
  /\ oldest \in 0..Cnt
  /\ step \in {"closed", "lines", "take", "store", "wrap", "look"}
  /\ pos \in Nat /\ size \in Nat /\ left \in Nat
  /\ slot \in Slots
  /\ alarm \in BOOLEAN
  /\ recent \in [1..Cnt -> Nat \cup {Never}]
  /\ raced \in BOOLEAN

BruteInit ==
  /\ clock = Start
  /\ log = <<>> /\ offset = 0
  /\ records = [i \in Slots |-> 0] /\ oldest = 0
  /\ step = "closed" /\ pos = 0 /\ size = 0 /\ left = 0 /\ slot = 0 /\ alarm = FALSE
  /\ recent = [k \in 1..Cnt |-> Never] /\ raced = FALSE

-----------------------------------------------------------------------------
(* The system.                                                             *)

InHand == step \in {"take", "store", "wrap", "look"}

Tick ==
  /\ ~ InHand
  /\ clock < Horizon
  /\ clock' = clock + 1
  /\ UNCHANGED <<log, offset, ring, report>>

LoginFails ==
  /\ Len(log) < MaxLines
  /\ \E n \in Repeats : log' = Append(log, n)
  /\ UNCHANGED <<clock, offset, ring, report>>

Rotate ==
  /\ log # <<>>
  /\ log' = <<>>
  /\ UNCHANGED <<clock, offset, ring, report>>

-----------------------------------------------------------------------------
(* LoginBruteForceCheckInit.                                               *)

ResetIndex ==
  /\ oldest' = 0
  /\ raced' = TRUE
  /\ UNCHANGED <<clock, log, offset, records, recent, report>>

\* Bug: the records of an earlier time are kept.
ResetRecordsKeeps(found) ==
  /\ offset' = IF found THEN Len(log) ELSE offset
  /\ recent' = [k \in 1..Cnt |-> Never]
  /\ raced' = (~ found \/ InHand)
  /\ UNCHANGED <<clock, log, oldest, records, report>>

\* Without the log only the index is reset.
ResetRecords(found) ==
  /\ \/ /\ found
        /\ offset' = Len(log)
        /\ records' = [i \in Slots |-> 0]
     \/ /\ ~ found
        /\ UNCHANGED <<offset, records>>
  /\ recent' = [k \in 1..Cnt |-> Never]
  /\ raced' = (~ found \/ InHand)
  /\ UNCHANGED <<clock, log, oldest, report>>

-----------------------------------------------------------------------------
(* LoginBruteForceReport.                                                  *)

\* The log is read from the offset on if it has grown, or shrunk.
ReportBegins ==
  /\ step = "closed"
  /\ Len(log) # offset
  /\ step' = "lines" /\ pos' = offset /\ size' = Len(log)
  /\ UNCHANGED <<clock, log, offset, ring, left, slot, alarm>>

ReportsNothing(found) ==
  /\ step = "closed"
  /\ found => Len(log) = offset
  /\ UNCHANGED bruteVars

ReadLine ==
  /\ step = "lines"
  /\ pos < Len(log)
  /\ step' = "take" /\ left' = log[pos + 1] /\ pos' = pos + 1
  /\ UNCHANGED <<clock, log, offset, ring, size, slot, alarm>>

Pred(i) == IF i = 0 THEN Cnt - 1 ELSE i - 1

\* One repetition: the index is read and incremented, ...
TakeSlot ==
  /\ step = "take"
  /\ step' = "store" /\ slot' = oldest
  /\ oldest' = oldest + 1
  /\ UNCHANGED <<clock, log, offset, records, recent, raced, pos, size, left, alarm>>

\* ... the record is written, ...
Store ==
  /\ step = "store"
  /\ step' = "wrap"
  /\ records' = [records EXCEPT ![slot] = clock]
  /\ recent' = [k \in 1..Cnt |-> IF k = 1 THEN clock ELSE recent[k - 1]]
  /\ UNCHANGED <<clock, log, offset, oldest, raced, pos, size, left, slot, alarm>>

\* oldestRecordIndex %= Cnt, of an index that is at most Cnt.
Wrapped(i) == IF i = Cnt THEN 0 ELSE i

\* ... and the index wraps: the build reads it again, or still has it in a register.
Wrap ==
  /\ step = "wrap"
  /\ oldest' \in {Wrapped(oldest), Wrapped(slot + 1)}
  /\ left' = left - 1
  /\ step' = IF left' = 0 THEN "look" ELSE "take"
  /\ UNCHANGED <<clock, log, offset, records, recent, raced, pos, size, slot, alarm>>

\* Bug: the ring is taken to begin one record later.
CriticalLater(rs, i) == rs[Pred(i)] - rs[Wrapped(i + 1)] < Interval

\* LoginBruteForceProcessCheckCriticalFreq.
Critical(rs, i) == rs[Pred(i)] - rs[i] < Interval

Look ==
  /\ step = "look"
  /\ step' = "lines"
  /\ alarm' = (alarm \/ Critical(records, oldest))
  /\ UNCHANGED <<clock, log, offset, ring, pos, size, left, slot>>

\* The locals are gone; the alarm is in the message that is sent.
Return == step' = "closed" /\ pos' = 0 /\ size' = 0 /\ left' = 0 /\ slot' = 0 /\ alarm' = FALSE

\* The offset becomes the position, or the size of the file if nothing was read.
ReportEnds ==
  /\ step = "lines"
  /\ pos >= Len(log)
  /\ offset' = IF pos # offset THEN pos ELSE size
  /\ Return
  /\ UNCHANGED <<clock, log, ring>>

\* The reporting thread is cancelled where it reads or prints.
ReportCancelled ==
  /\ step \in {"lines", "look"}
  /\ Return
  /\ UNCHANGED <<clock, log, offset, ring>>

\* The program starts again: the globals are zero, no thread reads.
Reboot ==
  /\ records' = [i \in Slots |-> 0] /\ oldest' = 0 /\ offset' = 0
  /\ recent' = [k \in 1..Cnt |-> Never] /\ raced' = FALSE
  /\ Return
  /\ UNCHANGED <<clock, log>>

ReportReads == ReportBegins \/ ReadLine \/ TakeSlot \/ Store \/ Wrap \/ Look \/ ReportEnds

BruteNext ==
  \/ Tick \/ LoginFails \/ Rotate
  \/ ResetIndex \/ \E found \in BOOLEAN : ResetRecords(found)
  \/ ReportReads \/ \E found \in BOOLEAN : ReportsNothing(found)
  \/ ReportCancelled \/ Reboot

BruteSpec == BruteInit /\ [][BruteNext]_bruteVars

-----------------------------------------------------------------------------
(* Properties.                                                             *)

\* The slot that is k records back from the oldest one.
Back(k) == IF k <= oldest THEN oldest - k ELSE oldest - k + Cnt

\* What the ring holds for a failure.
Kept(t) == IF t = Never THEN 0 ELSE t

\* The ring holds the last Cnt failures read, the latest before the oldest index, whatever
\* the rotations of the log and the restarts of the check; not while an index is taken
\* and not yet written, nor after a race.
RingIsRecent ==
  ~ raced /\ step # "store" => \A k \in 1..Cnt : records[Back(k)] = Kept(recent[k])

\* Cnt failures were read since the check began, the first and the last of them less than
\* Interval apart.
ReadBurst == recent[Cnt] # Never /\ recent[1] - recent[Cnt] < Interval

\* A report raises the alarm when the last Cnt failures were read within less than
\* Interval and for nothing else, whatever the reports, rotations and restarts between
\* them; unless the check was switched on while a line was in hand or the log was missing.
\* It says nothing of when the logins were tried ("if anybody tried to login 5 times in
\* 10s", detect_anomaly.c:68): logins far apart that one report reads raise the alarm,
\* and logins close together that two reports read may not.
AlarmIsReadBurst == [][Look /\ ~ raced => (alarm' <=> alarm \/ ReadBurst)]_bruteVars

=============================================================================
