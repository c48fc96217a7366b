-------------------------- MODULE BruteForceProofs --------------------------
(***************************************************************************)
(* The ring of failed logins, for every size of the ring and every         *)
(* interval: it holds the failures read last in order, and the alarm of a  *)
(* report tells whether they were read within the interval.                *)
(*                                                                         *)
(* RingIsRecent is not inductive: between taking a slot and writing it the *)
(* ring is one record behind its index, and until the index wraps it may   *)
(* be Cnt.  RingInvariant says what it is then, and that every failure     *)
(* recorded is no earlier than Start, which keeps the zeros of a cleared   *)
(* ring apart from it.                                                     *)
(***************************************************************************)
EXTENDS BruteForce, TLAPS

\* A failure that is recorded is at Start or later, and the clock does not go back.
TimesInOrder ==
  /\ clock >= Start
  /\ \A k \in 1..Cnt : recent[k] # Never => recent[k] >= Start

\* The line in hand has repetitions left until the last is stored.
LineInHand ==
  /\ step \in {"take", "store", "wrap"} => left > 0
  /\ step \in {"wrap", "look"} => recent[1] # Never \/ raced

\* The ring while a slot is taken: the slot is the one before the oldest, and the
\* others are one record behind.
RingWhileTaken ==
  ~ raced /\ step = "store" =>
    /\ slot = Back(1)
    /\ \A k \in 2..Cnt : records[Back(k)] = Kept(recent[k - 1])

\* The index is out of the ring only from the increment to the wrap, and by one, and then
\* it is the successor of the slot unless the check began meanwhile.
IndexInRing ==
  /\ step \notin {"store", "wrap"} => oldest \in Slots
  /\ ~ raced /\ step \in {"store", "wrap"} => oldest = slot + 1

\* The inductive invariant of the ring of failures.
RingInvariant ==
  /\ BruteTypeOK /\ TimesInOrder /\ LineInHand /\ IndexInRing
  /\ RingIsRecent /\ RingWhileTaken

-----------------------------------------------------------------------------
(* The arithmetic of the ring.                                             *)

\* The slots behind an index of the ring are slots, all different; the first is the slot
\* before the index, the last is the index itself.
LEMMA BackIsSlot ==
  ASSUME oldest \in 0..Cnt
  PROVE  /\ \A k \in 1..Cnt : Back(k) \in Slots
         /\ \A k, l \in 1..Cnt : Back(k) = Back(l) => k = l
         /\ Back(1) = Pred(oldest)
         /\ oldest \in Slots => Back(Cnt) = oldest
BY RingAssumption DEF Back, Slots, Pred

\* Going k back from any index ends in the ring.
LEMMA BackInRing ==
  ASSUME NEW i \in 0..Cnt, NEW k \in 1..Cnt
  PROVE  (IF k <= i THEN i - k ELSE i - k + Cnt) \in Slots
BY RingAssumption DEF Slots

\* So the slots behind the index are slots after a step.
LEMMA BackStaysSlot ==
  ASSUME oldest' \in 0..Cnt
  PROVE  \A k \in 1..Cnt : Back(k)' \in Slots
BY BackInRing DEF Back

\* The ring is not empty.
LEMMA ZeroIsSlot == 0 \in Slots
BY RingAssumption DEF Slots

\* A line of the log repeats its message at least once.
LEMMA LineRepeats ==
  ASSUME BruteTypeOK, ReadLine
  PROVE  log[pos + 1] \in Nat \ {0}
<1>1. log \in Seq(Repeats) /\ pos \in Nat /\ pos < Len(log)
  BY DEF BruteTypeOK, ReadLine
<1>2. pos + 1 \in 1..Len(log)
  BY <1>1
<1>3. log[pos + 1] \in Repeats
  BY <1>1, <1>2
<1>4. QED
  BY <1>3, RingAssumption

\* An index that wraps is in the ring.
LEMMA WrappedIsSlot ==
  ASSUME NEW i \in 0..Cnt
  PROVE  Wrapped(i) \in Slots /\ Slots \subseteq 0..Cnt
BY RingAssumption DEF Wrapped, Slots

\* The successor of a slot is an index that may have to wrap.
LEMMA NextOfSlot ==
  ASSUME NEW i \in Slots
  PROVE  i + 1 \in 0..Cnt
BY RingAssumption DEF Slots

\* When the index moves on, what was k back is k + 1 back, and the index itself one back.
LEMMA BackMoves ==
  ASSUME oldest \in Slots, oldest' = oldest + 1
  PROVE  /\ Back(1)' = oldest
         /\ \A k \in 2..Cnt : Back(k)' = Back(k - 1)
BY RingAssumption DEF Back, Slots

\* When the index wraps, nothing moves.
LEMMA BackWraps ==
  ASSUME oldest \in 0..Cnt, oldest' = Wrapped(oldest)
  PROVE  \A k \in 1..Cnt : Back(k)' = Back(k)
BY RingAssumption DEF Back, Wrapped

-----------------------------------------------------------------------------
(* Every step keeps the types.                                             *)

\* The ring starts with values of its types.
LEMMA TypeInit == BruteInit => BruteTypeOK
BY RingAssumption DEF BruteInit, BruteTypeOK, Slots, Never

\* Every step keeps the types.
LEMMA TypeStep == RingInvariant /\ [BruteNext]_bruteVars => BruteTypeOK'
<1> SUFFICES ASSUME RingInvariant, [BruteNext]_bruteVars PROVE BruteTypeOK'
  OBVIOUS
<1> USE RingAssumption DEF RingInvariant, BruteTypeOK
<1>1. CASE Tick
  BY <1>1 DEF Tick, ring, report
<1>2. CASE LoginFails
  BY <1>2 DEF LoginFails, ring, report
<1>3. CASE Rotate
  BY <1>3 DEF Rotate, ring, report
<1>4. CASE ResetIndex
  BY <1>4 DEF ResetIndex, report
<1>5. ASSUME NEW found \in BOOLEAN, ResetRecords(found) PROVE BruteTypeOK'
  BY <1>5 DEF ResetRecords, report, Slots
<1>6. CASE ReportBegins
  BY <1>6 DEF ReportBegins, ring
<1>7. CASE ReadLine
  BY <1>7, LineRepeats DEF ReadLine, ring
<1>8. CASE TakeSlot
  BY <1>8, NextOfSlot DEF TakeSlot, IndexInRing
<1>9. CASE Store
  BY <1>9 DEF Store
<1>10. CASE Look
  BY <1>10 DEF Look, ring
<1>11. CASE ReportEnds
  BY <1>11, ZeroIsSlot DEF ReportEnds, Return, ring
<1>12. CASE ReportCancelled
  BY <1>12, ZeroIsSlot DEF ReportCancelled, Return, ring
<1>13. CASE Reboot
  <2>1. records' \in [Slots -> Nat] /\ recent' \in [1..Cnt -> Nat \cup {Never}]
    BY <1>13 DEF Reboot
  <2>2. oldest' \in 0..Cnt /\ slot' \in Slots
    BY <1>13, ZeroIsSlot DEF Reboot, Return
  <2>3. UNCHANGED <<clock, log>> /\ ~ raced' /\ ~ alarm' /\ step' = "closed"
    BY <1>13 DEF Reboot, Return
  <2>4. offset' = 0 /\ pos' = 0 /\ size' = 0 /\ left' = 0
    BY <1>13 DEF Reboot, Return
  <2>5. raced' \in BOOLEAN /\ alarm' \in BOOLEAN
    BY <1>13 DEF Reboot, Return
  <2>6. QED
    BY <2>1, <2>2, <2>3, <2>4, <2>5
<1>14. CASE UNCHANGED bruteVars
  BY <1>14 DEF bruteVars, ring, report
<1>15. CASE Wrap
  <2>1. oldest' \in 0..Cnt
    BY <1>15, WrappedIsSlot, NextOfSlot DEF Wrap
  <2>2. left' \in Nat
    BY <1>15 DEF Wrap, LineInHand
  <2>3. QED
    BY <1>15, <2>1, <2>2 DEF Wrap
<1>16. QED
  BY <1>1, <1>2, <1>3, <1>4, <1>5, <1>6, <1>7, <1>8, <1>9, <1>10, <1>11, <1>12, <1>13, <1>14, <1>15
  DEF BruteNext, ReportReads, ReportsNothing

-----------------------------------------------------------------------------
(* Every step keeps the ring.                                              *)

\* Every step keeps the recorded times in order.
LEMMA TimesStep == RingInvariant /\ [BruteNext]_bruteVars => TimesInOrder'
<1> SUFFICES ASSUME RingInvariant, [BruteNext]_bruteVars PROVE TimesInOrder'
  OBVIOUS
<1> USE RingAssumption DEF RingInvariant, BruteTypeOK, TimesInOrder
<1>1. CASE Tick
  BY <1>1 DEF Tick, ring
<1>2. CASE UNCHANGED <<clock, recent>>
  BY <1>2
<1>3. CASE Store
  BY <1>3 DEF Store
<1>4. CASE clock' = clock /\ recent' = [k \in 1..Cnt |-> Never]
  BY <1>4
<1>5. QED
  BY <1>1, <1>2, <1>3, <1>4
  DEF BruteNext, ReportReads, LoginFails, Rotate, ResetIndex, ResetRecords, ReportBegins,
      ReportsNothing, ReadLine, TakeSlot, Wrap, Look, ReportEnds, ReportCancelled, Reboot,
      bruteVars, ring

\* Every step keeps the line in hand one with repetitions left.
LEMMA LineStep == RingInvariant /\ [BruteNext]_bruteVars => LineInHand'
<1> SUFFICES ASSUME RingInvariant, [BruteNext]_bruteVars PROVE LineInHand'
  OBVIOUS
<1> USE RingAssumption DEF RingInvariant, BruteTypeOK, LineInHand
<1>1. CASE UNCHANGED <<step, left, recent, raced>>
  BY <1>1
<1>2. CASE step' \in {"closed", "lines"}
  BY <1>2
<1>3. CASE ReadLine
  BY <1>3, LineRepeats DEF ReadLine
<1>4. CASE TakeSlot
  BY <1>4 DEF TakeSlot
<1>5. CASE Store
  BY <1>5 DEF Store, Never
<1>6. CASE Wrap
  BY <1>6 DEF Wrap
<1>7. CASE ResetIndex
  BY <1>7 DEF ResetIndex, report
<1>8. ASSUME NEW found \in BOOLEAN, ResetRecords(found) PROVE LineInHand'
  BY <1>8 DEF ResetRecords, report, InHand
<1>9. QED
  BY <1>1, <1>2, <1>3, <1>4, <1>5, <1>6, <1>7, <1>8
  DEF BruteNext, ReportReads, Tick, LoginFails, Rotate, ReportBegins, ReportsNothing,
      Look, ReportEnds, ReportCancelled, Reboot, Return, bruteVars, ring, report

\* Every step keeps the index in the ring, or one past it until it wraps.
LEMMA IndexStep == RingInvariant /\ [BruteNext]_bruteVars => IndexInRing'
<1> SUFFICES ASSUME RingInvariant, [BruteNext]_bruteVars PROVE IndexInRing'
  OBVIOUS
<1> USE RingAssumption DEF RingInvariant, IndexInRing
<1>1. CASE UNCHANGED <<step, oldest, slot, raced>>
  BY <1>1
<1>2. CASE step \notin {"store", "wrap"} /\ step' \notin {"store", "wrap"} /\ oldest' = oldest
  BY <1>2
<1>3. CASE TakeSlot
  BY <1>3 DEF TakeSlot
<1>4. CASE Store
  BY <1>4 DEF Store
<1>5. CASE Wrap
  BY <1>5, WrappedIsSlot, NextOfSlot DEF Wrap, BruteTypeOK
<1>6. CASE ResetIndex
  BY <1>6, ZeroIsSlot DEF ResetIndex, report
<1>7. ASSUME NEW found \in BOOLEAN, ResetRecords(found) PROVE IndexInRing'
  BY <1>7 DEF ResetRecords, report, InHand
<1>8. CASE Reboot
  BY <1>8, ZeroIsSlot DEF Reboot, Return
<1>9. QED
  BY <1>1, <1>2, <1>3, <1>4, <1>5, <1>6, <1>7, <1>8
  DEF BruteNext, ReportReads, Tick, LoginFails, Rotate, ReportBegins, ReportsNothing, ReadLine,
      Look, ReportEnds, ReportCancelled, Return, bruteVars, ring, report

\* Every step keeps the ring the most recent failures.
LEMMA RingStep == RingInvariant /\ [BruteNext]_bruteVars => RingIsRecent' /\ RingWhileTaken'
<1> SUFFICES ASSUME RingInvariant, [BruteNext]_bruteVars PROVE RingIsRecent' /\ RingWhileTaken'
  OBVIOUS
<1> USE RingAssumption DEF RingInvariant
<1>0. BruteTypeOK'
  BY TypeStep
<1>1. CASE UNCHANGED <<records, oldest, recent, raced, slot>> /\ (step' = step \/ (step # "store" /\ step' # "store"))
  BY <1>1 DEF RingIsRecent, RingWhileTaken, Back, Kept
<1>2. CASE raced'
  BY <1>2 DEF RingIsRecent, RingWhileTaken
<1>3. CASE /\ records' = [i \in Slots |-> 0]
           /\ recent' = [k \in 1..Cnt |-> Never]
           /\ step' # "store"
  <2>1. oldest' \in 0..Cnt
    BY <1>0 DEF BruteTypeOK
  <2>2. \A k \in 1..Cnt : Back(k)' \in Slots
    BY <2>1, BackStaysSlot
  <2>3. QED
    BY <1>3, <2>2 DEF RingIsRecent, RingWhileTaken, Kept
<1>4. CASE TakeSlot
  <2>1. /\ Back(1)' = oldest
        /\ \A k \in 2..Cnt : Back(k)' = Back(k - 1)
    BY <1>4, BackMoves DEF TakeSlot, IndexInRing
  <2>2. ASSUME ~ raced, NEW k \in 2..Cnt
        PROVE  records'[Back(k)'] = Kept(recent'[k - 1])
    <3>1. k - 1 \in 1..Cnt
      OBVIOUS
    <3>2. records[Back(k - 1)] = Kept(recent[k - 1])
      BY <1>4, <2>2, <3>1 DEF TakeSlot, RingIsRecent
    <3>3. QED
      BY <1>4, <2>1, <3>2 DEF TakeSlot
  <2>3. QED
    BY <1>4, <2>1, <2>2 DEF TakeSlot, RingIsRecent, RingWhileTaken, Kept
<1>5. CASE Store
  <2>1. SUFFICES ASSUME ~ raced, NEW k \in 1..Cnt
                 PROVE  records'[Back(k)'] = Kept(recent'[k])
    BY <1>5 DEF Store, RingIsRecent, RingWhileTaken, Kept
  <2>2. /\ \A l \in 1..Cnt : Back(l) \in Slots
        /\ \A l, m \in 1..Cnt : Back(l) = Back(m) => l = m
    BY BackIsSlot DEF BruteTypeOK
  <2>3. Back(k)' = Back(k) /\ slot = Back(1)
    BY <1>5, <2>1 DEF Store, Back, RingWhileTaken
  <2>4. CASE k = 1
    BY <1>5, <2>2, <2>3, <2>4 DEF Store, BruteTypeOK, Kept, Never
  <2>5. CASE k # 1
    <3>1. k \in 2..Cnt /\ Back(k) # slot
      BY <2>2, <2>3, <2>5
    <3>2. records[Back(k)] = Kept(recent[k - 1])
      BY <1>5, <2>1, <3>1 DEF Store, RingWhileTaken
    <3>3. records'[Back(k)] = records[Back(k)] /\ recent'[k] = recent[k - 1]
      BY <1>5, <2>2, <2>5, <3>1 DEF Store, BruteTypeOK
    <3>4. QED
      BY <2>3, <3>2, <3>3
  <2>6. QED
    BY <2>4, <2>5
<1>6. ASSUME NEW found \in BOOLEAN, ResetRecords(found) PROVE RingIsRecent' /\ RingWhileTaken'
  BY <1>2, <1>3, <1>6 DEF ResetRecords, InHand, report
<1>7. CASE Tick \/ LoginFails \/ Rotate
  BY <1>1, <1>7 DEF Tick, LoginFails, Rotate, ring, report
<1>8. CASE ResetIndex
  BY <1>2, <1>8 DEF ResetIndex
<1>9. CASE ReportBegins \/ ReadLine \/ Look
  BY <1>1, <1>9 DEF ReportBegins, ReadLine, Look, ring
<1>10. ASSUME ring' = ring, step' # "store", step # "store" PROVE RingIsRecent' /\ RingWhileTaken'
  BY <1>10 DEF ring, RingIsRecent, RingWhileTaken, Back, Kept
<1>11. CASE ReportEnds \/ ReportCancelled
  BY <1>10, <1>11 DEF ReportEnds, ReportCancelled, Return
<1>12. CASE Reboot
  BY <1>3, <1>12 DEF Reboot, Return
<1>13. CASE UNCHANGED bruteVars
  BY <1>1, <1>13 DEF bruteVars, ring, report
<1>14. CASE Wrap
  <2>1. SUFFICES ASSUME ~ raced, NEW k \in 1..Cnt
                 PROVE  records'[Back(k)'] = Kept(recent'[k])
    BY <1>14 DEF Wrap, RingIsRecent, RingWhileTaken, Kept
  <2>2. oldest' = Wrapped(oldest)
    BY <1>14, <2>1 DEF Wrap, IndexInRing
  <2>3. Back(k)' = Back(k)
    BY <2>2, BackWraps DEF BruteTypeOK
  <2>4. records[Back(k)] = Kept(recent[k])
    BY <1>14, <2>1 DEF Wrap, RingIsRecent
  <2>5. QED
    BY <1>14, <2>3, <2>4 DEF Wrap
<1>15. QED
  BY <1>4, <1>5, <1>6, <1>7, <1>8, <1>9, <1>11, <1>12, <1>13, <1>14
  DEF BruteNext, ReportReads, ReportsNothing

-----------------------------------------------------------------------------
(* The theorems.                                                           *)

\* The invariant of the ring holds at first.
LEMMA RingInit == BruteInit => RingInvariant
<1> SUFFICES ASSUME BruteInit PROVE RingInvariant
  OBVIOUS
<1> USE RingAssumption
<1>1. BruteTypeOK
  BY TypeInit
<1>2. TimesInOrder /\ LineInHand /\ IndexInRing /\ RingWhileTaken
  BY ZeroIsSlot DEF BruteInit, TimesInOrder, LineInHand, IndexInRing, RingWhileTaken
<1>3. \A k \in 1..Cnt : Back(k) \in Slots
  BY <1>1, BackIsSlot DEF BruteTypeOK
<1>4. RingIsRecent
  BY <1>3 DEF BruteInit, RingIsRecent, Kept
<1>5. QED
  BY <1>1, <1>2, <1>4 DEF RingInvariant

\* The invariant of the ring always holds.
LEMMA RingInvariance == BruteSpec => []RingInvariant
<1>1. RingInvariant /\ [BruteNext]_bruteVars => RingInvariant'
  BY TypeStep, TimesStep, LineStep, IndexStep, RingStep DEF RingInvariant
<1>2. QED
  BY RingInit, <1>1, PTL DEF BruteSpec

\* The state of the detection keeps its types: a record is only ever written into the
\* ring, although the index is transiently one past it while another thread may reset it.
THEOREM RingTypes == BruteSpec => []BruteTypeOK
BY RingInvariance, PTL DEF RingInvariant

\* The ring of loginFailedTimeRecords holds the last Cnt failures read in order, whatever
\* is read, rotated, cancelled and restarted, if no initialisation raced with a report.
THEOREM RingHoldsTheLatest == BruteSpec => []RingIsRecent
BY RingInvariance, PTL DEF RingInvariant

\* LoginBruteForceProcessCheckCriticalFreq decides on the ring alone whether the last Cnt
\* failures were read within the interval, for every Cnt and Interval.  The times are
\* those of reading, not of the logins.
THEOREM AlarmTellsReadBurst == BruteSpec => AlarmIsReadBurst
<1>1. RingInvariant /\ [BruteNext]_bruteVars
        => [Look /\ ~ raced => (alarm' <=> alarm \/ ReadBurst)]_bruteVars
  <2> SUFFICES ASSUME RingInvariant, Look, ~ raced
               PROVE  alarm' <=> alarm \/ ReadBurst
    OBVIOUS
  <2> USE RingAssumption DEF RingInvariant, BruteTypeOK
  <2>1. 1 \in 1..Cnt /\ Cnt \in 1..Cnt
    OBVIOUS
  <2>2. /\ records[Pred(oldest)] = Kept(recent[1])
        /\ records[oldest] = Kept(recent[Cnt])
    BY <2>1, BackIsSlot DEF Look, RingIsRecent, IndexInRing
  <2>3. recent[1] # Never
    BY DEF Look, LineInHand
  <2>4. /\ recent[1] \in Nat /\ recent[1] >= Start
        /\ recent[Cnt] # Never => recent[Cnt] \in Nat
    BY <2>1, <2>3 DEF TimesInOrder
  <2>5. Critical(records, oldest) <=> ReadBurst
    <3>1. CASE recent[Cnt] = Never
      BY <2>2, <2>3, <2>4, <3>1 DEF Critical, ReadBurst, Kept
    <3>2. CASE recent[Cnt] # Never
      BY <2>2, <2>3, <2>4, <3>2 DEF Critical, ReadBurst, Kept
    <3>3. QED
      BY <3>1, <3>2
  <2>6. QED
    BY <2>5, Zenon DEF Look
<1>2. QED
  BY RingInvariance, <1>1, PTL DEF BruteSpec, AlarmIsReadBurst

=============================================================================
