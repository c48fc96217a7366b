------------------------------ MODULE Backoff ------------------------------
(***************************************************************************)
(* How long IOTA_HandleConnectFailure (iota_defaultCallback.c) waits       *)
(* before it connects again, in the C types unsigned long and long.        *)
(*                                                                         *)
(* With a unit of time of 2^u milliseconds, a long of w bits holds a time  *)
(* modulo 2^(w - u) units, exactly, if all times are multiples of the      *)
(* unit.                                                                   *)
(***************************************************************************)
EXTENDS Integers

CONSTANTS
  LongBits,    \* width of long, for times in units
  MaxPower,    \* 31: the power of two is limited to it
  Factor,      \* IOTA_DEFAULE_BACKOFF
  MinBackoff,  \* IOTA_MIN_BACKOFF
  MaxBackoff   \* IOTA_MAX_BACKOFF

ASSUME BackoffAssumption ==
  /\ LongBits \in Nat /\ LongBits > 1 /\ MaxPower \in Nat
  /\ Factor \in Nat /\ Factor % 5 = 0 /\ Factor > 0
  /\ MinBackoff \in Nat /\ MaxBackoff \in Nat /\ MinBackoff <= MaxBackoff

\* What the provers do not know of powers.
ASSUME PowerAssumption == \A n \in 0..LongBits : 2^n \in Nat \ {0}

\* The random part is taken from the upper fifth of the factor.
LowBound == (Factor * 4) \div 5
HighBound == Factor
RandomBackOffs == LowBound..(HighBound - 1)

\* x * 2^p as an unsigned long.
ShiftedLeft(x, p) == IF p >= LongBits THEN 0 ELSE (x % 2^(LongBits - p)) * 2^p

\* An unsigned long, or a sum of longs that overflows, as a long.
AsLong(x) ==
  IF x >= 2^(LongBits - 1) THEN (x - 2^(LongBits - 1)) - 2^(LongBits - 1) ELSE x

\* Bug: the power grows with every failure.
PowerUnlimited(retryTimes) == retryTimes

Power(retryTimes) == IF retryTimes >= MaxPower + 1 THEN MaxPower ELSE retryTimes

BackOffWithJitter(retryTimes, r) ==
  AsLong(ShiftedLeft(r + LowBound, Power(retryTimes)))

WaitTimeUntilNextRetry(retryTimes, r) ==
  LET w == AsLong(MinBackoff + BackOffWithJitter(retryTimes, r))
  IN IF w > MaxBackoff THEN MaxBackoff ELSE w

=============================================================================
