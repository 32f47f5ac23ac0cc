------------------------------ MODULE Throttle ------------------------------
(***************************************************************************)
(* The counters that slow down guessing (core/internal/throttle).  A row   *)
(* counts the attempts against one key and says until when further ones    *)
(* are refused.  Who takes the steps in between, and in which order, is    *)
(* the matter of the modules that use it.                                  *)
(***************************************************************************)
EXTENDS Integers

CONSTANT DecayAfter  \* how long without a failure resets a counter

ASSUME ThrottleAssumption == DecayAfter \in Nat

Rows == [failures : Nat, until : Nat, at : Nat]

(* There is no row yet, or there is one no longer.                         *)
Fresh == [failures |-> 0, until |-> 0, at |-> 0]

Policies == [free : Nat, max : Nat]

(* Two, doubled until there is a risk of overflow.                         *)
PowersOfTwo == <<2, 4, 8, 16, 32, 64, 128, 256, 512, 1024, 2048, 4096, 8192, 16384, 32768, 65536,
                 131072, 262144, 524288, 1048576>>

Delay(p, n) ==
  LET over == n - p.free
  IN  IF over <= 0 THEN 0
      ELSE IF over > 20 THEN p.max
      ELSE IF PowersOfTwo[over] > p.max THEN p.max
      ELSE PowersOfTwo[over]

IsBlocked(row, t) == row.until > t

(* The failures of a row once there is one more of them.                   *)
Failures(row, t) == IF row.at < t - DecayAfter THEN 1 ELSE row.failures + 1

Until(p, n, t, otherwise) == IF Delay(p, n) > 0 THEN t + Delay(p, n) ELSE otherwise

SetThrottle(n, until, t)     == [failures |-> n, until |-> until, at |-> t]
SetThrottleBlock(row, until) == [row EXCEPT !.until = until]

(* An attempt that is counted before its secret is looked at.              *)
Charged(row, p, t) ==
  LET n == Failures(row, t) IN SetThrottle(n, Until(p, n, t, 0), t)

(* A failure that is counted after the fact.                               *)
Failed(row, p, t) ==
  LET n == Failures(row, t)
  IN  SetThrottleBlock([row EXCEPT !.failures = n, !.at = t], Until(p, n, t, row.until))

(* The charge of an attempt that turned out to be right is taken back.     *)
Refunded(row, p) ==
  IF row.failures <= 1 THEN Fresh
  ELSE SetThrottle(row.failures - 1, IF row.failures - 1 <= p.free THEN 0 ELSE row.until, row.at)
=============================================================================
