-------------------------- MODULE BucketParameters --------------------------
(***************************************************************************)
(* The two parameters every continuously refilling limiter is built from:  *)
(* the constructors of TokenBucket, LeakyBucket (which calls the second    *)
(* one `capacity`) and Gcra refuse anything but positive integers.         *)
(***************************************************************************)
EXTENDS RateLimiterHarness

CONSTANTS
    Rate,       \* permits per second, so thousandths of one per millisecond
    Burst       \* whole permits a quiet key may spend at once

ASSUME BucketAssumption == Rate \in Nat \ {0} /\ Burst \in Nat \ {0}

(* Thousandths in one permit: the ledgers' unit, UNIT in the GCRA source. *)
Unit == 1000

(* The first whole millisecond at which x thousandths have accrued. *)
MsToAccrue(x) == (x + Rate - 1) \div Rate
=============================================================================
