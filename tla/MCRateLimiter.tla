---------------------------- MODULE MCRateLimiter ----------------------------
(***************************************************************************)
(* Small instances of RateLimiter: one key whose window is as long as the  *)
(* sweep's horizon, as for the routes limited by the hour, and one with a  *)
(* short window; a sweep after every second admitted hit; threads that may *)
(* stall for one tick between reading the clock and taking the lock.       *)
(***************************************************************************)
EXTENDS RateLimiter, TLC

CONSTANTS a, b, t1, t2

MCKeys    == {a, b}
MCThreads == {t1, t2}
MCLimit   == [k \in MCKeys |-> IF k = a THEN 2 ELSE 1]
MCWindow  == [k \in MCKeys |-> IF k = a THEN 3 ELSE 1]

ThreadSymmetry == Permutations(MCThreads)

=============================================================================
