------------------------------ MODULE MCTick -------------------------------
(* The instance of Tick that TLC checks: a year of two months, of two days   *)
(* and one, so that a month may lack the day a schedule starts on.           *)
EXTENDS Tick, TLC

CONSTANTS p1, p2

Symmetry == Permutations(Procs)

TwoMonths == <<2, 1>>

SomePatches == {[period |-> "day", at |-> 1, interval |-> 2]}

SomeCadences == {[every |-> 2, interval |-> 2]}
=============================================================================
