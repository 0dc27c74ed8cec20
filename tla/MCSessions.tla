------------------------------ MODULE MCSessions ------------------------------
(***************************************************************************)
(* Small instances of Sessions: one or two accounts, two or three threads. *)
(***************************************************************************)
EXTENDS Sessions, TLC

CONSTANTS boss, ann, t1, t2

Symmetry == Permutations(Threads)
=============================================================================
