-------------------------- MODULE MCProvisionRuns --------------------------
(* Model values and symmetry for model-checking ProvisionRuns.              *)
EXTENDS ProvisionRuns, TLC

CONSTANTS r1, r2, r3, t1, t2, s1, s2

RunSymmetry == Permutations(Runs)
AllSymmetry ==
  Permutations(Runs) \union Permutations(Topics) \union Permutations(Sources)
=============================================================================
