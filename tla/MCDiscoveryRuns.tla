-------------------------- MODULE MCDiscoveryRuns --------------------------
(* Model values for model-checking DiscoveryRuns.                           *)
EXTENDS DiscoveryRuns, TLC

CONSTANTS t1, t2, f1
=============================================================================
