---------------------------- MODULE RunLifecycle ----------------------------
(***************************************************************************)
(* What a durable background run promises the client that polls for it     *)
(* (provision_runs and discovery_runs): a row appears as 'running', leaves  *)
(* that state once, for 'done' or 'error', and never moves again.          *)
(* ProvisionRuns and DiscoveryRuns implement it.                           *)
(***************************************************************************)
CONSTANT Runs
VARIABLE row

Finished == {"done", "error"}
Statuses == {"absent", "running"} \union Finished

TypeOK == row \in [Runs -> Statuses]

Init == row = [r \in Runs |-> "absent"]

(* create_run / create_discovery_run *)
Create(r) ==
  /\ row[r] = "absent"
  /\ row' = [row EXCEPT ![r] = "running"]

(* finish_run, or the startup sweep, of every run in the set R at once *)
Finish(R, s) ==
  /\ R # {}
  /\ \A r \in R : row[r] = "running"
  /\ row' = [r \in Runs |-> IF r \in R THEN s ELSE row[r]]

Next ==
  \/ \E r \in Runs : Create(r)
  \/ \E R \in SUBSET Runs : \E s \in Finished : Finish(R, s)

Spec == Init /\ [][Next]_row
=============================================================================
