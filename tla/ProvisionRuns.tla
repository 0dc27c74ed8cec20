--------------------------- MODULE ProvisionRuns ---------------------------
(***************************************************************************)
(* Topic provisioning as durable background runs:                          *)
(*   provision.py         the stage pipeline discover -> approve -> collect *)
(*   provision_runner.py  run_provision on a bounded thread pool            *)
(*   store_provision.py   the provision_runs row a client polls             *)
(*   discovery.py         what a run adds to the shared source table        *)
(* Every Store method is one committed statement on the worker's own        *)
(* connection, so runs, administrators and other processes interleave      *)
(* between any two of them.  The serving process may die at any moment; a   *)
(* restart marks the runs it lost as interrupted.                          *)
(***************************************************************************)
EXTENDS Naturals, Sequences, FiniteSets

CONSTANTS
  Runs,         \* the rows provision_runs can hold
  Topics,       \* topics, by slug
  Sources,      \* feed URLs, unique in the sources table
  Workers,      \* config.provision_workers()
  MaxFaults,    \* bound on exceptions raised by a step or by a write
  MaxCrashes,   \* bound on deaths of the serving process
  MaxEdits      \* bound on changes of a source by an administrator or tick

ASSUME WorkersAssumption == Workers \in Nat \ {0}
ASSUME BoundsAssumption ==
  /\ MaxFaults \in Nat
  /\ MaxCrashes \in Nat
  /\ MaxEdits \in Nat

VARIABLES
  status,   \* provision_runs.status
  stage,    \* provision_runs.stage
  reason,   \* provision_runs.error, up to its kind
  topic,    \* provision_runs.topic_slug
  up,       \* the serving process is running
  queue,    \* tasks the pool has not started
  pc,       \* the statement a run's route or worker thread executes next
  known,    \* the source_urls() snapshot of discover_for_query
  found,    \* the candidates the search returned to this run
  todo,     \* what is left of the loop the run is in
  adding,   \* the source add_source has inserted and not yet linked
  src,      \* sources.status
  links,    \* topic_sources
  deleted,  \* history: sources an administrator has deleted
  lost,     \* history: runs whose last attempt to write 'error' failed
  faults, crashes, edits   \* counters for the bounds

rowVars    == <<status, stage, reason, topic>>
localVars  == <<known, found, todo, adding>>
sourceVars == <<src, links, deleted>>
counters   == <<faults, crashes, edits>>
vars == <<rowVars, up, queue, pc, localVars, sourceVars, lost, counters>>

-----------------------------------------------------------------------------
(* Where a run's code can be.  "posted": the row is committed and the route  *)
(* has not called submit.  The Stage* points write provision_runs.stage.     *)

StageOf ==
  [StageDiscovering |-> "discovering", StageApproving |-> "approving",
   StageCollecting |-> "collecting", StageReviewing |-> "reviewing",
   StageSummarizing |-> "summarizing", StageReady |-> "ready"]

After ==
  [StageDiscovering |-> {"source_urls"}, StageApproving |-> {"approve"},
   StageCollecting |-> {"active_sources"},
   StageReviewing |-> {"StageSummarizing", "StageReady"},
   StageSummarizing |-> {"StageReady"}, StageReady |-> {"done"}]

StagePoints  == DOMAIN StageOf
Discovering  == {"source_urls", "search", "persist"}
Collecting   == {"active_sources", "collect"}
FinishPoints == {"done", "no sources", "caught", "rescue"}
Executing    == StagePoints \union Discovering \union Collecting
                  \union FinishPoints \union {"verdict", "approve"}
Points       == Executing \union {"off", "posted", "queued"}

Stages   == {StageOf[p] : p \in StagePoints}
Statuses == {"absent", "running", "done", "error"}
Reasons  == {"none", "no sources", "failed", "interrupted"}
States   == {"absent", "candidate", "active", "disabled", "rejected"}

Finished(r) == status[r] \in {"done", "error"}
Running(r)  == status[r] = "running"
Threads     == {r \in Runs : pc[r] \in Executing}

LinkedTo(t)  == {s \in Sources : <<t, s>> \in links}
ActiveFor(t) == {s \in LinkedTo(t) : src[s] = "active"}

-----------------------------------------------------------------------------
Init ==
  /\ status = [r \in Runs |-> "absent"]
  /\ stage  = [r \in Runs |-> "discovering"]
  /\ reason = [r \in Runs |-> "none"]
  /\ topic  \in [Runs -> Topics]
  /\ up = TRUE
  /\ queue = <<>>
  /\ pc     = [r \in Runs |-> "off"]
  /\ known  = [r \in Runs |-> {}]
  /\ found  = [r \in Runs |-> {}]
  /\ todo   = [r \in Runs |-> {}]
  /\ adding = [r \in Runs |-> {}]
  /\ src    = [s \in Sources |-> "absent"]
  /\ links  = {}
  /\ deleted = {}
  /\ lost   = {}
  /\ faults = 0 /\ crashes = 0 /\ edits = 0

-----------------------------------------------------------------------------
(* The route (or the create_topic tool): create_run commits the row ...      *)
CreateRun(r) ==
  /\ up
  /\ status[r] = "absent"
  /\ status' = [status EXCEPT ![r] = "running"]
  /\ pc' = [pc EXCEPT ![r] = "posted"]
  /\ UNCHANGED <<stage, reason, topic, up, queue, localVars, sourceVars, lost,
                 counters>>

(* ... and submit hands the task to the pool.                               *)
Submit(r) ==
  /\ pc[r] = "posted"
  /\ pc' = [pc EXCEPT ![r] = "queued"]
  /\ queue' = Append(queue, r)
  /\ UNCHANGED <<rowVars, up, localVars, sourceVars, lost, counters>>

(* A free pool thread takes the oldest task.                                *)
Dequeue ==
  /\ queue # <<>>
  /\ Cardinality(Threads) < Workers
  /\ pc' = [pc EXCEPT ![Head(queue)] = "StageDiscovering"]
  /\ queue' = Tail(queue)
  /\ UNCHANGED <<rowVars, up, localVars, sourceVars, lost, counters>>

-----------------------------------------------------------------------------
(* The worker.  Each action is one statement of provision_topic or of       *)
(* run_provision, which drives it.                                          *)

(* set_run_stage, for the stage event the generator has just yielded; the    *)
(* summarizing stage is there only when the route passed a brief_generate.   *)
SetRunStage(r) ==
  /\ pc[r] \in StagePoints
  /\ stage' = [stage EXCEPT ![r] = StageOf[pc[r]]]
  /\ \E p \in After[pc[r]] : pc' = [pc EXCEPT ![r] = p]
  /\ UNCHANGED <<status, reason, topic, up, queue, localVars, sourceVars, lost,
                 counters>>

(* discover_for_query: existing = store.source_urls(), whatever their state *)
SourceUrls(r) ==
  /\ pc[r] = "source_urls"
  /\ known' = [known EXCEPT ![r] = {s \in Sources : src[s] # "absent"}]
  /\ pc' = [pc EXCEPT ![r] = "search"]
  /\ UNCHANGED <<rowVars, up, queue, found, todo, adding, sourceVars, lost,
                 counters>>

(* The web search and feed probing return some feeds; the ones in the        *)
(* snapshot are skipped.                                                    *)
Search(r) ==
  /\ pc[r] = "search"
  /\ \E hits \in SUBSET Sources :
       LET new == hits \ known[r] IN
       /\ found' = [found EXCEPT ![r] = new]
       /\ todo' = [todo EXCEPT ![r] = new]
  /\ known' = [known EXCEPT ![r] = {}]
  /\ pc' = [pc EXCEPT ![r] = "persist"]
  /\ UNCHANGED <<rowVars, up, queue, adding, sourceVars, lost, counters>>

(* add_source: INSERT OR IGNORE, which keeps the state of a row another run  *)
(* or an administrator has put there since the snapshot.                    *)
InsertOrIgnore(s) == IF src[s] = "absent" THEN "candidate" ELSE src[s]

AddSource(r) ==
  /\ pc[r] = "persist"
  /\ adding[r] = {}
  /\ \E s \in todo[r] :
       /\ src' = [src EXCEPT ![s] = InsertOrIgnore(s)]
       /\ adding' = [adding EXCEPT ![r] = {s}]
       /\ todo' = [todo EXCEPT ![r] = @ \ {s}]
  /\ UNCHANGED <<rowVars, up, queue, pc, known, found, links, deleted, lost,
                 counters>>

LinkTopicSource(r) ==
  /\ pc[r] = "persist"
  /\ adding[r] # {}
  /\ links' = links \union ({topic[r]} \X adding[r])
  /\ adding' = [adding EXCEPT ![r] = {}]
  /\ UNCHANGED <<rowVars, up, queue, pc, known, found, todo, src, deleted, lost,
                 counters>>

DiscoverReturns(r) ==
  /\ pc[r] = "persist"
  /\ todo[r] = {} /\ adding[r] = {}
  /\ pc' = [pc EXCEPT ![r] = "verdict"]
  /\ UNCHANGED <<rowVars, up, queue, localVars, sourceVars, lost, counters>>

(* candidates == 0 and not topic_has_sources: the "couldn't find good        *)
(* sources" error event; otherwise on to approving.                         *)
HasUsableSources(r) == found[r] # {} \/ ActiveFor(topic[r]) # {}

Verdict(r) ==
  /\ pc[r] = "verdict"
  /\ pc' = [pc EXCEPT ![r] =
              IF HasUsableSources(r) THEN "StageApproving" ELSE "no sources"]
  /\ UNCHANGED <<rowVars, up, queue, localVars, sourceVars, lost, counters>>

(* approve_all_candidates: every candidate linked to the topic, this run's   *)
(* or another's, in one statement.                                          *)
\* mutant: the status filter of the UPDATE is dropped
ApprovedAny(t) == [s \in Sources |-> IF s \in LinkedTo(t) THEN "active" ELSE src[s]]

\* mutant: the UPDATE passes over a source another topic has claimed
ApprovedOwn(t) ==
  [s \in Sources |->
     IF src[s] = "candidate" /\ {u \in Topics : <<u, s>> \in links} = {t}
     THEN "active" ELSE src[s]]

Approved(t) ==
  [s \in Sources |->
     IF s \in LinkedTo(t) /\ src[s] = "candidate" THEN "active" ELSE src[s]]

ApproveAllCandidates(r) ==
  /\ pc[r] = "approve"
  /\ src' = Approved(topic[r])
  /\ pc' = [pc EXCEPT ![r] = "StageCollecting"]
  /\ UNCHANGED <<rowVars, up, queue, localVars, links, deleted, lost, counters>>

(* collect: active_sources(slug) is read once ...                           *)
ActiveSources(r) ==
  /\ pc[r] = "active_sources"
  /\ todo' = [todo EXCEPT ![r] = ActiveFor(topic[r])]
  /\ pc' = [pc EXCEPT ![r] = "collect"]
  /\ UNCHANGED <<rowVars, up, queue, known, found, adding, sourceVars, lost,
                 counters>>

(* ... and each is fetched; one that answers 410, or reaches its failure     *)
(* threshold, is disabled (_update_source_health).                          *)
CollectSource(r) ==
  /\ pc[r] = "collect"
  /\ \E s \in todo[r] :
       /\ todo' = [todo EXCEPT ![r] = @ \ {s}]
       /\ \/ UNCHANGED src
          \/ src' = [src EXCEPT ![s] = "disabled"]
  /\ UNCHANGED <<rowVars, up, queue, pc, known, found, adding, links, deleted,
                 lost, counters>>

CollectReturns(r) ==
  /\ pc[r] = "collect"
  /\ todo[r] = {}
  /\ pc' = [pc EXCEPT ![r] = "StageReviewing"]
  /\ UNCHANGED <<rowVars, up, queue, localVars, sourceVars, lost, counters>>

-----------------------------------------------------------------------------
(* How a run ends.  "no sources" and "caught" are error events, handled      *)
(* inside run_provision's try; "rescue" is its except clause.               *)

\* mutant: the row gets the last stage's name for a status
OutcomeStage == [p \in FinishPoints |-> IF p = "done" THEN "ready" ELSE "error"]

Outcome == [p \in FinishPoints |-> IF p = "done" THEN "done" ELSE "error"]
ReasonOf == [p \in FinishPoints |->
               IF p = "done" THEN "none"
               ELSE IF p = "no sources" THEN p ELSE "failed"]

(* What the worker does once finish_run has returned: it is out of the loop. *)
\* mutant: the return after the error event is missing, so the loop falls through
AfterFinishFallsThrough(p) == IF p \in {"no sources", "caught"} THEN "done" ELSE "off"

AfterFinish(p) == "off"

FinishRun(r) ==
  /\ pc[r] \in FinishPoints
  /\ status' = [status EXCEPT ![r] = Outcome[pc[r]]]
  /\ reason' = [reason EXCEPT ![r] = ReasonOf[pc[r]]]
  /\ pc' = [pc EXCEPT ![r] = AfterFinish(pc[r])]
  /\ UNCHANGED <<stage, topic, up, queue, localVars, sourceVars, lost, counters>>

(* Where an exception raised by the statement at p takes the run: discover   *)
(* and collect are caught by provision_topic and become an error event; any  *)
(* other unwinds to run_provision's except clause; a failure of the last     *)
(* finish_run is swallowed.                                                 *)
\* mutant: run_provision has no except clause, so the thread just ends
HandlerNoRescue(p) ==
  IF p \in Discovering \union Collecting THEN "caught" ELSE "off"

Handler(p) ==
  IF p \in Discovering \union Collecting THEN "caught"
  ELSE IF p = "rescue" THEN "off" ELSE "rescue"

Raise(r) ==
  /\ pc[r] \in Executing
  /\ faults < MaxFaults
  /\ faults' = faults + 1
  /\ pc' = [pc EXCEPT ![r] = Handler(pc[r])]
  /\ lost' = IF pc[r] = "rescue" THEN lost \union {r} ELSE lost
  /\ adding' = [adding EXCEPT ![r] = {}]
  /\ UNCHANGED <<rowVars, up, queue, known, found, todo, sourceVars, crashes,
                 edits>>

-----------------------------------------------------------------------------
(* The serving process dies: its threads and its queue go with it.          *)
Crash ==
  /\ up
  /\ crashes < MaxCrashes
  /\ crashes' = crashes + 1
  /\ up' = FALSE
  /\ queue' = <<>>
  /\ pc' = [r \in Runs |-> "off"]
  /\ adding' = [r \in Runs |-> {}]
  /\ UNCHANGED <<rowVars, known, found, todo, sourceVars, lost, faults, edits>>

(* fail_orphaned_runs, before the application starts to serve               *)
\* mutant: the sweep looks only for runs that got past their first stage
OrphanedStarted == {r \in Runs : Running(r) /\ stage[r] # "discovering"}

Orphaned == {r \in Runs : Running(r)}

Boot ==
  /\ ~up
  /\ up' = TRUE
  /\ status' = [r \in Runs |-> IF r \in Orphaned THEN "error" ELSE status[r]]
  /\ reason' = [r \in Runs |->
                  IF r \in Orphaned THEN "interrupted" ELSE reason[r]]
  /\ lost' = lost \ Orphaned
  /\ UNCHANGED <<stage, topic, queue, pc, localVars, sourceVars, counters>>

(* What administrators, the commit of a discovery and a tick do to the shared *)
(* tables behind the runs' back: each is one statement.                     *)
Editing ==
  /\ edits < MaxEdits
  /\ edits' = edits + 1
  /\ UNCHANGED <<rowVars, up, queue, pc, known, found, lost, faults, crashes>>

(* The approve, enable, reject and disable routes and commands, and the      *)
(* auto-disable of a tick.                                                  *)
SetSourceStatus(s, st) ==
  /\ Editing
  /\ src[s] # "absent"
  /\ src' = [src EXCEPT ![s] = st]
  /\ UNCHANGED <<links, deleted, todo, adding>>

(* `source add` and a discovery commit insert an active source, a tick's     *)
(* discovery a candidate, and then link it.                                 *)
InsertSource(s, st) ==
  /\ Editing
  /\ src[s] = "absent"
  /\ src' = [src EXCEPT ![s] = st]
  /\ UNCHANGED <<links, deleted, todo, adding>>

LinkSource(t, s) ==
  /\ Editing
  /\ src[s] # "absent"
  /\ links' = links \union {<<t, s>>}
  /\ UNCHANGED <<src, deleted, todo, adding>>

(* The approve-all route. *)
ApproveAll(t) ==
  /\ Editing
  /\ src' = Approved(t)
  /\ UNCHANGED <<links, deleted, todo, adding>>

(* delete_source: the row and its links, in one transaction.  Ids are never  *)
(* reused, so what a run still does under the deleted row's id (linking it,  *)
(* disabling it) has no effect on a later row of the same feed.             *)
DeleteSource(s) ==
  /\ Editing
  /\ src[s] # "absent"
  /\ src' = [src EXCEPT ![s] = "absent"]
  /\ links' = links \ (Topics \X {s})
  /\ deleted' = deleted \union {s}
  /\ adding' = [r \in Runs |-> adding[r] \ {s}]
  /\ todo' = [r \in Runs |-> IF pc[r] = "collect" THEN todo[r] \ {s} ELSE todo[r]]

-----------------------------------------------------------------------------
Work(r) ==
  \/ SetRunStage(r) \/ SourceUrls(r) \/ Search(r) \/ AddSource(r)
  \/ LinkTopicSource(r) \/ DiscoverReturns(r) \/ Verdict(r)
  \/ ApproveAllCandidates(r) \/ ActiveSources(r) \/ CollectSource(r)
  \/ CollectReturns(r) \/ FinishRun(r) \/ Raise(r)

Edit ==
  \/ \E s \in Sources :
       \/ \E st \in {"active", "rejected", "disabled"} : SetSourceStatus(s, st)
       \/ \E st \in {"active", "candidate"} : InsertSource(s, st)
       \/ \E t \in Topics : LinkSource(t, s)
       \/ DeleteSource(s)
  \/ \E t \in Topics : ApproveAll(t)

Next ==
  \/ \E r \in Runs : CreateRun(r) \/ Submit(r) \/ Work(r)
  \/ Dequeue \/ Crash \/ Boot \/ Edit

Spec == Init /\ [][Next]_vars

(* Threads run, a request handler finishes its two statements, the pool      *)
(* starts a task when a thread is free, and the supervisor restarts the     *)
(* server.  Nobody is obliged to start a run or to edit a source.           *)
Fairness ==
  /\ \A r \in Runs : WF_vars(Submit(r)) /\ WF_vars(Work(r))
  /\ WF_vars(Dequeue)
  /\ WF_vars(Boot)

FairSpec == Spec /\ Fairness

-----------------------------------------------------------------------------
(* Typing, and what the local variables of a run range over.                *)
TypeOK ==
  /\ status \in [Runs -> Statuses]
  /\ stage \in [Runs -> Stages]
  /\ reason \in [Runs -> Reasons]
  /\ topic \in [Runs -> Topics]
  /\ up \in BOOLEAN
  /\ queue \in Seq(Runs)
  /\ pc \in [Runs -> Points]
  /\ known \in [Runs -> SUBSET Sources]
  /\ found \in [Runs -> SUBSET Sources]
  /\ todo \in [Runs -> SUBSET Sources]
  /\ adding \in [Runs -> SUBSET Sources]
  /\ src \in [Sources -> States]
  /\ links \subseteq Topics \X Sources
  /\ deleted \subseteq Sources
  /\ lost \subseteq Runs
  /\ faults \in 0..MaxFaults
  /\ crashes \in 0..MaxCrashes
  /\ edits \in 0..MaxEdits

(* cli.py: "so the UI shows no zombie pipelines".  While the server serves,  *)
(* a row that says 'running' has a task that will still write to it, unless  *)
(* the write of its last error failed; and a task belongs to a running row. *)
NoZombies ==
  /\ up => \A r \in Runs : Running(r) => (pc[r] # "off" \/ r \in lost)
  /\ \A r \in Runs : pc[r] # "off" => Running(r)

(* Past approving, nothing a run discovered is left undecided, whatever      *)
(* other runs, administrators and restarts did in between: every feed it     *)
(* found is linked to its topic and is no longer a candidate, unless an      *)
(* administrator deleted it.                                                *)
PastApproval ==
  {"StageCollecting", "active_sources", "collect", "StageReviewing",
   "StageSummarizing", "StageReady", "done"}

DiscoveredIsDecided ==
  \A r \in Runs : pc[r] \in PastApproval =>
    \A s \in found[r] \ deleted : s \in LinkedTo(topic[r]) /\ src[s] # "candidate"

(* A source an administrator rejected, or one that was disabled, comes back  *)
(* only by an explicit edit: no run, however stale its snapshot, revives it. *)
DecisionsStick ==
  [][\A s \in Sources :
       src[s] \in {"rejected", "disabled"} /\ src'[s] \in {"candidate", "active"}
         => SetSourceStatus(s, "active")]_vars

(* The rows implement the life cycle a client relies on: in particular a     *)
(* finished row never changes, whatever a late or dying worker does.        *)
Lifecycle == INSTANCE RunLifecycle WITH row <- status
ImplementsLifecycle == Lifecycle!Spec

(* Every run ends: a client that polls stops seeing 'running', unless the    *)
(* database refused the last write of the run and nobody restarts the server.*)
RunsEnd == \A r \in Runs : Running(r) ~> (Finished(r) \/ r \in lost)
=============================================================================
