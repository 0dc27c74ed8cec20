------------------------- MODULE ProvisionRunsProofs -------------------------
(***************************************************************************)
(* Proofs about ProvisionRuns, for any runs, topics, sources, pool size    *)
(* and bounds:                                                             *)
(*   TypeCorrect     the type invariant;                                   *)
(*   NoZombieRuns    a running row has a worker (or lost its last write),  *)
(*                   and only running rows have one;                       *)
(*   RowsImplement   the rows implement RunLifecycle: a finished run never *)
(*                   changes again;                                        *)
(*   DiscoveryIsDecided   past approving, a run leaves none of its feeds    *)
(*                   undecided;                                            *)
(*   DecisionsKept   no run revives a source that was rejected or disabled. *)
(***************************************************************************)
EXTENDS ProvisionRuns, TLAPS

(* Every point of a run's code has a place it goes to.                      *)
LEMMA PointTables ==
  /\ \A p \in StagePoints : p \in Points /\ StageOf[p] \in Stages
  /\ \A p \in StagePoints : After[p] \subseteq Executing
  /\ \A p \in FinishPoints : Outcome[p] \in {"done", "error"}
  /\ \A p \in FinishPoints : ReasonOf[p] \in Reasons
  /\ \A p \in FinishPoints : AfterFinish(p) = "off"
  /\ \A p \in Executing : Handler(p) \in Executing \union {"off"}
  /\ \A p \in Executing : Handler(p) = "off" => p = "rescue"
<1>1. StagePoints = {"StageDiscovering", "StageApproving", "StageCollecting",
                     "StageReviewing", "StageSummarizing", "StageReady"}
  BY DEF StagePoints, StageOf
<1>2. \A p \in StagePoints : p \in Points /\ StageOf[p] \in Stages
  BY DEF Points, Executing, Stages
<1>3. \A p \in StagePoints : After[p] \subseteq Executing
  <2>1. /\ After.StageDiscovering = {"source_urls"}
        /\ After.StageApproving = {"approve"}
        /\ After.StageCollecting = {"active_sources"}
        /\ After.StageReviewing = {"StageSummarizing", "StageReady"}
        /\ After.StageSummarizing = {"StageReady"}
        /\ After.StageReady = {"done"}
    BY DEF After
  <2>2. {"source_urls", "approve", "active_sources", "StageSummarizing",
         "StageReady", "done"} \subseteq Executing
    BY <1>1 DEF Executing, FinishPoints, Collecting, Discovering
  <2>3. QED BY <1>1, <2>1, <2>2
<1>4. /\ \A p \in FinishPoints : Outcome[p] \in {"done", "error"}
      /\ \A p \in FinishPoints : ReasonOf[p] \in Reasons
      /\ \A p \in FinishPoints : AfterFinish(p) = "off"
  BY DEF Outcome, ReasonOf, Reasons, AfterFinish, FinishPoints
<1>5. /\ \A p \in Executing : Handler(p) \in Executing \union {"off"}
      /\ \A p \in Executing : Handler(p) = "off" => p = "rescue"
  BY DEF Handler, Executing, FinishPoints
<1>6. QED BY <1>2, <1>3, <1>4, <1>5

(* The queue holds runs whose pc says so, each once.                        *)
Enqueued == DOMAIN queue
QueueInv ==
  /\ \A i \in Enqueued : pc[queue[i]] = "queued"
  /\ \A i, j \in Enqueued : i # j => queue[i] # queue[j]

(* No thread outlives the process.                                          *)
DownInv == ~up => \A r \in Runs : pc[r] = "off"

IInv == TypeOK /\ NoZombies /\ QueueInv /\ DownInv

-----------------------------------------------------------------------------
(* The points named by the actions.                                         *)
LEMMA PointNames ==
  /\ \A p \in Executing : p \in Points
  /\ "off" \in Points /\ "posted" \in Points /\ "queued" \in Points
  /\ "StageDiscovering" \in Executing /\ "search" \in Executing
  /\ "persist" \in Executing /\ "verdict" \in Executing
  /\ "StageApproving" \in Executing /\ "no sources" \in Executing
  /\ "StageCollecting" \in Executing /\ "collect" \in Executing
  /\ "StageReviewing" \in Executing
<1>1. {"StageDiscovering", "StageApproving", "StageCollecting", "StageReviewing"}
        \subseteq StagePoints
  BY DEF StagePoints, StageOf
<1>2. QED BY <1>1 DEF Points, Executing, Discovering, Collecting, FinishPoints

-----------------------------------------------------------------------------
(* Typing.                                                                  *)
LEMMA TypeInit == Init => TypeOK
<1>1. "discovering" \in Stages
  BY DEF Stages, StagePoints, StageOf
<1>2. "off" \in Points
  BY PointNames
<1>3. QED
  BY <1>1, <1>2, BoundsAssumption
  DEF Init, TypeOK, Statuses, Reasons, States

LEMMA TypeNext == TypeOK /\ [Next]_vars => TypeOK'
<1> SUFFICES ASSUME TypeOK, [Next]_vars PROVE TypeOK'
  OBVIOUS
<1> USE DEF rowVars, localVars, sourceVars, counters
<1>1. ASSUME NEW r \in Runs, CreateRun(r) PROVE TypeOK'
  BY <1>1, PointNames DEF CreateRun, TypeOK, Statuses
<1>2. ASSUME NEW r \in Runs, Submit(r) PROVE TypeOK'
  <2>1. queue' \in Seq(Runs)
    BY <1>2 DEF Submit, TypeOK
  <2>2. pc' \in [Runs -> Points]
    BY <1>2, PointNames DEF Submit, TypeOK
  <2>3. QED BY <1>2, <2>1, <2>2 DEF Submit, TypeOK
<1>3. ASSUME NEW r \in Runs, Work(r) PROVE TypeOK'
  <2>1. CASE SetRunStage(r)
    <3>1. pc[r] \in StagePoints /\ StageOf[pc[r]] \in Stages
      BY <2>1, PointTables DEF SetRunStage
    <3>2. PICK p \in Points : pc' = [pc EXCEPT ![r] = p]
      BY <2>1, <3>1, PointTables, PointNames DEF SetRunStage
    <3>3. QED BY <2>1, <3>1, <3>2 DEF SetRunStage, TypeOK
  <2>2. CASE SourceUrls(r)
    BY <2>2, PointNames DEF SourceUrls, TypeOK
  <2>3. CASE Search(r)
    <3>1. PICK hits \in SUBSET Sources :
                 /\ found' = [found EXCEPT ![r] = hits \ known[r]]
                 /\ todo' = [todo EXCEPT ![r] = hits \ known[r]]
      BY <2>3 DEF Search
    <3>2. QED BY <2>3, <3>1, PointNames DEF Search, TypeOK
  <2>4. CASE AddSource(r)
    BY <2>4 DEF AddSource, TypeOK, InsertOrIgnore, States
  <2>5. CASE LinkTopicSource(r)
    BY <2>5 DEF LinkTopicSource, TypeOK
  <2>6. CASE DiscoverReturns(r)
    BY <2>6, PointNames DEF DiscoverReturns, TypeOK
  <2>7. CASE Verdict(r)
    BY <2>7, PointNames DEF Verdict, TypeOK
  <2>8. CASE ApproveAllCandidates(r)
    BY <2>8, PointNames DEF ApproveAllCandidates, TypeOK, Approved, States
  <2>9. CASE ActiveSources(r)
    BY <2>9, PointNames DEF ActiveSources, TypeOK, ActiveFor, LinkedTo
  <2>10. CASE CollectSource(r)
    BY <2>10 DEF CollectSource, TypeOK, States
  <2>11. CASE CollectReturns(r)
    BY <2>11, PointNames DEF CollectReturns, TypeOK
  <2>12. CASE FinishRun(r)
    <3>1. /\ Outcome[pc[r]] \in Statuses
          /\ ReasonOf[pc[r]] \in Reasons
          /\ AfterFinish(pc[r]) = "off"
      BY <2>12, PointTables DEF FinishRun, Statuses
    <3>2. QED BY <2>12, <3>1, PointNames DEF FinishRun, TypeOK
  <2>13. CASE Raise(r)
    <3>1. Handler(pc[r]) \in Points
      BY <2>13, PointTables, PointNames, ZenonT(60) DEF Raise
    <3>2. QED BY <2>13, <3>1, BoundsAssumption DEF Raise, TypeOK
  <2>14. QED BY <1>3, <2>1, <2>2, <2>3, <2>4, <2>5, <2>6, <2>7, <2>8, <2>9, <2>10, <2>11, <2>12, <2>13 DEF Work
<1>4. CASE Dequeue
  <2>1. Head(queue) \in Runs /\ queue' \in Seq(Runs)
    BY <1>4 DEF Dequeue, TypeOK
  <2>2. pc' \in [Runs -> Points]
    BY <1>4, <2>1, PointNames DEF Dequeue, TypeOK
  <2>3. QED BY <1>4, <2>1, <2>2 DEF Dequeue, TypeOK
<1>5. CASE Crash
  <2>1. crashes' \in 0..MaxCrashes
    BY <1>5, BoundsAssumption DEF Crash, TypeOK
  <2>2. queue' \in Seq(Runs)
    BY <1>5 DEF Crash
  <2>3. pc' \in [Runs -> Points]
    BY <1>5, PointNames DEF Crash
  <2>4. QED BY <1>5, <2>1, <2>2, <2>3 DEF Crash, TypeOK
<1>6. CASE Boot
  BY <1>6 DEF Boot, TypeOK, Statuses, Reasons, Orphaned
<1>7. CASE Edit
  <2>1. edits' \in 0..MaxEdits
    BY <1>7, BoundsAssumption
    DEF Edit, SetSourceStatus, InsertSource, LinkSource, DeleteSource, ApproveAll,
        Editing, TypeOK
  <2>2. CASE \E s \in Sources : \E st \in {"active", "rejected", "disabled"} :
               SetSourceStatus(s, st)
    BY <2>1, <2>2 DEF SetSourceStatus, Editing, TypeOK, States
  <2>3. CASE \E s \in Sources, st \in {"active", "candidate"} : InsertSource(s, st)
    BY <2>1, <2>3 DEF InsertSource, Editing, TypeOK, States
  <2>4. CASE \E s \in Sources, t \in Topics : LinkSource(t, s)
    BY <2>1, <2>4 DEF LinkSource, Editing, TypeOK
  <2>5. CASE \E s \in Sources : DeleteSource(s)
    BY <2>1, <2>5 DEF DeleteSource, Editing, TypeOK, States
  <2>6. CASE \E t \in Topics : ApproveAll(t)
    BY <2>1, <2>6 DEF ApproveAll, Approved, Editing, TypeOK, States
  <2>7. QED BY <1>7, <2>2, <2>3, <2>4, <2>5, <2>6 DEF Edit
<1>8. CASE UNCHANGED vars
  BY <1>8 DEF vars, TypeOK
<1>9. QED BY <1>1, <1>2, <1>3, <1>4, <1>5, <1>6, <1>7, <1>8 DEF Next

(* Every variable keeps its type (the type invariant of the runs).          *)
THEOREM TypeCorrect == Spec => []TypeOK
<1>1. QED BY TypeInit, TypeNext, PTL DEF Spec

-----------------------------------------------------------------------------
(* The workers.  Most steps of a worker change neither a row's status, nor   *)
(* the queue, nor who is executing: Moves says so.                          *)
Moves(r) ==
  /\ pc[r] \in Executing
  /\ pc' \in [Runs -> Points]
  /\ pc'[r] \in Executing
  /\ \A q \in Runs \ {r} : pc'[q] = pc[q]
  /\ UNCHANGED <<status, up, queue, lost>>

LEMMA WorkMoves ==
  ASSUME TypeOK, NEW r \in Runs, Work(r)
  PROVE  Moves(r) \/ FinishRun(r) \/ Raise(r)
<1> SUFFICES ASSUME ~FinishRun(r), ~Raise(r) PROVE Moves(r)
  OBVIOUS
<1>1. Discovering \union Collecting \union StagePoints \union {"verdict", "approve"}
        \subseteq Executing
  BY DEF Executing
<1>2. TypeOK'
  BY TypeNext DEF Next
<1> USE DEF rowVars, localVars, sourceVars, counters
<1>3. CASE SetRunStage(r)
  <2>1. PICK p \in Executing : pc' = [pc EXCEPT ![r] = p]
    BY <1>3, PointTables DEF SetRunStage
  <2>2. QED BY <1>1, <1>2, <1>3, <2>1 DEF SetRunStage, TypeOK, Moves
<1>4. CASE SourceUrls(r)
  BY <1>1, <1>2, <1>4, PointNames
  DEF SourceUrls, TypeOK, Moves, Discovering, Collecting
<1>5. CASE Search(r)
  BY <1>1, <1>2, <1>5, PointNames
  DEF Search, TypeOK, Moves, Discovering, Collecting
<1>6. CASE AddSource(r)
  BY <1>1, <1>2, <1>6, PointNames
  DEF AddSource, TypeOK, Moves, Discovering, Collecting
<1>7. CASE LinkTopicSource(r)
  BY <1>1, <1>2, <1>7, PointNames
  DEF LinkTopicSource, TypeOK, Moves, Discovering, Collecting
<1>8. CASE DiscoverReturns(r)
  BY <1>1, <1>2, <1>8, PointNames
  DEF DiscoverReturns, TypeOK, Moves, Discovering, Collecting
<1>9. CASE Verdict(r)
  BY <1>1, <1>2, <1>9, PointNames
  DEF Verdict, TypeOK, Moves, Discovering, Collecting
<1>10. CASE ApproveAllCandidates(r)
  BY <1>1, <1>2, <1>10, PointNames
  DEF ApproveAllCandidates, TypeOK, Moves, Discovering, Collecting
<1>11. CASE ActiveSources(r)
  BY <1>1, <1>2, <1>11, PointNames
  DEF ActiveSources, TypeOK, Moves, Discovering, Collecting
<1>12. CASE CollectSource(r)
  BY <1>1, <1>2, <1>12, PointNames
  DEF CollectSource, TypeOK, Moves, Discovering, Collecting
<1>13. CASE CollectReturns(r)
  BY <1>1, <1>2, <1>13, PointNames
  DEF CollectReturns, TypeOK, Moves, Discovering, Collecting
<1>14. QED
  BY <1>3, <1>4, <1>5, <1>6, <1>7, <1>8, <1>9, <1>10, <1>11, <1>12, <1>13 DEF Work

(* An edit touches the two source tables, not the runs.                     *)
LEMMA EditsApart ==
  ASSUME Edit
  PROVE  UNCHANGED <<status, stage, reason, topic, up, queue, pc, found, lost>>
BY DEF Edit, SetSourceStatus, InsertSource, LinkSource, DeleteSource, ApproveAll,
       Editing, rowVars

LEMMA NotQueued == "queued" \notin Executing /\ "off" \notin Executing
BY DEF Executing, StagePoints, StageOf, Discovering, Collecting, FinishPoints

LEMMA InvInit == Init => IInv
<1> SUFFICES ASSUME Init PROVE IInv
  OBVIOUS
<1>1. TypeOK
  BY TypeInit
<1>2. NoZombies /\ DownInv
  BY DEF Init, NoZombies, DownInv, Running
<1>3. QueueInv
  BY DEF Init, QueueInv, Enqueued
<1>4. QED BY <1>1, <1>2, <1>3 DEF IInv

LEMMA InvNext == IInv /\ [Next]_vars => IInv'
<1> SUFFICES ASSUME IInv, [Next]_vars PROVE IInv'
  OBVIOUS
<1>0. TypeOK /\ TypeOK'
  BY TypeNext DEF IInv
<1> USE DEF rowVars, localVars, sourceVars, counters
<1>1. ASSUME NEW r \in Runs, CreateRun(r)
      PROVE  NoZombies' /\ QueueInv' /\ DownInv'
  <2>1. pc[r] = "off"
    BY <1>1 DEF IInv, NoZombies, Running, CreateRun
  <2>2. NoZombies'
    BY <1>0, <1>1 DEF IInv, NoZombies, Running, CreateRun, TypeOK
  <2>3. QueueInv'
    BY <1>0, <1>1, <2>1 DEF IInv, QueueInv, Enqueued, CreateRun, TypeOK
  <2>4. DownInv'
    BY <1>1 DEF DownInv, CreateRun
  <2>5. QED BY <2>2, <2>3, <2>4
<1>2. ASSUME NEW r \in Runs, Submit(r)
      PROVE  NoZombies' /\ QueueInv' /\ DownInv'
  <2>1. NoZombies'
    BY <1>0, <1>2 DEF IInv, NoZombies, Running, Submit, TypeOK
  <2>2. DownInv'
    BY <1>0, <1>2 DEF IInv, DownInv, Submit, TypeOK
  <2>3. QueueInv'
    BY <1>0, <1>2 DEF IInv, QueueInv, Enqueued, Submit, TypeOK
  <2>4. QED BY <2>1, <2>2, <2>3
<1>3. ASSUME NEW r \in Runs, Moves(r)
      PROVE  NoZombies' /\ QueueInv' /\ DownInv'
  BY <1>0, <1>3, NotQueued
  DEF IInv, NoZombies, Running, QueueInv, Enqueued, DownInv, Moves, TypeOK
<1>4. ASSUME NEW r \in Runs, FinishRun(r)
      PROVE  NoZombies' /\ QueueInv' /\ DownInv'
  <2>1. /\ pc[r] \in Executing
        /\ pc' = [pc EXCEPT ![r] = "off"]
        /\ status' = [status EXCEPT ![r] = Outcome[pc[r]]]
        /\ Outcome[pc[r]] \in {"done", "error"}
        /\ UNCHANGED <<up, queue, lost>>
    BY <1>4, PointTables DEF FinishRun, Executing
  <2>2. QED
    BY <1>0, <2>1, NotQueued
    DEF IInv, NoZombies, Running, QueueInv, Enqueued, DownInv, TypeOK
<1>5. ASSUME NEW r \in Runs, Raise(r)
      PROVE  NoZombies' /\ QueueInv' /\ DownInv'
  <2>1. /\ pc[r] \in Executing
        /\ pc' = [pc EXCEPT ![r] = Handler(pc[r])]
        /\ \/ Handler(pc[r]) \in Executing
           \/ Handler(pc[r]) = "off" /\ r \in lost'
        /\ lost \subseteq lost'
        /\ UNCHANGED <<status, up, queue>>
    <3>1. /\ pc[r] \in Executing
          /\ pc' = [pc EXCEPT ![r] = Handler(pc[r])]
          /\ lost' = IF pc[r] = "rescue" THEN lost \union {r} ELSE lost
          /\ UNCHANGED <<status, up, queue>>
      BY <1>5 DEF Raise
    <3>2. /\ Handler(pc[r]) \in Executing \union {"off"}
          /\ Handler(pc[r]) = "off" => pc[r] = "rescue"
      BY <3>1, PointTables
    <3>3. lost \subseteq lost'
      BY <3>1
    <3>4. Handler(pc[r]) = "off" => r \in lost'
      BY <3>1, <3>2
    <3>5. QED BY <3>1, <3>2, <3>3, <3>4
  <2>2. QED
    BY <1>0, <2>1, NotQueued
    DEF IInv, NoZombies, Running, QueueInv, Enqueued, DownInv, TypeOK
<1>6. ASSUME Dequeue
      PROVE  NoZombies' /\ QueueInv' /\ DownInv'
  <2>1. /\ 1 \in DOMAIN queue /\ Head(queue) = queue[1]
        /\ \A i \in DOMAIN queue' : i + 1 \in DOMAIN queue /\ queue'[i] = queue[i + 1]
        /\ \A i \in DOMAIN queue' : i \in Nat /\ i + 1 # 1
        /\ \A i \in DOMAIN queue : queue[i] \in Runs
    BY <1>0, <1>6 DEF Dequeue, TypeOK
  <2>2. pc[Head(queue)] = "queued" /\ Head(queue) \in Runs
    BY <2>1 DEF IInv, QueueInv, Enqueued
  <2>3. NoZombies'
    BY <1>0, <1>6, <2>2 DEF IInv, NoZombies, Running, Dequeue, TypeOK
  <2>4. DownInv'
    BY <1>0, <1>6, <2>2 DEF IInv, DownInv, Dequeue, TypeOK
  <2>5. \A i \in DOMAIN queue' : queue'[i] # Head(queue) /\ pc[queue'[i]] = "queued"
    BY <2>1 DEF IInv, QueueInv, Enqueued
  <2>6. \A i, j \in DOMAIN queue' : i # j => queue'[i] # queue'[j]
    <3> SUFFICES ASSUME NEW i \in DOMAIN queue', NEW j \in DOMAIN queue', i # j
                 PROVE  queue'[i] # queue'[j]
      OBVIOUS
    <3>1. i + 1 # j + 1
      BY <2>1
    <3>2. QED BY <2>1, <3>1 DEF IInv, QueueInv, Enqueued
  <2>7. \A i \in DOMAIN queue' : pc'[queue'[i]] = "queued"
    BY <1>0, <1>6, <2>1, <2>5 DEF Dequeue, TypeOK
  <2>8. QueueInv'
    BY <2>6, <2>7 DEF QueueInv, Enqueued
  <2>9. QED BY <2>3, <2>4, <2>8
<1>7. ASSUME Crash
      PROVE  NoZombies' /\ QueueInv' /\ DownInv'
  BY <1>7 DEF Crash, NoZombies, Running, QueueInv, Enqueued, DownInv
<1>8. ASSUME Boot
      PROVE  NoZombies' /\ QueueInv' /\ DownInv'
  <2>1. \A r \in Runs : pc[r] = "off"
    BY <1>8 DEF Boot, IInv, DownInv
  <2>2. \A r \in Runs : status'[r] # "running"
    BY <1>8 DEF Boot, Orphaned, Running
  <2>3. QED
    BY <1>8, <2>1, <2>2
    DEF Boot, IInv, NoZombies, Running, QueueInv, Enqueued, DownInv
<1>9. ASSUME Edit \/ UNCHANGED vars
      PROVE  NoZombies' /\ QueueInv' /\ DownInv'
  <2>1. UNCHANGED <<status, pc, up, queue, lost>>
    BY <1>9, EditsApart DEF vars
  <2>2. QED BY <2>1 DEF IInv, NoZombies, Running, QueueInv, Enqueued, DownInv
<1>10. QED
  <2>1. ASSUME NEW r \in Runs, Work(r) PROVE NoZombies' /\ QueueInv' /\ DownInv'
    BY <1>0, <1>3, <1>4, <1>5, <2>1, WorkMoves
  <2>2. QED
    BY <1>0, <1>1, <1>2, <1>6, <1>7, <1>8, <1>9, <2>1 DEF Next, IInv

LEMMA Invariance == Spec => []IInv
<1>1. QED BY InvInit, InvNext, PTL DEF Spec

(* While the server serves, no row is left 'running' without a worker, save  *)
(* those whose last write failed, and no worker writes to a finished row.   *)
THEOREM NoZombieRuns == Spec => []NoZombies
<1>1. IInv => NoZombies
  BY DEF IInv
<1>2. QED BY <1>1, Invariance, PTL

-----------------------------------------------------------------------------
(* The rows implement RunLifecycle.                                         *)
LEMMA LifecycleStep == IInv /\ [Next]_vars => [Lifecycle!Next]_status
<1> SUFFICES ASSUME IInv, [Next]_vars
             PROVE  Lifecycle!Next \/ UNCHANGED status
  OBVIOUS
<1>0. TypeOK /\ NoZombies
  BY DEF IInv
<1> USE DEF rowVars, localVars, sourceVars, counters
<1>1. ASSUME NEW r \in Runs, CreateRun(r) PROVE Lifecycle!Next
  BY <1>1 DEF CreateRun, Lifecycle!Next, Lifecycle!Create
<1>2. ASSUME NEW r \in Runs, FinishRun(r) PROVE Lifecycle!Next
  <2> DEFINE s == Outcome[pc[r]]
  <2>1. s \in Lifecycle!Finished
    BY <1>2, PointTables DEF FinishRun, Lifecycle!Finished
  <2>2. pc[r] # "off"
    BY <1>2, NotQueued DEF FinishRun, FinishPoints
  <2>3. status[r] = "running"
    BY <1>0, <2>2 DEF NoZombies, Running
  <2>4. status' = [q \in Runs |-> IF q \in {r} THEN s ELSE status[q]]
    BY <1>0, <1>2 DEF FinishRun, TypeOK
  <2>5. Lifecycle!Finish({r}, s)
    BY <2>3, <2>4 DEF Lifecycle!Finish
  <2>6. QED BY <2>1, <2>5 DEF Lifecycle!Next
<1>3. ASSUME Boot PROVE Lifecycle!Next \/ UNCHANGED status
  <2>1. CASE Orphaned = {}
    BY <1>0, <1>3, <2>1 DEF Boot, TypeOK
  <2>2. CASE Orphaned # {}
    <3>1. Orphaned \in SUBSET Runs
      BY DEF Orphaned
    <3>2. \A r \in Orphaned : status[r] = "running"
      BY DEF Orphaned, Running
    <3>3. Lifecycle!Finish(Orphaned, "error")
      BY <1>3, <2>2, <3>2 DEF Boot, Lifecycle!Finish
    <3>4. QED BY <3>1, <3>3 DEF Lifecycle!Next, Lifecycle!Finished
  <2>3. QED BY <2>1, <2>2
<1>4. ASSUME NEW r \in Runs, Work(r) PROVE Lifecycle!Next \/ UNCHANGED status
  BY <1>0, <1>2, <1>4, WorkMoves DEF Moves, Raise
<1>5. ASSUME NEW r \in Runs, Submit(r) PROVE UNCHANGED status
  BY <1>5 DEF Submit
<1>6. ASSUME Dequeue \/ Crash \/ Edit \/ UNCHANGED vars PROVE UNCHANGED status
  BY <1>6, EditsApart DEF Dequeue, Crash, vars
<1>7. QED BY <1>1, <1>3, <1>4, <1>5, <1>6 DEF Next

(* A row is created running, ends once, and then never changes: whatever the *)
(* workers, the crashes and the restart sweep do.                           *)
THEOREM RowsImplement == Spec => ImplementsLifecycle
<1>1. Init => Lifecycle!Init
  BY DEF Init, Lifecycle!Init
<1>2. QED
  BY <1>1, LifecycleStep, Invariance, PTL
  DEF Spec, ImplementsLifecycle, Lifecycle!Spec

-----------------------------------------------------------------------------
(* What a run discovered is decided once it is past approving.  The          *)
(* invariant follows the feeds a run found from the loop that stores them:  *)
(* the ones the loop has passed are in the table and linked, or being        *)
(* linked; then all are linked; then none is a candidate.                   *)
BeforeApproval == {"verdict", "StageApproving", "approve"}

StoredInv(r) ==
  pc[r] = "persist" =>
    \A s \in (found[r] \ todo[r]) \ deleted :
      src[s] # "absent" /\ (<<topic[r], s>> \in links \/ s \in adding[r])

LinkedInv(r) ==
  pc[r] \in BeforeApproval =>
    \A s \in found[r] \ deleted : src[s] # "absent" /\ <<topic[r], s>> \in links

DecidedInv(r) ==
  pc[r] \in PastApproval =>
    \A s \in found[r] \ deleted :
      /\ src[s] # "absent" /\ src[s] # "candidate"
      /\ <<topic[r], s>> \in links

FoundInv == \A r \in Runs : StoredInv(r) /\ LinkedInv(r) /\ DecidedInv(r)

(* Nothing but a deletion un-stores a source, makes it a candidate again or  *)
(* unlinks it.                                                              *)
Grows ==
  /\ \A s \in Sources \ deleted' : src[s] # "absent" => src'[s] # "absent"
  /\ \A s \in Sources \ deleted' :
       src[s] # "absent" /\ src[s] # "candidate"
         => src'[s] # "absent" /\ src'[s] # "candidate"
  /\ \A t \in Topics : \A s \in Sources \ deleted' :
       <<t, s>> \in links => <<t, s>> \in links'
  /\ deleted \subseteq deleted'
  /\ topic' = topic

LEMMA StepGrows == TypeOK /\ [Next]_vars => Grows
<1> SUFFICES ASSUME TypeOK, [Next]_vars PROVE Grows
  OBVIOUS
<1> USE DEF rowVars, localVars, sourceVars, counters
<1>1. ASSUME UNCHANGED <<src, links, deleted, topic>> PROVE Grows
  BY <1>1 DEF Grows
<1>2. ASSUME NEW r \in Runs, Work(r) PROVE Grows
  <2>1. CASE AddSource(r)
    BY <2>1 DEF AddSource, InsertOrIgnore, Grows, TypeOK
  <2>2. CASE LinkTopicSource(r)
    BY <2>2 DEF LinkTopicSource, Grows
  <2>3. CASE ApproveAllCandidates(r)
    BY <2>3 DEF ApproveAllCandidates, Approved, Grows
  <2>4. CASE CollectSource(r)
    BY <2>4 DEF CollectSource, Grows, TypeOK
  <2>5. CASE ~(AddSource(r) \/ LinkTopicSource(r) \/ ApproveAllCandidates(r)
               \/ CollectSource(r))
    <3>1. UNCHANGED <<src, links, deleted, topic>>
      BY <1>2, <2>5
      DEF Work, SetRunStage, SourceUrls, Search, DiscoverReturns, Verdict,
          ActiveSources, CollectReturns, FinishRun, Raise
    <3>2. QED BY <1>1, <3>1
  <2>6. QED BY <2>1, <2>2, <2>3, <2>4, <2>5
<1>3. ASSUME Edit PROVE Grows
  <2>1. CASE \E s \in Sources : \E st \in {"active", "rejected", "disabled"} :
               SetSourceStatus(s, st)
    BY <2>1 DEF SetSourceStatus, Editing, Grows, TypeOK
  <2>2. CASE \E s \in Sources, st \in {"active", "candidate"} : InsertSource(s, st)
    BY <2>2 DEF InsertSource, Editing, Grows, TypeOK
  <2>3. CASE \E s \in Sources, t \in Topics : LinkSource(t, s)
    BY <2>3 DEF LinkSource, Editing, Grows, TypeOK
  <2>4. CASE \E s \in Sources : DeleteSource(s)
    BY <2>4 DEF DeleteSource, Editing, Grows, TypeOK
  <2>5. CASE \E t \in Topics : ApproveAll(t)
    BY <2>5 DEF ApproveAll, Approved, Editing, Grows, TypeOK
  <2>6. QED BY <1>3, <2>1, <2>2, <2>3, <2>4, <2>5 DEF Edit
<1>4. ASSUME NEW r \in Runs, CreateRun(r) \/ Submit(r) PROVE Grows
  BY <1>1, <1>4 DEF CreateRun, Submit
<1>5. ASSUME Dequeue \/ Crash \/ Boot \/ UNCHANGED vars PROVE Grows
  BY <1>1, <1>5 DEF Dequeue, Crash, Boot, vars
<1>6. QED BY <1>2, <1>3, <1>4, <1>5 DEF Next

(* A step that leaves a run's own variables alone keeps its three parts.     *)
Untouched(r) ==
  /\ pc'[r] = pc[r] /\ found'[r] = found[r]
  /\ pc[r] = "persist" => todo'[r] = todo[r]
  /\ adding[r] \ deleted' \subseteq adding'[r]

LEMMA UntouchedKeeps ==
  ASSUME TypeOK, FoundInv, Grows, NEW r \in Runs, Untouched(r)
  PROVE  (StoredInv(r) /\ LinkedInv(r) /\ DecidedInv(r))'
BY DEF TypeOK, FoundInv, Grows, Untouched, StoredInv, LinkedInv, DecidedInv

(* A run at a point without an obligation keeps them trivially.             *)
FreePoint(p) == p # "persist" /\ p \notin BeforeApproval /\ p \notin PastApproval

LEMMA FreePoints ==
  /\ FreePoint("off") /\ FreePoint("posted") /\ FreePoint("queued")
  /\ FreePoint("StageDiscovering") /\ FreePoint("source_urls")
  /\ FreePoint("search") /\ FreePoint("no sources")
  /\ \A p \in Executing : FreePoint(Handler(p))
  /\ \A p \in FinishPoints : FreePoint(AfterFinish(p))
BY DEF FreePoint, BeforeApproval, PastApproval, Handler, AfterFinish

LEMMA FreeKeeps ==
  ASSUME NEW r \in Runs, FreePoint(pc'[r])
  PROVE  (StoredInv(r) /\ LinkedInv(r) /\ DecidedInv(r))'
BY DEF FreePoint, StoredInv, LinkedInv, DecidedInv

(* A step of one run is a step on its own variables only.                   *)
LEMMA OthersUntouched ==
  ASSUME TypeOK, NEW r \in Runs, Work(r) \/ CreateRun(r) \/ Submit(r)
  PROVE  \A q \in Runs \ {r} : Untouched(q)
<1> USE DEF rowVars, localVars, sourceVars, counters
<1> SUFFICES ASSUME NEW q \in Runs \ {r} PROVE Untouched(q)
  OBVIOUS
<1>1. CASE CreateRun(r) \/ Submit(r)
  BY <1>1 DEF CreateRun, Submit, Untouched, TypeOK
<1>2. CASE SetRunStage(r)
  BY <1>2 DEF SetRunStage, Untouched, TypeOK
<1>3. CASE SourceUrls(r)
  BY <1>3 DEF SourceUrls, Untouched, TypeOK
<1>4. CASE Search(r)
  BY <1>4 DEF Search, Untouched, TypeOK
<1>5. CASE AddSource(r)
  BY <1>5 DEF AddSource, Untouched, TypeOK
<1>6. CASE LinkTopicSource(r)
  BY <1>6 DEF LinkTopicSource, Untouched, TypeOK
<1>7. CASE DiscoverReturns(r)
  BY <1>7 DEF DiscoverReturns, Untouched, TypeOK
<1>8. CASE Verdict(r)
  BY <1>8 DEF Verdict, Untouched, TypeOK
<1>9. CASE ApproveAllCandidates(r)
  BY <1>9 DEF ApproveAllCandidates, Untouched, TypeOK
<1>10. CASE ActiveSources(r)
  BY <1>10 DEF ActiveSources, Untouched, TypeOK
<1>11. CASE CollectSource(r)
  BY <1>11 DEF CollectSource, Untouched, TypeOK
<1>12. CASE CollectReturns(r)
  BY <1>12 DEF CollectReturns, Untouched, TypeOK
<1>13. CASE FinishRun(r)
  BY <1>13 DEF FinishRun, Untouched, TypeOK
<1>14. CASE Raise(r)
  BY <1>14 DEF Raise, Untouched, TypeOK
<1>15. QED
  BY <1>1, <1>2, <1>3, <1>4, <1>5, <1>6, <1>7, <1>8, <1>9, <1>10, <1>11, <1>12, <1>13, <1>14 DEF Work

LEMMA WorkKeeps ==
  ASSUME TypeOK, FoundInv, Grows, NEW r \in Runs, Work(r)
  PROVE  (StoredInv(r) /\ LinkedInv(r) /\ DecidedInv(r))'
<1> USE DEF rowVars, localVars, sourceVars, counters
<1> DEFINE Kept == (StoredInv(r) /\ LinkedInv(r) /\ DecidedInv(r))'
<1>0. StoredInv(r) /\ LinkedInv(r) /\ DecidedInv(r)
  BY DEF FoundInv
<1>1. CASE SetRunStage(r)
  <2>1. PICK p \in After[pc[r]] : pc' = [pc EXCEPT ![r] = p]
    BY <1>1 DEF SetRunStage
  <2>2. pc'[r] = p /\ found' = found
    BY <1>1, <2>1 DEF SetRunStage, TypeOK
  <2>3. CASE pc[r] = "StageDiscovering"
    <3>1. p = "source_urls"
      BY <2>1, <2>3 DEF After
    <3>2. QED BY <2>2, <3>1, FreePoints, FreeKeeps
  <2>4. CASE pc[r] = "StageApproving"
    <3>1. p = "approve"
      BY <2>1, <2>4 DEF After
    <3>2. QED
      BY <1>0, <2>2, <2>4, <3>1
      DEF Grows, TypeOK, StoredInv, LinkedInv, DecidedInv, BeforeApproval, PastApproval
  <2>5. CASE pc[r] \in StagePoints \ {"StageDiscovering", "StageApproving"}
    <3>1. pc[r] \in {"StageCollecting", "StageReviewing", "StageSummarizing",
                     "StageReady"}
      BY <2>5 DEF StagePoints, StageOf
    <3>2. /\ After.StageCollecting = {"active_sources"}
          /\ After.StageReviewing = {"StageSummarizing", "StageReady"}
          /\ After.StageSummarizing = {"StageReady"}
          /\ After.StageReady = {"done"}
      BY DEF After
    <3>3. p \in {"active_sources", "StageSummarizing", "StageReady", "done"}
      BY <2>1, <3>1, <3>2
    <3>4. QED
      BY <1>0, <2>2, <3>1, <3>3
      DEF Grows, TypeOK, StoredInv, LinkedInv, DecidedInv, BeforeApproval, PastApproval
  <2>6. QED BY <1>1, <2>3, <2>4, <2>5 DEF SetRunStage
<1>2. CASE SourceUrls(r)
  BY <1>2, FreePoints, FreeKeeps DEF SourceUrls, TypeOK
<1>3. CASE Search(r)
  <2>1. pc'[r] = "persist" /\ found'[r] = todo'[r]
    BY <1>3 DEF Search, TypeOK
  <2>2. QED
    BY <2>1 DEF StoredInv, LinkedInv, DecidedInv, BeforeApproval, PastApproval
<1>4. CASE AddSource(r)
  <2>1. PICK s \in todo[r] :
          /\ src' = [src EXCEPT ![s] = InsertOrIgnore(s)]
          /\ adding'[r] = {s}
          /\ todo'[r] = todo[r] \ {s}
    BY <1>4 DEF AddSource, TypeOK
  <2>2. /\ pc[r] = "persist" /\ pc' = pc /\ adding[r] = {}
        /\ found' = found /\ links' = links /\ topic' = topic
        /\ s \in Sources
    BY <1>4 DEF AddSource, TypeOK
  <2>3. src'[s] # "absent"
    BY <2>1, <2>2 DEF InsertOrIgnore, TypeOK
  <2>4. StoredInv(r)'
    BY <1>0, <2>1, <2>2, <2>3 DEF StoredInv, Grows, TypeOK
  <2>5. QED
    BY <2>2, <2>4 DEF LinkedInv, DecidedInv, BeforeApproval, PastApproval
<1>5. CASE LinkTopicSource(r)
  <2>1. /\ pc[r] = "persist" /\ pc' = pc /\ found' = found /\ todo' = todo
        /\ src' = src /\ topic' = topic /\ deleted' = deleted
        /\ links' = links \union ({topic[r]} \X adding[r])
    BY <1>5 DEF LinkTopicSource
  <2>2. StoredInv(r)'
    BY <1>0, <2>1 DEF StoredInv
  <2>3. QED
    BY <2>1, <2>2 DEF LinkedInv, DecidedInv, BeforeApproval, PastApproval
<1>6. CASE DiscoverReturns(r)
  <2>1. /\ pc[r] = "persist" /\ todo[r] = {} /\ adding[r] = {}
        /\ pc'[r] = "verdict" /\ found' = found /\ src' = src
        /\ links' = links /\ topic' = topic /\ deleted' = deleted
    BY <1>6 DEF DiscoverReturns, TypeOK
  <2>2. QED
    BY <1>0, <2>1
    DEF StoredInv, LinkedInv, DecidedInv, BeforeApproval, PastApproval
<1>7. CASE Verdict(r)
  <2>1. /\ pc[r] = "verdict" /\ found' = found /\ src' = src
        /\ links' = links /\ topic' = topic /\ deleted' = deleted
        /\ pc'[r] = "StageApproving" \/ pc'[r] = "no sources"
    BY <1>7 DEF Verdict, TypeOK
  <2>2. QED
    BY <1>0, <2>1
    DEF StoredInv, LinkedInv, DecidedInv, BeforeApproval, PastApproval
<1>8. CASE ApproveAllCandidates(r)
  <2>1. /\ pc[r] = "approve" /\ pc'[r] = "StageCollecting"
        /\ found' = found /\ links' = links /\ topic' = topic
        /\ deleted' = deleted /\ src' = Approved(topic[r])
    BY <1>8 DEF ApproveAllCandidates, TypeOK
  <2>2. \A s \in found[r] \ deleted : src[s] # "absent" /\ <<topic[r], s>> \in links
    BY <1>0, <2>1 DEF LinkedInv, BeforeApproval
  <2>3. \A s \in found[r] \ deleted : src'[s] # "absent" /\ src'[s] # "candidate"
    BY <2>1, <2>2 DEF Approved, LinkedTo, TypeOK
  <2>4. QED
    BY <2>1, <2>2, <2>3
    DEF StoredInv, LinkedInv, DecidedInv, BeforeApproval, PastApproval
<1>9. CASE ActiveSources(r) \/ CollectSource(r) \/ CollectReturns(r)
  <2>1. /\ pc[r] \in {"active_sources", "collect"}
        /\ pc'[r] \in {"collect", "StageReviewing"}
        /\ found' = found
    BY <1>9 DEF ActiveSources, CollectSource, CollectReturns, TypeOK
  <2>2. QED
    BY <1>0, <2>1
    DEF Grows, TypeOK, StoredInv, LinkedInv, DecidedInv, BeforeApproval, PastApproval
<1>10. CASE FinishRun(r)
  <2>1. FreePoint(pc'[r])
    BY <1>10, FreePoints DEF FinishRun, TypeOK
  <2>2. QED BY <2>1, FreeKeeps
<1>11. CASE Raise(r)
  <2>1. FreePoint(pc'[r])
    BY <1>11, FreePoints DEF Raise, TypeOK
  <2>2. QED BY <2>1, FreeKeeps
<1>12. QED
  BY <1>1, <1>2, <1>3, <1>4, <1>5, <1>6, <1>7, <1>8, <1>9, <1>10, <1>11 DEF Work

LEMMA FoundNext == IInv /\ FoundInv /\ [Next]_vars => FoundInv'
<1> SUFFICES ASSUME IInv, FoundInv, [Next]_vars, NEW q \in Runs
             PROVE  (StoredInv(q) /\ LinkedInv(q) /\ DecidedInv(q))'
  BY DEF FoundInv
<1> USE DEF rowVars, localVars, sourceVars, counters
<1>0. TypeOK /\ Grows
  BY StepGrows DEF IInv
<1>1. ASSUME Untouched(q) PROVE (StoredInv(q) /\ LinkedInv(q) /\ DecidedInv(q))'
  BY <1>0, <1>1, UntouchedKeeps
<1>2. ASSUME FreePoint(pc'[q]) PROVE (StoredInv(q) /\ LinkedInv(q) /\ DecidedInv(q))'
  BY <1>2, FreeKeeps
<1>3. ASSUME NEW r \in Runs, Work(r) \/ CreateRun(r) \/ Submit(r), r # q
      PROVE  Untouched(q)
  BY <1>0, <1>3, OthersUntouched
<1>4. CASE Work(q)
  BY <1>0, <1>4, WorkKeeps
<1>5. CASE CreateRun(q) \/ Submit(q)
  <2>1. pc'[q] = "posted" \/ pc'[q] = "queued"
    BY <1>0, <1>5 DEF CreateRun, Submit, TypeOK
  <2>2. QED BY <1>2, <2>1, FreePoints
<1>6. CASE Dequeue
  <2>1. Untouched(q) \/ pc'[q] = "StageDiscovering"
    BY <1>0, <1>6 DEF Dequeue, Untouched, TypeOK
  <2>2. QED BY <1>1, <1>2, <2>1, FreePoints
<1>7. CASE Crash
  <2>1. pc'[q] = "off"
    BY <1>7 DEF Crash
  <2>2. QED BY <1>2, <2>1, FreePoints
<1>8. CASE Boot \/ Edit \/ UNCHANGED vars
  <2>1. CASE Boot \/ UNCHANGED vars
    BY <1>1, <2>1 DEF Boot, vars, Untouched
  <2>2. CASE Edit
    <3>1. /\ pc[q] = "persist" => todo'[q] = todo[q]
          /\ adding[q] \ deleted' \subseteq adding'[q]
      BY <2>2
      DEF Edit, SetSourceStatus, InsertSource, LinkSource, DeleteSource, ApproveAll
    <3>2. QED BY <1>1, <2>2, <3>1, EditsApart DEF Untouched
  <2>3. QED BY <1>8, <2>1, <2>2
<1>9. QED BY <1>1, <1>3, <1>4, <1>5, <1>6, <1>7, <1>8 DEF Next

(* However runs, administrators, other processes and restarts interleave, a *)
(* run that is past approving has left none of its feeds undecided.         *)
THEOREM DiscoveryIsDecided == Spec => []DiscoveredIsDecided
<1>1. Init => FoundInv
  BY FreePoints, FreeKeeps
  DEF Init, FoundInv, StoredInv, LinkedInv, DecidedInv, FreePoint
<1>2. FoundInv /\ TypeOK => DiscoveredIsDecided
  BY DEF FoundInv, DecidedInv, DiscoveredIsDecided, LinkedTo, TypeOK
<1>3. QED
  BY <1>1, <1>2, FoundNext, Invariance, TypeCorrect, PTL DEF Spec

-----------------------------------------------------------------------------
(* What the worker of a run writes to sources.status never takes a source   *)
(* out of 'rejected' or 'disabled', however old what it has read.           *)
LEMMA WorkSticks ==
  ASSUME TypeOK, NEW r \in Runs, Work(r), NEW s \in Sources,
         src[s] \in {"rejected", "disabled"}
  PROVE  src'[s] \in {"rejected", "disabled"}
<1> USE DEF rowVars, localVars, sourceVars, counters
<1>1. CASE AddSource(r)
  BY <1>1 DEF AddSource, InsertOrIgnore, TypeOK
<1>2. CASE ApproveAllCandidates(r)
  BY <1>2 DEF ApproveAllCandidates, Approved, TypeOK
<1>3. CASE CollectSource(r)
  BY <1>3 DEF CollectSource, TypeOK
<1>4. CASE ~AddSource(r) /\ ~ApproveAllCandidates(r) /\ ~CollectSource(r)
  <2>1. src' = src
    BY <1>4 DEF Work, SetRunStage, SourceUrls, Search, LinkTopicSource, DiscoverReturns,
      Verdict, ActiveSources, CollectReturns, FinishRun, Raise
  <2>2. QED BY <2>1
<1>5. QED BY <1>1, <1>2, <1>3, <1>4

(* Of the edits, only the routes that enable or approve this very source do. *)
LEMMA EditSticks ==
  ASSUME TypeOK, Edit, NEW s \in Sources, src[s] \in {"rejected", "disabled"},
         src'[s] \in {"candidate", "active"}
  PROVE  SetSourceStatus(s, "active")
<1>1. ASSUME NEW u \in Sources, NEW st \in {"active", "rejected", "disabled"},
             SetSourceStatus(u, st)
      PROVE  SetSourceStatus(s, "active")
  <2>1. u = s /\ st = "active"
    BY <1>1 DEF SetSourceStatus, TypeOK
  <2>2. QED BY <1>1, <2>1
<1>2. ASSUME NEW u \in Sources, NEW st \in {"active", "candidate"}, InsertSource(u, st)
      PROVE  FALSE
  BY <1>2 DEF InsertSource, TypeOK
<1>3. ASSUME NEW t \in Topics, NEW u \in Sources, LinkSource(t, u) PROVE FALSE
  BY <1>3 DEF LinkSource
<1>4. ASSUME NEW u \in Sources, DeleteSource(u) PROVE FALSE
  BY <1>4 DEF DeleteSource, TypeOK
<1>5. ASSUME NEW t \in Topics, ApproveAll(t) PROVE FALSE
  BY <1>5 DEF ApproveAll, Approved, TypeOK
<1>6. QED BY <1>1, <1>2, <1>3, <1>4, <1>5 DEF Edit

LEMMA StepSticks ==
  ASSUME TypeOK, [Next]_vars, NEW s \in Sources, src[s] \in {"rejected", "disabled"},
         src'[s] \in {"candidate", "active"}
  PROVE  SetSourceStatus(s, "active")
<1> USE DEF rowVars, localVars, sourceVars, counters
<1>1. ASSUME NEW r \in Runs, Work(r) PROVE FALSE
  BY <1>1, WorkSticks
<1>2. CASE Edit
  BY <1>2, EditSticks
<1>3. ASSUME NEW r \in Runs, CreateRun(r) \/ Submit(r) PROVE FALSE
  BY <1>3 DEF CreateRun, Submit
<1>4. CASE Dequeue \/ Crash \/ Boot \/ UNCHANGED vars
  BY <1>4 DEF Dequeue, Crash, Boot, vars
<1>5. QED BY <1>1, <1>2, <1>3, <1>4 DEF Next

(* An administrator's decision on a source sticks: however stale the        *)
(* snapshot of a run, and however runs overlap, a source that was rejected   *)
(* or disabled comes back only by the route that enables it.                *)
THEOREM DecisionsKept == Spec => DecisionsStick
<1> DEFINE Kept == \A s \in Sources :
              src[s] \in {"rejected", "disabled"} /\ src'[s] \in {"candidate", "active"}
                => SetSourceStatus(s, "active")
<1>1. TypeOK /\ [Next]_vars => [Kept]_vars
  BY StepSticks
<1> HIDE DEF Kept
<1>2. Spec => [][Kept]_vars
  BY <1>1, TypeCorrect, PTL DEF Spec
<1>3. QED
  BY <1>2 DEF Kept, DecisionsStick
=============================================================================
