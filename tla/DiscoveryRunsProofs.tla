------------------------ MODULE DiscoveryRunsProofs ------------------------
(***************************************************************************)
(* Proofs about DiscoveryRuns, for any searches, commits, topics, feeds,   *)
(* pool size and bounds:                                                   *)
(*   TypeCorrect         the type invariant;                               *)
(*   CommittedArePlaced  a committed search leaves its feeds active and     *)
(*                       linked to a topic the user follows;               *)
(*   EarlierDecisionsKept  a search cannot revive a feed that was ruled     *)
(*                       out when it began;                                *)
(*   RowsImplement       the rows implement RunLifecycle.                  *)
(***************************************************************************)
EXTENDS DiscoveryRuns, WellFoundedInduction, TLAPS

(* The rows and their tasks: only a running row has a task, the queue holds   *)
(* tasks that wait for a thread, each once, and none outlives the process.   *)
TaskInv == \A r \in Runs : pc[r] # "off" => Running(r)

QueueInv ==
  /\ \A i \in DOMAIN queue : pc[queue[i]] = "queued"
  /\ \A i, j \in DOMAIN queue : i # j => queue[i] # queue[j]

DownInv == ~up => \A r \in Runs : pc[r] = "off"

(* A search offers no feed that was ruled out when it began: the snapshot     *)
(* holds them, what it found is outside the snapshot, and so is the result.  *)
OfferInv ==
  \A r \in Runs :
    /\ pc[r] = "search" => decided[r] \subseteq known[r]
    /\ pc[r] = "finish" => known[r] \intersect decided[r] = {}
    /\ status[r] = "done" => result[r] \intersect decided[r] = {}

(* The search a commit places is finished.                                  *)
OfInv(c) == c \in Committing => of[c] \in Runs /\ status[of[c]] = "done"

(* The feed it is adding is one, and one the search offered.                *)
AddInv(c) ==
  /\ cpc[c] # "feeds" => adding[c] = {}
  /\ cpc[c] = "feeds" => todo[c] \union adding[c] \subseteq result[of[c]]
  /\ \A f, g \in adding[c] : f = g

(* Followed: some topic of the user's has all of them.                      *)
Wanted(c) == result[of[c]] \ touched

Followed(c) ==
  \E t \in subscribed \union left : \A f \in Wanted(c) : <<t, f>> \in links

(* Where each offered feed is: the first loop has passed it (then it is       *)
(* active) or has it still ahead ...                                        *)
PlacedInv(c) ==
  /\ \A f \in placed[c] \ touched : src[f] = "active"
  /\ cpc[c] = "feeds" => Wanted(c) \subseteq placed[c] \union todo[c] \union adding[c]
  /\ cpc[c] \in {"link", "mark"} => Wanted(c) \subseteq placed[c]

(* ... and the second has linked all to a topic, or has a topic still ahead. *)
TargetInv(c) ==
  /\ cpc[c] = "feeds" => targets[c] # {} \/ Followed(c)
  /\ cpc[c] = "link" =>
       /\ targets[c] # {}
       /\ \A f \in placed[c] \ (todo[c] \union touched) : <<Current(c), f>> \in links
  /\ cpc[c] = "mark" => Followed(c)

CommitInv(c) == OfInv(c) /\ AddInv(c) /\ PlacedInv(c) /\ TargetInv(c)

MarkInv == \A r \in Runs : committed[r] => status[r] = "done"

IInv ==
  /\ TypeOK /\ TaskInv /\ QueueInv /\ DownInv /\ OfferInv
  /\ \A c \in Commits : CommitInv(c)
  /\ MarkInv /\ CommittedIsPlaced

-----------------------------------------------------------------------------
(* A set of naturals has a least element, and a greatest if it has a bound.   *)
LEMMA NatMin ==
  ASSUME NEW S \in SUBSET Nat, S # {}
  PROVE  \E m \in S : \A n \in S : m <= n
<1> DEFINE R == OpToRel(<, Nat)
<1>1. IsWellFoundedOn(R, Nat)
  BY NatLessThanWellFounded
<1>2. \A x, y \in Nat : x < y => <<x, y>> \in R
  BY DEF OpToRel
<1> HIDE DEF R
<1>3. PICK x \in S : \A y \in S : ~ (<<y, x>> \in R)
  BY <1>1, WFMin
<1>4. \A y \in S : ~ (y < x)
  BY <1>2, <1>3
<1>5. \A y \in S : x <= y
  BY <1>4
<1> QED
  BY <1>5

LEMMA NatMax ==
  ASSUME NEW S \in SUBSET Nat, S # {}, NEW b \in Nat, \A n \in S : n <= b
  PROVE  Max(S) \in S /\ \A n \in S : n <= Max(S)
<1> DEFINE U == {n \in Nat : \A m \in S : m <= n}
<1>1. U \in SUBSET Nat /\ U # {}
  OBVIOUS
<1> HIDE DEF U
<1>2. PICK u \in U : \A n \in U : u <= n
  BY <1>1, NatMin
<1>3. u \in Nat /\ \A m \in S : m <= u
  BY <1>2 DEF U
<1>4. u \in S
  <2> SUFFICES ASSUME u \notin S PROVE FALSE
    OBVIOUS
  <2>1. \A m \in S : m < u
    BY <1>3
  <2>2. u - 1 \in Nat /\ \A m \in S : m <= u - 1
    <3>1. PICK x \in S : TRUE
      OBVIOUS
    <3>2. x \in Nat /\ x < u
      BY <2>1
    <3> QED
      BY <1>3, <2>1, <3>2
  <2>3. u - 1 \in U
    BY <2>2 DEF U
  <2> QED
    BY <1>2, <1>3, <2>3
<1>5. \E x \in S : \A y \in S : x >= y
  BY <1>3, <1>4
<1>6. Max(S) \in S /\ \A y \in S : Max(S) >= y
  BY <1>5 DEF Max
<1> QED
  BY <1>6

-----------------------------------------------------------------------------
(* Typing.                                                                  *)
LEMMA Bounds ==
  /\ 0 \in 0..MaxFaults /\ 0 \in 0..MaxEdits
  /\ faults \in 0..MaxFaults /\ faults < MaxFaults => faults + 1 \in 0..MaxFaults
  /\ edits \in 0..MaxEdits /\ edits < MaxEdits => edits + 1 \in 0..MaxEdits
BY DiscoveryAssumption

LEMMA PickedIsRun ==
  ASSUME NEW r \in ChatPicks \union ButtonPicks
  PROVE  r \in Runs /\ status[r] = "done"
<1>1. CASE r \in ButtonPicks
  BY <1>1 DEF ButtonPicks
<1>2. CASE r \in ChatPicks
  <2>1. Committable # {} /\ r = Max(Committable)
    BY <1>2 DEF ChatPicks
  <2>2. Committable \in SUBSET Nat /\ \A n \in Committable : n <= MaxRuns
    BY DiscoveryAssumption DEF Committable, Runs
  <2>3. MaxRuns \in Nat
    BY DiscoveryAssumption
  <2>4. r \in Committable
    BY <2>1, <2>2, <2>3, NatMax
  <2> QED
    BY <2>4 DEF Committable
<1> QED
  BY <1>1, <1>2

LEMMA ReturnTypes ==
  ASSUME TypeOK, NEW C \in SUBSET Commits, Return(C)
  PROVE  /\ cpc' \in [Commits -> {"idle", "over"} \union CommitPoints]
         /\ of' \in [Commits -> Runs \union {0}]
         /\ targets' \in [Commits -> SUBSET topics]
         /\ todo' \in [Commits -> SUBSET Feeds]
         /\ adding' \in [Commits -> SUBSET Feeds]
         /\ placed' \in [Commits -> SUBSET Feeds]
BY DEF TypeOK, Return

LEMMA TypeInit == Init => TypeOK
<1> SUFFICES ASSUME Init PROVE TypeOK
  OBVIOUS
<1>1. queue \in Seq(Runs)
  BY DEF Init
<1>2. faults \in 0..MaxFaults /\ edits \in 0..MaxEdits
  BY Bounds DEF Init
<1> QED
  BY <1>1, <1>2 DEF Init, TypeOK, Statuses, States

(* A step of the search threads.                                            *)
LEMMA WorkTypes ==
  ASSUME TypeOK, NEW r \in Runs, CreateRun(r) \/ Submit(r) \/ Work(r)
  PROVE  TypeOK'
<1> USE DEF rowVars, searchVars, tableVars, commitVars, history
<1>1. CASE CreateRun(r)
  BY <1>1 DEF CreateRun, TypeOK, Statuses
<1>2. CASE Submit(r)
  <2>1. queue' \in Seq(Runs)
    BY <1>2 DEF Submit, TypeOK
  <2>2. pc' \in [Runs -> {"off", "posted", "queued"} \union SearchPoints]
    BY <1>2 DEF Submit, TypeOK
  <2> QED
    BY <1>2, <2>1, <2>2 DEF Submit, TypeOK
<1>3. CASE Probing(r)
  BY <1>3 DEF Probing, TypeOK, SearchPoints
<1>4. CASE SourceUrls(r)
  <2>1. known' \in [Runs -> SUBSET Feeds] /\ decided' \in [Runs -> SUBSET Feeds]
    BY <1>4 DEF SourceUrls, TypeOK, Urls
  <2> QED
    BY <1>4, <2>1 DEF SourceUrls, TypeOK, SearchPoints
<1>5. CASE Search(r)
  <2>1. known' \in [Runs -> SUBSET Feeds]
    BY <1>5 DEF Search, TypeOK
  <2> QED
    BY <1>5, <2>1 DEF Search, TypeOK, SearchPoints
<1>6. CASE FinishRun(r)
  <2>1. /\ status' \in [Runs -> Statuses] /\ stage' \in [Runs -> {"searching", "probing", "ready"}]
        /\ result' \in [Runs -> SUBSET Feeds] /\ known' \in [Runs -> SUBSET Feeds]
        /\ pc' \in [Runs -> {"off", "posted", "queued"} \union SearchPoints]
    BY <1>6 DEF FinishRun, TypeOK, Statuses
  <2> QED
    BY <1>6, <2>1 DEF FinishRun, TypeOK
<1>7. CASE Raise(r)
  <2>1. /\ known' \in [Runs -> SUBSET Feeds] /\ lost' \subseteq Runs
        /\ pc' \in [Runs -> {"off", "posted", "queued"} \union SearchPoints]
    BY <1>7 DEF Raise, TypeOK, Handler, SearchPoints
  <2>2. faults' \in 0..MaxFaults
    BY <1>7, Bounds DEF Raise, TypeOK
  <2> QED
    BY <1>7, <2>1, <2>2 DEF Raise, TypeOK
<1> QED
  BY <1>1, <1>2, <1>3, <1>4, <1>5, <1>6, <1>7 DEF Work

LEMMA ProcessTypes ==
  ASSUME TypeOK, Dequeue \/ Crash \/ Boot
  PROVE  TypeOK'
<1> USE DEF rowVars, searchVars, tableVars, commitVars, history
<1>1. CASE Dequeue
  <2>1. Head(queue) \in Runs /\ queue' \in Seq(Runs)
    BY <1>1 DEF Dequeue, TypeOK
  <2>2. pc' \in [Runs -> {"off", "posted", "queued"} \union SearchPoints]
    BY <1>1, <2>1 DEF Dequeue, TypeOK, SearchPoints
  <2> QED
    BY <1>1, <2>1, <2>2 DEF Dequeue, TypeOK
<1>2. CASE Crash
  <2>1. queue' \in Seq(Runs)
    BY <1>2 DEF Crash
  <2>2. faults' \in 0..MaxFaults
    BY <1>2, Bounds DEF Crash, TypeOK
  <2>3. Committing \in SUBSET Commits /\ Return(Committing)
    BY <1>2 DEF Crash, Committing
  <2> QED
    BY <1>2, <2>1, <2>2, <2>3, ReturnTypes DEF Crash, TypeOK
<1>3. CASE Boot
  BY <1>3 DEF Boot, TypeOK, Statuses, Orphaned
<1> QED
  BY <1>1, <1>2, <1>3

(* A step of a commit, which names a target only where it has one.          *)
LEMMA CurrentIsTarget ==
  ASSUME NEW c \in Commits, TargetInv(c), cpc[c] = "link"
  PROVE  Current(c) \in targets[c]
BY DEF TargetInv, Current

LEMMA PlaceTypes ==
  ASSUME TypeOK, NEW c \in Commits, CommitInv(c), Commit(c) \/ Place(c)
  PROVE  TypeOK'
<1> USE DEF rowVars, searchVars, tableVars, commitVars, history
<1>0. cpc[c] \in CommitPoints => of[c] \in Runs /\ result[of[c]] \in SUBSET Feeds
  BY DEF CommitInv, OfInv, Committing, TypeOK
<1>1. CASE Commit(c)
  <2>1. of' \in [Commits -> Runs \union {0}]
    BY <1>1, PickedIsRun DEF Commit, TypeOK
  <2> QED
    BY <1>1, <2>1 DEF Commit, TypeOK, CommitPoints
<1>2. CASE EnsureMeta(c)
  <2>1. meta' \subseteq topics
    BY <1>2 DEF EnsureMeta, Missing, TypeOK
  <2> QED
    BY <1>2, <2>1 DEF EnsureMeta, TypeOK, CommitPoints
<1>3. CASE Rank(c)
  <2>1. PICK T \in SUBSET Ranked :
               /\ targets' = [targets EXCEPT ![c] = T]
               /\ todo' = [todo EXCEPT ![c] = IF T = {} THEN {} ELSE result[of[c]]]
               /\ cpc' = [cpc EXCEPT ![c] = Mode(T)]
    BY <1>3 DEF Rank
  <2>2. T \in SUBSET topics /\ Mode(T) \in CommitPoints
    BY DEF Ranked, TypeOK, Mode, CommitPoints
  <2>3. result[of[c]] \in SUBSET Feeds
    BY <1>0, <1>3 DEF Rank, CommitPoints
  <2>4. /\ targets' \in [Commits -> SUBSET topics] /\ todo' \in [Commits -> SUBSET Feeds]
        /\ cpc' \in [Commits -> {"idle", "over"} \union CommitPoints]
    BY <2>1, <2>2, <2>3 DEF TypeOK
  <2> QED
    BY <1>3, <2>4 DEF Rank, TypeOK
<1>4. CASE RejectTopic(c)
  BY <1>4, ReturnTypes DEF RejectTopic, TypeOK
<1>5. CASE NewTopic(c)
  <2>1. PICK t \in Names : topics' = Stored(t) /\ targets' = [targets EXCEPT ![c] = {t}]
    BY <1>5 DEF NewTopic
  <2>2. topics' = topics \union {t} /\ t \in Topics
    BY <2>1 DEF Stored, Names
  <2>3. /\ topics' \subseteq Topics /\ meta \subseteq topics' /\ subscribed \subseteq topics'
        /\ links \subseteq topics' \X Feeds
    BY <2>2 DEF TypeOK
  <2>4. targets' \in [Commits -> SUBSET topics']
    BY <2>1, <2>2 DEF TypeOK
  <2>5. todo' \in [Commits -> SUBSET Feeds]
    BY <1>0, <1>5 DEF NewTopic, CommitPoints, TypeOK
  <2> QED
    BY <1>5, <2>3, <2>4, <2>5 DEF NewTopic, TypeOK, CommitPoints
<1>6. CASE AddSource(c)
  <2>1. PICK f \in todo[c] :
               /\ src' = [src EXCEPT ![f] = IF @ = "absent" THEN "active" ELSE @]
               /\ adding' = [adding EXCEPT ![c] = {f}]
               /\ todo' = [todo EXCEPT ![c] = @ \ {f}]
    BY <1>6 DEF AddSource
  <2>2. f \in Feeds
    BY DEF TypeOK
  <2>3. src' \in [Feeds -> States]
    BY <2>1, <2>2 DEF TypeOK, States
  <2>4. adding' \in [Commits -> SUBSET Feeds] /\ todo' \in [Commits -> SUBSET Feeds]
    BY <2>1, <2>2 DEF TypeOK
  <2> QED
    BY <1>6, <2>3, <2>4 DEF AddSource, TypeOK
<1>7. CASE SetActive(c)
  <2>1. src' \in [Feeds -> States]
    BY <1>7 DEF SetActive, Activated, TypeOK, States
  <2>2. adding' \in [Commits -> SUBSET Feeds] /\ placed' \in [Commits -> SUBSET Feeds]
    BY <1>7 DEF SetActive, TypeOK
  <2> QED
    BY <1>7, <2>1, <2>2 DEF SetActive, TypeOK
<1>8. CASE NextTarget(c)
  <2>1. todo' \in [Commits -> SUBSET Feeds]
    BY <1>8 DEF NextTarget, TypeOK
  <2> QED
    BY <1>8, <2>1 DEF NextTarget, TypeOK, CommitPoints
<1>9. CASE LinkSource(c)
  <2>1. PICK f \in todo[c] :
               /\ links' = links \union {<<Current(c), f>>}
               /\ todo' = [todo EXCEPT ![c] = @ \ {f}]
    BY <1>9 DEF LinkSource
  <2>2. f \in Feeds /\ Current(c) \in topics
    BY <1>9, CurrentIsTarget DEF LinkSource, CommitInv, TypeOK
  <2>3. links' \subseteq topics \X Feeds /\ todo' \in [Commits -> SUBSET Feeds]
    BY <2>1, <2>2 DEF TypeOK
  <2> QED
    BY <1>9, <2>3 DEF LinkSource, TypeOK
<1>10. CASE Subscribe(c)
  <2>1. Current(c) \in topics
    BY <1>10, CurrentIsTarget DEF Subscribe, CommitInv, TypeOK
  <2>2. subscribed' \subseteq topics /\ targets' \in [Commits -> SUBSET topics]
    BY <1>10, <2>1 DEF Subscribe, TypeOK
  <2> QED
    BY <1>10, <2>2 DEF Subscribe, TypeOK, CommitPoints
<1>11. CASE Mark(c)
  <2>1. committed' \in [Runs -> BOOLEAN]
    BY <1>11 DEF Mark, TypeOK
  <2> QED
    BY <1>11, <2>1, ReturnTypes DEF Mark, TypeOK
<1>12. CASE CommitRaises(c)
  <2>1. faults' \in 0..MaxFaults
    BY <1>12, Bounds DEF CommitRaises, TypeOK
  <2> QED
    BY <1>12, <2>1, ReturnTypes DEF CommitRaises, TypeOK
<1> QED
  BY <1>1, <1>2, <1>3, <1>4, <1>5, <1>6, <1>7, <1>8, <1>9, <1>10, <1>11, <1>12
  DEF Place

LEMMA EditTypes == ASSUME TypeOK, Edit PROVE TypeOK'
<1> USE DEF rowVars, searchVars, tableVars, commitVars, history
<1>0. edits' \in 0..MaxEdits
  <2>1. edits < MaxEdits /\ edits' = edits + 1
    BY DEF Edit, SetSourceStatus, InsertSource, DeleteSource, CreateTopic, Unsubscribe, Editing
  <2> QED
    BY <2>1, Bounds DEF TypeOK
<1>1. ASSUME NEW f \in Feeds, NEW st \in {"active", "disabled", "rejected"},
             SetSourceStatus(f, st)
      PROVE  TypeOK'
  BY <1>0, <1>1 DEF SetSourceStatus, Editing, TypeOK, States
<1>2. ASSUME NEW f \in Feeds, InsertSource(f) PROVE TypeOK'
  BY <1>0, <1>2 DEF InsertSource, Editing, TypeOK, States
<1>3. ASSUME NEW f \in Feeds, DeleteSource(f) PROVE TypeOK'
  BY <1>0, <1>3 DEF DeleteSource, Editing, TypeOK, States
<1>4. ASSUME NEW t \in Topics, CreateTopic(t) PROVE TypeOK'
  <2>1. /\ topics' \subseteq Topics /\ meta \subseteq topics' /\ subscribed \subseteq topics'
        /\ links \subseteq topics' \X Feeds /\ targets \in [Commits -> SUBSET topics']
    BY <1>4 DEF CreateTopic, TypeOK
  <2> QED
    BY <1>0, <1>4, <2>1 DEF CreateTopic, Editing, TypeOK
<1>5. ASSUME NEW t \in Topics, Unsubscribe(t) PROVE TypeOK'
  BY <1>0, <1>5 DEF Unsubscribe, Editing, TypeOK
<1> QED
  BY <1>1, <1>2, <1>3, <1>4, <1>5 DEF Edit

LEMMA TypeNext == IInv /\ [Next]_vars => TypeOK'
<1> SUFFICES ASSUME IInv, [Next]_vars PROVE TypeOK'
  OBVIOUS
<1>0. TypeOK /\ \A c \in Commits : CommitInv(c)
  BY DEF IInv
<1>1. CASE UNCHANGED vars
  BY <1>0, <1>1
  DEF vars, rowVars, searchVars, tableVars, commitVars, history, TypeOK
<1>2. CASE Next
  BY <1>0, <1>2, WorkTypes, ProcessTypes, PlaceTypes, EditTypes DEF Next
<1> QED
  BY <1>1, <1>2

-----------------------------------------------------------------------------
(* The rows and their tasks.                                                *)
RowInv == TaskInv /\ QueueInv /\ DownInv /\ OfferInv

LEMMA RowFrame ==
  ASSUME RowInv, UNCHANGED <<status, result, up, queue, pc, known, decided>>
  PROVE  RowInv'
BY DEF RowInv, TaskInv, QueueInv, DownInv, OfferInv, Running

(* Neither a commit nor an edit touches a row's status or its task.         *)
LEMMA RowsApart ==
  ASSUME \/ Edit
         \/ \E c \in Commits : Commit(c) \/ Place(c)
  PROVE  UNCHANGED <<status, result, up, queue, pc, known, decided>>
BY DEF Edit, SetSourceStatus, InsertSource, DeleteSource, CreateTopic, Unsubscribe, Editing,
       Commit, Place, EnsureMeta, Rank, RejectTopic, NewTopic, AddSource, SetActive,
       NextTarget, LinkSource, Subscribe, Mark, CommitRaises, rowVars, searchVars

LEMMA WorkRows ==
  ASSUME TypeOK, RowInv, NEW r \in Runs, CreateRun(r) \/ Submit(r) \/ Work(r)
  PROVE  RowInv'
<1> USE DEF rowVars, searchVars
<1>1. CASE CreateRun(r)
  <2>1. pc[r] = "off"
    BY <1>1 DEF CreateRun, RowInv, TaskInv, Running
  <2>2. TaskInv' /\ DownInv'
    BY <1>1 DEF CreateRun, RowInv, TaskInv, DownInv, Running, TypeOK
  <2>3. QueueInv'
    BY <1>1, <2>1 DEF CreateRun, RowInv, QueueInv, TypeOK
  <2>4. OfferInv'
    BY <1>1 DEF CreateRun, RowInv, OfferInv, TypeOK
  <2> QED
    BY <2>2, <2>3, <2>4 DEF RowInv
<1>2. CASE Submit(r)
  <2>1. TaskInv' /\ DownInv' /\ OfferInv'
    BY <1>2 DEF Submit, RowInv, TaskInv, DownInv, OfferInv, Running, TypeOK
  <2>2. QueueInv'
    BY <1>2 DEF Submit, RowInv, QueueInv, TypeOK
  <2> QED
    BY <2>1, <2>2 DEF RowInv
<1>3. ASSUME pc[r] \in SearchPoints, NEW p \in SearchPoints,
             pc' = [pc EXCEPT ![r] = p], UNCHANGED <<status, up, queue>>
      PROVE  TaskInv' /\ DownInv' /\ QueueInv'
  <2>1. pc[r] # "queued" /\ pc[r] # "off" /\ p # "off"
    BY <1>3 DEF SearchPoints
  <2>2. TaskInv' /\ DownInv'
    BY <1>3, <2>1 DEF RowInv, TaskInv, DownInv, Running, TypeOK
  <2>3. QueueInv'
    BY <1>3, <2>1 DEF RowInv, QueueInv, TypeOK
  <2> QED
    BY <2>2, <2>3
<1>4. CASE Probing(r)
  <2>1. OfferInv'
    BY <1>4 DEF Probing, RowInv, OfferInv, TypeOK
  <2> QED
    BY <1>3, <1>4, <2>1 DEF Probing, RowInv, SearchPoints
<1>5. CASE SourceUrls(r)
  <2>1. status[r] # "done"
    BY <1>5 DEF SourceUrls, RowInv, TaskInv, Running
  <2>2. known'[r] = Urls /\ decided'[r] \subseteq Urls
    BY <1>5 DEF SourceUrls, Urls, TypeOK
  <2>3. OfferInv'
    BY <1>5, <2>1, <2>2 DEF SourceUrls, RowInv, OfferInv, TypeOK
  <2> QED
    BY <1>3, <1>5, <2>3 DEF SourceUrls, RowInv, SearchPoints
<1>6. CASE Search(r)
  <2>1. PICK hits \in SUBSET Feeds : known' = [known EXCEPT ![r] = hits \ known[r]]
    BY <1>6 DEF Search
  <2>2. decided[r] \subseteq known[r]
    BY <1>6 DEF Search, RowInv, OfferInv
  <2>3. OfferInv'
    BY <1>6, <2>1, <2>2 DEF Search, RowInv, OfferInv, TypeOK
  <2> QED
    BY <1>3, <1>6, <2>3 DEF Search, RowInv, SearchPoints
<1>7. CASE FinishRun(r)
  <2>1. pc[r] # "queued" /\ pc[r] # "off"
    BY <1>7 DEF FinishRun
  <2>2. TaskInv' /\ DownInv'
    BY <1>7, <2>1 DEF FinishRun, RowInv, TaskInv, DownInv, Running, TypeOK
  <2>3. QueueInv'
    BY <1>7, <2>1 DEF FinishRun, RowInv, QueueInv, TypeOK
  <2>4. OfferInv'
    BY <1>7 DEF FinishRun, RowInv, OfferInv, TypeOK
  <2> QED
    BY <2>2, <2>3, <2>4 DEF RowInv
<1>8. CASE Raise(r)
  <2>1. pc[r] # "queued" /\ pc[r] # "off"
    BY <1>8 DEF Raise, SearchPoints
  <2>2. pc'[r] \in {"off", "rescue"} /\ pc' = [pc EXCEPT ![r] = pc'[r]]
    BY <1>8 DEF Raise, Handler, TypeOK
  <2>3. TaskInv' /\ DownInv'
    BY <1>8, <2>1, <2>2 DEF Raise, RowInv, TaskInv, DownInv, Running, TypeOK
  <2>4. QueueInv'
    BY <1>8, <2>1, <2>2 DEF Raise, RowInv, QueueInv, TypeOK
  <2>5. OfferInv'
    BY <1>8, <2>2 DEF Raise, RowInv, OfferInv, TypeOK
  <2> QED
    BY <2>3, <2>4, <2>5 DEF RowInv
<1> QED
  BY <1>1, <1>2, <1>4, <1>5, <1>6, <1>7, <1>8 DEF Work

LEMMA ProcessRows ==
  ASSUME TypeOK, RowInv, Dequeue \/ Crash \/ Boot
  PROVE  RowInv'
<1> USE DEF rowVars, searchVars
<1>1. CASE Dequeue
  <2>1. /\ 1 \in DOMAIN queue /\ Head(queue) = queue[1]
        /\ \A i \in DOMAIN queue' : i + 1 \in DOMAIN queue /\ queue'[i] = queue[i + 1]
        /\ \A i \in DOMAIN queue' : i \in Nat /\ i + 1 # 1
        /\ \A i \in DOMAIN queue : queue[i] \in Runs
    BY <1>1 DEF Dequeue, TypeOK
  <2>2. pc[Head(queue)] = "queued" /\ Head(queue) \in Runs
    BY <2>1 DEF RowInv, QueueInv
  <2>3. TaskInv' /\ DownInv' /\ OfferInv'
    BY <1>1, <2>2 DEF Dequeue, RowInv, TaskInv, DownInv, OfferInv, Running, TypeOK
  <2>4. \A i \in DOMAIN queue' : queue'[i] # Head(queue) /\ pc[queue'[i]] = "queued"
    BY <2>1 DEF RowInv, QueueInv
  <2>5. \A i, j \in DOMAIN queue' : i # j => queue'[i] # queue'[j]
    <3> SUFFICES ASSUME NEW i \in DOMAIN queue', NEW j \in DOMAIN queue', i # j
                 PROVE  queue'[i] # queue'[j]
      OBVIOUS
    <3>1. i + 1 # j + 1
      BY <2>1
    <3> QED
      BY <2>1, <3>1 DEF RowInv, QueueInv
  <2>6. \A i \in DOMAIN queue' : pc'[queue'[i]] = "queued"
    BY <1>1, <2>1, <2>4 DEF Dequeue, TypeOK
  <2> QED
    BY <2>3, <2>5, <2>6 DEF RowInv, QueueInv
<1>2. CASE Crash
  BY <1>2 DEF Crash, RowInv, TaskInv, QueueInv, DownInv, OfferInv
<1>3. CASE Boot
  <2>1. \A r \in Runs : pc[r] = "off"
    BY <1>3 DEF Boot, RowInv, DownInv
  <2>2. \A r \in Runs : status'[r] = "done" => status[r] = "done"
    BY <1>3 DEF Boot
  <2> QED
    BY <1>3, <2>1, <2>2 DEF Boot, RowInv, TaskInv, QueueInv, DownInv, OfferInv
<1> QED
  BY <1>1, <1>2, <1>3

LEMMA RowNext == IInv /\ [Next]_vars => RowInv'
<1> SUFFICES ASSUME IInv, [Next]_vars PROVE RowInv'
  OBVIOUS
<1>0. TypeOK /\ RowInv
  BY DEF IInv, RowInv
<1>1. CASE UNCHANGED vars
  BY <1>0, <1>1, RowFrame DEF vars, rowVars, searchVars
<1>2. CASE Next
  BY <1>0, <1>2, WorkRows, ProcessRows, RowFrame, RowsApart DEF Next
<1> QED
  BY <1>1, <1>2

-----------------------------------------------------------------------------
(* What no step undoes, save an owner's own change of a feed: an active feed  *)
(* stays active and linked, a topic stays followed (or is counted as left),  *)
(* and a finished search keeps its result.                                  *)
Steady ==
  /\ touched \subseteq touched'
  /\ \A f \in Feeds \ touched' : src[f] = "active" => src'[f] = "active"
  /\ \A t \in Topics, f \in Feeds \ touched' : <<t, f>> \in links => <<t, f>> \in links'
  /\ subscribed \union left \subseteq subscribed' \union left'
  /\ \A r \in Runs : status[r] = "done" => status'[r] = "done" /\ result'[r] = result[r]

LEMMA WorkSteady ==
  ASSUME TypeOK, RowInv,
         \/ \E r \in Runs : CreateRun(r) \/ Submit(r) \/ Work(r)
         \/ Dequeue \/ Crash \/ Boot
  PROVE  Steady
<1>1. UNCHANGED <<touched, src, links, subscribed, left>>
  BY DEF CreateRun, Submit, Work, Probing, SourceUrls, Search, FinishRun, Raise, Dequeue,
         Crash, Boot, tableVars, history
<1>2. \A r \in Runs : status[r] = "done" => status'[r] = "done" /\ result'[r] = result[r]
  <2>1. ASSUME NEW q \in Runs, CreateRun(q) \/ Submit(q)
        PROVE  \A r \in Runs : status[r] = "done" => status'[r] = "done" /\ result'[r] = result[r]
    BY <2>1 DEF CreateRun, Submit, rowVars, TypeOK
  <2>2. ASSUME NEW q \in Runs, FinishRun(q)
        PROVE  \A r \in Runs : status[r] = "done" => status'[r] = "done" /\ result'[r] = result[r]
    <3>1. status[q] # "done"
      BY <2>2 DEF FinishRun, RowInv, TaskInv, Running
    <3> QED
      BY <2>2, <3>1 DEF FinishRun, TypeOK
  <2>3. ASSUME NEW q \in Runs, Work(q), ~FinishRun(q)
        PROVE  UNCHANGED <<status, result>>
    BY <2>3 DEF Work, Probing, SourceUrls, Search, Raise, rowVars
  <2>4. Dequeue \/ Crash => UNCHANGED <<status, result>>
    BY DEF Dequeue, Crash, rowVars
  <2>5. Boot => \A r \in Runs : status[r] = "done" => status'[r] = "done" /\ result'[r] = result[r]
    BY DEF Boot, Orphaned, Running
  <2> QED
    BY <2>1, <2>2, <2>3, <2>4, <2>5
<1> QED
  BY <1>1, <1>2 DEF Steady

LEMMA PlaceSteady ==
  ASSUME TypeOK, NEW c \in Commits, Commit(c) \/ Place(c)
  PROVE  Steady
<1> USE DEF rowVars, tableVars, history
<1>1. UNCHANGED <<touched, left, status, result>>
  BY RowsApart DEF Commit, Place, EnsureMeta, Rank, RejectTopic, NewTopic, AddSource,
     SetActive, NextTarget, LinkSource, Subscribe, Mark, CommitRaises
<1>2. CASE AddSource(c)
  BY <1>1, <1>2 DEF AddSource, Steady, TypeOK
<1>3. CASE SetActive(c)
  BY <1>1, <1>3 DEF SetActive, Activated, Steady
<1>4. CASE LinkSource(c)
  BY <1>1, <1>4 DEF LinkSource, Steady
<1>5. CASE Subscribe(c)
  BY <1>1, <1>5 DEF Subscribe, Steady
<1>6. ASSUME ~AddSource(c), ~SetActive(c), ~LinkSource(c), ~Subscribe(c)
      PROVE  UNCHANGED <<src, links, subscribed>>
  BY <1>6 DEF Commit, Place, EnsureMeta, Rank, RejectTopic, NewTopic, NextTarget, Mark,
     CommitRaises
<1> QED
  BY <1>1, <1>2, <1>3, <1>4, <1>5, <1>6 DEF Steady

LEMMA EditSteady == ASSUME TypeOK, Edit PROVE Steady
<1> USE DEF Editing, rowVars, history
<1>0. UNCHANGED <<status, result>>
  BY RowsApart
<1>1. ASSUME NEW f \in Feeds, NEW st \in {"active", "disabled", "rejected"},
             SetSourceStatus(f, st)
      PROVE  Steady
  BY <1>0, <1>1 DEF SetSourceStatus, Steady, TypeOK
<1>2. ASSUME NEW f \in Feeds, InsertSource(f) PROVE Steady
  BY <1>0, <1>2 DEF InsertSource, Steady, TypeOK
<1>3. ASSUME NEW f \in Feeds, DeleteSource(f) PROVE Steady
  BY <1>0, <1>3 DEF DeleteSource, Steady, TypeOK
<1>4. ASSUME NEW t \in Topics, CreateTopic(t) \/ Unsubscribe(t) PROVE Steady
  BY <1>0, <1>4 DEF CreateTopic, Unsubscribe, Steady, TypeOK
<1> QED
  BY <1>1, <1>2, <1>3, <1>4 DEF Edit

LEMMA NextSteady == IInv /\ [Next]_vars => Steady
<1> SUFFICES ASSUME IInv, [Next]_vars PROVE Steady
  OBVIOUS
<1>0. TypeOK /\ RowInv
  BY DEF IInv, RowInv
<1>1. CASE UNCHANGED vars
  BY <1>1 DEF vars, rowVars, tableVars, history, Steady
<1>2. CASE Next
  BY <1>0, <1>2, WorkSteady, PlaceSteady, EditSteady DEF Next
<1> QED
  BY <1>1, <1>2

-----------------------------------------------------------------------------
(* A commit that a step leaves where it is, but for feeds an owner deleted.   *)
Stays(c) ==
  /\ cpc'[c] = cpc[c] /\ of'[c] = of[c] /\ targets'[c] = targets[c]
  /\ placed'[c] \subseteq placed[c] /\ placed[c] \ touched' \subseteq placed'[c]
  /\ todo'[c] \subseteq todo[c] /\ todo[c] \ touched' \subseteq todo'[c]
  /\ adding'[c] \subseteq adding[c] /\ adding[c] \ touched' \subseteq adding'[c]

LEMMA FollowedStays ==
  ASSUME TypeOK, Steady, NEW c \in Commits, of'[c] = of[c], of[c] \in Runs,
         status[of[c]] = "done", Followed(c)
  PROVE  Followed(c)'
<1>1. PICK t \in subscribed \union left : \A f \in Wanted(c) : <<t, f>> \in links
  BY DEF Followed
<1>2. t \in Topics /\ t \in subscribed' \union left'
  BY DEF TypeOK, Steady
<1>3. Wanted(c)' \subseteq Wanted(c) /\ Wanted(c)' \subseteq Feeds \ touched'
  BY DEF Wanted, Steady, TypeOK
<1>4. \A f \in Wanted(c)' : <<t, f>> \in links'
  BY <1>1, <1>2, <1>3 DEF Steady
<1> QED
  BY <1>2, <1>4 DEF Followed

LEMMA CommitStays ==
  ASSUME TypeOK, Steady, NEW c \in Commits, CommitInv(c), Stays(c)
  PROVE  CommitInv(c)'
<1>1. OfInv(c)'
  BY DEF CommitInv, OfInv, Committing, Stays, Steady
<1>2. cpc[c] \in {"feeds", "link", "mark"} =>
        /\ of'[c] = of[c] /\ of[c] \in Runs /\ status[of[c]] = "done"
        /\ result'[of'[c]] = result[of[c]]
        /\ Wanted(c)' \subseteq Wanted(c) /\ Wanted(c)' \subseteq Feeds \ touched'
  BY DEF CommitInv, OfInv, Committing, CommitPoints, Stays, Steady, Wanted, TypeOK
<1>3. AddInv(c)'
  BY <1>2 DEF CommitInv, AddInv, Stays
<1>4. PlacedInv(c)'
  <2>1. \A f \in placed'[c] \ touched' : src'[f] = "active"
    BY DEF CommitInv, PlacedInv, Stays, Steady, TypeOK
  <2>2. cpc'[c] = "feeds" =>
          Wanted(c)' \subseteq placed'[c] \union todo'[c] \union adding'[c]
    BY <1>2 DEF CommitInv, PlacedInv, Stays
  <2>3. cpc'[c] \in {"link", "mark"} => Wanted(c)' \subseteq placed'[c]
    BY <1>2 DEF CommitInv, PlacedInv, Stays
  <2> QED
    BY <2>1, <2>2, <2>3 DEF PlacedInv
<1>5. TargetInv(c)'
  <2>1. cpc[c] \in {"feeds", "link", "mark"} /\ Followed(c) => Followed(c)'
    BY <1>2, FollowedStays
  <2>2. Current(c)' = Current(c)
    BY DEF Current, Stays
  <2>3. cpc'[c] = "link" =>
          /\ targets'[c] # {}
          /\ \A f \in placed'[c] \ (todo'[c] \union touched') : <<Current(c)', f>> \in links'
    <3> SUFFICES ASSUME cpc'[c] = "link"
                 PROVE  /\ targets'[c] # {}
                        /\ \A f \in placed'[c] \ (todo'[c] \union touched') :
                             <<Current(c)', f>> \in links'
      OBVIOUS
    <3>1. cpc[c] = "link" /\ targets'[c] # {}
      BY DEF Stays, CommitInv, TargetInv
    <3>2. Current(c) \in Topics
      BY <3>1, CurrentIsTarget DEF CommitInv, TypeOK
    <3>3. ASSUME NEW f \in placed'[c] \ (todo'[c] \union touched')
          PROVE  <<Current(c), f>> \in links'
      <4>1. f \in placed[c] \ (todo[c] \union touched) /\ f \in Feeds \ touched'
        BY <3>3 DEF Stays, Steady, TypeOK
      <4>2. <<Current(c), f>> \in links
        BY <3>1, <4>1 DEF CommitInv, TargetInv
      <4> QED
        BY <3>2, <4>1, <4>2 DEF Steady
    <3> QED
      BY <2>2, <3>1, <3>3
  <2>4. cpc'[c] = "feeds" => targets'[c] # {} \/ Followed(c)'
    BY <2>1 DEF CommitInv, TargetInv, Stays
  <2>5. cpc'[c] = "mark" => Followed(c)'
    BY <2>1 DEF CommitInv, TargetInv, Stays
  <2> QED
    BY <2>3, <2>4, <2>5 DEF TargetInv
<1> QED
  BY <1>1, <1>3, <1>4, <1>5 DEF CommitInv

-----------------------------------------------------------------------------
(* The commits that return hold nothing, and the others stay.               *)
LEMMA ReturnHolds ==
  ASSUME TypeOK, Steady, NEW C \in SUBSET Commits, Return(C),
         \A c \in Commits : CommitInv(c)
  PROVE  \A c \in Commits : CommitInv(c)'
<1> SUFFICES ASSUME NEW c \in Commits PROVE CommitInv(c)'
  OBVIOUS
<1>1. CASE c \in C
  <2>1. cpc'[c] = "over" /\ adding'[c] = {} /\ placed'[c] = {}
    BY <1>1 DEF Return
  <2> QED
    BY <2>1 DEF CommitInv, OfInv, AddInv, PlacedInv, TargetInv, Committing, CommitPoints
<1>2. CASE c \notin C
  <2>1. Stays(c)
    BY <1>2 DEF Return, Stays
  <2> QED
    BY <2>1, CommitStays
<1> QED
  BY <1>1, <1>2

(* The step a commit takes itself.                                          *)
LEMMA OwnStep ==
  ASSUME TypeOK, Steady, NEW c \in Commits, CommitInv(c),
         Commit(c) \/ Place(c), ~RejectTopic(c), ~Mark(c), ~CommitRaises(c)
  PROVE  CommitInv(c)'
<1> USE DEF rowVars, tableVars, history
<1>0. /\ UNCHANGED <<status, result, touched, left>>
      /\ cpc[c] \in CommitPoints =>
           of[c] \in Runs /\ status[of[c]] = "done" /\ result[of[c]] \in SUBSET Feeds
      /\ \A f \in placed[c] \ touched : src[f] = "active" /\ src'[f] = "active"
  <2>1. UNCHANGED <<status, result, touched, left>>
    BY RowsApart DEF Commit, Place, EnsureMeta, Rank, RejectTopic, NewTopic, AddSource,
       SetActive, NextTarget, LinkSource, Subscribe, Mark, CommitRaises
  <2>2. cpc[c] \in CommitPoints =>
           of[c] \in Runs /\ status[of[c]] = "done" /\ result[of[c]] \in SUBSET Feeds
    BY DEF CommitInv, OfInv, Committing, TypeOK
  <2>3. \A f \in placed[c] \ touched : src[f] = "active" /\ src'[f] = "active"
    BY <2>1 DEF CommitInv, PlacedInv, Steady, TypeOK
  <2> QED
    BY <2>1, <2>2, <2>3
<1>1. CASE Commit(c)
  <2>1. of'[c] \in Runs /\ status[of'[c]] = "done"
    BY <1>1, PickedIsRun DEF Commit, TypeOK
  <2>2. cpc[c] = "idle" /\ cpc'[c] = "meta" /\ UNCHANGED <<adding, placed, src>>
    BY <1>1 DEF Commit, TypeOK
  <2>3. adding[c] = {}
    BY <2>2 DEF CommitInv, AddInv
  <2> QED
    BY <1>0, <2>1, <2>2, <2>3 DEF CommitInv, OfInv, AddInv, PlacedInv, TargetInv, Committing
<1>2. CASE EnsureMeta(c)
  <2>1. cpc[c] = "meta" /\ cpc'[c] \in {"rank", "name"} /\ UNCHANGED <<of, adding, placed, src>>
    BY <1>2 DEF EnsureMeta, TypeOK
  <2> QED
    BY <1>0, <2>1
    DEF CommitInv, OfInv, AddInv, PlacedInv, TargetInv, Committing, CommitPoints
<1>3. CASE Rank(c)
  <2>1. PICK T \in SUBSET Ranked :
               /\ targets' = [targets EXCEPT ![c] = T]
               /\ todo' = [todo EXCEPT ![c] = IF T = {} THEN {} ELSE result[of[c]]]
               /\ cpc' = [cpc EXCEPT ![c] = Mode(T)]
    BY <1>3 DEF Rank
  <2>2. cpc[c] = "rank" /\ UNCHANGED <<of, adding, placed, src>>
    BY <1>3 DEF Rank
  <2>3. adding'[c] = {}
    BY <2>2 DEF CommitInv, AddInv
  <2>4. CASE T = {}
    <3>1. cpc'[c] = "name"
      BY <2>1, <2>4 DEF Mode, TypeOK
    <3> QED
      BY <1>0, <2>2, <2>3, <3>1
      DEF CommitInv, OfInv, AddInv, PlacedInv, TargetInv, Committing, CommitPoints
  <2>5. CASE T # {}
    <3>1. cpc'[c] = "feeds" /\ targets'[c] # {} /\ todo'[c] = result[of[c]]
      BY <2>1, <2>5 DEF Mode, TypeOK
    <3> QED
      BY <1>0, <2>2, <2>3, <3>1
      DEF CommitInv, OfInv, AddInv, PlacedInv, TargetInv, Wanted, Committing, CommitPoints
  <2> QED
    BY <2>4, <2>5
<1>4. CASE NewTopic(c)
  <2>1. PICK t \in Names : targets' = [targets EXCEPT ![c] = {t}]
    BY <1>4 DEF NewTopic
  <2>2. cpc[c] = "name" /\ UNCHANGED <<of, adding, placed, src>>
    BY <1>4 DEF NewTopic
  <2>3. adding'[c] = {}
    BY <2>2 DEF CommitInv, AddInv
  <2>4. cpc'[c] = "feeds" /\ targets'[c] # {} /\ todo'[c] = result[of[c]]
    BY <1>4, <2>1 DEF NewTopic, TypeOK
  <2> QED
    BY <1>0, <2>2, <2>3, <2>4
    DEF CommitInv, OfInv, AddInv, PlacedInv, TargetInv, Wanted, Committing, CommitPoints
<1>5. CASE AddSource(c)
  <2>1. PICK f \in todo[c] :
               /\ adding' = [adding EXCEPT ![c] = {f}]
               /\ todo' = [todo EXCEPT ![c] = @ \ {f}]
    BY <1>5 DEF AddSource
  <2>2. /\ cpc[c] = "feeds" /\ adding[c] = {} /\ cpc' = cpc
        /\ UNCHANGED <<of, targets, placed, links, subscribed>>
    BY <1>5 DEF AddSource
  <2>3. adding'[c] = {f} /\ todo'[c] = todo[c] \ {f}
    BY <2>1 DEF TypeOK
  <2>4. OfInv(c)' /\ AddInv(c)'
    BY <1>0, <2>2, <2>3 DEF CommitInv, OfInv, AddInv, Committing
  <2>5. PlacedInv(c)'
    BY <1>0, <2>2, <2>3 DEF CommitInv, PlacedInv, Wanted
  <2>6. TargetInv(c)'
    BY <1>0, <2>2 DEF CommitInv, TargetInv, Followed, Wanted
  <2> QED
    BY <2>4, <2>5, <2>6 DEF CommitInv
<1>6. CASE SetActive(c)
  <2>1. /\ cpc[c] = "feeds" /\ cpc' = cpc
        /\ UNCHANGED <<of, targets, todo, links, subscribed>>
    BY <1>6 DEF SetActive
  <2>2. adding'[c] = {} /\ placed'[c] = placed[c] \union adding[c]
    BY <1>6 DEF SetActive, TypeOK
  <2>3. \A f \in placed'[c] \ touched' : src'[f] = "active"
    BY <1>0, <1>6, <2>2 DEF SetActive, Activated, TypeOK
  <2>4. OfInv(c)' /\ AddInv(c)'
    BY <1>0, <2>1, <2>2 DEF CommitInv, OfInv, AddInv, Committing
  <2>5. PlacedInv(c)'
    BY <1>0, <2>1, <2>2, <2>3 DEF CommitInv, PlacedInv, Wanted
  <2>6. TargetInv(c)'
    BY <1>0, <2>1 DEF CommitInv, TargetInv, Followed, Wanted
  <2> QED
    BY <2>4, <2>5, <2>6 DEF CommitInv
<1>7. CASE NextTarget(c)
  <2>1. /\ cpc[c] = "feeds" /\ todo[c] = {} /\ adding[c] = {}
        /\ UNCHANGED <<of, targets, adding, placed, src, links, subscribed>>
    BY <1>7 DEF NextTarget
  <2>2. Wanted(c)' = Wanted(c) /\ Wanted(c) \subseteq placed[c]
    BY <1>0, <2>1 DEF CommitInv, PlacedInv, Wanted
  <2>3. OfInv(c)'
    BY <1>0, <2>1 DEF OfInv, CommitPoints
  <2>4. CASE targets[c] = {}
    <3>1. cpc'[c] = "mark" /\ Followed(c)
      BY <1>7, <2>1, <2>4 DEF NextTarget, CommitInv, TargetInv, TypeOK
    <3>2. Followed(c)'
      BY <1>0, <2>1, <2>2, <3>1 DEF Followed
    <3> QED
      BY <1>0, <2>1, <2>2, <2>3, <3>1, <3>2 DEF CommitInv, AddInv, PlacedInv, TargetInv
  <2>5. CASE targets[c] # {}
    <3>1. cpc'[c] = "link" /\ todo'[c] = placed[c]
      BY <1>7, <2>5 DEF NextTarget, TypeOK
    <3> QED
      BY <1>0, <2>1, <2>2, <2>3, <2>5, <3>1 DEF CommitInv, AddInv, PlacedInv, TargetInv
  <2> QED
    BY <2>4, <2>5
<1>8. CASE LinkSource(c)
  <2>1. PICK f \in todo[c] :
               /\ links' = links \union {<<Current(c), f>>}
               /\ todo' = [todo EXCEPT ![c] = @ \ {f}]
    BY <1>8 DEF LinkSource
  <2>2. /\ cpc[c] = "link" /\ cpc' = cpc
        /\ UNCHANGED <<of, targets, adding, placed, src, subscribed>>
    BY <1>8 DEF LinkSource
  <2>3. todo'[c] = todo[c] \ {f} /\ Current(c)' = Current(c)
    BY <2>1, <2>2 DEF TypeOK, Current
  <2>4. OfInv(c)' /\ AddInv(c)'
    BY <1>0, <2>2 DEF CommitInv, OfInv, AddInv, Committing
  <2>5. PlacedInv(c)'
    BY <1>0, <2>2 DEF CommitInv, PlacedInv, Wanted
  <2>6. \A g \in placed[c] \ (todo'[c] \union touched) : <<Current(c), g>> \in links'
    BY <2>1, <2>2, <2>3 DEF CommitInv, TargetInv
  <2>7. TargetInv(c)'
    BY <1>0, <2>2, <2>3, <2>6 DEF CommitInv, TargetInv
  <2> QED
    BY <2>4, <2>5, <2>7 DEF CommitInv
<1>9. CASE Subscribe(c)
  <2>1. /\ cpc[c] = "link" /\ todo[c] = {} /\ cpc'[c] = "feeds"
        /\ subscribed' = subscribed \union {Current(c)}
        /\ UNCHANGED <<of, todo, adding, placed, src, links>>
    BY <1>9 DEF Subscribe, TypeOK
  <2>2. Wanted(c)' = Wanted(c) /\ Wanted(c) \subseteq placed[c] /\ adding[c] = {}
    BY <1>0, <2>1 DEF CommitInv, PlacedInv, AddInv, Wanted
  <2>3. \A f \in Wanted(c) : <<Current(c), f>> \in links
    BY <2>1, <2>2 DEF CommitInv, TargetInv, Wanted
  <2>4. Followed(c)'
    BY <2>1, <2>2, <2>3 DEF Followed
  <2> QED
    BY <1>0, <2>1, <2>2, <2>4
    DEF CommitInv, OfInv, AddInv, PlacedInv, TargetInv, CommitPoints
<1> QED
  BY <1>1, <1>2, <1>3, <1>4, <1>5, <1>6, <1>7, <1>8, <1>9 DEF Place

(* The others stay where they are.                                          *)
LEMMA OthersStay ==
  ASSUME TypeOK, NEW c \in Commits, Commit(c) \/ Place(c),
         ~RejectTopic(c), ~Mark(c), ~CommitRaises(c), NEW d \in Commits, d # c
  PROVE  Stays(d)
BY DEF TypeOK, Commit, Place, EnsureMeta, Rank, NewTopic, AddSource, SetActive, NextTarget,
       LinkSource, Subscribe, Stays, tableVars

LEMMA EditStays == ASSUME TypeOK, Edit, NEW c \in Commits PROVE Stays(c)
<1>1. ASSUME NEW f \in Feeds, DeleteSource(f) PROVE Stays(c)
  BY <1>1 DEF DeleteSource, Editing, Stays
<1>2. ASSUME UNCHANGED <<cpc, of, targets, placed, todo, adding>> PROVE Stays(c)
  BY <1>2 DEF Stays
<1> QED
  BY <1>1, <1>2
  DEF Edit, SetSourceStatus, InsertSource, CreateTopic, Unsubscribe, Editing

LEMMA CommitsNext == IInv /\ [Next]_vars => \A c \in Commits : CommitInv(c)'
<1> SUFFICES ASSUME IInv, [Next]_vars PROVE \A c \in Commits : CommitInv(c)'
  OBVIOUS
<1>0. TypeOK /\ Steady /\ \A c \in Commits : CommitInv(c)
  BY NextSteady DEF IInv
<1>1. ASSUME UNCHANGED commitVars PROVE \A c \in Commits : CommitInv(c)'
  <2>1. \A c \in Commits : Stays(c)
    BY <1>1 DEF commitVars, Stays
  <2> QED
    BY <1>0, <2>1, CommitStays
<1>2. ASSUME NEW c \in Commits, Commit(c) \/ Place(c)
      PROVE  \A d \in Commits : CommitInv(d)'
  <2>1. CASE RejectTopic(c) \/ Mark(c) \/ CommitRaises(c)
    <3>1. Return({c})
      BY <2>1 DEF RejectTopic, Mark, CommitRaises
    <3> QED
      BY <1>0, <3>1, ReturnHolds
  <2>2. CASE ~RejectTopic(c) /\ ~Mark(c) /\ ~CommitRaises(c)
    <3>1. CommitInv(c)'
      BY <1>0, <1>2, <2>2, OwnStep
    <3>2. ASSUME NEW d \in Commits, d # c PROVE CommitInv(d)'
      BY <1>0, <1>2, <2>2, <3>2, OthersStay, CommitStays
    <3> QED
      BY <3>1, <3>2
  <2> QED
    BY <2>1, <2>2
<1>3. ASSUME Edit PROVE \A c \in Commits : CommitInv(c)'
  BY <1>0, <1>3, EditStays, CommitStays
<1>4. ASSUME Crash PROVE \A c \in Commits : CommitInv(c)'
  <2>1. Committing \in SUBSET Commits /\ Return(Committing)
    BY <1>4 DEF Crash, Committing
  <2> QED
    BY <1>0, <2>1, ReturnHolds
<1>5. ASSUME NEW r \in Runs, CreateRun(r) \/ Submit(r) \/ Work(r)
      PROVE  UNCHANGED commitVars
  BY <1>5 DEF CreateRun, Submit, Work, Probing, SourceUrls, Search, FinishRun, Raise
<1>6. Dequeue \/ Boot \/ UNCHANGED vars => UNCHANGED commitVars
  BY DEF Dequeue, Boot, vars
<1> QED
  BY <1>1, <1>2, <1>3, <1>4, <1>5, <1>6 DEF Next

-----------------------------------------------------------------------------
LEMMA InvInit == Init => IInv
<1> SUFFICES ASSUME Init PROVE IInv
  OBVIOUS
<1>1. TypeOK
  BY TypeInit
<1>2. TaskInv /\ QueueInv /\ DownInv /\ OfferInv /\ MarkInv /\ CommittedIsPlaced
  BY DEF Init, TaskInv, QueueInv, DownInv, OfferInv, MarkInv, CommittedIsPlaced
<1>3. ASSUME NEW c \in Commits PROVE CommitInv(c)
  BY <1>3
  DEF Init, CommitInv, OfInv, AddInv, PlacedInv, TargetInv, Committing, CommitPoints
<1> QED
  BY <1>1, <1>2, <1>3 DEF IInv

(* The mark is set on a search whose feeds are all placed.                   *)
LEMMA MarkNext == IInv /\ [Next]_vars => MarkInv' /\ CommittedIsPlaced'
<1> SUFFICES ASSUME IInv, [Next]_vars PROVE MarkInv' /\ CommittedIsPlaced'
  OBVIOUS
<1>0. TypeOK /\ Steady /\ MarkInv /\ CommittedIsPlaced /\ \A c \in Commits : CommitInv(c)
  BY NextSteady DEF IInv
<1> DEFINE Placed(r) ==
      status[r] = "done" /\
      \A f \in result[r] \ touched :
        src[f] = "active" /\ \E t \in subscribed \union left : <<t, f>> \in links
<1>1. ASSUME NEW r \in Runs, Placed(r) PROVE Placed(r)'
  <2>1. status'[r] = "done" /\ result'[r] = result[r]
    BY <1>0, <1>1 DEF Steady
  <2>2. ASSUME NEW f \in result'[r] \ touched'
        PROVE  src'[f] = "active" /\ \E t \in subscribed' \union left' : <<t, f>> \in links'
    <3>1. f \in Feeds \ touched' /\ f \in result[r] \ touched
      BY <1>0, <2>1, <2>2 DEF Steady, TypeOK
    <3>2. src[f] = "active"
      BY <1>1, <3>1
    <3>3. PICK t \in subscribed \union left : <<t, f>> \in links
      BY <1>1, <3>1
    <3>4. t \in Topics /\ t \in subscribed' \union left'
      BY <1>0 DEF TypeOK, Steady
    <3> QED
      BY <1>0, <3>1, <3>2, <3>3, <3>4 DEF Steady
  <2> QED
    BY <2>1, <2>2
<1>2. ASSUME NEW r \in Runs, committed'[r] PROVE Placed(r)
  <2>1. CASE committed[r]
    BY <1>0, <2>1 DEF MarkInv, CommittedIsPlaced
  <2>2. CASE ~committed[r]
    <3>1. PICK c \in Commits : Mark(c)
      BY <1>2, <2>2
      DEF Next, CreateRun, Submit, Work, Probing, SourceUrls, Search, FinishRun, Raise,
          Commit, Place, EnsureMeta, Rank, RejectTopic, NewTopic, AddSource, SetActive,
          NextTarget, LinkSource, Subscribe, CommitRaises, Dequeue, Crash, Boot, Edit,
          SetSourceStatus, InsertSource, DeleteSource, CreateTopic, Unsubscribe, Editing,
          vars
    <3>2. r = of[c] /\ cpc[c] = "mark"
      BY <1>0, <1>2, <2>2, <3>1 DEF Mark, TypeOK
    <3>3. status[r] = "done"
      BY <1>0, <3>2 DEF CommitInv, OfInv, Committing, CommitPoints
    <3>4. \A f \in result[r] \ touched : src[f] = "active"
      BY <1>0, <3>2 DEF CommitInv, PlacedInv, Wanted
    <3>5. PICK t \in subscribed \union left : \A f \in result[r] \ touched : <<t, f>> \in links
      BY <1>0, <3>2 DEF CommitInv, TargetInv, Followed, Wanted
    <3> QED
      BY <3>3, <3>4, <3>5
  <2> QED
    BY <2>1, <2>2
<1>3. \A r \in Runs : committed'[r] => Placed(r)'
  BY <1>1, <1>2
<1> QED
  BY <1>3 DEF MarkInv, CommittedIsPlaced

LEMMA InvNext == IInv /\ [Next]_vars => IInv'
BY TypeNext, RowNext, CommitsNext, MarkNext DEF IInv, RowInv

LEMMA Invariance == Spec => []IInv
<1> QED
  BY InvInit, InvNext, PTL DEF Spec

(* Every variable keeps its type.                                           *)
THEOREM TypeCorrect == Spec => []TypeOK
<1>1. IInv => TypeOK
  BY DEF IInv
<1> QED
  BY <1>1, Invariance, PTL

(* A search taken off the chat's list leaves its feeds active and linked to a *)
(* topic the user follows, whatever commits, owners and crashes do.          *)
THEOREM CommittedArePlaced == Spec => []CommittedIsPlaced
<1>1. IInv => CommittedIsPlaced
  BY DEF IInv
<1> QED
  BY <1>1, Invariance, PTL

-----------------------------------------------------------------------------
(* A feed that was out when a search began is not among those a commit of    *)
(* that search can add, so the commit does not revive it.                   *)
LEMMA AddedWasOffered ==
  ASSUME TypeOK, OfferInv, NEW c \in Commits, CommitInv(c), NEW f \in adding[c]
  PROVE  adding[c] = {f} /\ f \notin decided[of[c]]
<1>1. cpc[c] = "feeds" /\ adding[c] = {f} /\ f \in result[of[c]]
  BY DEF CommitInv, AddInv
<1>2. of[c] \in Runs /\ status[of[c]] = "done"
  BY <1>1 DEF CommitInv, OfInv, Committing, CommitPoints
<1> QED
  BY <1>1, <1>2 DEF OfferInv

(* Committing a search never revives a feed that was rejected or disabled    *)
(* when that search began.                                                  *)
THEOREM EarlierDecisionsKept == Spec => EarlierDecisionsStick
<1> DEFINE Kept ==
      \A f \in Feeds :
        src[f] \in {"disabled", "rejected"} /\ src'[f] = "active" =>
          \/ SetSourceStatus(f, "active")
          \/ \E c \in Commits :
               adding[c] = {f} /\ adding'[c] = {} /\ f \notin decided[of[c]]
<1>1. IInv /\ [Next]_vars => [Kept]_vars
  <2> SUFFICES ASSUME IInv, Next, NEW f \in Feeds,
                      src[f] \in {"disabled", "rejected"}, src'[f] = "active"
               PROVE  \/ SetSourceStatus(f, "active")
                      \/ \E c \in Commits :
                           adding[c] = {f} /\ adding'[c] = {} /\ f \notin decided[of[c]]
    OBVIOUS
  <2>0. TypeOK /\ OfferInv /\ src' # src /\ \A c \in Commits : CommitInv(c)
    BY DEF IInv
  <2>1. \/ \E c \in Commits : AddSource(c) \/ SetActive(c)
        \/ Edit
    BY <2>0
    DEF Next, CreateRun, Submit, Work, Probing, SourceUrls, Search, FinishRun, Raise,
        Commit, Place, EnsureMeta, Rank, RejectTopic, NewTopic, NextTarget, LinkSource,
        Subscribe, Mark, CommitRaises, Dequeue, Crash, Boot, tableVars
  <2>2. ASSUME NEW c \in Commits, AddSource(c) PROVE FALSE
    BY <2>0, <2>2 DEF AddSource, TypeOK
  <2>3. ASSUME NEW c \in Commits, SetActive(c)
        PROVE  adding[c] = {f} /\ adding'[c] = {} /\ f \notin decided[of[c]]
    <3>1. f \in adding[c] /\ adding'[c] = {}
      BY <2>0, <2>3 DEF SetActive, Activated, TypeOK
    <3> QED
      BY <2>0, <3>1, AddedWasOffered
  <2>4. ASSUME Edit PROVE SetSourceStatus(f, "active")
    <3>1. PICK g \in Feeds, st \in {"active", "disabled", "rejected"} : SetSourceStatus(g, st)
      BY <2>0, <2>4, ZenonT(60)
      DEF Edit, InsertSource, DeleteSource, CreateTopic, Unsubscribe, Editing, TypeOK
    <3>2. g = f /\ st = "active"
      BY <2>0, <3>1 DEF SetSourceStatus, TypeOK
    <3> QED
      BY <3>1, <3>2
  <2> QED
    BY <2>1, <2>2, <2>3, <2>4
<1> HIDE DEF Kept
<1>2. Spec => [][Kept]_vars
  BY <1>1, Invariance, PTL DEF Spec
<1> QED
  BY <1>2 DEF Kept, EarlierDecisionsStick

-----------------------------------------------------------------------------
(* The rows implement RunLifecycle.                                         *)
LEMMA LifecycleStep == IInv /\ [Next]_vars => [Lifecycle!Next]_status
<1> SUFFICES ASSUME IInv, [Next]_vars PROVE Lifecycle!Next \/ UNCHANGED status
  OBVIOUS
<1>0. TypeOK /\ TaskInv
  BY DEF IInv
<1>1. ASSUME NEW r \in Runs, CreateRun(r) PROVE Lifecycle!Next
  BY <1>1 DEF CreateRun, Lifecycle!Next, Lifecycle!Create
<1>2. ASSUME NEW r \in Runs, FinishRun(r) PROVE Lifecycle!Next
  <2> DEFINE s == IF pc[r] = "finish" THEN "done" ELSE "error"
  <2>1. s \in Lifecycle!Finished
    BY DEF Lifecycle!Finished
  <2>2. status[r] = "running"
    BY <1>0, <1>2 DEF FinishRun, TaskInv, Running
  <2>3. status' = [q \in Runs |-> IF q \in {r} THEN s ELSE status[q]]
    BY <1>0, <1>2 DEF FinishRun, TypeOK
  <2>4. Lifecycle!Finish({r}, s)
    BY <2>2, <2>3 DEF Lifecycle!Finish
  <2> QED
    BY <2>1, <2>4 DEF Lifecycle!Next
<1>3. ASSUME Boot PROVE Lifecycle!Next \/ UNCHANGED status
  <2>1. CASE Orphaned = {}
    BY <1>0, <1>3, <2>1 DEF Boot, TypeOK
  <2>2. CASE Orphaned # {}
    <3>1. Orphaned \in SUBSET Runs /\ \A r \in Orphaned : status[r] = "running"
      BY DEF Orphaned, Running
    <3>2. Lifecycle!Finish(Orphaned, "error")
      BY <1>3, <2>2, <3>1 DEF Boot, Lifecycle!Finish
    <3> QED
      BY <3>1, <3>2 DEF Lifecycle!Next, Lifecycle!Finished
  <2> QED
    BY <2>1, <2>2
<1>4. ASSUME NEW r \in Runs, Submit(r) \/ (Work(r) /\ ~FinishRun(r)) PROVE UNCHANGED status
  BY <1>4 DEF Submit, Work, Probing, SourceUrls, Search, Raise, rowVars
<1>5. Dequeue \/ Crash \/ UNCHANGED vars => UNCHANGED status
  BY DEF Dequeue, Crash, vars, rowVars
<1> QED
  BY <1>1, <1>2, <1>3, <1>4, <1>5, RowsApart DEF Next

(* A row is created running, ends once, and then never changes: what a commit *)
(* reads of a finished search is what the client was shown.                 *)
THEOREM RowsImplement == Spec => ImplementsLifecycle
<1>1. Init => Lifecycle!Init
  BY DEF Init, Lifecycle!Init
<1> QED
  BY <1>1, LifecycleStep, Invariance, PTL
  DEF Spec, ImplementsLifecycle, Lifecycle!Spec
=============================================================================
