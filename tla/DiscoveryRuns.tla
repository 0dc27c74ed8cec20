--------------------------- MODULE DiscoveryRuns ---------------------------
(***************************************************************************)
(* On-demand source searches and the placement of what they find:          *)
(*   discovery_runner.py  run_discovery on a bounded thread pool            *)
(*   discovery.py         discover_for_query, which persists nothing        *)
(*   discovery_commit.py  commit_discovery, from the chat or the button     *)
(*   topic_index.py       the embedding index a commit ranks topics with    *)
(*   store_discovery.py   the discovery_runs row a client polls             *)
(* Searches, commits and owners share the topics, the sources and their     *)
(* links; every action is one committed statement or one network call.      *)
(* The model follows one user and one conversation of theirs.               *)
(***************************************************************************)
EXTENDS Naturals, Sequences, FiniteSets, FiniteSetsExt

CONSTANTS
  MaxRuns,      \* searches of the conversation, numbered as they are created
  MaxCommits,   \* calls of commit_discovery, numbered as they begin
  Topics,       \* topic slugs, unique in the topics table
  Feeds,        \* feed URLs, unique in the sources table
  Workers,      \* config.provision_workers()
  MaxFaults,    \* bound on exceptions and deaths of the serving process
  MaxEdits      \* bound on what others do to the shared tables

ASSUME DiscoveryAssumption ==
  /\ MaxRuns \in Nat /\ MaxCommits \in Nat /\ Workers \in Nat \ {0}
  /\ MaxFaults \in Nat /\ MaxEdits \in Nat

Runs    == 1..MaxRuns
Commits == 1..MaxCommits

VARIABLES
  status,     \* discovery_runs.status
  stage,      \* discovery_runs.stage
  result,     \* the candidates of result_json
  committed,  \* committed_at is set
  up,         \* the serving process is running
  queue,      \* tasks the pool has not started
  pc,         \* the statement a search executes next
  known,      \* the source_urls() snapshot of a search, then what it found
  topics,     \* the topics table
  meta,       \* topics with a vector in topic_embeddings
  subscribed, \* the user's subscriptions
  src,        \* sources.status
  links,      \* topic_sources
  cpc,        \* the statement a commit executes next
  of,         \* the search a commit places
  targets,    \* topics a commit has still to attach the feeds to
  todo,       \* feeds left in the loop a commit is in
  adding,     \* the feed add_source has returned and that is not yet active
  placed,     \* source_ids
  decided,    \* history: feeds rejected or disabled when a search began
  touched,    \* history: feeds an owner or a tick has changed
  left,       \* history: topics the user has unsubscribed from
  lost,       \* history: searches whose last write failed
  faults, edits   \* counters for the bounds

rowVars    == <<status, stage, result>>
searchVars == <<queue, pc, known, decided>>
tableVars  == <<topics, meta, subscribed, src, links>>
commitVars == <<cpc, of, targets, todo, adding, placed>>
history    == <<touched, left>>
vars == <<rowVars, committed, up, searchVars, tableVars, commitVars, history,
          lost, faults, edits>>

SearchPoints == {"probing", "source_urls", "search", "finish", "rescue"}
CommitPoints == {"meta", "rank", "name", "feeds", "link", "mark"}
Statuses     == {"absent", "running", "done", "error"}
States       == {"absent", "candidate", "active", "disabled", "rejected"}

Running(r)   == status[r] = "running"
Threads      == {r \in Runs : pc[r] \in SearchPoints}
Committing   == {c \in Commits : cpc[c] \in CommitPoints}

-----------------------------------------------------------------------------
Init ==
  /\ status = [r \in Runs |-> "absent"]
  /\ stage = [r \in Runs |-> "searching"]
  /\ result = [r \in Runs |-> {}]
  /\ committed = [r \in Runs |-> FALSE]
  /\ up = TRUE
  /\ queue = <<>>
  /\ pc = [r \in Runs |-> "off"]
  /\ known = [r \in Runs |-> {}]
  /\ decided = [r \in Runs |-> {}]
  /\ topics = {} /\ meta = {} /\ subscribed = {}
  /\ src = [f \in Feeds |-> "absent"]
  /\ links = {}
  /\ cpc = [c \in Commits |-> "idle"]
  /\ of \in [Commits -> {0}]
  /\ targets = [c \in Commits |-> {}]
  /\ todo = [c \in Commits |-> {}]
  /\ adding = [c \in Commits |-> {}]
  /\ placed = [c \in Commits |-> {}]
  /\ touched = {} /\ left = {} /\ lost = {}
  /\ faults = 0 /\ edits = 0

-----------------------------------------------------------------------------
(* The find_sources tool, past its budget gate: create_discovery_run commits *)
(* the row ...                                                              *)
CreateRun(r) ==
  /\ up
  /\ status[r] = "absent"
  /\ \A q \in 1..(r - 1) : status[q] # "absent"
  /\ status' = [status EXCEPT ![r] = "running"]
  /\ pc' = [pc EXCEPT ![r] = "posted"]
  /\ UNCHANGED <<stage, result, committed, up, queue, known, decided, tableVars,
                 commitVars, history, lost, faults, edits>>

(* ... and submit hands the task to the pool.                               *)
Submit(r) ==
  /\ pc[r] = "posted"
  /\ pc' = [pc EXCEPT ![r] = "queued"]
  /\ queue' = Append(queue, r)
  /\ UNCHANGED <<rowVars, committed, up, known, decided, tableVars, commitVars,
                 history, lost, faults, edits>>

Dequeue ==
  /\ queue # <<>>
  /\ Cardinality(Threads) < Workers
  /\ pc' = [pc EXCEPT ![Head(queue)] = "probing"]
  /\ queue' = Tail(queue)
  /\ UNCHANGED <<rowVars, committed, up, known, decided, tableVars, commitVars,
                 history, lost, faults, edits>>

(* set_discovery_stage *)
Probing(r) ==
  /\ pc[r] = "probing"
  /\ stage' = [stage EXCEPT ![r] = "probing"]
  /\ pc' = [pc EXCEPT ![r] = "source_urls"]
  /\ UNCHANGED <<status, result, committed, up, queue, known, decided, tableVars,
                 commitVars, history, lost, faults, edits>>

(* existing = store.source_urls(): every feed in the table, whatever its     *)
(* state, so that one an owner has ruled out is not proposed again.         *)
\* mutant: the snapshot holds the feeds in use only
ActiveUrls == {f \in Feeds : src[f] \in {"candidate", "active"}}

Urls == {f \in Feeds : src[f] # "absent"}

SourceUrls(r) ==
  /\ pc[r] = "source_urls"
  /\ known' = [known EXCEPT ![r] = Urls]
  /\ decided' = [decided EXCEPT
       ![r] = {f \in Feeds : src[f] \in {"disabled", "rejected"}}]
  /\ pc' = [pc EXCEPT ![r] = "search"]
  /\ UNCHANGED <<rowVars, committed, up, queue, tableVars, commitVars, history,
                 lost, faults, edits>>

(* discover_for_query: the web search and the probing of sites turn up some   *)
(* feeds, those in the snapshot are skipped, and the rest are the result.    *)
Search(r) ==
  /\ pc[r] = "search"
  /\ \E hits \in SUBSET Feeds : known' = [known EXCEPT ![r] = hits \ known[r]]
  /\ pc' = [pc EXCEPT ![r] = "finish"]
  /\ UNCHANGED <<rowVars, committed, up, queue, decided, tableVars, commitVars,
                 history, lost, faults, edits>>

(* finish_discovery_run, as 'done' with the result or, in the except clause,  *)
(* as 'error'; the stage is 'ready' either way.                             *)
FinishRun(r) ==
  /\ pc[r] \in {"finish", "rescue"}
  /\ status' = [status EXCEPT ![r] = IF pc[r] = "finish" THEN "done" ELSE "error"]
  /\ result' = [result EXCEPT ![r] = IF pc[r] = "finish" THEN known[r] ELSE {}]
  /\ stage' = [stage EXCEPT ![r] = "ready"]
  /\ pc' = [pc EXCEPT ![r] = "off"]
  /\ known' = [known EXCEPT ![r] = {}]
  /\ UNCHANGED <<committed, up, queue, decided, tableVars, commitVars, history,
                 lost, faults, edits>>

(* Any exception goes to the except clause; one raised there is swallowed.   *)
\* mutant: run_discovery has no except clause
HandlerNone(p) == "off"

Handler(p) == IF p = "rescue" THEN "off" ELSE "rescue"

Raise(r) ==
  /\ pc[r] \in SearchPoints
  /\ faults < MaxFaults
  /\ faults' = faults + 1
  /\ pc' = [pc EXCEPT ![r] = Handler(pc[r])]
  /\ known' = [known EXCEPT ![r] = {}]
  /\ lost' = IF pc[r] = "rescue" THEN lost \union {r} ELSE lost
  /\ UNCHANGED <<rowVars, committed, up, queue, decided, tableVars, commitVars,
                 history, edits>>

-----------------------------------------------------------------------------
(* The calls in C return to their callers, and their locals are gone.         *)
Return(C) ==
  LET cleared(g) == [c \in Commits |-> IF c \in C THEN {} ELSE g[c]] IN
  /\ cpc' = [c \in Commits |-> IF c \in C THEN "over" ELSE cpc[c]]
  /\ targets' = cleared(targets)
  /\ todo' = cleared(todo)
  /\ adding' = cleared(adding)
  /\ placed' = cleared(placed)
  /\ of' = [c \in Commits |-> IF c \in C THEN 0 ELSE of[c]]

(* commit_discovery.  The chat commits the newest finished search of the      *)
(* conversation that is not committed, the button any finished search; one   *)
(* without candidates is refused, so an empty search hides the older ones    *)
(* from the chat.                                                           *)
Committable == {r \in Runs : status[r] = "done" /\ ~committed[r]}

ChatPicks   == IF Committable = {} THEN {} ELSE {Max(Committable)}
ButtonPicks == {r \in Runs : status[r] = "done"}

Commit(c) ==
  /\ up
  /\ cpc[c] = "idle"
  /\ \A d \in 1..(c - 1) : cpc[d] # "idle"
  /\ \E r \in ChatPicks \union ButtonPicks :
       /\ result[r] # {}
       /\ of' = [of EXCEPT ![c] = r]
  /\ cpc' = [cpc EXCEPT ![c] = "meta"]
  /\ UNCHANGED <<rowVars, committed, up, searchVars, tableVars, targets, todo,
                 adding, placed, history, lost, faults, edits>>

(* ensure_meta_embeddings: the topics without a vector get one, so that the   *)
(* ranking sees them; with embeddings off there is no ranking at all.        *)
Missing == topics \ meta

EnsureMeta(c) ==
  /\ cpc[c] = "meta"
  /\ \/ /\ meta' = meta \union Missing
        /\ cpc' = [cpc EXCEPT ![c] = "rank"]
     \/ /\ cpc' = [cpc EXCEPT ![c] = "name"]
        /\ UNCHANGED meta
  /\ UNCHANGED <<rowVars, committed, up, searchVars, topics, subscribed, src,
                 links, of, targets, todo, adding, placed, history, lost,
                 faults, edits>>

(* rank_topics, over topics_with_any_embedding: the scores are the            *)
(* embedder's, so any of these topics may pass the thresholds.               *)
Ranked == meta

(* decide_targets: the topics that pass, or a new one if none does.          *)
Mode(T) == IF T = {} THEN "name" ELSE "feeds"

Rank(c) ==
  /\ cpc[c] = "rank"
  /\ \E T \in SUBSET Ranked :
       /\ targets' = [targets EXCEPT ![c] = T]
       /\ todo' = [todo EXCEPT ![c] = IF T = {} THEN {} ELSE result[of[c]]]
       /\ cpc' = [cpc EXCEPT ![c] = Mode(T)]
  /\ UNCHANGED <<rowVars, committed, up, searchVars, tableVars, of, adding,
                 placed, history, lost, faults, edits>>

(* _craft_topic_name: the LLM's choice, or the query's words.                *)
Names == Topics

(* moderate_topic refuses the slug, the words or, by the classifier's answer  *)
(* or its absence, the subject: the commit ends with nothing done.           *)
RejectTopic(c) ==
  /\ cpc[c] = "name"
  /\ Return({c})
  /\ UNCHANGED <<rowVars, committed, up, searchVars, tableVars, history, lost,
                 faults, edits>>

(* add_topic ignores a slug that is already there.                          *)
\* mutant: the topic is named and never stored
StoredNot(t) == topics

Stored(t) == topics \union {t}

NewTopic(c) ==
  /\ cpc[c] = "name"
  /\ \E t \in Names :
       /\ topics' = Stored(t)
       /\ targets' = [targets EXCEPT ![c] = {t}]
  /\ todo' = [todo EXCEPT ![c] = result[of[c]]]
  /\ cpc' = [cpc EXCEPT ![c] = "feeds"]
  /\ UNCHANGED <<rowVars, committed, up, searchVars, meta, subscribed, src, links,
                 of, adding, placed, history, lost, faults, edits>>

(* add_source, INSERT OR IGNORE; then set_source_status, so that a feed       *)
(* someone has stored since the search ends up active as well.              *)
AddSource(c) ==
  /\ cpc[c] = "feeds"
  /\ adding[c] = {}
  /\ \E f \in todo[c] :
       /\ src' = [src EXCEPT ![f] = IF @ = "absent" THEN "active" ELSE @]
       /\ adding' = [adding EXCEPT ![c] = {f}]
       /\ todo' = [todo EXCEPT ![c] = @ \ {f}]
  /\ UNCHANGED <<rowVars, committed, up, searchVars, topics, meta, subscribed,
                 links, cpc, of, targets, placed, history, lost, faults, edits>>

\* mutant: the status is left as the row had it
KeepStatus(fs) == src

Activated(fs) == [f \in Feeds |-> IF f \in fs THEN "active" ELSE src[f]]

SetActive(c) ==
  /\ cpc[c] = "feeds"
  /\ adding[c] # {}
  /\ src' = Activated(adding[c])
  /\ placed' = [placed EXCEPT ![c] = @ \union adding[c]]
  /\ adding' = [adding EXCEPT ![c] = {}]
  /\ UNCHANGED <<rowVars, committed, up, searchVars, topics, meta, subscribed,
                 links, cpc, of, targets, todo, history, lost, faults, edits>>

(* The next target, or the end of the loop over them.                       *)
NextTarget(c) ==
  /\ cpc[c] = "feeds"
  /\ todo[c] = {} /\ adding[c] = {}
  /\ cpc' = [cpc EXCEPT ![c] = IF targets[c] = {} THEN "mark" ELSE "link"]
  /\ todo' = [todo EXCEPT ![c] = IF targets[c] = {} THEN {} ELSE placed[c]]
  /\ UNCHANGED <<rowVars, committed, up, searchVars, tableVars, of, targets,
                 adding, placed, history, lost, faults, edits>>

(* link_topic_source of every feed, one statement each, then subscribe.      *)
Current(c) == CHOOSE t \in targets[c] : TRUE

LinkSource(c) ==
  /\ cpc[c] = "link"
  /\ \E f \in todo[c] :
       /\ links' = links \union {<<Current(c), f>>}
       /\ todo' = [todo EXCEPT ![c] = @ \ {f}]
  /\ UNCHANGED <<rowVars, committed, up, searchVars, topics, meta, subscribed, src,
                 cpc, of, targets, adding, placed, history, lost, faults, edits>>

Subscribe(c) ==
  /\ cpc[c] = "link"
  /\ todo[c] = {}
  /\ subscribed' = subscribed \union {Current(c)}
  /\ targets' = [targets EXCEPT ![c] = @ \ {Current(c)}]
  /\ cpc' = [cpc EXCEPT ![c] = "feeds"]
  /\ UNCHANGED <<rowVars, committed, up, searchVars, topics, meta, src, links, of,
                 todo, adding, placed, history, lost, faults, edits>>

(* mark_discovery_committed; the collection it then submits is FeedCollect's. *)
Mark(c) ==
  /\ cpc[c] = "mark"
  /\ committed' = [committed EXCEPT ![of[c]] = TRUE]
  /\ Return({c})
  /\ UNCHANGED <<rowVars, up, searchVars, tableVars, history, lost, faults, edits>>

(* An exception of a commit (the embedder, the database) reaches its caller. *)
CommitRaises(c) ==
  /\ c \in Committing
  /\ faults < MaxFaults
  /\ faults' = faults + 1
  /\ Return({c})
  /\ UNCHANGED <<rowVars, committed, up, searchVars, tableVars, history, lost, edits>>

-----------------------------------------------------------------------------
Crash ==
  /\ up
  /\ faults < MaxFaults
  /\ faults' = faults + 1
  /\ up' = FALSE
  /\ queue' = <<>>
  /\ pc' = [r \in Runs |-> "off"]
  /\ known' = [r \in Runs |-> {}]
  /\ Return(Committing)
  /\ UNCHANGED <<rowVars, committed, decided, tableVars, history, lost, edits>>

(* fail_orphaned_discovery_runs, before the application starts to serve      *)
\* mutant: the sweep looks at committed_at instead of the status
OrphanedUncommitted == {r \in Runs : status[r] # "absent" /\ ~committed[r]}

Orphaned == {r \in Runs : Running(r)}

Boot ==
  /\ ~up
  /\ up' = TRUE
  /\ status' = [r \in Runs |-> IF r \in Orphaned THEN "error" ELSE status[r]]
  /\ lost' = lost \ Orphaned
  /\ UNCHANGED <<stage, result, committed, searchVars, tableVars, commitVars,
                 history, faults, edits>>

-----------------------------------------------------------------------------
(* What owners, ticks and provisioning runs do to the shared tables.         *)
Editing ==
  /\ edits < MaxEdits
  /\ edits' = edits + 1
  /\ UNCHANGED <<rowVars, committed, up, searchVars, cpc, of, lost, faults>>

(* The approve, enable, reject and disable routes; the auto-disable.         *)
SetSourceStatus(f, st) ==
  /\ Editing
  /\ src[f] # "absent"
  /\ src' = [src EXCEPT ![f] = st]
  /\ touched' = touched \union {f}
  /\ UNCHANGED <<topics, meta, subscribed, links, targets, todo, adding, placed, left>>

(* A provisioning run or a tick stores the same feed, as a candidate.        *)
InsertSource(f) ==
  /\ Editing
  /\ src[f] = "absent"
  /\ src' = [src EXCEPT ![f] = "candidate"]
  /\ UNCHANGED <<topics, meta, subscribed, links, targets, todo, adding, placed, history>>

(* delete_source: what a commit still does under the row's id has no effect. *)
DeleteSource(f) ==
  /\ Editing
  /\ src[f] # "absent"
  /\ src' = [src EXCEPT ![f] = "absent"]
  /\ links' = links \ (Topics \X {f})
  /\ touched' = touched \union {f}
  /\ adding' = [c \in Commits |-> adding[c] \ {f}]
  /\ placed' = [c \in Commits |-> placed[c] \ {f}]
  /\ todo' = [c \in Commits |-> IF cpc[c] = "link" THEN todo[c] \ {f} ELSE todo[c]]
  /\ UNCHANGED <<topics, meta, subscribed, targets, left>>

CreateTopic(t) ==
  /\ Editing
  /\ t \notin topics
  /\ topics' = topics \union {t}
  /\ UNCHANGED <<meta, subscribed, src, links, targets, todo, adding, placed, history>>

Unsubscribe(t) ==
  /\ Editing
  /\ t \in subscribed
  /\ subscribed' = subscribed \ {t}
  /\ left' = left \union {t}
  /\ UNCHANGED <<topics, meta, src, links, targets, todo, adding, placed, touched>>

-----------------------------------------------------------------------------
Work(r) == Probing(r) \/ SourceUrls(r) \/ Search(r) \/ FinishRun(r) \/ Raise(r)

Place(c) ==
  \/ EnsureMeta(c) \/ Rank(c) \/ RejectTopic(c) \/ NewTopic(c) \/ AddSource(c)
  \/ SetActive(c) \/ NextTarget(c) \/ LinkSource(c) \/ Subscribe(c) \/ Mark(c) \/ CommitRaises(c)

Edit ==
  \/ \E f \in Feeds :
       \/ \E st \in {"active", "disabled", "rejected"} : SetSourceStatus(f, st)
       \/ InsertSource(f) \/ DeleteSource(f)
  \/ \E t \in Topics : CreateTopic(t) \/ Unsubscribe(t)

Next ==
  \/ \E r \in Runs : CreateRun(r) \/ Submit(r) \/ Work(r)
  \/ \E c \in Commits : Commit(c) \/ Place(c)
  \/ Dequeue \/ Crash \/ Boot \/ Edit

Spec == Init /\ [][Next]_vars

(* Threads run, a handler finishes its two statements, the pool starts a     *)
(* task when a thread is free, and the supervisor restarts the server.       *)
Fairness ==
  /\ \A r \in Runs : WF_vars(Submit(r) \/ Work(r))
  /\ WF_vars(Dequeue)
  /\ WF_vars(Boot)

FairSpec == Spec /\ Fairness

-----------------------------------------------------------------------------
TypeOK ==
  /\ status \in [Runs -> Statuses]
  /\ stage \in [Runs -> {"searching", "probing", "ready"}]
  /\ result \in [Runs -> SUBSET Feeds]
  /\ committed \in [Runs -> BOOLEAN]
  /\ up \in BOOLEAN
  /\ queue \in Seq(Runs)
  /\ pc \in [Runs -> {"off", "posted", "queued"} \union SearchPoints]
  /\ known \in [Runs -> SUBSET Feeds]
  /\ decided \in [Runs -> SUBSET Feeds]
  /\ topics \subseteq Topics /\ meta \subseteq topics /\ subscribed \subseteq topics
  /\ src \in [Feeds -> States]
  /\ links \subseteq topics \X Feeds
  /\ cpc \in [Commits -> {"idle", "over"} \union CommitPoints]
  /\ of \in [Commits -> Runs \union {0}]
  /\ targets \in [Commits -> SUBSET topics]
  /\ todo \in [Commits -> SUBSET Feeds]
  /\ adding \in [Commits -> SUBSET Feeds]
  /\ placed \in [Commits -> SUBSET Feeds]
  /\ touched \subseteq Feeds /\ left \subseteq Topics
  /\ lost \subseteq Runs
  /\ faults \in 0..MaxFaults /\ edits \in 0..MaxEdits

(* store_discovery.py: committed_at takes a search off the chat's list for    *)
(* good.  So by then every feed it offered is active and linked to a topic   *)
(* the user follows, whatever commits ran beside it and whoever stored the   *)
(* feed meanwhile; unless an owner changed the feed, or the user has left    *)
(* the topic.                                                               *)
CommittedIsPlaced ==
  \A r \in Runs : committed[r] =>
    \A f \in result[r] \ touched :
      /\ src[f] = "active"
      /\ \E t \in subscribed \union left : <<t, f>> \in links

(* A feed that was rejected or disabled when a search began is not revived    *)
(* by committing that search: the search cannot offer it.  (One ruled out    *)
(* later, between the search and the commit, is.)                           *)
EarlierDecisionsStick ==
  [][\A f \in Feeds :
       src[f] \in {"disabled", "rejected"} /\ src'[f] = "active" =>
         \/ SetSourceStatus(f, "active")
         \/ \E c \in Commits :
              adding[c] = {f} /\ adding'[c] = {} /\ f \notin decided[of[c]]]_vars

(* Everything a search or a commit reads while the process is alive belongs   *)
(* to a finished search: a client that saw 'done' or 'error' never sees the  *)
(* row move, and a crash does not undo a result.                           *)
Lifecycle == INSTANCE RunLifecycle WITH row <- status
ImplementsLifecycle == Lifecycle!Spec

(* Every search ends, unless the database refused its last write and nobody  *)
(* restarts the server.                                                     *)
SearchEnds ==
  \A r \in Runs : Running(r) ~> (status[r] \in {"done", "error"} \/ r \in lost)
=============================================================================
