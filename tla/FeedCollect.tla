---------------------------- MODULE FeedCollect ----------------------------
(***************************************************************************)
(* Collecting one feed: collect.collect_source over fetch.fetch_rss_feed,  *)
(* store_cache.py and the item tables of store.py, and the other caller of *)
(* fetch_rss_feed, the preview of discovery.feed_headline_finder.          *)
(*                                                                         *)
(* The feed publishes entries 1, 2, 3, ... and shows the last Shown of     *)
(* them; its ETag is the number of the last one.  Collectors are threads   *)
(* of the server and the tick and nightly processes: nothing keeps two of  *)
(* them off the same source, and every Store call commits by itself.  A    *)
(* feed's rows are independent of every other feed's, so one is enough.    *)
(***************************************************************************)
EXTENDS Naturals, FiniteSets, FiniteSetsExt

CONSTANTS
  Threads,      \* collectors and previews
  Topics,
  Shown,        \* entries the feed document holds
  Cap,          \* max_stories_per_source: entries one pass takes
  MaxEntries,   \* bound on what the feed publishes
  MaxPreviews,  \* bound on headline previews of the feed
  MaxDeletes,   \* bound on deletions of the source
  MaxErrors,    \* bound on failed fetches
  MaxFaults     \* bound on failed item writes and dead processes

ASSUME SizesAssumption ==
  /\ Shown \in Nat \ {0} /\ Cap \in Nat \ {0}
  /\ MaxEntries \in Nat /\ MaxPreviews \in Nat
  /\ MaxDeletes \in Nat /\ MaxErrors \in Nat /\ MaxFaults \in Nat

VARIABLES
  last,      \* the newest entry the feed has published
  etag,      \* feed_cache.etag, 0 when there is no row
  links,     \* the topics of the source: topic_sources
  items,     \* items
  mapped,    \* item_topics
  pc,        \* what each thread does next
  scope,     \* topic_ids, read when the pass starts; {} for a preview
  sent,      \* the If-None-Match of the request
  body,      \* the document of the reply, by its newest entry
  todo,      \* entries the loop has not reached
  entry,     \* the entry being mapped
  unmapped,  \* the topics it has still to be mapped to
  excuse,    \* history: what could keep entries of the cached document out
  previews, deletes, errors, faults   \* counters for the bounds

store  == <<etag, links, items, mapped>>
counters == <<previews, deletes, errors, faults>>
locals == <<pc, scope, sent, body, todo, entry, unmapped>>
vars   == <<last, store, locals, excuse, counters>>

Entries == 1..MaxEntries
PCs == {"idle", "headers", "get", "cache", "loop", "map"}

\* What a pass takes of the document whose newest entry is n.
Smaller(a, b) == IF a < b THEN a ELSE b
Document(n) == {e \in Entries : e <= n /\ e + Shown > n}
Newest(n)   == {e \in Document(n) : e + Cap > n}

Init ==
  /\ last \in 0..Smaller(1, MaxEntries)
  /\ etag = 0
  /\ links \in SUBSET Topics
  /\ items = {} /\ mapped = {}
  /\ pc = [t \in Threads |-> "idle"]
  /\ scope = [t \in Threads |-> {}]
  /\ sent = [t \in Threads |-> 0]
  /\ body = [t \in Threads |-> 0]
  /\ todo = [t \in Threads |-> {}]
  /\ entry = [t \in Threads |-> 0]
  /\ unmapped = [t \in Threads |-> {}]
  /\ excuse = FALSE
  /\ previews = 0 /\ deletes = 0 /\ errors = 0 /\ faults = 0

-----------------------------------------------------------------------------
\* The publisher of the feed.
Publish ==
  /\ last < MaxEntries
  /\ last' = last + 1
  /\ UNCHANGED <<store, locals, excuse, counters>>

\* link_topic_source: the source is attached to one more topic.
Link(p) ==
  /\ p \notin links
  /\ links' = links \union {p}
  /\ excuse' = TRUE
  /\ UNCHANGED <<last, etag, items, mapped, locals, counters>>

\* delete_source: the source's links go, its items, its validator and a
\* collection under way stay; adding the feed again is a Link.
DeleteSource ==
  /\ links # {}
  /\ deletes < MaxDeletes
  /\ deletes' = deletes + 1
  /\ links' = {}
  /\ UNCHANGED <<last, etag, items, mapped, locals, excuse, previews, errors,
                 faults>>

Idle(t) ==
  /\ pc' = [pc EXCEPT ![t] = "idle"]
  /\ scope' = [scope EXCEPT ![t] = {}]
  /\ sent' = [sent EXCEPT ![t] = 0]
  /\ body' = [body EXCEPT ![t] = 0]
  /\ todo' = [todo EXCEPT ![t] = {}]
  /\ entry' = [entry EXCEPT ![t] = 0]
  /\ unmapped' = [unmapped EXCEPT ![t] = {}]

\* collect_source starts: source_topic_ids.
BeginCollect(t) ==
  /\ pc[t] = "idle"
  /\ links # {}
  /\ scope' = [scope EXCEPT ![t] = links]
  /\ pc' = [pc EXCEPT ![t] = "headers"]
  /\ UNCHANGED <<last, store, sent, body, todo, entry, unmapped, excuse,
                 counters>>

\* feed_headline_finder: the same fetch, for its titles only.
BeginPreview(t) ==
  /\ pc[t] = "idle"
  /\ previews < MaxPreviews
  /\ previews' = previews + 1
  /\ pc' = [pc EXCEPT ![t] = "headers"]
  /\ UNCHANGED <<last, store, scope, sent, body, todo, entry, unmapped, excuse,
                 deletes, errors, faults>>

Preview(t) == pc[t] # "idle" /\ scope[t] = {}

\* get_feed_cache_headers
ReadHeaders(t) ==
  /\ pc[t] = "headers"
  /\ sent' = [sent EXCEPT ![t] = etag]
  /\ pc' = [pc EXCEPT ![t] = "get"]
  /\ UNCHANGED <<last, store, scope, body, todo, entry, unmapped, excuse,
                 counters>>

\* The validator still holds: 304, nothing to do.
NotModified(t) ==
  /\ pc[t] = "get"
  /\ sent[t] # 0 /\ sent[t] = last
  /\ Idle(t)
  /\ UNCHANGED <<last, store, excuse, counters>>

\* 200 with the document of this moment.
Fetched(t) ==
  /\ pc[t] = "get"
  /\ sent[t] = 0 \/ sent[t] # last
  /\ body' = [body EXCEPT ![t] = last]
  /\ pc' = [pc EXCEPT ![t] = "cache"]
  /\ UNCHANGED <<last, store, scope, sent, todo, entry, unmapped, excuse,
                 counters>>

\* A FetchError: transport, TLS or an HTTP error.
FetchFails(t) ==
  /\ pc[t] = "get"
  /\ errors < MaxErrors
  /\ errors' = errors + 1
  /\ Idle(t)
  /\ UNCHANGED <<last, store, excuse, previews, deletes, faults>>

\* What a fetch does to what the validator vouches for: a preview stores
\* none of the entries, and a collection only for the topics it has read.
Excuse(t) == scope[t] # links

\* Faulty variant: the cap is applied in the order of the document, which
\* lists its oldest entry first.
TakesOldest(t) == {e \in Document(body[t]) : e + Shown <= body[t] + Cap}

\* The entries the loop will store: newest first, up to the cap.
Takes(t) == Newest(body[t])

WriteCache(t) ==
  /\ pc[t] = "cache"
  /\ etag' = body[t]
  /\ excuse' = Excuse(t)
  /\ IF Preview(t)
       THEN Idle(t)
       ELSE /\ pc' = [pc EXCEPT ![t] = "loop"]
            /\ todo' = [todo EXCEPT ![t] = Takes(t)]
            /\ UNCHANGED <<scope, sent, body, entry, unmapped>>
  /\ UNCHANGED <<last, links, items, mapped, counters>>

\* Faulty variant: only an entry that was not in the table yet is mapped.
MapsInserted(t, e) == IF e \in items THEN {} ELSE scope[t]

\* An entry is mapped to every topic of the snapshot, inserted or not.
Maps(t, e) == scope[t]

\* upsert_item, for the newest entry left.
UpsertItem(t) ==
  /\ pc[t] = "loop"
  /\ todo[t] # {}
  /\ LET e == Max(todo[t]) IN
       /\ items' = items \union {e}
       /\ todo' = [todo EXCEPT ![t] = @ \ {e}]
       /\ entry' = [entry EXCEPT ![t] = e]
       /\ unmapped' = [unmapped EXCEPT ![t] = Maps(t, e)]
       /\ pc' = [pc EXCEPT ![t] = IF Maps(t, e) = {} THEN "loop" ELSE "map"]
  /\ UNCHANGED <<last, etag, links, mapped, scope, sent, body, excuse,
                 counters>>

\* map_item_topic, for one topic of the snapshot.
MapItemTopic(t) ==
  /\ pc[t] = "map"
  /\ \E p \in unmapped[t] :
       /\ mapped' = mapped \union {<<entry[t], p>>}
       /\ unmapped' = [unmapped EXCEPT ![t] = @ \ {p}]
       /\ pc' = [pc EXCEPT ![t] = IF unmapped[t] = {p} THEN "loop" ELSE "map"]
  /\ UNCHANGED <<last, etag, links, items, scope, sent, body, todo, entry, excuse,
                 counters>>

\* Faulty variant: after a failed upsert the loop goes on to map the entry.
ItemFailsMapped(t) ==
  /\ pc[t] = "loop" /\ todo[t] # {}
  /\ faults < MaxFaults
  /\ faults' = faults + 1
  /\ excuse' = TRUE
  /\ pc' = [pc EXCEPT ![t] = "map"]
  /\ entry' = [entry EXCEPT ![t] = Max(todo[t])]
  /\ todo' = [todo EXCEPT ![t] = @ \ {Max(@)}]
  /\ unmapped' = [unmapped EXCEPT ![t] = scope[t]]
  /\ UNCHANGED <<last, store, scope, sent, body, previews, deletes, errors>>

\* An exception in upsert_item or map_item_topic skips to the next entry.
ItemFails(t) ==
  /\ pc[t] = "map" \/ (pc[t] = "loop" /\ todo[t] # {})
  /\ faults < MaxFaults
  /\ faults' = faults + 1
  /\ excuse' = TRUE
  /\ pc' = [pc EXCEPT ![t] = "loop"]
  /\ todo' = [todo EXCEPT ![t] = IF pc[t] = "map" THEN @ ELSE @ \ {Max(@)}]
  /\ unmapped' = [unmapped EXCEPT ![t] = {}]
  /\ UNCHANGED <<last, store, scope, sent, body, entry, previews, deletes, errors>>

EndCollect(t) ==
  /\ pc[t] = "loop"
  /\ todo[t] = {}
  /\ Idle(t)
  /\ UNCHANGED <<last, store, excuse, counters>>

\* The thread's process dies.  Past the cache write its entries are lost.
Die(t) ==
  /\ pc[t] # "idle"
  /\ faults < MaxFaults
  /\ faults' = faults + 1
  /\ excuse' = (excuse \/ pc[t] \in {"loop", "map"})
  /\ Idle(t)
  /\ UNCHANGED <<last, store, previews, deletes, errors>>

-----------------------------------------------------------------------------
Step(t) ==
  \/ ReadHeaders(t) \/ NotModified(t) \/ Fetched(t) \/ FetchFails(t)
  \/ WriteCache(t) \/ UpsertItem(t) \/ MapItemTopic(t) \/ ItemFails(t)
  \/ EndCollect(t) \/ Die(t)

Next ==
  \/ Publish \/ DeleteSource
  \/ \E p \in Topics : Link(p)
  \/ \E t \in Threads : BeginCollect(t) \/ BeginPreview(t) \/ Step(t)

Spec == Init /\ [][Next]_vars

(* The scheduler starts a pass again and again, and a pass that has started  *)
(* goes on; nobody is obliged to publish, link or preview.                  *)
Fairness == \A t \in Threads : WF_vars(BeginCollect(t)) /\ WF_vars(Step(t))

FairSpec == Spec /\ Fairness

-----------------------------------------------------------------------------
\* Typing; a thread past the request has a document or has gone idle.
TypeOK ==
  /\ last \in 0..MaxEntries
  /\ etag \in 0..last
  /\ links \subseteq Topics
  /\ items \subseteq 1..last
  /\ mapped \subseteq items \X Topics
  /\ pc \in [Threads -> PCs]
  /\ scope \in [Threads -> SUBSET Topics]
  /\ sent \in [Threads -> 0..last]
  /\ body \in [Threads -> 0..last]
  /\ todo \in [Threads -> SUBSET (1..last)]
  /\ entry \in [Threads -> 0..last]
  /\ unmapped \in [Threads -> SUBSET Topics]
  /\ \A t \in Threads : pc[t] = "map" => entry[t] \in items /\ unmapped[t] # {}
  /\ excuse \in BOOLEAN
  /\ previews \in 0..MaxPreviews /\ deletes \in 0..MaxDeletes
  /\ errors \in 0..MaxErrors
  /\ faults \in 0..MaxFaults

(***************************************************************************)
(* An entry the cache vouches for is there.  A conditional GET with the    *)
(* stored validator answers 304 and the entry will not be offered again,   *)
(* so every entry of that document a pass takes is an item of each topic   *)
(* of the source, or a thread is about to put it there, whatever collectors *)
(* overlapped and in whatever order their replies were written -- unless   *)
(* since the last full write of the validator a preview wrote it, a topic  *)
(* was added, an item write failed or a collector died (excuse).           *)
(***************************************************************************)
Pending(t, e, p) ==
  /\ p \in scope[t]
  /\ \/ e \in todo[t]
     \/ pc[t] = "map" /\ entry[t] = e /\ p \in unmapped[t]

VouchedIsCollected ==
  ~excuse /\ etag # 0 =>
    \A e \in Newest(etag), p \in links :
      <<e, p>> \in mapped \/ \E t \in Threads : Pending(t, e, p)

(***************************************************************************)
(* A collection that is scheduled again and again catches up: an entry in  *)
(* reach of a pass becomes an item of every topic of the source or scrolls *)
(* out of the document.  (Checked without previews, deletions and faults,  *)
(* and with one topic.)                                                    *)
(***************************************************************************)
EntriesArrive ==
  \A e \in Entries, p \in Topics :
    e \in Newest(last) /\ p \in links ~> <<e, p>> \in mapped \/ e \notin Newest(last)

(***************************************************************************)
(* discovery_commit.py:197: after the sources are added "they're available *)
(* right now".  When a pass over a source ends without an error, the       *)
(* entries in the feed are items of the topics it was for.                 *)
(***************************************************************************)
CollectedIsAvailable ==
  [][\A t \in Threads : scope[t] # {} /\ (NotModified(t) \/ EndCollect(t)) =>
       \A e \in Newest(IF pc[t] = "get" THEN sent[t] ELSE body[t]), p \in scope[t] :
         <<e, p>> \in mapped]_vars
=============================================================================
