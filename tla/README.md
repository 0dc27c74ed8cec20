# BriefBot 2 in TLA+

BriefBot (`bbv2`) is a multi-user news service: it discovers RSS feeds for a
topic, collects their stories on a schedule, filters and scores them, writes
daily briefs with a language model and serves them to a dashboard, to e-mail
subscribers and to machine consumers. It is one Python process (FastAPI on a
thread pool, with background pools of its own) and two cron processes (`tick`
and `nightly`) that share one SQLite database.

This directory models the parts of it whose correctness depends on what happens
*between* statements: TLA+ modules, TLC configurations, and TLAPS proofs.

## 1. How the code is cut into steps

Every module uses the same rule, taken from `bbv2/store.py:49-93`.

* Each method of `Store` runs one SQL statement (or one transaction) and
  commits. Connections are per thread, in WAL mode, with a busy timeout. So a
  `Store` call is atomic, and **anything may happen between two of them**:
  another request on the thread pool, a background worker, a `tick`, the CLI.
* A handler that makes n calls is therefore n actions, with the values it has
  read in local variables (`pc`, `user`, `known`, `todo`, ...) in between. What
  it computes without a call belongs to the action of the call before or after.
* In-memory state is cut at its lock (`ratelimit.py`).
* A process may die between any two calls. Its threads, queues and local
  variables are lost; what it committed stays.
* Numbers of rows, faults, crashes and outside edits are bounded by constants
  named `Max...`, which guard the actions that use them up.

## 2. Inventory

| component | code | state | operations | what is hard | model |
|---|---|---|---|---|---|
| rate limiter | `ratelimit.py` | a deque of times per key, a sweep counter | `check`, `_sweep` | clock read before the lock; eviction; boundaries | `RateLimiter` |
| sessions and accounts | `auth_api.py`, `store_sessions.py`, `store_users.py`, `store_spaces.py`, `dashboard_api.py:43-78` | users, spaces, `user_sessions` with `replaced_by` | exchange, refresh (rotation), logout, PATCH of a user, revoke-sessions, CLI | multi-statement handlers racing each other; death in the middle; stale checks | `Sessions` |
| tokens, capabilities | `authjwt.py`, `auth.py`, `rbac.py` | none (a static table) | verify, `can` | – | a constant of `Sessions` |
| provisioning runs | `provision.py`, `provision_runner.py`, `store_provision.py`, `agent_runs.py` | `provision_runs`, a bounded pool and its queue | create, submit, the stage pipeline, finish, boot sweep | crash recovery; swallowed failures; shared sources; progress | `ProvisionRuns`, `RunLifecycle` |
| source discovery | `discovery.py`, `brave.py`, `discover.py` | `sources`, `topic_sources` | search, persist, preview | a snapshot used minutes later | in `ProvisionRuns`, `FeedCollect` |
| discovery runs and commit | `discovery_runner.py`, `store_discovery.py`, `discovery_commit.py` | `discovery_runs` with `committed_at` | create, run, commit | commit twice; revived sources; a commit that stops half-way | `DiscoveryRuns`, `RunLifecycle` |
| feed collection | `collect.py`, `fetch.py`, `store_cache.py`, `store.py:326-367` | `feed_cache`, `items`, `item_topics` | conditional GET, item loop | validator stored before the items; concurrent collectors | `FeedCollect` |
| source lifecycle, health | `store.py:187-323`, `collect.py:148-180`, `dashboard_api.py:425-460` | `sources.status`, failure streak | approve, reject, disable, enable, delete, bump | everyone writes it; bump, then read; only enabling clears the streak | states in `ProvisionRuns`, states and streak in `Tick` |
| scheduler | `scheduler.py`, `store_schedule.py`, `dashboard_schedule.py` | schedules, last-discovered, last-collected | `tick`, PATCH of a schedule | overlapping ticks; slots and days | `Tick` |
| consumer API, digest | `api.py:48-98`, `store.py:387-404`, `digest.py` | the consumer's checkpoint, `last_digest_at` | pull since, send | checkpoint against late rows; crash between send and store; digests side by side | `Delivery` |
| briefs | `brief.py`, `dashboard_briefs.py`, `nightly.py` | `briefs` | build, read through | two processes build one brief | `Briefs` |
| images, avatars | `topic_image.py`, `avatar_image.py`, `store_dashboard.py:200-219` | claim columns | claim, generate, set, reset | lost claims, late results | `Briefs` |
| token budget | `usage.py`, `store_usage.py` | usage rows | check, meter | check, then act | `ChatTurn` |
| chat | `agent.py`, `store_chat.py`, `dashboard_chat.py` | messages with `seq` | a turn | `MAX(seq)+1`, a turn that fails half-way | `ChatTurn` |
| relevance review | `review.py`, `relevance.py` | `item_topics` | quickscan | which stories it takes up | `Tick`, `Delivery` |
| moderation | `moderation.py`, `denylist.py` | none | moderate | – | an outcome in `DiscoveryRuns` and `ChatTurn` |
| HTTP back-off | `httpclient.py`, `safefetch.py` | none | retry | attempts, Retry-After | not modelled |
| embedding index | `topic_index.py`, `store_embeddings.py` | vectors per brief and topic | sweep, rank | briefs built elsewhere | in `Briefs`, `DiscoveryRuns` |
| scoring, clustering, text | `embeddings.py`, `score.py`, `cluster.py`, `normalize.py`, ... | vectors | pure functions | floating point, text | not modelled |
| favorites, preferences, metrics | `store_favorites.py`, `dashboard_prefs.py`, `store_metrics.py`, ... | rows keyed by user | single upserts and reads | – | not modelled |
| front end | `dashboard/` | a browser | polling | – | not modelled |

How they interact: routes call `Store` methods and the rate limiter;
`create_topic` (chat) and the provision route create a run and submit it to
`provision_runner`'s pool; a run drives discovery, approval, collection, review
and a first brief; the on-demand discovery has a pool of its own and, on commit,
adds sources and collects; `tick` discovers and collects for every topic;
`nightly` builds briefs and sends mail. All of them meet in `sources`,
`topic_sources`, `feed_cache` and `items`, without locks.

What the model calls of a user cost (`usage.py`) is metered wherever they are made: in
a chat turn, in a commit, in a run or a review that works in the background. The
topic routes and the chat's tools read the budget before they start such work; only a
chat turn reads it again as it spends. So `ChatTurn` follows the calls of a turn one by
one and takes the others as spending that comes from outside.

## 3. The modules

### RateLimiter (`bbv2/ratelimit.py`)

`Arrive(t)` is the clock read of line 36; `Check(t, k)` is the critical section
of lines 37-48: prune, refuse or admit, and after every `SweepEvery`-th admitted
hit the sweep of *every* key. Because the clock is read before the lock, `Check`
may run with a time up to `MaxStall` old and the deque need not be sorted, which
is what makes the prune (which stops at the first unexpired time) and the sweep
(which looks at the last time only) interesting. `log` records the admitted
times and `promise` what the last refusal told its caller; both are history.

* `WindowBound`: at most `Limit[k]` admitted hits lie in the part of the window that
  the sweep guarantees. The sweep judges a key by its *last* hit, which may be up to
  `MaxStall` older than one before it, so a window is guaranteed whole when it is no
  longer than `MaxIdle - MaxStall`, and that much of it otherwise (`Guaranteed`). The
  chat's window is short; the one-hour windows of `config.py:294-301` and
  `dashboard_profile.py:27` equal `_MAX_IDLE_S`, so they lose a stall at their far end.
* `RetryAfterHonest`: who comes back when told, nobody admitted in between, is let in.

### Sessions (`auth_api.py`, `store_sessions.py`, `store_users.py`, `store_spaces.py`)

Threads of the request pool each serve one handler at a time. `pc[t]` is the
statement the handler executes next.

* `Exchange*`: upsert the user, promote an ADMIN_EMAILS match to owner, check the
  status, find and create the personal space, create the session.
* `Rotate*` and `Refresh*`: `rotate_session` reads the session, inserts the next
  one, revokes and links the old one; `refresh_session` then reads the account
  and either sends the cookies (`delivered`) or revokes what it made.
* `Logout`, `RevokeSessions`, `AddUser` and `Expire` are single statements;
  `Update*` is the PATCH of `update_user`, also the CLI's disable, enable and
  set-role. `Crash(t)` kills a handler at any point.

A session row is a number, in order of creation, so `s > lapsed` says it has not
expired. One role stands for all that an owner may assign (only the owner role is
told from the others). A cookie that was never sent cannot be presented: only `delivered`
sessions are rotated or logged out. `cut[u]` records how the last force-logout
of `u` met the handlers in flight: "clean", or overlapping a "login" or a
"rotation" that was about to insert a session the UPDATE could not see. It goes
back to "none" at the next login.

`ended` holds the sessions a client logged out of while no refresh of them was
under way, and `stale` the updates whose account a login has promoted to owner
since they read the row. These three variables are history.

* `ForcedLogoutIsFinal`: after a clean cut no session of the user is live
  (`CleanCutIsFinal`); and when a rotation overlapped the cut of an account that was
  disabled, no client gets a live session out of it, for the account is read *after*
  the session is created (`RotationCannotLeak`).
* `LogoutIsFinal`: a session in `ended` stays dead, and no client ever holds one that
  was rotated from it.
* `OwnerOutOfReach` (of steps): an update takes the owner role away, or disables an
  owner, only if it read the row before the promotion.
* `ChainSound`: what `revoked`, `replaced_by` and the parent of a session say
  about each other, a superseded session being revoked included.
* `TypeOK` bounds the personal spaces of an account, too: racing first logins make
  more than one, but never more than there are threads.

### RunLifecycle and ProvisionRuns

`RunLifecycle` is what a client that polls a run relies on: a row is absent, then
running, then done or error for ever. The restart of the server ends several rows
at once.

`ProvisionRuns` is the pipeline that implements it. `pc[r]` follows a run from
the route (`CreateRun`, `Submit`) through the pool's queue (`Dequeue`, at most
`Workers` threads) and `provision_topic`: a stage write, the snapshot of known
feeds (`SourceUrls`), the search, the loop `AddSource` / `LinkTopicSource`, the
verdict, `approve_all_candidates`, the loop over active sources, which may
disable some, and the last writes. `Raise(r)` is an exception at any statement;
`Handler` says where it lands: an error event inside the try, the except clause,
or nowhere when the except clause's own write fails (`lost`). `Crash` takes the
threads and the queue away, `Boot` is `fail_orphaned_runs`, which `cmd_serve`
calls before it serves. The *edits* are what administrators, a discovery commit
and a tick do to the same tables meanwhile: set a state, insert, link, approve
all, delete.

* `NoZombies`: while the server serves, a 'running' row has a task (or is in
  `lost`); a task has a running row.
* `ImplementsLifecycle`: the refinement, `row <- status`.
* `DiscoveredIsDecided`: past approving, every feed a run found is linked and decided.
* `DecisionsStick`: no run revives a source that was rejected or disabled, however
  old its snapshot.
* `RunsEnd`: every run ends (liveness).

### FeedCollect (`collect.py`, `fetch.py`, `store_cache.py`, the item tables)

One feed, which publishes entries 1, 2, ... and shows the last `Shown`; its ETag
is the number of the newest. A pass reads the topics of the source, the stored
validator, sends the request, gets a 304 or the document (or fails), stores the
validator, then takes the newest `Cap` entries: each is inserted and mapped to
each topic, statement by statement. An item may fail and the loop goes on; a
collector may die. A preview (`discovery.py:109-137`) is a pass that stores the
validator and drops the entries. `Link` and `DeleteSource` change the source
behind the collectors' backs; deleting leaves the validator in `feed_cache`.

* `VouchedIsCollected`: every entry a pass would take from the document whose
  validator is stored is an item of every topic, or some thread is about to make
  it one, unless since the last full write of the validator one of the things
  happened that can lose an entry: a preview, a new topic, a failed item, a death
  (`excuse`). The interest is in what is *not* an excuse: overlapping collectors,
  replies written out of order, a 304 answered on another's validator.
* `EntriesArrive` (liveness): an entry within a pass's reach becomes an item of
  the topic or scrolls out of reach.
* Refuted: `CollectedIsAvailable` (the preview's validator turns the commit's
  collection into a 304).

### DiscoveryRuns (`discovery_runner.py`, `discovery_commit.py`, `store_discovery.py`, `topic_index.py`)

A search (`CreateRun`, `Submit`, `Dequeue`, `Probing`, `SourceUrls`, `Search`,
`FinishRun`) persists only its row; a *commit* is a call of `commit_discovery`,
started by the chat (`ChatPicks`, the latest search not yet committed) or by the
button (`ButtonPicks`, any finished search of the user, a committed one too). It
makes sure every topic has a vector (`EnsureMeta`), ranks (`Rank`), decides
between the best topics and a new one (`Mode`, `Names`, `RejectTopic`, `NewTopic`),
then statement by statement inserts and activates the feeds, links each to each
target, subscribes, and marks the run. `CommitRaises` is an exception anywhere,
`Crash` and `Boot` the death of the server and `fail_orphaned_discovery_runs`.
Owners, another pipeline and the user edit the same tables (`Editing`).

* `CommittedIsPlaced`: a search marked as committed has every feed active and
  linked to a topic the user follows (or has left), unless an owner changed it.
* `EarlierDecisionsStick`: what was ruled out when the search began is not revived
  by committing it.
* `ImplementsLifecycle`: these rows too implement `RunLifecycle`.
* `SearchEnds` (liveness).

### Delivery (`api.py`, `store_consumer.py`, `digest.py`, `notify.py`, the writers in `normalize.py` and `store.py`)

Two readers keep a checkpoint in `fetched_at`: the consumer the `next_since` of
its last page (`Poll`), a user the `last_digest_at` of the last mail. The writers
take the stamp when an entry is parsed (`Parse`), insert later (`Upsert`) and map
later still (`MapItem`), or fail in between; an upsert of a known item leaves its
stamp. `run_digests` is four statements per user: the settings with the checkpoint
(`ReadSettings`), the items past that checkpoint (`ReadItems`), `Send` and `Mark`.
Nothing catches an exception of the mailer (`DigestAborts`), and nothing keeps a
second `bbv2 digest` from beginning while one is under way (`cli.py:403-410` takes no
lock): `run[d]` is the state of digest process `d`, and each goes its own way with the
checkpoint it read. `overlap[u]` counts the passes over `u` that began while another
pass over `u` was in its middle. Tokens are created and revoked, subscriptions and
settings change, a review hides items.

* `NothingSkipped`, `DigestAccounts`: what a checkpoint has passed was delivered,
  up to the named exceptions: an item mapped after another with its stamp or a
  later one (`disorder`), two items of one second at the edge of a page (`Twins`),
  the digest's limit, a dry run, a verdict.
* `MailedOnce`: an item is mailed to a user once, plus at most once for each pass cut
  short between its send and its checkpoint and once for each pass begun during
  another. Digests that overlap do mail the same items and may move the checkpoint
  back; the property says that this costs no more mails than there were overlaps,
  in whatever order the passes end.
* `ConsumerReceives`, `DigestReaches` (liveness).

### Briefs (`brief.py`, `dashboard_briefs.py`, `nightly.py`, `topic_image.py`, `avatar_image.py`, `topic_index.py`)

The brief of one topic and day, and the pictures. A *call* is a thread: a viewer
of the rundown (`FirstLook`, the lock, `SecondLook`), an admin's or the nightly
build, which take no lock (`BuildNow`), a glance that may ask for a picture, an
avatar. `build_brief` is `NoStories`, `Generate`, `SaveBrief` or `BuildFails`. A
picture is claimed (`ClaimImage`, `ClaimAvatar`), worked on in a pool, written to
its file and recorded; a failure to record a failure is swallowed. `Crash` frees
the lock and the pools, `Boot` resets pending pictures.

* `PaidOnce`: viewers store one brief a day however they, the admin, the nightly
  job and a crash interleave, and one picture is paid for per life of the process.
* `AvatarShown`: the picture shown is the one asked for last, none after a reset,
  except through a generation that a reset has overtaken.
* `EverythingSettles` (liveness): calls end, pictures do not stay pending, and the
  nightly sweep embeds the day's brief whoever built it.

### Tick (`scheduler.py`, `store_schedule.py`, `collect.py`, `review.py`, `dashboard_schedule.py`)

A process is a `tick` or a `collect`. A tick reads the topic, runs its discovery
when due (`DiscoverDue`: a period with a start, a slot and a window, or an
interval) and marks the topic; then it fetches every due source, updates its
health (`ClearFailures`, `Bump` and `Count`, `Disable`: separate statements),
stamps it, and finally reviews the topic if it mapped a story. All of it uses the
time the tick began with. The calendar is `MonthDays` and `WeekDays`, so a year of
two months of different lengths shows what `_clamp_day` is for. Owners patch and
reset schedules and cadences (`Legal`: only what the routes' checks let through).

Everybody who writes `sources.status` is there: the routes and commands that approve,
reject or disable a source and the commit of a discovery (`SetStatus`, one statement,
whatever the status was), `ApproveAll`, `DeleteSource`, and the route that enables,
which has no guard and is two statements (`EnableSource`, then `EnableClears` for the
streak). Sources begin as candidates or active. Histories say what these writers and the
feed did to a source's health: `gone` (the last answer was 410), `spared` (set active
with the streak left at the threshold), `paused` (an owner disabled it); `enabling`
counts the enablings between their two statements.

* `OncePerDay`: a schedule fires at most once a day, unless ticks overlap in their
  search or one dies in it.
* `HealthEarned`: a source has *earned* to be disabled when its feed has failed
  `Threshold` times in a row, or answered 410, since its last success or enabling. An
  active source has not earned it, or is spared; a disabled one has, or is paused. Left
  out are deleted sources and the moments in which the row cannot agree yet (a process
  in the middle of the source's health, an enabling between its statements), and a
  source that two collections, or a collection and an enabling, worked on at once, or
  that a collection took up from a list read before another disabled it (`raced`). An
  owner's single write that falls into the middle of a collection is not left out.
* `StoriesReviewed`: a story without a verdict is with a process that will review
  it, or was left out by the model, a death or a collection that does not review.

### ChatTurn (`agent.py`, `agent_runs.py`, `dashboard_chat.py`, `store_chat.py`, `usage.py`)

A turn is a generator that the response stream drives: four reads on entry (`Gate`
the conversation, `GateBudget`, `LookThread`, `LookOthers`), the greeting of a first
conversation and the question (`ReadSeq`, `InsertMessage`: two statements), the loop
(`LoopHead` reads the budget from its second pass on; `CallModel`), one action per
kind of tool, the reply, the title (`Close`, `SetTitle`). `Meter` is the usage row
written after a model call. `CommitTool` is `commit_sources`: when it makes a new
topic it pays for the name and then, in `StartRun`, for the moderation, both without a
look at the budget (`discovery_commit.py:139-144`); `GateTool` is the look that
`create_topic` and `find_sources` take first. `ModelFails` ends a turn without a
reply; an exception in a tool is an answer (`Caught`). Meanwhile conversations are
renamed and deleted, streams cut, the server restarted, usage rolls off and whatever
runs for the user in the background spends (`BackgroundSpends`: the review after a
commit, `discovery_commit.py:175`, is one such). The rows of the runs a turn starts are
the matter of `ProvisionRuns` and `DiscoveryRuns`.

* `ThreadSound`: positions are unique but for turns that ran side by side, a
  question precedes its reply, only a failed model or a cut stream leaves one
  without, and of a deleted conversation only what turns under way wrote is left.
* `BudgetStops`: once the budget is used up a turn makes at most the model call it was
  about to make, two more for each tool call of its answer, and the title:
  1 + 2 `MaxBlocks` + 1 calls, which the run reaches.
* `TitleKept`: a title the user chose is overwritten only by a turn that was under
  way when it was chosen.

## 4. The runs

| run | instance | shows |
|---|---|---|
| `rate_limiter` | 2 keys (limits 2 and 1, windows 3 and 1), 2 threads, stall 1, idle 3 (as long as the longer window, as in the code), sweep every 2 hits, 6 ticks (740,000 states) | the window bound, honest Retry-After |
| `sessions` | 1 account at a time, of an ordinary user or of an ADMIN_EMAILS one; 3 sessions, 2 threads (2.2 M states) | logouts are final, chains are sound, the owner is out of reach |
| `provision_runs` | 2 runs, topics, feeds and workers; 2 exceptions, 1 crash, 1 edit (1.0 M states) | all safety of the pipeline, the refinement |
| `provision_runs_end` | 2 runs for 1 worker, same bounds, fairness (44,000 states) | every run ends |
| `feed_collect` | 2 threads, 2 topics, 3 entries shown, 2 taken; 1 preview, 1 deletion, 1 fault (3.2 M states) | what a validator vouches for |
| `feed_collect_arrive` | 2 threads, 1 topic, 3 published entries of which 2 are shown and 1 is taken; 1 failed fetch, fairness (11,000 states) | entries arrive |
| `feed_collect_preview` | 1 thread, 1 entry, 1 preview | stories are not available after a commit |
| `discovery_runs` | 2 searches, 2 commits, 2 topics, 1 feed, 1 worker, 1 fault, 1 edit, fairness (539,000 states) | what a commit promises; the refinement; searches end |
| `delivery` | 2 items, 2 users, 2 digests (side by side when one user is enabled), pages and digests of 1 item, 2 seconds, 2 parses, 1 upset, fairness (348,000 states) | checkpoints; no mail too many, overlapping digests included; arrival |
| `briefs` | 3 calls of any kind, pools of 2, 1 upset, fairness (127,000 states) | nothing is done twice; nothing stays pending |
| `tick` | 1 source, 2 interchangeable processes (symmetry), 3 runs in all, days of 2 slots, months of 2 and 1 days, threshold 2, 1 upset (4.3 M states) | schedules, health, reviews |
| `chat_turn` | 2 conversations, 2 turns of 2 passes, 1 tool call per reply, a budget of 1 call, 1 upset (1.6 M states) | threads, budget, titles |

**Why the bounds are enough.** Two threads are the fewest that race; each race the
properties speak of has two parties, and a crash or an edit is a third. A rotation
chain needs a parent and two rival children, hence three sessions. Two keys give
the rate limiter a sweep of one key during a check of the other, and six ticks let
a window pass twice. Two exceptions are what it takes to lose the final write (one
in the pipeline, one in the except clause). Two topics and two feeds let runs share
a feed and differ in another. Three published entries with one taken let an entry
scroll past. Two commits may place one search, or two; the second topic is the one
a new-topic commit makes beside the one that exists. Two items of one second fill
two pages of one item. Two digests are the fewest that overlap, and what they
race for is one user's checkpoint; a second user shows what an aborted digest leaves
undone (`MaxShared` keeps the two apart, and a digest that begins during another is the
run's one upset). Three calls are two rivals and the process, or the owner,
that comes between them. Three runs of the hourly job are two that overlap and one
that sees what they left, and a threshold of two is the least that counts. In the
chat, two passes are the least in which the budget is read again, and two turns the
least that overlap; with a budget of one call every later one overshoots.
The proofs of section 5 remove the bounds where they apply. Accounts do not share
rows, so one account at a time (`MaxAccounts`) is as good as two; the run starts
from either kind of user.

**Deadlock.** All models but `RateLimiter` and `Sessions` stop when every process is
over or the bounds are used up, and say `CHECK_DEADLOCK FALSE`; those two are
checked for it.

**Fairness.** `ProvisionRuns` and `DiscoveryRuns` assume weak fairness of a run's next
statement, of the request handler's second statement, of the pool handing a task to a
free thread, and of the restart (a supervisor restarts the server,
`_documentation/devops.md`). Nothing obliges anybody to start a run, to raise or to
crash, so liveness must hold with any number of faults within the bound. No fairness is
assumed between runs beyond the queue's order. `FeedCollect` assumes that collectors
start again (`tick` is run by cron) and that a started pass goes on; publishing is not
fair. `Delivery` assumes that the consumer polls, that an operator replaces a revoked
token, that some digest goes on while any is under way, and, strongly, that a real (not
dry) digest begins again and again, since the slots of the model may be taken whenever
cron fires. `Briefs` assumes that threads and pools go on and that the server is
restarted; no request has to come. `Tick`, `ChatTurn`, `Sessions` and `RateLimiter` need
none: their properties are about safety.

**Divergences.** The run `feed_collect_preview` checks a sentence of
`discovery_commit.py:197-201` and refutes it. The models show others, which are
recorded here without a run of their own:

* `store_sessions.py:76-88`: a force-revoke between the reading of the old session
  and the insertion of the new one leaves a live session, where
  `_plans/0019-auth-rbac-and-spaces.md:18-21` says a revocation takes effect at
  once; two refreshes with one cookie mint two sessions, one in no chain. A login
  past its status check opens a session of an account disabled meanwhile.
* `store_spaces.py:67-76`: two first logins create two personal spaces (`TypeOK`
  bounds them: never more than there are threads).
* `auth_api.py:186`: an update that read the row before a login promoted the account
  writes a lesser role over 'owner', or disables the owner (`OwnerOutOfReach` and its
  proof say that nothing else does).
* `auth_api.py:141`: a logout that overtakes a refresh revokes the old session while
  the refresh delivers a new cookie (`LogoutIsFinal`: every other logout is final).
* `ratelimit.py:50-57`: with a window equal to `_MAX_IDLE_S`, a thread that read its
  clock early and got the lock late appends an older stamp last, and the sweep,
  which looks at the last stamp, forgets a newer hit that still counts: "they'd prune
  to empty on next access anyway" is off by the stall, and the bound over the *whole*
  hour fails in this very instance. `WindowBound` states what is left of it.
* `discovery.py:167`, `provision.py:50-59`: a run that dies before approving leaves
  candidates which the next run skips as known and does not count, so it reports
  that there are no sources. A run may also end 'ready' without an active source:
  the collection that follows the test may disable the only one.
* `digest.py:43` stores the checkpoint of a dry run too, although `notify.py:24`
  says it "Logs what would be sent": the stories it showed are never mailed.
* `digest.py:27-45`: digests that overlap read the same `last_digest_at`, mail the same
  items, and the one that stores its checkpoint last wins, be it the older
  (`MailedOnce` counts them). Nothing in `cli.py:403-410` keeps them apart.
* `dashboard_api.py:425-428`, `discovery_commit.py:163`: approving, or committing, a
  source whose streak stands at the threshold leaves the streak, where enabling clears
  it (`dashboard_api.py:441-447`); one more failure disables it (`spared`).
* `discovery_commit.py:139-144`: a commit in the chat makes two model calls of the user
  that no budget gates, though `agent.py:472-474` reads the budget before every call of
  its own.
* `discovery_commit.py:163` activates a feed an owner ruled out between the search
  and the commit; the button may commit a committed search again, and a second
  commit in 'new topic' mode may create a second topic for the same feeds.
* `dashboard_api.py:443-446`: a failure counted between the two statements of an
  enable drops the source again.
* `agent.py:483-488`: when the model fails, the question stays without an answer,
  and a run started by an earlier pass is linked to a reply that is never written.
  `agent.py:577-580`: a title chosen during the first turn is overwritten.
* `store_dashboard.py:168-192`: an upsert of the day's brief keeps the picture and
  the vector made for its older text.

## 5. What is proved

Proofs are checked by TLAPS for every value of the constants that satisfies the modules'
named assumptions, so for any number of users, topics, feeds, runs, threads, faults and
edits, and for every bound `Max...`. The assumptions say that bounds and sizes are
naturals (positive where the code divides or takes a page of that size:
`LimitAssumption`, `WindowAssumption`, `TimeAssumption`, `BoundAssumption`,
`WorkersAssumption`, `BoundsAssumption`, `DiscoveryAssumption`, `DeliveryAssumption`,
`StoryAssumption`, `BriefsAssumption`, `ChatTurnAssumption`, `TickAssumption`), that "no
user" is not a user (`UsersAssumption`), that row ids start at 1 and the calendar has
days (`TickAssumption`), and that the bodies of the schedule and cadence routes are what
their validation and normalisation let through (`BodiesAssumption`:
`dashboard_schedule.py:83-104`, `store_schedule.py:181-186`), and that the request pool
has finitely many threads (`ThreadsAssumption`). TLC evaluates all of them on the runs.
The two theorems about `FeedCollect` reach it through an INSTANCE and state its
`SizesAssumption` as a hypothesis.

Every safety property of the runs that hold is a theorem.
Each proof has the same shape: an inductive invariant `IInv` made of named parts,
a lemma per action (or per group of actions that disturb the same parts), and
theorems that read the properties off the invariant. None of the properties is
inductive alone; what each needs besides is this.

| module | theorems | what the invariant adds |
|---|---|---|
| `RateLimiterProofs` | `TypeCorrect`, `WindowBoundHolds`, `RetryAfterKept` | what the deque says of a history the code does not see |
| `SessionsProofs` | `TypeCorrect`, `ForcedLogoutSafe`, `ChainHolds`, `LogoutFinal`, `OwnerSafe` | who is half-way through a login, a rotation or an update |
| `ProvisionRunsProofs` | `TypeCorrect`, `NoZombieRuns`, `RowsImplement`, `DiscoveryIsDecided`, `DecisionsKept` | queue and pool; where each feed of a run is |
| `DiscoveryRunsProofs` | `TypeCorrect`, `CommittedArePlaced`, `EarlierDecisionsKept`, `RowsImplement` | how far each loop of a commit has come |
| `DeliveryProofs` | `TypeCorrect`, `NothingLost`, `NoDoubleMail`, `DigestsAccount` | what each digest in flight holds, and who began beside it |
| `DeliveryProofs`, of `FeedCollect` | `CollectTypeCorrect`, `VouchedCollected` | what each collector has still to store |
| `BriefsProofs` | `TypeCorrect`, `PaidForOnce`, `AvatarsShown` | who holds the lock and the claims |
| `TickProofs` | `TypeCorrect`, `FiresOncePerDay`, `HealthIsEarned`, `StoriesKept` | what a process in the middle of its writes is about to write |
| `ChatTurnProofs` | `TypeCorrect`, `ThreadsSound`, `BudgetHolds`, `TitlesKept` | what each turn has said, and which turns met |

**`RateLimiterProofs`.** `WindowBoundHolds` is `Spec => []WindowBound`, whatever the
windows, the horizon and the stall. `WindowBound` counts a history that the code does
not see. The invariant says that the deque is the most recent stretch of that history
(`SuffixOf`), never longer than the limit, that everything before it is already outside
the guaranteed part of the window (`ForgottenBy`), and that no time exceeds a later one
by more than a stall (`NearlySorted`). Lemmas show that pruning (`PruneKeeps`),
appending (`AppendKeeps`), the sweep (`SweepKeeps`) and the passing of time (`AgeKeeps`)
each keep it; only the sweep's needs the horizon, through `GuaranteedBounds`. The bound
follows by mapping the hits in the window to positions of the deque. `RetryAfterKept` is
an action property and needs no horizon: a promise that stands is the moment the oldest
hit of the deque leaves the window, unless the sweep has emptied the deque since, and no
deque exceeds its limit (`PromiseInv`), so at that moment the prune makes room for one.

**`SessionsProofs`.** `ForcedLogoutSafe` is
`Spec => []ForcedLogoutIsFinal`. The invariant adds who may be
half-way: after a clean cut no thread is between a login's check or a rotation's
read and the insertion for that user; after a cut that caught a rotation no login
is; a session being rotated in belongs to its thread's user. Most actions are
*quiet* (no thread comes nearer to creating a session, no session is created,
delivered or revived) and share `QuietStep`; the logins, the three statements of a
rotation and the cuts are proved one by one. `ChainHolds` has a second invariant
(`ChainInv`), which adds what a thread in the middle of a rotation knows
(`RotationKnows`): the session it read is its user's, the one it made is younger, of
the same user and remembers its parent, and past the link the old one is revoked.
No other thread takes any of it back, for rows are only added and revoked.
`LogoutFinal` adds to that what a logout leaves behind (`EndedInv`): an ended session
is revoked, and no thread is rotating it, nor will one begin to, for a rotation reads
the row first. `TypeCorrect` bounds the personal spaces by counting (`SpacesInv`): the
spaces of an account and the threads about to create one for it (`FirstLogins`) are
together no more than the threads, since a thread joins them only while there is no
space. `OwnerSafe` is an action property and needs `OwnerInv`: an update past its
check of the role whose account is an owner's is in `stale`, or is about to write the
status 'active' (`MayTouch`); an account that a login promotes exists, and an owner is
never absent.

**`ProvisionRunsProofs`.** The first invariant adds to `NoZombies` that the queue
holds exactly the runs at "queued", each once, and that a server that is down has
no tasks. From it every step of the pipeline maps to `Create`, `Finish` or a
stutter of `RunLifecycle` (`RowsImplement`): a row is finished only by a task, and
a task's row is running. `DiscoveryIsDecided` needs a second invariant that follows
the feeds a run found from the loop that stores them: those passed are stored and
linked or being linked (`StoredInv`), then all are linked (`LinkedInv`), then none
is a candidate (`DecidedInv`), for every interleaving of other runs and edits.
`DecisionsKept` shows that no write of a worker, and no edit but the route that
enables this very source, takes one out of 'rejected' or 'disabled'.

**`DiscoveryRunsProofs`.** `CommittedIsPlaced` speaks of the moment a run is marked;
the invariant follows each commit to it (`CommitInv`): every offered feed is behind
the first loop and active or still ahead of it (`PlacedInv`), the current target has
the feeds behind the second loop and some topic of the user's has them all once one
target is done (`TargetInv`), whatever owners delete or relabel meanwhile. After the
mark nothing but an edit, which is on record, can undo it. `EarlierDecisionsKept`
rests on `OfferInv`: what was ruled out when the search took its snapshot is in the
snapshot, so never in what it offers.

**`DeliveryProofs`.** A checkpoint is always the stamp of some item of the topic
(`CheckpointInv`), so an item that is mapped at or behind it comes after another with
its stamp or a later one: that is what makes `disorder` the only way past the consumer.
`MailInv` counts an item's *claims*: its mails and the passes that may still mail it
(`MayMail`). They exceed the passes cut short and the passes begun during another
(`Excused`) by one at most, and not at all once a pass has left the item out
(`LeftOut`), or the checkpoint is before it and no pass has it ahead (`Ahead`): only
then may a new pass add a claim without adding an excuse. `PassInv` says why counting
beginnings is enough: of the passes under way all but one began during another.
`AccountInv` says of the checkpoint, and of the checkpoint and batch that each pass has
read, that what they pass is accounted for, so it does not matter which is stored last.
The module also holds the proofs about `FeedCollect`, whose state `DeliveryProofs`
declares as its own and hands to an INSTANCE. Once a collector outside its item loop is
known to have nothing in hand (`TodoInv`, in `CollectInv`), the property is inductive:
storing a validator puts the whole batch of its document in that thread's hands, and
from then on every statement either stores what was in hand, leaves it in hand, or is an
excuse (`StillVouched`), however collectors overlap and whichever validator is written
last.

**`BriefsProofs`.** `PaidOnce` needs that a viewer at work behind the lock is the
only one and has nothing built before it (`RundownInv`, with the lock's holder in
`TypeOK`), and that a brief's picture has one job at most, holding the claim
(`PictureInv`), which bounds what may still be paid for by the restarts.
`AvatarInv` says that no job but the one asked for last is alive, until a reset has
overtaken one.

**`TickProofs`.** `DayInv`: a day's counted search is under way in some process or
marked on the topic, and no mark is ahead of the time; so a tick that finds the day
unmarked finds the other at work, and is on record as overlapping. `HealthInv` follows a
source through the separate statements of its health: for each of them (`Nursed`) what
the row, the feed's history and the statement to come must add up to when one process
alone works on it. An owner's write of the status keeps it at each of these places, for
no statement of the health reads the status and `spared` and `paused` say whose doing it
is (`StatusHealth`); an enabling holds it only between collections. `StoryInv`: a story
without a verdict is in the batch of a process that reviews, or of one that will read it
in. For any calendar: nothing is assumed of the months but their being positive.

**`ChatTurnProofs`.** Positions in a conversation are `MAX(seq) + 1`, so they are
bounded by the number of messages the turns can have written (`Writes`,
`PlacesInv`), a cardinality that grows with every insertion. `ThreadsSound` needs
which turns have met (`MetInv`), that a position read is past all messages but those
of turns met (`FreshInv`), and who has written what (`AuthorInv`, `OrderInv`,
`ReplyInv`, `LeftInv`). `BudgetHolds` follows `over` through a turn place by place
(`Spent`): at a tool, two calls for each tool call that is left and one for the title
are still to come, and at the moderation one of the two is spent.

**Only model-checked.** The liveness properties `RunsEnd`, `SearchEnds`,
`EntriesArrive`, `ConsumerReceives`, `DigestReaches` and `EverythingSettles`: liveness
under fairness, and ENABLED, are beyond the prover. Nothing rests on induction over
data, which the prover cannot do either: the least element of a set of naturals, which
several proofs need, comes from the library's well-foundedness of `<` (`NatMin`). No
module declares a RECURSIVE operator.

## 6. What is not modelled, and why

* The language model's answers, web search results and feed contents are
  choices; what the code does with every answer is modelled, their quality is not.
* A step of the wall clock backwards (rate limiter, expiry).
* Sites with several feeds sharing one cap, undated entries and the age cut-off in
  collection.
* The browser: which of two cookies it keeps when a logout and a refresh overlap.
* Pure functions on text and floating-point numbers (scores, clusters, the
  arithmetic of embeddings, normalisation, the word list of moderation): unit tests
  reach them, their state space is not the problem.
* The retries of `httpclient.py`: a loop inside one call, without shared state.
* What chat tools write to favourites, folders and subscriptions, and the rate
  limiter's refusal in front of a turn (a turn that is not posted).
* The cap of 200 stories of one quickscan (`store_dashboard.py:20`) and its batches
  of 20: a story beyond the cap waits like one the model left out.
* Migrations, configuration and the parsing of command lines.
* Single-statement operations keyed by user (favorites, preferences, metrics).

## 7. Where the project stands

The modules are complete as far as section 6 goes, and every safety property that a
run checks is proved. A change of the code should change the definition that models
it, then the run, then the lemma of that action, in this order; whoever extends the
project would turn next to `store_metrics.py` and `store_favorites.py` (section 6,
last bullet), whose operations meet no other actor, and to the lines of
`scheduler.py` and `dashboard_api.py` that only read.
