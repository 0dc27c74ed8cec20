------------------------------- MODULE Tick --------------------------------
(***************************************************************************)
(* The hourly job and what it collects:                                     *)
(*   scheduler.py, store_schedule.py   what is due; the steps of a tick      *)
(*   collect.py, store.py              one source: its feed and its health   *)
(*   review.py, relevance.py           the review of newly collected stories *)
(*   dashboard_schedule.py, dashboard_api.py   what admins change meanwhile  *)
(* cron starts a process every hour whether or not the last one has ended,   *)
(* and `collect` runs beside it.  A tick computes with the time it started.  *)
(* The model follows one topic; each source has one story to offer.          *)
(***************************************************************************)
EXTENDS Naturals, FiniteSets, Sequences, SequencesExt

CONSTANTS
  Sources,         \* the topic's sources, numbers in the order of their ids
  MonthDays,       \* the lengths of the months of a year
  WeekDays,        \* days in a week
  DaySlots,        \* slots of time in a day
  Window,          \* scheduler_window_min, in slots
  DiscoverDefault, \* default_discover_interval_min, in slots
  CollectDefault,  \* default_collect_interval_min, in slots
  Patches,         \* bodies of PATCH /topics/{slug}/schedule that pass its checks
  Cadences,        \* bodies of PATCH /topics/{slug}/cadence: both intervals
  Threshold,       \* source_drop_threshold, 0 to never drop
  StartDate,       \* the day a schedule starts on
  MinClock,        \* the time at first
  MaxClock,        \* bound on the time that passes
  Procs,           \* the processes that may run at a time
  MaxRuns,         \* bound on the ticks and other collections
  MaxUpsets        \* bound on what admins change and on processes that die

ASSUME TickAssumption ==
  /\ Sources \subseteq Nat \ {0} /\ MonthDays \in Seq(Nat \ {0})
  /\ {WeekDays, DaySlots, Window, DiscoverDefault, CollectDefault} \subseteq Nat \ {0}
  /\ {Threshold, StartDate, MinClock, MaxClock, MaxRuns, MaxUpsets} \subseteq Nat
  /\ MinClock <= MaxClock /\ StartDate <= MaxClock \div DaySlots

Never   == MaxClock + 1                   \* NULL in a column of times
Times   == 0..MaxClock
Day(t)  == t \div DaySlots
Slot(t) == t % DaySlots
Days    == 0..Day(MaxClock)
Periods == {"none", "day", "week", "month", "year"}

(* What the checks of the routes let through in each column they may set, and *)
(* _norm and _clear store of it (NULL and negatives are the defaults).       *)
Columns == [period |-> Periods, start |-> Days \union {Never}, at |-> 0..(DaySlots - 1),
            every |-> Nat, interval |-> Nat]

Legal(body) ==
  /\ DOMAIN body \subseteq DOMAIN Columns
  /\ \A col \in DOMAIN body : body[col] \in Columns[col]

ASSUME BodiesAssumption == \A body \in Patches \union Cadences : Legal(body)

VARIABLES
  clock,     \* the time
  topic,     \* discover_period, _start_date, _at_min, discover_interval_min (every) and
             \* collect_interval_min (0 for NULL), last_discovered_at
  source,    \* status, consecutive_failures, own interval (0 for NULL),
             \* last_collected_at
  enabling,  \* of a source, the enablings that have set the status and not yet the streak
  unreviewed,\* stories of the topic whose relevance is NULL
  reviewed,  \* stories of the topic with a verdict
  proc,      \* a process: kind, start time, place, sources left, the current one,
             \* whether it mapped stories, the stories it reviews
  searches,  \* history: scheduled discoveries per day
  twice,     \* history: days whose discovery was not marked before another looked
  streak,    \* history: a source's failed passes since its last success
  gone,      \* history: sources whose last answer, if it said anything, was 410
  spared,    \* history: sources set active though they had earned to be disabled, with
             \* no such answer since
  paused,    \* history: sources whose status an owner wrote last to disable them
  raced,     \* history: sources whose health two processes wrote at once
  unscanned, \* history: stories left to a later review
  upsets, runs \* counters for the bounds

excused == <<spared, paused>>
history == <<searches, twice, streak, gone, excused, raced, unscanned>>
stories == <<unreviewed, reviewed>>
vars == <<clock, topic, source, enabling, stories, proc, history, upsets, runs>>

-----------------------------------------------------------------------------
(* The calendar of Python's datetime.                                       *)
YearDays      == FoldSeq(LAMBDA n, sum : n + sum, 0, MonthDays)
MonthStart(m) == FoldSeq(LAMBDA n, sum : n + sum, 0, SubSeq(MonthDays, 1, m - 1))
Month(d)      == CHOOSE m \in DOMAIN MonthDays :
                   LET r == d % YearDays
                   IN MonthStart(m) <= r /\ r < MonthStart(m) + MonthDays[m]
DayOfMonth(d) == (d % YearDays) - MonthStart(Month(d)) + 1
Weekday(d)    == d % WeekDays

Smaller(a, b) == IF a < b THEN a ELSE b

ClampDay(day, m) == Smaller(day, MonthDays[m])

PeriodMatches(period, start, today) ==
  \/ period = "day"
  \/ period = "week" /\ Weekday(today) = Weekday(start)
  \/ /\ period = "month"
     /\ DayOfMonth(today) = ClampDay(DayOfMonth(start), Month(today))
  \/ /\ period = "year"
     /\ Month(today) = Month(start)
     /\ DayOfMonth(today) = ClampDay(DayOfMonth(start), Month(start))

(* _due: never run, or the interval has passed; a later time than now counts *)
(* as recent.                                                               *)
Due(last, interval, now) == last = Never \/ last + interval <= now

\* mutant: only the slot itself counts as already run
RanNow(last, now) == last = now

RanToday(last, now) == last # Never /\ Day(last) = Day(now)

Scheduled(t) == t.period # "none" /\ t.start # Never

DiscoverDue(t, now) ==
  IF Scheduled(t)
  THEN /\ t.start <= Day(now)
       /\ t.at <= Slot(now) /\ Slot(now) < t.at + Window
       /\ PeriodMatches(t.period, t.start, Day(now))
       /\ ~RanToday(t.last, now)
  ELSE Due(t.last, IF t.every # 0 THEN t.every ELSE DiscoverDefault, now)

(* sources_for_scheduler: the source's own interval, or the topic's.         *)
Interval(s) ==
  IF source[s].own # 0 THEN source[s].own
  ELSE IF topic.interval # 0 THEN topic.interval ELSE CollectDefault

Unscheduled == [period |-> "none", start |-> Never, at |-> 0, every |-> 0,
                interval |-> 0]

Idle == [kind |-> "none", now |-> 0, pc |-> "off", todo |-> {}, cur |-> 0,
         touched |-> FALSE, batch |-> {}]

(* A source on its way into the topic waits for approval.                   *)
Statuses == {"candidate", "active", "rejected", "disabled", "deleted"}

Init ==
  /\ clock = MinClock
  /\ topic = [period |-> "month", start |-> StartDate, at |-> 0, every |-> 0, interval |-> 0,
              last |-> Never]
  /\ \E waiting \in SUBSET Sources :
       source = [s \in Sources |->
                   [status |-> IF s \in waiting THEN "candidate" ELSE "active", fails |-> 0,
                    own |-> 0, last |-> Never]]
  /\ enabling = [s \in Sources |-> 0]
  /\ unreviewed = {} /\ reviewed = {}
  /\ proc = [p \in Procs |-> Idle]
  /\ searches = [d \in Days |-> 0] /\ twice = {}
  /\ streak = [s \in Sources |-> 0] /\ gone = {} /\ spared = {} /\ paused = {}
  /\ raced = {} /\ unscanned = {}
  /\ upsets = 0 /\ runs = 0

Advance ==
  /\ clock < MaxClock
  /\ clock' = clock + 1
  /\ UNCHANGED <<topic, source, enabling, stories, proc, history, upsets, runs>>

-----------------------------------------------------------------------------
(* sources_for_scheduler, active_sources: the list is read once; a source on *)
(* it is collected even if it has been disabled or deleted since.            *)
DueSources(now) ==
  {s \in Sources : source[s].status = "active" /\ Due(source[s].last, Interval(s), now)}

Collecting(kind, now, todo) ==
  [Idle EXCEPT !.kind = kind, !.now = now, !.pc = "source", !.todo = todo]

(* The topic's discovery.  A tick looks at the topic as it starts; whether   *)
(* the search succeeds or fails, the topic is marked with the tick's time.   *)
Starts(p) ==
  /\ proc[p].pc = "off"
  /\ runs < MaxRuns
  /\ runs' = runs + 1
Searching == {p \in Procs : proc[p].pc = "search"}

BeginSearch(p) ==
  /\ Starts(p)
  /\ DiscoverDue(topic, clock)
  /\ proc' = [proc EXCEPT ![p] = [Idle EXCEPT !.kind = "tick", !.now = clock, !.pc = "search"]]
  /\ searches' = [searches EXCEPT ![Day(clock)] = @ + (IF Scheduled(topic) THEN 1 ELSE 0)]
  /\ twice' = IF Searching # {} THEN twice \union {Day(clock)} ELSE twice
  /\ UNCHANGED <<clock, topic, source, enabling, stories, streak, gone, excused, raced,
                 unscanned, upsets>>

BeginCollection(p) ==
  /\ Starts(p)
  /\ ~DiscoverDue(topic, clock)
  /\ proc' = [proc EXCEPT ![p] = Collecting("tick", clock, DueSources(clock))]
  /\ UNCHANGED <<clock, topic, source, enabling, stories, history, upsets>>

Mark(p) ==
  /\ proc[p].pc = "search"
  /\ topic' = [topic EXCEPT !.last = proc[p].now]
  /\ proc' = [proc EXCEPT ![p] = Collecting("tick", @.now, DueSources(@.now))]
  /\ twice' = IF topic.last # Never /\ topic.last > proc[p].now
              THEN twice \union {Day(topic.last)} ELSE twice
  /\ UNCHANGED <<clock, source, enabling, stories, searches, streak, gone, excused, raced,
                 unscanned, upsets, runs>>

(* The CLI and a provisioning run collect too: every active source, due or   *)
(* not, and without a mark.                                                 *)
BeginCollect(p) ==
  /\ Starts(p)
  /\ proc' = [proc EXCEPT ![p] = Collecting("collect", clock,
                                            {s \in Sources : source[s].status = "active"})]
  /\ UNCHANGED <<clock, topic, source, enabling, stories, history, upsets>>

-----------------------------------------------------------------------------
Nursing(s) == {p \in Procs : proc[p].cur = s}

(* The next source's feed: its story (again, or for the first time), nothing *)
(* modified, a passing error, a droppable error, or 410 Gone.                *)
Outcome == {"story", "same", "transient", "droppable", "gone"}

Step(o) ==
  CASE o \in {"story", "same"} -> "clear"
    [] o = "droppable" /\ Threshold > 0 -> "bump"
    [] o = "gone" /\ Threshold > 0 -> "disable"
    [] OTHER -> "stamp"

\* mutant: a story that was there already does not count
TouchedNew(p, s, o) == proc[p].touched \/ (o = "story" /\ s \notin unreviewed)

\* mutant: mapping a story again takes its verdict away
MappedAgain(s) == unreviewed \union {s}

(* map_item_topic: a mapping that is there stays, with its verdict.          *)
Mapped(s) == IF s \in reviewed THEN unreviewed ELSE unreviewed \union {s}

(* The run has mapped a story into the topic, be it new or not.              *)
TouchedBy(p, s, o) == proc[p].touched \/ o = "story"

Fetch(p) ==
  /\ proc[p].pc = "source" /\ proc[p].todo # {}
  /\ LET s == CHOOSE s \in proc[p].todo : \A r \in proc[p].todo : s <= r
     IN \E o \in Outcome :
          /\ proc' = [proc EXCEPT ![p].pc = Step(o), ![p].cur = s, ![p].todo = @ \ {s},
                                  ![p].touched = TouchedBy(p, s, o)]
          /\ unreviewed' = IF o = "story" THEN Mapped(s) ELSE unreviewed
          /\ streak' = [streak EXCEPT ![s] = IF o \in {"story", "same"} THEN 0
                                             ELSE IF o = "droppable" THEN @ + 1 ELSE @]
          /\ gone' = CASE o = "gone" -> gone \union {s}
                       [] o = "transient" -> gone
                       [] OTHER -> gone \ {s}
          /\ spared' = IF o = "transient" THEN spared ELSE spared \ {s}
          /\ raced' = IF \/ Nursing(s) # {} \/ enabling[s] > 0
                         \/ source[s].status = "disabled" /\ s \notin paused
                      THEN raced \union {s} ELSE raced
          /\ unscanned' = IF o = "story" THEN unscanned \ {s} ELSE unscanned
  /\ UNCHANGED <<clock, topic, source, enabling, reviewed, searches, twice, paused, upsets,
                 runs>>

(* _update_source_health.  A source that was deleted has no row to update.    *)
Health(p, next, s, row) ==
  /\ proc' = [proc EXCEPT ![p].pc = next]
  /\ source' = IF source[s].status = "deleted" THEN source
               ELSE [source EXCEPT ![s] = row]
  /\ UNCHANGED <<clock, topic, enabling, stories, history, upsets, runs>>

\* mutant: a success leaves the streak as it is
KeepFailures(p) ==
  /\ proc[p].pc = "clear"
  /\ Health(p, "stamp", proc[p].cur, source[proc[p].cur])

ClearFailures(p) ==
  /\ proc[p].pc = "clear"
  /\ Health(p, "stamp", proc[p].cur, [source[proc[p].cur] EXCEPT !.fails = 0])

(* bump_source_failure adds one, and then reads what is there.               *)
Bump(p) ==
  /\ proc[p].pc = "bump"
  /\ Health(p, "count", proc[p].cur, [source[proc[p].cur] EXCEPT !.fails = @ + 1])

Count(p) ==
  /\ proc[p].pc = "count"
  /\ LET s == proc[p].cur
         n == IF source[s].status = "deleted" THEN 0 ELSE source[s].fails
     IN Health(p, IF n >= Threshold THEN "disable" ELSE "stamp", s, source[s])

Disable(p) ==
  /\ proc[p].pc = "disable"
  /\ Health(p, "stamp", proc[p].cur, [source[proc[p].cur] EXCEPT !.status = "disabled"])

(* Only a tick marks the source as collected, with the tick's time.          *)
Stamp(p) ==
  /\ proc[p].pc = "stamp"
  /\ LET s == proc[p].cur
     IN /\ proc' = [proc EXCEPT ![p].pc = "source", ![p].cur = 0]
        /\ source' = IF proc[p].kind = "collect" \/ source[s].status = "deleted" THEN source
                     ELSE [source EXCEPT ![s].last = proc[p].now]
  /\ UNCHANGED <<clock, topic, enabling, stories, history, upsets, runs>>

-----------------------------------------------------------------------------
(* The review, of the topics this tick mapped stories into.                  *)
Scan(p) ==
  /\ proc[p].pc = "source" /\ proc[p].todo = {}
  /\ IF proc[p].kind = "tick" /\ proc[p].touched
     THEN /\ proc' = [proc EXCEPT ![p].pc = "verdict", ![p].batch = unreviewed]
          /\ UNCHANGED unscanned
     ELSE /\ proc' = [proc EXCEPT ![p] = Idle]
          /\ unscanned' = IF proc[p].kind = "collect" /\ proc[p].touched
                          THEN unscanned \union unreviewed ELSE unscanned
  /\ UNCHANGED <<clock, topic, source, enabling, stories, searches, twice, streak, gone,
                 excused, raced, upsets, runs>>

(* classify_batch answers for some of the stories, for none if it fails.     *)
Answers(batch) == SUBSET batch

(* The others stay as they are.                                             *)
Verdict(p) ==
  /\ proc[p].pc = "verdict"
  /\ \E answered \in Answers(proc[p].batch) :
       /\ reviewed' = reviewed \union answered
       /\ unreviewed' = unreviewed \ answered
       /\ unscanned' = unscanned \union (proc[p].batch \ answered)
  /\ proc' = [proc EXCEPT ![p] = Idle]
  /\ UNCHANGED <<clock, topic, source, enabling, searches, twice, streak, gone, excused,
                 raced, upsets, runs>>

Upset == upsets < MaxUpsets /\ upsets' = upsets + 1

(* A process dies, at any of its steps.                                      *)
Die(p) ==
  /\ proc[p].pc # "off"
  /\ Upset
  /\ proc' = [proc EXCEPT ![p] = Idle]
  /\ twice' = IF p \in Searching THEN twice \union {Day(proc[p].now)} ELSE twice
  /\ raced' = raced \union ({proc[p].cur} \cap Sources)
  /\ unscanned' = IF proc[p].touched THEN unscanned \union unreviewed ELSE unscanned
  /\ UNCHANGED <<clock, topic, source, enabling, stories, searches, streak, gone, excused,
                 runs>>

-----------------------------------------------------------------------------
(* The admins.  PATCH /topics/{slug}/schedule changes the fields it is given; *)
(* a reset puts the defaults back.  last_discovered_at stays.                *)
Patched(body) ==
  [col \in DOMAIN topic |-> IF col \in DOMAIN body THEN body[col] ELSE topic[col]]

SetSchedule ==
  /\ Upset
  /\ \E patch \in Patches : topic' = Patched(patch)
  /\ UNCHANGED <<clock, source, enabling, stories, proc, history, runs>>

ResetSchedule ==
  /\ Upset
  /\ topic' = Patched(Unscheduled)
  /\ UNCHANGED <<clock, source, enabling, stories, proc, history, runs>>

(* The cadence routes: both intervals of a topic, a source's own.  0 clears.  *)
SetTopicCadence ==
  /\ Upset
  /\ \E cadence \in Cadences : topic' = Patched(cadence)
  /\ UNCHANGED <<clock, source, enabling, stories, proc, history, runs>>

SetSourceCadence(s) ==
  /\ source[s].status # "deleted"
  /\ Upset
  /\ source' = [source EXCEPT ![s].own = CollectDefault + 1]
  /\ UNCHANGED <<clock, topic, enabling, stories, proc, history, runs>>

DeleteSource(s) ==
  /\ source[s].status # "deleted"
  /\ Upset
  /\ source' = [source EXCEPT ![s].status = "deleted"]
  /\ UNCHANGED <<clock, topic, enabling, stories, proc, history, runs>>

(* What a source's feed has earned is to be disabled.                       *)
Earned(s) == Threshold > 0 /\ (streak[s] >= Threshold \/ s \in gone)

(* set_source_status, whatever the status was and whoever is collecting the   *)
(* source: the routes and commands that approve, reject and disable a source, *)
(* and the commit of a discovery, which activates what it attaches.          *)
SetStatus(s, status) ==
  /\ source[s].status # "deleted"
  /\ Upset
  /\ source' = [source EXCEPT ![s].status = status]
  /\ spared' = IF status = "active" /\ Earned(s) THEN spared \union {s} ELSE spared
  /\ paused' = IF status = "disabled" THEN paused \union {s} ELSE paused \ {s}
  /\ UNCHANGED <<clock, topic, enabling, stories, proc, searches, twice, streak, gone, raced,
                 unscanned, runs>>

(* approve_all_candidates, by an admin or a provisioning run.                *)
ApproveAll ==
  /\ Upset
  /\ LET waiting == {s \in Sources : source[s].status = "candidate"} IN
     /\ source' = [s \in Sources |->
                     IF s \in waiting THEN [source[s] EXCEPT !.status = "active"]
                     ELSE source[s]]
     /\ spared' = spared \union {s \in waiting : Earned(s)}
     /\ paused' = paused \ waiting
  /\ UNCHANGED <<clock, topic, enabling, stories, proc, searches, twice, streak, gone, raced,
                 unscanned, runs>>

(* Enabling is two statements: the status, then the streak.                  *)
EnableSource(s) ==
  /\ source[s].status # "deleted"
  /\ Upset
  /\ source' = [source EXCEPT ![s].status = "active"]
  /\ enabling' = [enabling EXCEPT ![s] = @ + 1]
  /\ paused' = paused \ {s}
  /\ raced' = IF Nursing(s) # {} THEN raced \union {s} ELSE raced \ {s}
  /\ UNCHANGED <<clock, topic, stories, proc, searches, twice, streak, gone, spared, unscanned,
                 runs>>

EnableClears(s) ==
  /\ enabling[s] > 0
  /\ enabling' = [enabling EXCEPT ![s] = @ - 1]
  /\ source' = IF source[s].status = "deleted" THEN source
               ELSE [source EXCEPT ![s].fails = 0]
  /\ streak' = [streak EXCEPT ![s] = 0]
  /\ gone' = gone \ {s} /\ spared' = spared \ {s}
  /\ raced' = IF Nursing(s) # {} THEN raced \union {s} ELSE raced
  /\ UNCHANGED <<clock, topic, stories, proc, searches, twice, paused, unscanned, upsets, runs>>

-----------------------------------------------------------------------------
Discover(p) == BeginSearch(p) \/ BeginCollection(p) \/ Mark(p)
Collect(p)  == BeginCollect(p) \/ Fetch(p) \/ Stamp(p)
Nurse(p)    == ClearFailures(p) \/ Bump(p) \/ Count(p) \/ Disable(p)
Review(p)   == Scan(p) \/ Verdict(p)
Admin       == \/ SetSchedule \/ ResetSchedule
               \/ SetTopicCadence
               \/ \E s \in Sources :
                    \/ \E status \in {"active", "rejected", "disabled"} : SetStatus(s, status)
                    \/ SetSourceCadence(s) \/ DeleteSource(s)
                    \/ EnableSource(s) \/ EnableClears(s)
               \/ ApproveAll

Next ==
  \/ Advance
  \/ \E p \in Procs : Discover(p) \/ Collect(p) \/ Nurse(p) \/ Review(p) \/ Die(p)
  \/ Admin

Spec == Init /\ [][Next]_vars

-----------------------------------------------------------------------------
(* The type invariant: the rows of the topic and the sources, and the        *)
(* processes; a source a process works on has left its list.                 *)
TypeOK ==
  /\ clock \in Times
  /\ topic \in [period : Periods, start : Days \union {Never}, at : 0..(DaySlots - 1),
                every : Nat, interval : Nat, last : Times \union {Never}]
  /\ source \in [Sources -> [status : Statuses, fails : Nat,
                              own : Nat, last : Times \union {Never}]]
  /\ enabling \in [Sources -> Nat]
  /\ unreviewed \subseteq Sources /\ reviewed \subseteq Sources \ unreviewed
  /\ proc \in [Procs -> [kind : {"none", "tick", "collect"}, now : Times,
                         pc : {"off", "search", "source", "clear", "bump", "count",
                               "disable", "stamp", "verdict"},
                         todo : SUBSET Sources, cur : Sources \union {0},
                         touched : BOOLEAN, batch : SUBSET Sources]]
  /\ \A p \in Procs : proc[p].now <= clock /\ proc[p].cur \notin proc[p].todo
  /\ searches \in [Days -> Nat] /\ twice \subseteq Days
  /\ streak \in [Sources -> Nat]
  /\ {gone, spared, paused, raced, unscanned} \subseteq SUBSET Sources
  /\ upsets \in 0..MaxUpsets /\ runs \in 0..MaxRuns

(* A schedule of the kind "every <period> from <date> at <time>" fires once  *)
(* on a matching day, however many ticks fall into the slot, whether the     *)
(* search succeeds, and whatever admins do to the schedule that day -- unless*)
(* ticks overlap in their search or one dies in it (_discover_due).          *)
OncePerDay == \A d \in Days : searches[d] <= 1 \/ d \in twice

(* The health of a source is what its feed has earned: failures in a row up    *)
(* to the threshold, or a 410, since its last success or enabling.  One that    *)
(* has earned it is not active, unless someone set it active and left the       *)
(* streak, and its feed has not answered since; one that is disabled has        *)
(* earned it, or its owner disabled it -- whatever owners write in the middle    *)
(* of a collection, where no two collections worked on the source at once      *)
(* (_update_source_health).                                                 *)
HealthEarned ==
  \A s \in Sources :
    \/ source[s].status = "deleted" \/ s \in raced \/ enabling[s] > 0 \/ Nursing(s) # {}
    \/ /\ source[s].status = "active" => ~Earned(s) \/ s \in spared
       /\ source[s].status = "disabled" => Earned(s) \/ s \in paused

(* No story is forgotten by the review: one without a verdict is with a      *)
(* process that will review the topic, or was left out by the model, by a    *)
(* death, or by a collection that does not review (quickscan_topic).         *)
StoriesReviewed ==
  \A s \in unreviewed :
    s \in unscanned \/ \E p \in Procs : proc[p].touched
=============================================================================
