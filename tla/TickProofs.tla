----------------------------- MODULE TickProofs -----------------------------
(***************************************************************************)
(* Proofs about Tick, for any sources, processes, calendar, schedules,     *)
(* threshold and bounds:                                                   *)
(*   TypeCorrect      the type invariant;                                  *)
(*   FiresOncePerDay  a schedule fires once on a day, unless ticks overlap  *)
(*                    in their search or one dies in it;                   *)
(*   HealthIsEarned   a source is active or disabled as its feed's failures *)
(*                    or an owner say, where no two processes worked on it; *)
(*   StoriesKept      no story is forgotten by the review.                  *)
(***************************************************************************)
EXTENDS Tick, WellFoundedInduction, TLAPS

(* A process has a current source exactly while it writes its health.       *)
Nurses == {"clear", "bump", "count", "disable", "stamp"}

ProcInv ==
  \A p \in Procs :
    /\ proc[p].cur # 0 <=> proc[p].pc \in Nurses
    /\ proc[p].pc \in {"off", "search"} => ~proc[p].touched
    /\ proc[p].kind = "none" => proc[p].pc = "off"

(* The day's search: one that was counted is under way, or marked on the      *)
(* topic; the days to come have had none, and no mark is ahead of the time.   *)
MarkedOn(d) == topic.last # Never /\ Day(topic.last) = d

UnderWay(d) == \E p \in Searching : Day(proc[p].now) = d

DayInv ==
  /\ topic.last # Never => topic.last <= clock
  /\ \A d \in Days : d > Day(clock) => searches[d] = 0
  /\ \A d \in Days :
       d = Day(clock) /\ searches[d] > 0 => d \in twice \/ MarkedOn(d) \/ UnderWay(d)

(* What the row of a source says of what its feed has earned, and what a       *)
(* process does that is in the middle of its health: none but the step that    *)
(* disables it has found that it must be.                                    *)
Counted(s) == Threshold > 0 => source[s].fails = streak[s]

OwnersDoing(s) == source[s].status = "disabled" => s \in paused

Settled(s) ==
  /\ source[s].status = "active" => ~Earned(s) \/ s \in spared
  /\ source[s].status = "disabled" => Earned(s) \/ s \in paused
  /\ Counted(s)

Nursed(p, s) ==
  /\ proc[p].pc = "stamp" => Settled(s)
  /\ proc[p].pc \in {"clear", "bump", "count"} => OwnersDoing(s)
  /\ proc[p].pc = "clear" => streak[s] = 0 /\ ~Earned(s)
  /\ proc[p].pc = "bump" =>
       Threshold > 0 /\ source[s].fails + 1 = streak[s] /\ s \notin gone
  /\ proc[p].pc = "count" => Threshold > 0 /\ Counted(s) /\ s \notin gone
  /\ proc[p].pc = "disable" => Earned(s) /\ Counted(s)

(* A source nobody raced for has one process at most; while an owner enables  *)
(* it, none.                                                                *)
Untouched(s) == source[s].status = "deleted" \/ s \in raced

HealthInv(s) ==
  \/ Untouched(s)
  \/ /\ enabling[s] > 0 => Nursing(s) = {} /\ OwnersDoing(s)
     /\ ~(enabling[s] > 0) /\ Nursing(s) = {} => Settled(s)
     /\ \A p \in Nursing(s) : Nursing(s) = {p} /\ Nursed(p, s)

(* A story without a verdict is in the batch of a process that reviews, or a  *)
(* process will read it into its batch.                                     *)
Holds(p, s) == proc[p].touched /\ (proc[p].pc = "verdict" => s \in proc[p].batch)

StoryInv == \A s \in unreviewed : s \in unscanned \/ \E p \in Procs : Holds(p, s)

IInv ==
  /\ TypeOK /\ ProcInv /\ DayInv /\ OncePerDay /\ StoryInv
  /\ \A s \in Sources : HealthInv(s)

-----------------------------------------------------------------------------
(* A set of naturals has a least element.                              *)
LEMMA NatMin ==
  ASSUME NEW S \in SUBSET Nat, S # {}
  PROVE  \E m \in S : \A n \in S : m <= n
<1> DEFINE R == OpToRel(<, Nat)
<1>1. IsWellFoundedOn(R, Nat)
  BY NatLessThanWellFounded
<1>2. \A x, y \in Nat : x < y => <<x, y>> \in R
  BY DEF OpToRel
<1> HIDE DEF R
<1>3. PICK x \in S : \A y \in S : ~ (<<y, x>> \in R)
  BY <1>1, WFMin
<1>4. \A y \in S : ~ (y < x)
  BY <1>2, <1>3
<1>5. \A y \in S : x <= y
  BY <1>4
<1> QED
  BY <1>5

-----------------------------------------------------------------------------
(* Time and days.                                                           *)
LEMMA Constants ==
  /\ Threshold \in Nat /\ MaxClock \in Nat /\ MaxRuns \in Nat /\ MaxUpsets \in Nat
  /\ MinClock \in Nat /\ MinClock <= MaxClock /\ StartDate \in Nat
  /\ DaySlots \in Nat \ {0} /\ CollectDefault \in Nat
  /\ Sources \subseteq Nat /\ 0 \notin Sources
  /\ StartDate <= MaxClock \div DaySlots
BY TickAssumption

LEMMA DayMonotone ==
  ASSUME NEW a \in Nat, NEW b \in Nat, a <= b
  PROVE  Day(a) \in Nat /\ Day(b) \in Nat /\ Day(a) <= Day(b)
BY Constants DEF Day

LEMMA DaysOfTimes ==
  /\ \A t \in Times : Day(t) \in Days
  /\ StartDate \in Days
  /\ Days \subseteq Nat /\ Times \subseteq Nat /\ Never \notin Times
<1>1. \A t \in Times : t \in Nat /\ t <= MaxClock
  BY Constants DEF Times
<1>2. ASSUME NEW t \in Times PROVE Day(t) \in Days
  <2>1. Day(t) \in Nat /\ Day(t) <= Day(MaxClock) /\ Day(MaxClock) \in Nat
    BY <1>1, <1>2, Constants, DayMonotone
  <2> QED
    BY <2>1 DEF Days
<1>3. StartDate \in Days
  <2>1. Day(MaxClock) \in Nat
    BY Constants, DayMonotone
  <2> QED
    BY <2>1, Constants DEF Days, Day
<1>4. Days \subseteq Nat /\ Times \subseteq Nat /\ Never \notin Times
  BY Constants DEF Days, Times, Never
<1> QED
  BY <1>2, <1>3, <1>4

-----------------------------------------------------------------------------
(* The rows.                                                                *)
TopicRows ==
  [period : Periods, start : Days \union {Never}, at : 0..(DaySlots - 1),
   every : Nat, interval : Nat, last : Times \union {Never}]

SourceRow ==
  [status : Statuses, fails : Nat, own : Nat,
   last : Times \union {Never}]

Processes ==
  [kind : {"none", "tick", "collect"}, now : Times,
   pc : {"off", "search", "source", "clear", "bump", "count", "disable", "stamp", "verdict"},
   todo : SUBSET Sources, cur : Sources \union {0}, touched : BOOLEAN,
   batch : SUBSET Sources]

LEMMA ColumnSets ==
  /\ DOMAIN Columns = {"period", "start", "at", "every", "interval"}
  /\ Columns["period"] = Periods /\ Columns["start"] = Days \union {Never}
  /\ Columns["at"] = 0..(DaySlots - 1) /\ Columns["every"] = Nat
  /\ Columns["interval"] = Nat
BY DEF Columns

LEMMA PatchedRow ==
  ASSUME NEW body, Legal(body), topic \in TopicRows
  PROVE  Patched(body) \in TopicRows /\ Patched(body).last = topic.last
<1>1. DOMAIN topic = {"period", "start", "at", "every", "interval", "last"}
  BY DEF TopicRows
<1>2. DOMAIN Columns = {"period", "start", "at", "every", "interval"}
  BY ColumnSets
<1> DEFINE row == Patched(body)
<1>3. /\ DOMAIN row = {"period", "start", "at", "every", "interval", "last"}
      /\ row = [col \in DOMAIN row |-> row[col]]
      /\ \A col \in DOMAIN row :
           row[col] = IF col \in DOMAIN body THEN body[col] ELSE topic[col]
  BY <1>1 DEF Patched
<1> HIDE DEF row
<1>4. "last" \notin DOMAIN body
  BY <1>2 DEF Legal
<1>5. row.last = topic.last
  BY <1>3, <1>4
<1>6. \A col \in DOMAIN Columns : topic[col] \in Columns[col]
  <2>1. /\ topic["period"] \in Periods /\ topic["start"] \in Days \union {Never}
        /\ topic["at"] \in 0..(DaySlots - 1) /\ topic["every"] \in Nat
        /\ topic["interval"] \in Nat
    BY DEF TopicRows
  <2> QED
    BY <2>1, ColumnSets
<1>7. \A col \in DOMAIN Columns : row[col] \in Columns[col]
  BY <1>2, <1>3, <1>6 DEF Legal
<1>8. /\ row.period \in Periods /\ row.start \in Days \union {Never}
      /\ row.at \in 0..(DaySlots - 1) /\ row.every \in Nat /\ row.interval \in Nat
  BY <1>7, ColumnSets
<1>9. row.last \in Times \union {Never}
  BY <1>5 DEF TopicRows
<1>10. row \in TopicRows
  BY <1>3, <1>8, <1>9 DEF TopicRows
<1> QED
  BY <1>5, <1>10 DEF row

LEMMA UnscheduledIsLegal == Legal(Unscheduled)
<1>1. DOMAIN Unscheduled = DOMAIN Columns
  BY DEF Unscheduled, Columns
<1>2. 0 \in 0..(DaySlots - 1)
  BY Constants
<1>3. /\ Unscheduled["period"] \in Periods /\ Unscheduled["start"] = Never
      /\ Unscheduled["at"] = 0 /\ Unscheduled["every"] = 0 /\ Unscheduled["interval"] = 0
  BY DEF Unscheduled, Periods
<1>4. /\ Unscheduled["period"] \in Columns["period"]
      /\ Unscheduled["start"] \in Columns["start"]
      /\ Unscheduled["at"] \in Columns["at"]
      /\ Unscheduled["every"] \in Columns["every"]
      /\ Unscheduled["interval"] \in Columns["interval"]
  BY <1>2, <1>3, ColumnSets
<1>5. \A col \in DOMAIN Columns : Unscheduled[col] \in Columns[col]
  BY <1>4, ColumnSets
<1> QED
  BY <1>1, <1>5 DEF Legal

LEMMA IdleIsProcess == Idle \in Processes
<1>1. 0 \in Times
  BY Constants DEF Times
<1> QED
  BY <1>1 DEF Idle, Processes

-----------------------------------------------------------------------------
(* Typing, in parts: the rows, the processes, the stories, the history.      *)
ProcOK ==
  /\ proc \in [Procs -> Processes]
  /\ \A p \in Procs : proc[p].now <= clock /\ proc[p].cur \notin proc[p].todo

StoriesOK ==
  /\ unreviewed \subseteq Sources /\ reviewed \subseteq Sources \ unreviewed
  /\ unscanned \subseteq Sources

HistoryOK ==
  /\ searches \in [Days -> Nat] /\ twice \subseteq Days /\ streak \in [Sources -> Nat]
  /\ gone \subseteq Sources /\ spared \subseteq Sources /\ paused \subseteq Sources
  /\ raced \subseteq Sources

RowsOK ==
  /\ clock \in Times /\ topic \in TopicRows /\ source \in [Sources -> SourceRow]
  /\ enabling \in [Sources -> Nat]

BoundsOK == upsets \in 0..MaxUpsets /\ runs \in 0..MaxRuns

LEMMA TypeParts == TypeOK <=> RowsOK /\ StoriesOK /\ ProcOK /\ HistoryOK /\ BoundsOK
BY DEF TypeOK, RowsOK, StoriesOK, ProcOK, HistoryOK, BoundsOK, TopicRows, SourceRow, Processes

LEMMA TypePartsNext ==
  ASSUME RowsOK', StoriesOK', ProcOK', HistoryOK', BoundsOK'
  PROVE  TypeOK'
BY DEF TypeOK, RowsOK, StoriesOK, ProcOK, HistoryOK, BoundsOK, TopicRows, SourceRow, Processes

LEMMA BoundSteps ==
  /\ 0 \in 0..MaxUpsets /\ 0 \in 0..MaxRuns
  /\ upsets \in 0..MaxUpsets /\ upsets < MaxUpsets => upsets + 1 \in 0..MaxUpsets
  /\ runs \in 0..MaxRuns /\ runs < MaxRuns => runs + 1 \in 0..MaxRuns
BY Constants

LEMMA TypeInit == Init => TypeOK
<1> SUFFICES ASSUME Init PROVE TypeOK
  OBVIOUS
<1>1. clock \in Times
  BY Constants DEF Init, Times
<1>2. topic \in TopicRows
  <2>1. 0 \in 0..(DaySlots - 1)
    BY Constants
  <2> QED
    BY <2>1, DaysOfTimes DEF Init, TopicRows, Periods
<1>3. source \in [Sources -> SourceRow]
  <2>1. PICK waiting \in SUBSET Sources :
          source = [s \in Sources |->
                      [status |-> IF s \in waiting THEN "candidate" ELSE "active", fails |-> 0,
                       own |-> 0, last |-> Never]]
    BY DEF Init
  <2> QED
    BY <2>1 DEF SourceRow, Statuses
<1>4. ProcOK
  <2>1. proc \in [Procs -> Processes] /\ \A p \in Procs : proc[p] = Idle
    BY IdleIsProcess DEF Init
  <2>2. Idle.now = 0 /\ Idle.todo = {} /\ 0 <= clock
    BY <1>1, Constants DEF Idle, Times
  <2> QED
    BY <2>1, <2>2 DEF ProcOK
<1>5. HistoryOK /\ StoriesOK /\ BoundsOK
  BY BoundSteps DEF Init, HistoryOK, StoriesOK, BoundsOK
<1> QED
  BY <1>1, <1>2, <1>3, <1>4, <1>5, TypeParts DEF Init, RowsOK

(* One process becomes q and the others stay.                               *)
LEMMA ProcessStep ==
  ASSUME ProcOK, UNCHANGED clock, NEW p \in Procs, NEW q \in Processes,
         proc' = [proc EXCEPT ![p] = q], q.now <= clock, q.cur \notin q.todo
  PROVE  ProcOK'
BY DEF ProcOK

(* The typed facts about a process that the steps below rest on.            *)
LEMMA ProcTypes ==
  ASSUME TypeOK, ProcInv, NEW p \in Procs
  PROVE  /\ proc[p] \in Processes /\ proc \in [Procs -> Processes]
         /\ proc[p].now \in Times /\ proc[p].now \in Nat /\ proc[p].now <= clock
         /\ clock \in Times /\ clock \in Nat
         /\ proc[p].todo \in SUBSET Sources /\ 0 \notin proc[p].todo
         /\ proc[p].cur \notin proc[p].todo
         /\ proc[p].batch \in SUBSET Sources /\ proc[p].touched \in BOOLEAN
         /\ proc[p].pc \in Nurses => proc[p].cur \in Sources
         /\ proc[p].pc \notin Nurses => proc[p].cur = 0
<1>1. proc[p] \in Processes /\ proc \in [Procs -> Processes]
  BY TypeParts DEF ProcOK
<1>2. proc[p].now <= clock /\ proc[p].cur \notin proc[p].todo /\ clock \in Times
  BY DEF TypeOK
<1>3. /\ proc[p].now \in Times /\ proc[p].todo \in SUBSET Sources
      /\ proc[p].batch \in SUBSET Sources /\ proc[p].touched \in BOOLEAN
      /\ proc[p].cur \in Sources \union {0}
  BY <1>1 DEF Processes
<1> QED
  BY <1>1, <1>2, <1>3, Constants, DaysOfTimes DEF ProcInv

(* Each step of a process, by what becomes of the process.                   *)
LEMMA BeginSearchStep ==
  ASSUME TypeOK, ProcInv, NEW p \in Procs, BeginSearch(p)
  PROVE  \E q \in Processes :
           /\ proc' = [proc EXCEPT ![p] = q]
           /\ q.now = clock /\ q.pc = "search" /\ q.cur = 0 /\ q.todo = {} /\ ~q.touched
           /\ q.kind # "none"
<1> DEFINE q == [Idle EXCEPT !.kind = "tick", !.now = clock, !.pc = "search"]
<1>1. proc' = [proc EXCEPT ![p] = q]
  BY DEF BeginSearch
<1>2. clock \in Times
  BY DEF TypeOK
<1>3. /\ q \in Processes
      /\ q.now = clock /\ q.pc = "search" /\ q.cur = 0 /\ q.todo = {} /\ ~q.touched
      /\ q.kind # "none"
  BY <1>2, IdleIsProcess DEF Processes, Idle
<1> QED
  BY <1>1, <1>3

LEMMA CollectionStep ==
  ASSUME TypeOK, ProcInv, NEW p \in Procs, BeginCollection(p) \/ BeginCollect(p) \/ Mark(p)
  PROVE  \E q \in Processes :
           /\ proc' = [proc EXCEPT ![p] = q]
           /\ q.now <= clock /\ q.pc = "source" /\ q.cur = 0 /\ q.cur \notin q.todo
           /\ ~q.touched /\ q.kind # "none"
<1>0. clock \in Times /\ clock \in Nat /\ proc[p].now \in Times /\ proc[p].now <= clock
  BY ProcTypes
<1> DEFINE Starting ==
      \E q \in Processes :
        /\ proc' = [proc EXCEPT ![p] = q]
        /\ q.now <= clock /\ q.pc = "source" /\ q.cur = 0 /\ q.cur \notin q.todo
        /\ ~q.touched /\ q.kind # "none"
<1>1. ASSUME NEW kind \in {"tick", "collect"}, NEW now \in Times, now <= clock,
             NEW todo \in SUBSET Sources,
             proc' = [proc EXCEPT ![p] = Collecting(kind, now, todo)]
      PROVE  Starting
  <2> DEFINE q == Collecting(kind, now, todo)
  <2>1. /\ q \in Processes /\ q.pc = "source" /\ q.now = now /\ q.todo = todo /\ q.cur = 0
        /\ q.touched = FALSE /\ q.kind # "none"
    BY IdleIsProcess DEF Collecting, Processes, Idle
  <2>2. proc' = [proc EXCEPT ![p] = q]
    BY <1>1
  <2> HIDE DEF q
  <2>3. q.now <= clock /\ q.cur \notin q.todo
    BY <1>1, <2>1, Constants
  <2> QED
    BY <2>1, <2>2, <2>3
<1> HIDE DEF Starting
<1>2. \A now \in Times : DueSources(now) \in SUBSET Sources
  BY DEF DueSources
<1>3. ASSUME BeginCollection(p) PROVE Starting
  <2>1. proc' = [proc EXCEPT ![p] = Collecting("tick", clock, DueSources(clock))]
    BY <1>3 DEF BeginCollection
  <2>2. clock <= clock /\ DueSources(clock) \in SUBSET Sources
    BY <1>0, <1>2
  <2> QED
    BY <1>0, <1>1, <2>1, <2>2
<1>4. ASSUME BeginCollect(p) PROVE Starting
  <2>1. proc' = [proc EXCEPT ![p] = Collecting("collect", clock,
                                               {s \in Sources : source[s].status = "active"})]
    BY <1>4 DEF BeginCollect
  <2> QED
    BY <1>0, <1>1, <2>1
<1>5. ASSUME Mark(p) PROVE Starting
  <2>1. proc' = [proc EXCEPT ![p] = Collecting("tick", proc[p].now, DueSources(proc[p].now))]
    BY <1>5 DEF Mark
  <2> QED
    BY <1>0, <1>1, <1>2, <2>1
<1> QED
  BY <1>3, <1>4, <1>5 DEF Starting

LEMMA FetchStep ==
  ASSUME TypeOK, ProcInv, NEW p \in Procs, Fetch(p)
  PROVE  \E s \in Sources, o \in Outcome, q \in Processes :
           /\ s \in proc[p].todo
           /\ proc' = [proc EXCEPT ![p] = q]
           /\ q.pc = Step(o) /\ q.cur = s /\ q.todo = proc[p].todo \ {s}
           /\ q.touched = TouchedBy(p, s, o) /\ q.now = proc[p].now /\ q.kind = proc[p].kind
           /\ unreviewed' = IF o = "story" THEN Mapped(s) ELSE unreviewed
           /\ streak' = [streak EXCEPT ![s] = IF o \in {"story", "same"} THEN 0
                                              ELSE IF o = "droppable" THEN @ + 1 ELSE @]
           /\ gone' = CASE o = "gone" -> gone \union {s}
                        [] o = "transient" -> gone
                        [] OTHER -> gone \ {s}
           /\ spared' = IF o = "transient" THEN spared ELSE spared \ {s}
           /\ raced' = IF \/ Nursing(s) # {} \/ enabling[s] > 0
                          \/ source[s].status = "disabled" /\ s \notin paused
                       THEN raced \union {s} ELSE raced
           /\ unscanned' = IF o = "story" THEN unscanned \ {s} ELSE unscanned
<1> DEFINE s == CHOOSE s \in proc[p].todo : \A r \in proc[p].todo : s <= r
<1>0. proc[p] \in Processes /\ proc[p].todo \in SUBSET Sources /\ proc[p].touched \in BOOLEAN
  BY ProcTypes
<1>1. s \in proc[p].todo /\ s \in Sources
  <2>1. proc[p].todo \in SUBSET Nat /\ proc[p].todo # {}
    BY <1>0, Constants DEF Fetch
  <2>2. \E m \in proc[p].todo : \A r \in proc[p].todo : m <= r
    BY <2>1, NatMin
  <2> QED
    BY <1>0, <2>2
<1> HIDE DEF s
<1>2. PICK o \in Outcome :
          /\ proc' = [proc EXCEPT ![p].pc = Step(o), ![p].cur = s, ![p].todo = @ \ {s},
                                  ![p].touched = TouchedBy(p, s, o)]
          /\ unreviewed' = IF o = "story" THEN Mapped(s) ELSE unreviewed
          /\ streak' = [streak EXCEPT ![s] = IF o \in {"story", "same"} THEN 0
                                             ELSE IF o = "droppable" THEN @ + 1 ELSE @]
          /\ gone' = CASE o = "gone" -> gone \union {s}
                       [] o = "transient" -> gone
                       [] OTHER -> gone \ {s}
          /\ spared' = IF o = "transient" THEN spared ELSE spared \ {s}
          /\ raced' = IF \/ Nursing(s) # {} \/ enabling[s] > 0
                         \/ source[s].status = "disabled" /\ s \notin paused
                      THEN raced \union {s} ELSE raced
          /\ unscanned' = IF o = "story" THEN unscanned \ {s} ELSE unscanned
  BY DEF Fetch, s
<1> DEFINE q == [proc[p] EXCEPT !.pc = Step(o), !.cur = s, !.todo = @ \ {s},
                                !.touched = TouchedBy(p, s, o)]
<1>3. Step(o) \in {"clear", "bump", "disable", "stamp"}
  BY DEF Step, Outcome
<1>4. TouchedBy(p, s, o) \in BOOLEAN
  BY <1>0 DEF TouchedBy
<1>5. proc' = [proc EXCEPT ![p] = q]
  BY <1>2
<1>6. /\ q \in Processes
      /\ q.pc = Step(o) /\ q.cur = s /\ q.todo = proc[p].todo \ {s}
      /\ q.touched = TouchedBy(p, s, o) /\ q.now = proc[p].now /\ q.kind = proc[p].kind
  BY <1>0, <1>1, <1>3, <1>4 DEF Processes
<1> HIDE DEF q
<1> QED
  BY <1>1, <1>2, <1>5, <1>6

(* A step of a process that changes only its place: q is proc[p] elsewhere.   *)
LEMMA NurseStep ==
  ASSUME TypeOK, ProcInv, NEW p \in Procs, Nurse(p) \/ Stamp(p)
  PROVE  \E q \in Processes :
           /\ proc' = [proc EXCEPT ![p] = q]
           /\ q.pc \in {"source", "count", "disable", "stamp"}
           /\ q.cur = IF Stamp(p) THEN 0 ELSE proc[p].cur
           /\ q.pc = "source" <=> Stamp(p)
           /\ q.todo = proc[p].todo /\ q.now = proc[p].now /\ q.batch = proc[p].batch
           /\ q.touched = proc[p].touched /\ q.kind = proc[p].kind
           /\ ClearFailures(p) \/ Disable(p) => q.pc = "stamp"
           /\ Bump(p) => q.pc = "count"
           /\ Count(p) /\ source[proc[p].cur].status # "deleted" =>
                q.pc = IF source[proc[p].cur].fails >= Threshold THEN "disable" ELSE "stamp"
<1>0. proc[p] \in Processes
  BY ProcTypes
<1>1. CASE Stamp(p)
  <2> DEFINE q == [proc[p] EXCEPT !.pc = "source", !.cur = 0]
  <2>1. proc' = [proc EXCEPT ![p] = q]
    BY <1>1 DEF Stamp
  <2>2. /\ q \in Processes /\ q.pc = "source" /\ q.cur = 0
        /\ q.todo = proc[p].todo /\ q.now = proc[p].now /\ q.batch = proc[p].batch
        /\ q.touched = proc[p].touched /\ q.kind = proc[p].kind
    BY <1>0 DEF Processes
  <2>3. ~(ClearFailures(p) \/ Disable(p) \/ Bump(p) \/ Count(p))
    BY <1>1 DEF ClearFailures, Disable, Bump, Count, Stamp
  <2> QED
    BY <1>1, <2>1, <2>2, <2>3
<1>2. CASE ~Stamp(p)
  <2>1. PICK next \in {"count", "disable", "stamp"} :
          /\ proc' = [proc EXCEPT ![p].pc = next]
          /\ ClearFailures(p) \/ Disable(p) => next = "stamp"
          /\ Bump(p) => next = "count"
          /\ Count(p) /\ source[proc[p].cur].status # "deleted" =>
               next = IF source[proc[p].cur].fails >= Threshold THEN "disable" ELSE "stamp"
    BY <1>2 DEF Nurse, ClearFailures, Bump, Count, Disable, Health
  <2> DEFINE q == [proc[p] EXCEPT !.pc = next]
  <2>2. proc' = [proc EXCEPT ![p] = q]
    BY <2>1
  <2>3. /\ q \in Processes /\ q.pc = next /\ q.cur = proc[p].cur
        /\ q.todo = proc[p].todo /\ q.now = proc[p].now /\ q.batch = proc[p].batch
        /\ q.touched = proc[p].touched /\ q.kind = proc[p].kind
    BY <1>0 DEF Processes
  <2> QED
    BY <1>2, <2>1, <2>2, <2>3
<1> QED
  BY <1>1, <1>2

LEMMA ScanStep ==
  ASSUME TypeOK, ProcInv, NEW p \in Procs, Scan(p), proc[p].kind = "tick", proc[p].touched
  PROVE  \E q \in Processes :
           /\ proc' = [proc EXCEPT ![p] = q]
           /\ q.pc = "verdict" /\ q.batch = unreviewed /\ q.touched
           /\ q.now = proc[p].now /\ q.cur = 0 /\ q.todo = {} /\ q.kind = proc[p].kind
<1> DEFINE q == [proc[p] EXCEPT !.pc = "verdict", !.batch = unreviewed]
<1>0. /\ proc[p] \in Processes /\ proc[p].pc = "source" /\ proc[p].todo = {}
      /\ proc[p].cur = 0
  BY ProcTypes DEF Scan, Nurses
<1>1. proc' = [proc EXCEPT ![p] = q]
  BY DEF Scan
<1>2. unreviewed \in SUBSET Sources
  BY DEF TypeOK
<1>3. /\ q \in Processes /\ q.pc = "verdict" /\ q.batch = unreviewed
      /\ q.touched = proc[p].touched /\ q.now = proc[p].now /\ q.cur = 0 /\ q.todo = {}
      /\ q.kind = proc[p].kind
  BY <1>0, <1>2 DEF Processes
<1> QED
  BY <1>1, <1>3

(* A process that ends, or dies.                                            *)
Ends(p) == proc' = [proc EXCEPT ![p] = Idle]

LEMMA IdleFields ==
  /\ Idle \in Processes /\ Idle.pc = "off" /\ Idle.cur = 0 /\ Idle.todo = {}
  /\ Idle.now = 0 /\ ~Idle.touched
BY IdleIsProcess DEF Idle

-----------------------------------------------------------------------------
(* The type invariant, action by action.                                    *)
LEMMA DiscoverTypes ==
  ASSUME TypeOK, ProcInv, NEW p \in Procs, BeginSearch(p) \/ BeginCollection(p) \/ BeginCollect(p) \/ Mark(p)
  PROVE  TypeOK'
<1> USE DEF history, excused, stories
<1>0. RowsOK /\ StoriesOK /\ ProcOK /\ HistoryOK /\ BoundsOK /\ proc[p].now \in Times
  BY TypeParts, ProcTypes
<1>1. CASE BeginSearch(p)
  <2>1. PICK q \in Processes :
          /\ proc' = [proc EXCEPT ![p] = q]
          /\ q.now = clock /\ q.pc = "search" /\ q.cur = 0 /\ q.todo = {} /\ ~q.touched
    BY <1>1, BeginSearchStep
  <2>2. clock <= clock
    BY <1>0, DaysOfTimes DEF RowsOK
  <2>3. ProcOK'
    BY <1>0, <1>1, <2>1, <2>2, ProcessStep DEF BeginSearch
  <2>4. Day(clock) \in Days
    BY <1>0, DaysOfTimes DEF RowsOK
  <2>5. HistoryOK'
    <3>1. searches' \in [Days -> Nat]
      BY <1>0, <1>1, <2>4 DEF BeginSearch, HistoryOK
    <3>2. twice' \subseteq Days
      BY <1>0, <1>1, <2>4 DEF BeginSearch, HistoryOK
    <3> QED
      BY <1>0, <1>1, <3>1, <3>2 DEF BeginSearch, HistoryOK
  <2>6. BoundsOK'
    BY <1>0, <1>1, BoundSteps DEF BeginSearch, Starts, BoundsOK
  <2>7. RowsOK' /\ StoriesOK'
    BY <1>0, <1>1 DEF BeginSearch, RowsOK, StoriesOK
  <2> QED
    BY <2>3, <2>5, <2>6, <2>7, TypePartsNext
<1>2. ASSUME BeginCollection(p) \/ BeginCollect(p) \/ Mark(p) PROVE ProcOK'
  <2>1. PICK q \in Processes :
           /\ proc' = [proc EXCEPT ![p] = q]
           /\ q.now <= clock /\ q.pc = "source" /\ q.cur = 0 /\ q.cur \notin q.todo
           /\ ~q.touched
    BY <1>2, CollectionStep
  <2>2. UNCHANGED clock
    BY <1>2 DEF BeginCollection, BeginCollect, Mark
  <2> QED
    BY <1>0, <2>1, <2>2, ProcessStep
<1>3. CASE BeginCollection(p) \/ BeginCollect(p)
  <2>1. BoundsOK'
    BY <1>0, <1>3, BoundSteps DEF BeginCollection, BeginCollect, Starts, BoundsOK
  <2>2. RowsOK' /\ StoriesOK' /\ HistoryOK'
    BY <1>0, <1>3 DEF BeginCollection, BeginCollect, RowsOK, StoriesOK, HistoryOK
  <2> QED
    BY <1>2, <1>3, <2>1, <2>2, TypePartsNext
<1>4. CASE Mark(p)
  <2>1. topic' \in TopicRows
    BY <1>0, <1>4 DEF Mark, RowsOK, TopicRows
  <2>2. RowsOK' /\ StoriesOK' /\ BoundsOK'
    BY <1>0, <1>4, <2>1 DEF Mark, RowsOK, StoriesOK, BoundsOK
  <2>3. twice' \subseteq Days
    <3>1. CASE topic.last # Never /\ topic.last > proc[p].now
      <4>1. topic.last \in Times
        BY <1>0, <3>1 DEF RowsOK, TopicRows
      <4> QED
        BY <1>0, <1>4, <4>1, DaysOfTimes DEF Mark, HistoryOK
    <3>2. CASE ~(topic.last # Never /\ topic.last > proc[p].now)
      BY <1>0, <1>4, <3>2 DEF Mark, HistoryOK
    <3> QED
      BY <3>1, <3>2
  <2>4. HistoryOK'
    BY <1>0, <1>4, <2>3 DEF Mark, HistoryOK
  <2> QED
    BY <1>2, <1>4, <2>2, <2>4, TypePartsNext
<1> QED
  BY <1>1, <1>3, <1>4

LEMMA FetchTypes ==
  ASSUME TypeOK, ProcInv, NEW p \in Procs, Fetch(p)
  PROVE  TypeOK'
<1>0. RowsOK /\ StoriesOK /\ ProcOK /\ HistoryOK /\ BoundsOK /\ proc[p].now <= clock
  BY TypeParts, ProcTypes
<1>1. PICK s \in Sources, o \in Outcome, q \in Processes :
        /\ proc' = [proc EXCEPT ![p] = q]
        /\ q.cur = s /\ q.todo = proc[p].todo \ {s} /\ q.now = proc[p].now
        /\ unreviewed' = IF o = "story" THEN Mapped(s) ELSE unreviewed
        /\ streak' = [streak EXCEPT ![s] = IF o \in {"story", "same"} THEN 0
                                           ELSE IF o = "droppable" THEN @ + 1 ELSE @]
        /\ gone' = CASE o = "gone" -> gone \union {s}
                     [] o = "transient" -> gone
                     [] OTHER -> gone \ {s}
        /\ spared' = IF o = "transient" THEN spared ELSE spared \ {s}
        /\ raced' = IF \/ Nursing(s) # {} \/ enabling[s] > 0
                       \/ source[s].status = "disabled" /\ s \notin paused
                    THEN raced \union {s} ELSE raced
        /\ unscanned' = IF o = "story" THEN unscanned \ {s} ELSE unscanned
  BY FetchStep
<1>2. UNCHANGED <<clock, topic, source, enabling, reviewed, searches, twice, paused, upsets,
                 runs>>
  BY DEF Fetch
<1>3. ProcOK'
  BY <1>0, <1>1, <1>2, ProcessStep
<1>4. StoriesOK'
  BY <1>0, <1>1, <1>2 DEF StoriesOK, Mapped
<1>5. HistoryOK'
  <2>1. streak' \in [Sources -> Nat]
    BY <1>0, <1>1 DEF HistoryOK
  <2>2. gone' \subseteq Sources /\ spared' \subseteq Sources /\ raced' \subseteq Sources
    BY <1>0, <1>1 DEF HistoryOK, Outcome
  <2> QED
    BY <1>0, <1>2, <2>1, <2>2 DEF HistoryOK
<1>6. RowsOK' /\ BoundsOK'
  BY <1>0, <1>2 DEF RowsOK, BoundsOK
<1> QED
  BY <1>3, <1>4, <1>5, <1>6, TypePartsNext

(* A health step writes the row of the current source: its status, streak     *)
(* and time, and no other's.                                                *)
LEMMA NurseRow ==
  ASSUME TypeOK, ProcInv, NEW p \in Procs, Nurse(p) \/ Stamp(p)
  PROVE  /\ proc[p].cur \in Sources /\ proc[p].pc \in Nurses
         /\ \E row \in SourceRow :
              /\ source' = [source EXCEPT ![proc[p].cur] = row]
              /\ row.status = IF Disable(p) /\ source[proc[p].cur].status # "deleted"
                              THEN "disabled" ELSE source[proc[p].cur].status
              /\ source[proc[p].cur].status # "deleted" =>
                   row.fails = IF ClearFailures(p) THEN 0
                               ELSE IF Bump(p) THEN source[proc[p].cur].fails + 1
                               ELSE source[proc[p].cur].fails
<1> DEFINE s == proc[p].cur
<1>1. proc[p].pc \in Nurses /\ s \in Sources
  BY ProcTypes DEF Nurse, ClearFailures, Bump, Count, Disable, Stamp, Nurses
<1> HIDE DEF s
<1>2. source \in [Sources -> SourceRow] /\ source[s] \in SourceRow /\ proc[p].now \in Times
  BY <1>1, TypeParts, ProcTypes DEF RowsOK
<1>3. /\ ClearFailures(p) => ~Bump(p) /\ ~Disable(p) /\ ~Stamp(p) /\ ~Count(p)
      /\ Bump(p) => ~Disable(p) /\ ~Stamp(p) /\ ~Count(p)
      /\ Disable(p) => ~Stamp(p) /\ ~Count(p)
  BY DEF ClearFailures, Bump, Count, Disable, Stamp
<1> DEFINE Writes ==
      \E row \in SourceRow :
        /\ source' = [source EXCEPT ![s] = row]
        /\ row.status = IF Disable(p) /\ source[s].status # "deleted"
                        THEN "disabled" ELSE source[s].status
        /\ source[s].status # "deleted" =>
             row.fails = IF ClearFailures(p) THEN 0
                         ELSE IF Bump(p) THEN source[s].fails + 1 ELSE source[s].fails
<1>4. CASE source[s].status = "deleted"
  <2>1. source' = source
    BY <1>4 DEF Nurse, ClearFailures, Bump, Count, Disable, Health, Stamp, s
  <2>2. source' = [source EXCEPT ![s] = source[s]]
    BY <1>1, <1>2, <2>1
  <2> QED
    BY <1>1, <1>2, <1>4, <2>2 DEF s
<1>5. CASE source[s].status # "deleted"
  <2>1. CASE ClearFailures(p)
    <3> DEFINE row == [source[s] EXCEPT !.fails = 0]
    <3>1. source' = [source EXCEPT ![s] = row]
      BY <1>5, <2>1 DEF ClearFailures, Health, s
    <3>2. row \in SourceRow /\ row.status = source[s].status /\ row.fails = 0
      BY <1>2 DEF SourceRow
    <3>3. Writes
      BY <1>3, <1>5, <2>1, <3>1, <3>2
    <3> QED
      BY <1>1, <3>3 DEF s
  <2>2. CASE Bump(p)
    <3> DEFINE row == [source[s] EXCEPT !.fails = @ + 1]
    <3>1. source' = [source EXCEPT ![s] = row]
      BY <1>5, <2>2 DEF Bump, Health, s
    <3>2. row \in SourceRow /\ row.status = source[s].status /\ row.fails = source[s].fails + 1
      BY <1>2 DEF SourceRow
    <3>3. Writes
      BY <1>3, <1>5, <2>2, <3>1, <3>2
    <3> QED
      BY <1>1, <3>3 DEF s
  <2>3. CASE Disable(p)
    <3> DEFINE row == [source[s] EXCEPT !.status = "disabled"]
    <3>1. source' = [source EXCEPT ![s] = row]
      BY <1>5, <2>3 DEF Disable, Health, s
    <3>2. row \in SourceRow /\ row.status = "disabled" /\ row.fails = source[s].fails
      BY <1>2 DEF SourceRow, Statuses
    <3>3. Writes
      BY <1>3, <1>5, <2>3, <3>1, <3>2
    <3> QED
      BY <1>1, <3>3 DEF s
  <2>4. CASE Count(p) \/ Stamp(p)
    <3>1. PICK row \in SourceRow :
             /\ source' = [source EXCEPT ![s] = row]
             /\ row.status = source[s].status /\ row.fails = source[s].fails
      <4>1. CASE Count(p) \/ proc[p].kind = "collect"
        <5>1. source' = source
          BY <1>1, <1>2, <1>3, <2>4, <4>1 DEF Count, Stamp, Health, s
        <5>2. source' = [source EXCEPT ![s] = source[s]]
          BY <1>1, <1>2, <5>1
        <5> QED
          BY <1>2, <5>2
      <4>2. CASE Stamp(p) /\ proc[p].kind # "collect"
        <5> DEFINE row == [source[s] EXCEPT !.last = proc[p].now]
        <5>1. source' = [source EXCEPT ![s] = row]
          BY <1>5, <4>2 DEF Stamp, s
        <5>2. row \in SourceRow /\ row.status = source[s].status /\ row.fails = source[s].fails
          BY <1>2 DEF SourceRow
        <5> QED
          BY <5>1, <5>2
      <4> QED
        BY <2>4, <4>1, <4>2
    <3>2. ~ClearFailures(p) /\ ~Bump(p) /\ ~Disable(p)
      BY <1>3, <2>4
    <3>3. Writes
      BY <1>5, <3>1, <3>2
    <3> QED
      BY <1>1, <3>3 DEF s
  <2> QED
    BY <2>1, <2>2, <2>3, <2>4 DEF Nurse
<1> QED
  BY <1>4, <1>5

LEMMA NurseTypes ==
  ASSUME TypeOK, ProcInv, NEW p \in Procs, Nurse(p) \/ Stamp(p)
  PROVE  TypeOK'
<1>0. RowsOK /\ StoriesOK /\ ProcOK /\ HistoryOK /\ BoundsOK /\ proc[p].now <= clock
      /\ proc[p].cur \notin proc[p].todo /\ 0 \notin proc[p].todo
  BY TypeParts, ProcTypes
<1>1. UNCHANGED <<clock, topic, enabling, stories, history, upsets, runs>>
  BY DEF Nurse, ClearFailures, Bump, Count, Disable, Health, Stamp
<1>2. PICK q \in Processes :
         /\ proc' = [proc EXCEPT ![p] = q]
         /\ q.cur = IF Stamp(p) THEN 0 ELSE proc[p].cur
         /\ q.todo = proc[p].todo /\ q.now = proc[p].now
  BY NurseStep
<1>3. ProcOK'
  BY <1>0, <1>1, <1>2, ProcessStep
<1>4. source' \in [Sources -> SourceRow]
  <2>1. PICK row \in SourceRow : source' = [source EXCEPT ![proc[p].cur] = row]
    BY NurseRow
  <2> QED
    BY <1>0, <2>1 DEF RowsOK
<1>5. RowsOK' /\ StoriesOK' /\ HistoryOK' /\ BoundsOK'
  BY <1>0, <1>1, <1>4 DEF RowsOK, StoriesOK, HistoryOK, BoundsOK, stories, history, excused
<1> QED
  BY <1>3, <1>5, TypePartsNext

LEMMA ReviewTypes ==
  ASSUME TypeOK, ProcInv, NEW p \in Procs, Review(p) \/ Die(p)
  PROVE  TypeOK'
<1> USE DEF stories
<1>0. /\ RowsOK /\ StoriesOK /\ ProcOK /\ HistoryOK /\ BoundsOK
      /\ proc[p].now \in Times /\ proc[p].now <= clock /\ clock \in Nat
      /\ proc[p].batch \in SUBSET Sources /\ proc[p].cur \notin proc[p].todo
  BY TypeParts, ProcTypes
<1>1. UNCHANGED <<clock, topic, source, enabling, searches, streak, gone, runs>>
  BY DEF Review, Scan, Verdict, Die
<1>2. ASSUME Ends(p) PROVE ProcOK'
  <2>1. proc' = [proc EXCEPT ![p] = Idle] /\ Idle \in Processes
    BY <1>2, IdleFields DEF Ends
  <2>2. Idle.now <= clock /\ Idle.cur \notin Idle.todo
    BY <1>0, IdleFields
  <2>3. UNCHANGED clock
    BY <1>1
  <2> QED
    BY <1>0, <2>1, <2>2, <2>3, ProcessStep
<1>3. CASE Scan(p)
  <2>1. ProcOK'
    <3>1. CASE proc[p].kind = "tick" /\ proc[p].touched
      <4>1. PICK q \in Processes :
               /\ proc' = [proc EXCEPT ![p] = q]
               /\ q.now = proc[p].now /\ q.cur = 0 /\ q.todo = {}
        BY <1>3, <3>1, ScanStep
      <4> QED
        BY <1>0, <1>1, <4>1, ProcessStep
    <3>2. CASE ~(proc[p].kind = "tick" /\ proc[p].touched)
      BY <1>2, <1>3, <3>2 DEF Scan, Ends
    <3> QED
      BY <3>1, <3>2
  <2>2. StoriesOK'
    BY <1>0, <1>3 DEF Scan, StoriesOK
  <2>3. RowsOK' /\ HistoryOK' /\ BoundsOK'
    BY <1>0, <1>3 DEF Scan, RowsOK, HistoryOK, BoundsOK, excused
  <2> QED
    BY <2>1, <2>2, <2>3, TypePartsNext
<1>4. CASE Verdict(p)
  <2>1. PICK answered \in SUBSET proc[p].batch :
          /\ reviewed' = reviewed \union answered
          /\ unreviewed' = unreviewed \ answered
          /\ unscanned' = unscanned \union (proc[p].batch \ answered)
    BY <1>4 DEF Verdict, Answers
  <2>2. StoriesOK'
    BY <1>0, <2>1 DEF StoriesOK
  <2>3. RowsOK' /\ HistoryOK' /\ BoundsOK' /\ ProcOK'
    BY <1>0, <1>2, <1>4 DEF Verdict, Ends, RowsOK, HistoryOK, BoundsOK, excused
  <2> QED
    BY <2>2, <2>3, TypePartsNext
<1>5. CASE Die(p)
  <2>1. Day(proc[p].now) \in Days
    BY <1>0, DaysOfTimes
  <2>2. HistoryOK'
    BY <1>0, <1>5, <2>1 DEF Die, HistoryOK, excused
  <2>3. StoriesOK'
    BY <1>0, <1>5 DEF Die, StoriesOK
  <2>4. BoundsOK'
    BY <1>0, <1>5, BoundSteps DEF Die, Upset, BoundsOK
  <2>5. RowsOK' /\ ProcOK'
    BY <1>0, <1>2, <1>5 DEF Die, Ends, RowsOK
  <2> QED
    BY <2>2, <2>3, <2>4, <2>5, TypePartsNext
<1> QED
  BY <1>3, <1>4, <1>5 DEF Review

LEMMA AdminTypes == ASSUME TypeOK, Admin PROVE TypeOK'
<1> USE DEF history, excused, stories
<1>0. RowsOK /\ StoriesOK /\ ProcOK /\ HistoryOK /\ BoundsOK
  BY TypeParts
<1>1. UNCHANGED <<clock, unreviewed, reviewed, unscanned, proc, searches, twice, runs>>
  BY DEF Admin, SetSchedule, ResetSchedule, SetTopicCadence, SetSourceCadence, DeleteSource,
         SetStatus, ApproveAll, EnableSource, EnableClears
<1>2. StoriesOK' /\ ProcOK'
  BY <1>0, <1>1 DEF StoriesOK, ProcOK
<1>3. CASE SetSchedule \/ ResetSchedule \/ SetTopicCadence
  <2>1. PICK body : Legal(body) /\ topic' = Patched(body)
    BY <1>3, BodiesAssumption, UnscheduledIsLegal
    DEF SetSchedule, ResetSchedule, SetTopicCadence
  <2>2. topic' \in TopicRows
    BY <1>0, <2>1, PatchedRow DEF RowsOK
  <2>3. BoundsOK'
    BY <1>0, <1>3, BoundSteps DEF SetSchedule, ResetSchedule, SetTopicCadence, Upset, BoundsOK
  <2>4. RowsOK' /\ HistoryOK'
    BY <1>0, <1>3, <2>2
    DEF SetSchedule, ResetSchedule, SetTopicCadence, RowsOK, HistoryOK
  <2> QED
    BY <1>2, <2>3, <2>4, TypePartsNext
<1>4. ASSUME NEW s \in Sources, SetSourceCadence(s) \/ DeleteSource(s) PROVE TypeOK'
  <2>1. source' \in [Sources -> SourceRow]
    BY <1>0, <1>4, Constants DEF SetSourceCadence, DeleteSource, RowsOK, SourceRow, Statuses
  <2>2. BoundsOK'
    BY <1>0, <1>4, BoundSteps DEF SetSourceCadence, DeleteSource, Upset, BoundsOK
  <2>3. RowsOK' /\ HistoryOK'
    BY <1>0, <1>4, <2>1 DEF SetSourceCadence, DeleteSource, RowsOK, HistoryOK
  <2> QED
    BY <1>2, <2>2, <2>3, TypePartsNext
<1>5. ASSUME NEW s \in Sources, EnableSource(s) PROVE TypeOK'
  <2>1. source' \in [Sources -> SourceRow]
    BY <1>0, <1>5 DEF EnableSource, RowsOK, SourceRow, Statuses
  <2>2. BoundsOK'
    BY <1>0, <1>5, BoundSteps DEF EnableSource, Upset, BoundsOK
  <2>3. RowsOK' /\ HistoryOK'
    BY <1>0, <1>5, <2>1 DEF EnableSource, RowsOK, HistoryOK
  <2> QED
    BY <1>2, <2>2, <2>3, TypePartsNext
<1>6. ASSUME NEW s \in Sources, EnableClears(s) PROVE TypeOK'
  <2>1. source' \in [Sources -> SourceRow] /\ streak' \in [Sources -> Nat]
    BY <1>0, <1>6 DEF EnableClears, RowsOK, HistoryOK, SourceRow
  <2>2. RowsOK' /\ HistoryOK' /\ BoundsOK'
    BY <1>0, <1>6, <2>1 DEF EnableClears, RowsOK, HistoryOK, BoundsOK
  <2> QED
    BY <1>2, <2>2, TypePartsNext
<1>7. ASSUME NEW s \in Sources, NEW status \in {"active", "rejected", "disabled"},
             SetStatus(s, status)
      PROVE  TypeOK'
  <2>1. source' \in [Sources -> SourceRow]
    BY <1>0, <1>7 DEF SetStatus, RowsOK, SourceRow, Statuses
  <2>2. BoundsOK'
    BY <1>0, <1>7, BoundSteps DEF SetStatus, Upset, BoundsOK
  <2>3. RowsOK' /\ HistoryOK'
    BY <1>0, <1>7, <2>1 DEF SetStatus, RowsOK, HistoryOK
  <2> QED
    BY <1>2, <2>2, <2>3, TypePartsNext
<1>8. CASE ApproveAll
  <2>1. source' \in [Sources -> SourceRow]
    BY <1>0, <1>8 DEF ApproveAll, RowsOK, SourceRow, Statuses
  <2>2. BoundsOK'
    BY <1>0, <1>8, BoundSteps DEF ApproveAll, Upset, BoundsOK
  <2>3. RowsOK' /\ HistoryOK'
    BY <1>0, <1>8, <2>1 DEF ApproveAll, RowsOK, HistoryOK
  <2> QED
    BY <1>2, <2>2, <2>3, TypePartsNext
<1> QED
  BY <1>3, <1>4, <1>5, <1>6, <1>7, <1>8 DEF Admin

LEMMA AdvanceTypes == ASSUME TypeOK, Advance PROVE TypeOK'
<1> USE DEF history, excused, stories
<1>0. RowsOK /\ StoriesOK /\ ProcOK /\ HistoryOK /\ BoundsOK
  BY TypeParts
<1>1. clock \in Nat /\ clock' = clock + 1 /\ clock' \in Times
  BY <1>0, Constants DEF Advance, RowsOK, Times
<1>2. ProcOK'
  <2>1. proc' = proc /\ \A p \in Procs : proc[p].now \in Nat
    BY <1>0, DaysOfTimes DEF Advance, ProcOK, Processes
  <2> QED
    BY <1>0, <1>1, <2>1 DEF ProcOK
<1>3. RowsOK' /\ StoriesOK' /\ HistoryOK' /\ BoundsOK'
  BY <1>0, <1>1 DEF Advance, RowsOK, StoriesOK, HistoryOK, BoundsOK
<1> QED
  BY <1>2, <1>3, TypePartsNext

LEMMA TypeNext == TypeOK /\ ProcInv /\ [Next]_vars => TypeOK'
<1> SUFFICES ASSUME TypeOK, ProcInv, [Next]_vars PROVE TypeOK'
  OBVIOUS
<1>1. CASE UNCHANGED vars
  <2>1. RowsOK /\ StoriesOK /\ ProcOK /\ HistoryOK /\ BoundsOK
    BY TypeParts
  <2>2. RowsOK' /\ StoriesOK' /\ ProcOK' /\ HistoryOK' /\ BoundsOK'
    BY <1>1, <2>1
    DEF vars, stories, history, excused, RowsOK, StoriesOK, ProcOK, HistoryOK, BoundsOK
  <2> QED
    BY <2>2, TypePartsNext
<1>2. CASE Next
  BY <1>2, DiscoverTypes, FetchTypes, NurseTypes, ReviewTypes, AdminTypes, AdvanceTypes
  DEF Next, Discover, Collect
<1> QED
  BY <1>1, <1>2

-----------------------------------------------------------------------------
(* The places of the processes.                                             *)
LEMMA ProcInvStep ==
  ASSUME ProcOK, ProcInv, NEW p \in Procs, NEW q \in Processes,
         proc' = [proc EXCEPT ![p] = q],
         q.cur # 0 <=> q.pc \in Nurses, q.pc \in {"off", "search"} => ~q.touched,
         q.kind = "none" => q.pc = "off"
  PROVE  ProcInv'
BY DEF ProcOK, ProcInv

LEMMA ProcInvNext == TypeOK /\ ProcInv /\ [Next]_vars => ProcInv'
<1> SUFFICES ASSUME TypeOK, ProcInv, [Next]_vars PROVE ProcInv'
  OBVIOUS
<1>0. ProcOK
  BY TypeParts
<1>1. ASSUME NEW p \in Procs, BeginSearch(p) PROVE ProcInv'
  <2>1. PICK q \in Processes :
           proc' = [proc EXCEPT ![p] = q] /\ q.pc = "search" /\ q.cur = 0 /\ ~q.touched
             /\ q.kind # "none"
    BY <1>1, BeginSearchStep
  <2>2. q.pc \notin Nurses
    BY <2>1 DEF Nurses
  <2> QED
    BY <1>0, <2>1, <2>2, ProcInvStep
<1>2. ASSUME NEW p \in Procs, BeginCollection(p) \/ BeginCollect(p) \/ Mark(p) PROVE ProcInv'
  <2>1. PICK q \in Processes :
           proc' = [proc EXCEPT ![p] = q] /\ q.pc = "source" /\ q.cur = 0 /\ ~q.touched
             /\ q.kind # "none"
    BY <1>2, CollectionStep
  <2>2. q.pc \notin Nurses
    BY <2>1 DEF Nurses
  <2> QED
    BY <1>0, <2>1, <2>2, ProcInvStep
<1>3. ASSUME NEW p \in Procs, Fetch(p) PROVE ProcInv'
  <2>1. PICK s \in Sources, o \in Outcome, q \in Processes :
           proc' = [proc EXCEPT ![p] = q] /\ q.pc = Step(o) /\ q.cur = s
             /\ q.kind = proc[p].kind
    BY <1>3, FetchStep
  <2>2. q.pc \in Nurses /\ q.cur # 0 /\ q.pc \notin {"off", "search"}
    BY <2>1, Constants DEF Step, Outcome, Nurses
  <2>3. q.kind # "none"
    BY <1>3, <2>1 DEF Fetch, ProcInv
  <2> QED
    BY <1>0, <2>1, <2>2, <2>3, ProcInvStep
<1>4. ASSUME NEW p \in Procs, Nurse(p) \/ Stamp(p) PROVE ProcInv'
  <2>1. PICK q \in Processes :
           /\ proc' = [proc EXCEPT ![p] = q]
           /\ q.pc \in {"source", "count", "disable", "stamp"}
           /\ q.cur = IF Stamp(p) THEN 0 ELSE proc[p].cur
           /\ q.pc = "source" <=> Stamp(p)
           /\ q.kind = proc[p].kind
    BY <1>4, NurseStep
  <2>2. proc[p].cur \in Sources
    BY <1>4, NurseRow
  <2>3. q.cur # 0 <=> q.pc \in Nurses
    BY <2>1, <2>2, Constants DEF Nurses
  <2>4. q.kind # "none"
    BY <1>4, <2>1 DEF Nurse, ClearFailures, Bump, Count, Disable, Stamp, ProcInv
  <2> QED
    BY <1>0, <2>1, <2>3, <2>4, ProcInvStep
<1>5. ASSUME NEW p \in Procs, Ends(p) PROVE ProcInv'
  <2>1. proc' = [proc EXCEPT ![p] = Idle]
    BY <1>5 DEF Ends
  <2>2. /\ Idle \in Processes /\ Idle.cur = 0 /\ Idle.pc \notin Nurses /\ ~Idle.touched
        /\ Idle.pc = "off"
    BY IdleFields DEF Nurses
  <2> QED
    BY <1>0, <2>1, <2>2, ProcInvStep
<1>6. ASSUME NEW p \in Procs, Review(p) \/ Die(p) PROVE ProcInv'
  <2>1. CASE Scan(p) /\ proc[p].kind = "tick" /\ proc[p].touched
    <3>1. PICK q \in Processes :
             proc' = [proc EXCEPT ![p] = q] /\ q.pc = "verdict" /\ q.cur = 0
               /\ q.kind = proc[p].kind
      BY <2>1, ScanStep
    <3>2. q.pc \notin Nurses /\ q.pc \notin {"off", "search"}
      BY <3>1 DEF Nurses
    <3>3. q.kind # "none"
      BY <2>1, <3>1
    <3> QED
      BY <1>0, <3>1, <3>2, <3>3, ProcInvStep
  <2>2. CASE ~(Scan(p) /\ proc[p].kind = "tick" /\ proc[p].touched)
    BY <1>5, <1>6, <2>2 DEF Review, Scan, Verdict, Die, Ends
  <2> QED
    BY <2>1, <2>2
<1>7. ASSUME UNCHANGED proc PROVE ProcInv'
  BY <1>7 DEF ProcInv
<1>8. Advance \/ Admin \/ UNCHANGED vars => UNCHANGED proc
  BY DEF Advance, Admin, SetSchedule, ResetSchedule, SetTopicCadence, SetSourceCadence,
         DeleteSource, SetStatus, ApproveAll, EnableSource, EnableClears, vars
<1> QED
  BY <1>1, <1>2, <1>3, <1>4, <1>6, <1>7, <1>8 DEF Next, Discover, Collect

-----------------------------------------------------------------------------
(* Days.  A search that is counted finds the topic unmarked on its day.       *)
LEMMA DayKeeps ==
  ASSUME TypeOK, DayInv, OncePerDay,
         UNCHANGED <<clock, searches>>, topic'.last = topic.last, twice \subseteq twice',
         \A p \in Searching : p \in Searching' /\ proc'[p].now = proc[p].now
  PROVE  DayInv' /\ OncePerDay'
<1>1. \A d \in Days : MarkedOn(d) => MarkedOn(d)'
  BY DEF MarkedOn, Day
<1>2. \A d \in Days : UnderWay(d) => UnderWay(d)'
  BY DEF UnderWay, Day
<1> QED
  BY <1>1, <1>2 DEF DayInv, OncePerDay, Day

(* What the lemmas below use of the types.                                  *)
LEMMA DayTypes ==
  ASSUME TypeOK
  PROVE  /\ clock \in Times /\ clock \in Nat /\ Day(clock) \in Days /\ Day(clock) \in Nat
         /\ searches \in [Days -> Nat]
         /\ topic.last # Never => topic.last \in Times /\ topic.last \in Nat
         /\ topic \in TopicRows
<1>1. RowsOK /\ HistoryOK
  BY TypeParts
<1>2. topic.last \in Times \union {Never}
  BY <1>1 DEF RowsOK, TopicRows
<1> QED
  BY <1>1, <1>2, DaysOfTimes DEF RowsOK, HistoryOK

LEMMA BeginSearchDay ==
  ASSUME TypeOK, ProcInv, DayInv, OncePerDay, NEW p \in Procs, BeginSearch(p)
  PROVE  DayInv' /\ OncePerDay'
<1>a. PICK today \in Days : today = Day(clock)
  BY DayTypes
<1>0. /\ clock \in Times /\ clock \in Nat /\ today \in Days /\ today \in Nat
      /\ searches \in [Days -> Nat] /\ UNCHANGED <<clock, topic>> /\ Day(clock)' = today
  BY <1>a, DayTypes DEF BeginSearch, Day
<1>1. PICK q \in Processes :
         proc' = [proc EXCEPT ![p] = q] /\ q.now = clock /\ q.pc = "search"
  BY BeginSearchStep
<1>2. p \in Searching' /\ proc'[p].now = clock
  BY <1>1 DEF Searching, TypeOK
<1>3. UnderWay(today)'
  BY <1>0, <1>2 DEF UnderWay, Day
<1>4. twice \subseteq twice' /\ (Searching # {} => today \in twice')
  BY <1>a DEF BeginSearch
<1> DEFINE more == IF Scheduled(topic) THEN 1 ELSE 0
<1>5. /\ \A d \in Days \ {today} : searches'[d] = searches[d]
      /\ searches'[today] = searches[today] + more
  BY <1>0 DEF BeginSearch
<1>6. Scheduled(topic) => ~MarkedOn(today)
  BY <1>a DEF BeginSearch, DiscoverDue, RanToday, MarkedOn
<1>7. Scheduled(topic) /\ searches[today] > 0 => today \in twice'
  <2>1. UnderWay(today) => Searching # {}
    BY DEF UnderWay
  <2> QED
    BY <1>0, <1>4, <1>6, <2>1 DEF DayInv
<1>8. searches'[today] <= 1 \/ today \in twice'
  <2>1. CASE Scheduled(topic)
    <3>1. searches'[today] = searches[today] + 1 /\ searches[today] \in Nat
      BY <1>0, <1>5, <2>1
    <3> QED
      BY <1>7, <2>1, <3>1
  <2>2. CASE ~Scheduled(topic)
    <3>1. searches'[today] = searches[today]
      BY <1>0, <1>5, <2>2
    <3> QED
      BY <1>0, <1>4, <3>1 DEF OncePerDay
  <2> QED
    BY <2>1, <2>2
<1>9. OncePerDay'
  BY <1>0, <1>4, <1>5, <1>8 DEF OncePerDay
<1>10. \A d \in Days : d > today => searches'[d] = 0
  <2>1. \A d \in Days : d > today => searches[d] = 0
    BY <1>a DEF DayInv
  <2> QED
    BY <1>0, <1>5, <2>1
<1>11. DayInv'
  BY <1>0, <1>3, <1>10 DEF DayInv
<1> QED
  BY <1>9, <1>11

LEMMA MarkDay ==
  ASSUME TypeOK, ProcInv, DayInv, OncePerDay, NEW p \in Procs, Mark(p)
  PROVE  DayInv' /\ OncePerDay'
<1>a. PICK today \in Days, now \in Times : today = Day(clock) /\ now = proc[p].now
  BY DayTypes, ProcTypes
<1>0. /\ clock \in Times /\ clock \in Nat /\ today \in Days /\ today \in Nat
      /\ searches \in [Days -> Nat] /\ UNCHANGED <<clock, searches>> /\ Day(clock)' = today
      /\ now \in Times /\ now \in Nat /\ now <= clock /\ now # Never
      /\ topic.last # Never => topic.last \in Nat
  BY <1>a, DayTypes, ProcTypes, DaysOfTimes DEF Mark, Day
<1>1. topic'.last = now
  BY <1>a, DayTypes DEF Mark, TopicRows
<1>2. PICK q \in Processes : proc' = [proc EXCEPT ![p] = q]
  BY CollectionStep
<1>3. twice \subseteq twice'
  BY DEF Mark
<1>4. topic.last # Never /\ topic.last > now => Day(topic.last) \in twice'
  BY <1>a DEF Mark
<1>5. Day(now) = today => MarkedOn(today)'
  BY <1>0, <1>1 DEF MarkedOn, Day
<1>6. MarkedOn(today) => today \in twice' \/ MarkedOn(today)'
  <2> SUFFICES ASSUME MarkedOn(today), ~(topic.last > now) PROVE Day(now) = today
    BY <1>4, <1>5 DEF MarkedOn
  <2>1. topic.last \in Nat /\ topic.last <= now /\ Day(topic.last) = today
    BY <1>0 DEF MarkedOn
  <2>2. /\ Day(topic.last) <= Day(now) /\ Day(now) <= Day(clock)
        /\ Day(now) \in Nat /\ Day(clock) \in Nat
    BY <1>0, <2>1, DayMonotone
  <2> QED
    BY <1>a, <2>1, <2>2
<1>7. UnderWay(today) => MarkedOn(today)' \/ UnderWay(today)'
  <2>1. ASSUME NEW r \in Searching, Day(proc[r].now) = today
        PROVE  MarkedOn(today)' \/ UnderWay(today)'
    <3>1. CASE r = p
      BY <1>a, <1>5, <2>1, <3>1
    <3>2. CASE r # p
      <4>1. r \in Searching' /\ proc'[r] = proc[r]
        BY <1>2, <3>2 DEF Searching, TypeOK
      <4> QED
        BY <1>0, <2>1, <4>1 DEF UnderWay, Day
    <3> QED
      BY <3>1, <3>2
  <2> QED
    BY <2>1 DEF UnderWay
<1>8. DayInv'
  <2>1. topic'.last # Never => topic'.last <= clock'
    BY <1>0, <1>1
  <2>2. \A d \in Days : d > today => searches'[d] = 0
    BY <1>0 DEF DayInv
  <2>3. searches'[today] > 0 => today \in twice' \/ MarkedOn(today)' \/ UnderWay(today)'
    <3>1. searches[today] > 0 => today \in twice \/ MarkedOn(today) \/ UnderWay(today)
      BY <1>0 DEF DayInv
    <3> QED
      BY <1>0, <1>3, <1>6, <1>7, <3>1
  <2> QED
    BY <1>0, <2>1, <2>2, <2>3 DEF DayInv
<1>9. OncePerDay'
  BY <1>0, <1>3 DEF OncePerDay
<1> QED
  BY <1>8, <1>9

LEMMA DieDay ==
  ASSUME TypeOK, ProcInv, DayInv, OncePerDay, NEW p \in Procs, Die(p)
  PROVE  DayInv' /\ OncePerDay'
<1>0. UNCHANGED <<clock, topic, searches>> /\ twice \subseteq twice'
  BY DEF Die
<1>1. \A d \in Days : MarkedOn(d) => MarkedOn(d)'
  BY <1>0 DEF MarkedOn, Day
<1>2. ASSUME NEW d \in Days, UnderWay(d) PROVE UnderWay(d)' \/ d \in twice'
  <2>1. PICK r \in Searching : Day(proc[r].now) = d
    BY <1>2 DEF UnderWay
  <2>2. CASE r = p
    BY <2>1, <2>2 DEF Die
  <2>3. CASE r # p
    <3>1. r \in Searching' /\ proc'[r] = proc[r]
      BY <2>3 DEF Die, Searching, TypeOK
    <3> QED
      BY <2>1, <3>1 DEF UnderWay, Day
  <2> QED
    BY <2>2, <2>3
<1> QED
  BY <1>0, <1>1, <1>2 DEF DayInv, OncePerDay, Day

LEMMA AdvanceDay ==
  ASSUME TypeOK, DayInv, OncePerDay, Advance
  PROVE  DayInv' /\ OncePerDay'
<1>0. /\ clock \in Nat /\ clock' = clock + 1 /\ UNCHANGED <<topic, searches, twice, proc>>
      /\ topic.last # Never => topic.last \in Nat
  BY DayTypes DEF Advance, history
<1>1. /\ Day(clock) \in Nat /\ Day(clock') \in Nat /\ Day(clock) <= Day(clock')
      /\ Day(clock)' = Day(clock')
  <2>1. clock + 1 \in Nat /\ clock <= clock + 1
    BY <1>0
  <2> QED
    BY <1>0, <2>1, DayMonotone DEF Day
<1>2. \A d \in Days : (MarkedOn(d) => MarkedOn(d)') /\ (UnderWay(d) => UnderWay(d)')
  BY <1>0 DEF MarkedOn, UnderWay, Searching, Day
<1>3. Days \subseteq Nat
  BY DaysOfTimes
<1>4. \A d \in Days : d > Day(clock') => searches'[d] = 0
  BY <1>0, <1>1, <1>3 DEF DayInv
<1>5. \A d \in Days :
        d = Day(clock') /\ searches'[d] > 0 => d \in twice' \/ MarkedOn(d)' \/ UnderWay(d)'
  BY <1>0, <1>1, <1>2, <1>3 DEF DayInv
<1>6. topic'.last # Never => topic'.last <= clock'
  BY <1>0 DEF DayInv
<1>7. DayInv'
  BY <1>1, <1>4, <1>5, <1>6 DEF DayInv
<1> QED
  BY <1>0, <1>7 DEF OncePerDay

LEMMA DayNext ==
  TypeOK /\ ProcInv /\ DayInv /\ OncePerDay /\ [Next]_vars => DayInv' /\ OncePerDay'
<1> SUFFICES ASSUME TypeOK, ProcInv, DayInv, OncePerDay, [Next]_vars
             PROVE  DayInv' /\ OncePerDay'
  OBVIOUS
<1> USE DEF history, excused, stories
<1>1. ASSUME NEW p \in Procs, NEW q \in Processes, proc' = [proc EXCEPT ![p] = q],
             proc[p].pc # "search", UNCHANGED <<clock, searches, topic, twice>>
      PROVE  DayInv' /\ OncePerDay'
  <2>1. \A r \in Searching : r \in Searching' /\ proc'[r].now = proc[r].now
    BY <1>1 DEF Searching, TypeOK
  <2> QED
    BY <1>1, <2>1, DayKeeps
<1>2. ASSUME NEW p \in Procs, BeginCollection(p) \/ BeginCollect(p) PROVE DayInv' /\ OncePerDay'
  <2>1. PICK q \in Processes : proc' = [proc EXCEPT ![p] = q]
    BY <1>2, CollectionStep
  <2>2. proc[p].pc # "search" /\ UNCHANGED <<clock, searches, topic, twice>>
    BY <1>2 DEF BeginCollection, BeginCollect, Starts
  <2> QED
    BY <1>1, <2>1, <2>2
<1>3. ASSUME NEW p \in Procs, Fetch(p) PROVE DayInv' /\ OncePerDay'
  <2>1. PICK q \in Processes : proc' = [proc EXCEPT ![p] = q]
    BY <1>3, FetchStep
  <2>2. proc[p].pc # "search" /\ UNCHANGED <<clock, searches, topic, twice>>
    BY <1>3 DEF Fetch
  <2> QED
    BY <1>1, <2>1, <2>2
<1>4. ASSUME NEW p \in Procs, Nurse(p) \/ Stamp(p) PROVE DayInv' /\ OncePerDay'
  <2>1. PICK q \in Processes : proc' = [proc EXCEPT ![p] = q]
    BY <1>4, NurseStep
  <2>2. proc[p].pc # "search" /\ UNCHANGED <<clock, searches, topic, twice>>
    BY <1>4 DEF Nurse, ClearFailures, Bump, Count, Disable, Health, Stamp
  <2> QED
    BY <1>1, <2>1, <2>2
<1>5. ASSUME NEW p \in Procs, Review(p) PROVE DayInv' /\ OncePerDay'
  <2>1. PICK q \in Processes : proc' = [proc EXCEPT ![p] = q]
    BY <1>5, ScanStep, IdleFields DEF Review, Scan, Verdict
  <2>2. proc[p].pc # "search" /\ UNCHANGED <<clock, searches, topic, twice>>
    BY <1>5 DEF Review, Scan, Verdict
  <2> QED
    BY <1>1, <2>1, <2>2
<1>6. ASSUME Admin \/ UNCHANGED vars PROVE DayInv' /\ OncePerDay'
  <2>1. UNCHANGED <<clock, proc, searches, twice>>
    BY <1>6
    DEF Admin, SetSchedule, ResetSchedule, SetTopicCadence, SetSourceCadence, DeleteSource,
        SetStatus, ApproveAll, EnableSource, EnableClears, vars, history
  <2>2. topic'.last = topic.last
    <3>1. CASE SetSchedule \/ ResetSchedule \/ SetTopicCadence
      <4>1. PICK body : Legal(body) /\ topic' = Patched(body)
        BY <3>1, BodiesAssumption, UnscheduledIsLegal
        DEF SetSchedule, ResetSchedule, SetTopicCadence
      <4> QED
        BY <4>1, DayTypes, PatchedRow
    <3>2. CASE ~(SetSchedule \/ ResetSchedule \/ SetTopicCadence)
      BY <1>6, <3>2
      DEF Admin, SetSourceCadence, DeleteSource, SetStatus, ApproveAll, EnableSource,
          EnableClears, vars
    <3> QED
      BY <3>1, <3>2
  <2>3. \A r \in Searching : r \in Searching' /\ proc'[r].now = proc[r].now
    BY <2>1 DEF Searching
  <2> QED
    BY <2>1, <2>2, <2>3, DayKeeps
<1> QED
  BY <1>2, <1>3, <1>4, <1>5, <1>6, BeginSearchDay, MarkDay, DieDay, AdvanceDay
  DEF Next, Discover, Collect

-----------------------------------------------------------------------------
(* The stories.                                                             *)
LEMMA StoryStep ==
  ASSUME TypeOK, StoryInv, NEW p \in Procs, NEW q, proc' = [proc EXCEPT ![p] = q],
         UNCHANGED <<unreviewed, unscanned>>,
         proc[p].touched => q.touched /\ q.pc # "verdict"
  PROVE  StoryInv'
<1> SUFFICES ASSUME NEW s \in unreviewed', s \notin unscanned'
             PROVE  \E r \in Procs : Holds(r, s)'
  BY DEF StoryInv
<1>1. PICK r \in Procs : Holds(r, s)
  BY DEF StoryInv
<1>2. proc'[r] = IF r = p THEN q ELSE proc[r]
  BY DEF TypeOK
<1>3. Holds(r, s)'
  BY <1>1, <1>2 DEF Holds
<1> QED
  BY <1>3

LEMMA FetchStory ==
  ASSUME TypeOK, ProcInv, StoryInv, NEW p \in Procs, Fetch(p)
  PROVE  StoryInv'
<1>1. PICK f \in Sources, o \in Outcome, q \in Processes :
         /\ proc' = [proc EXCEPT ![p] = q]
         /\ q.pc = Step(o) /\ q.touched = TouchedBy(p, f, o)
         /\ unreviewed' = IF o = "story" THEN Mapped(f) ELSE unreviewed
         /\ unscanned' = IF o = "story" THEN unscanned \ {f} ELSE unscanned
  BY FetchStep
<1>2. q.pc # "verdict"
  BY <1>1 DEF Step, Outcome
<1>3. proc'[p] = q
  BY <1>1 DEF TypeOK
<1>4. CASE o = "story"
  <2>1. q.touched
    BY <1>1, <1>4 DEF TouchedBy
  <2>2. \A s \in unreviewed' : Holds(p, s)'
    BY <1>2, <1>3, <2>1 DEF Holds
  <2> QED
    BY <2>2 DEF StoryInv
<1>5. CASE o # "story"
  <2>1. proc[p].touched => q.touched
    BY <1>1 DEF TouchedBy
  <2> QED
    BY <1>1, <1>2, <1>5, <2>1, StoryStep
<1> QED
  BY <1>4, <1>5

LEMMA ReviewStory ==
  ASSUME TypeOK, ProcInv, StoryInv, NEW p \in Procs, Review(p) \/ Die(p)
  PROVE  StoryInv'
<1>0. proc[p] \in Processes
  BY ProcTypes
<1>1. ASSUME NEW r \in Procs, r # p, NEW s, Holds(r, s), Ends(p) PROVE Holds(r, s)'
  BY <1>1 DEF Holds, Ends, TypeOK
<1>2. CASE Scan(p)
  <2>1. CASE proc[p].kind = "tick" /\ proc[p].touched
    <3>1. PICK q \in Processes :
             proc' = [proc EXCEPT ![p] = q] /\ q.batch = unreviewed /\ q.touched
      BY <1>2, <2>1, ScanStep
    <3>2. proc'[p] = q /\ unreviewed' = unreviewed
      BY <1>2, <3>1 DEF Scan, stories, TypeOK
    <3>3. \A s \in unreviewed' : Holds(p, s)'
      BY <3>1, <3>2 DEF Holds
    <3> QED
      BY <3>3 DEF StoryInv
  <2>2. CASE ~(proc[p].kind = "tick" /\ proc[p].touched)
    <3>1. Ends(p) /\ unreviewed' = unreviewed /\ unscanned \subseteq unscanned'
      BY <1>2, <2>2 DEF Scan, Ends, stories
    <3>2. proc[p].touched => unreviewed \subseteq unscanned'
      <4>1. proc[p].kind \in {"tick", "collect"}
        BY <1>0, <1>2 DEF Scan, ProcInv, Processes
      <4> QED
        BY <1>2, <2>2, <4>1 DEF Scan
    <3>3. \A s : Holds(p, s) => proc[p].touched
      BY DEF Holds
    <3> QED
      BY <1>1, <3>1, <3>2, <3>3 DEF StoryInv
  <2> QED
    BY <2>1, <2>2
<1>3. CASE Verdict(p)
  <2>1. PICK answered \in SUBSET proc[p].batch :
          /\ unreviewed' = unreviewed \ answered
          /\ unscanned' = unscanned \union (proc[p].batch \ answered)
    BY <1>3 DEF Verdict, Answers
  <2>2. Ends(p)
    BY <1>3 DEF Verdict, Ends
  <2>3. \A s : Holds(p, s) => s \in proc[p].batch
    BY <1>3 DEF Holds, Verdict
  <2> QED
    BY <1>1, <2>1, <2>2, <2>3 DEF StoryInv
<1>4. CASE Die(p)
  <2>1. Ends(p) /\ unreviewed' = unreviewed /\ unscanned \subseteq unscanned'
    BY <1>4 DEF Die, Ends, stories
  <2>2. \A s : Holds(p, s) => unreviewed \subseteq unscanned'
    BY <1>4 DEF Holds, Die
  <2> QED
    BY <1>1, <2>1, <2>2 DEF StoryInv
<1> QED
  BY <1>2, <1>3, <1>4 DEF Review

LEMMA StoryNext == TypeOK /\ ProcInv /\ StoryInv /\ [Next]_vars => StoryInv'
<1> SUFFICES ASSUME TypeOK, ProcInv, StoryInv, [Next]_vars PROVE StoryInv'
  OBVIOUS
<1> USE DEF history, excused, stories
<1>1. ASSUME NEW p \in Procs, BeginSearch(p) \/ BeginCollection(p) \/ BeginCollect(p) \/ Mark(p)
      PROVE  StoryInv'
  <2>1. PICK q : proc' = [proc EXCEPT ![p] = q]
    BY <1>1, BeginSearchStep, CollectionStep
  <2>2. ~proc[p].touched
    BY <1>1
    DEF BeginSearch, BeginCollection, BeginCollect, Mark, Starts, ProcInv
  <2>3. UNCHANGED <<unreviewed, unscanned>>
    BY <1>1 DEF BeginSearch, BeginCollection, BeginCollect, Mark
  <2> QED
    BY <2>1, <2>2, <2>3, StoryStep
<1>2. ASSUME NEW p \in Procs, Nurse(p) \/ Stamp(p) PROVE StoryInv'
  <2>1. PICK q \in Processes :
          /\ proc' = [proc EXCEPT ![p] = q] /\ q.touched = proc[p].touched
          /\ q.pc \in {"source", "count", "disable", "stamp"}
    BY <1>2, NurseStep
  <2>2. UNCHANGED <<unreviewed, unscanned>>
    BY <1>2 DEF Nurse, ClearFailures, Bump, Count, Disable, Health, Stamp
  <2> QED
    BY <2>1, <2>2, StoryStep
<1>3. ASSUME Advance \/ Admin \/ UNCHANGED vars PROVE StoryInv'
  <2>1. UNCHANGED <<unreviewed, unscanned, proc>>
    BY <1>3
    DEF Advance, Admin, SetSchedule, ResetSchedule, SetTopicCadence, SetSourceCadence,
        DeleteSource, SetStatus, ApproveAll, EnableSource, EnableClears, vars, stories, history
  <2> QED
    BY <2>1 DEF StoryInv, Holds
<1> QED
  BY <1>1, <1>2, <1>3, FetchStory, ReviewStory DEF Next, Discover, Collect

-----------------------------------------------------------------------------
(* The health of the sources.  SameHealth: a step leaves everything that a    *)
(* source's health depends on, or adds it to those raced for.               *)
SameHealth(s) ==
  /\ source'[s].status = source[s].status /\ source'[s].fails = source[s].fails
  /\ streak'[s] = streak[s] /\ (s \in gone' <=> s \in gone)
  /\ (s \in spared' <=> s \in spared) /\ (s \in paused' <=> s \in paused)
  /\ enabling'[s] = enabling[s] /\ (s \in raced => s \in raced')
  /\ Nursing(s)' = Nursing(s) /\ \A p \in Nursing(s) : proc'[p].pc = proc[p].pc

LEMMA HealthStays ==
  ASSUME NEW s \in Sources, HealthInv(s), SameHealth(s)
  PROVE  HealthInv(s)'
<1>1. Untouched(s) => Untouched(s)'
  BY DEF Untouched, SameHealth
<1>2. /\ Settled(s) => Settled(s)'
      /\ OwnersDoing(s) => OwnersDoing(s)'
  BY DEF Settled, OwnersDoing, Earned, Counted, SameHealth
<1>3. ASSUME NEW p \in Nursing(s), Nursed(p, s) PROVE Nursed(p, s)'
  <2>1. proc'[p].pc = proc[p].pc /\ (Earned(s)' <=> Earned(s)) /\ (Counted(s)' <=> Counted(s))
    BY DEF SameHealth, Earned, Counted
  <2> QED
    BY <1>2, <1>3, <2>1 DEF Nursed, SameHealth
<1> QED
  BY <1>1, <1>2, <1>3 DEF HealthInv, SameHealth

(* An owner writes the status, of which a process in the middle of the health  *)
(* expects nothing, and the histories say whose doing it is.                 *)
LEMMA StatusHealth ==
  ASSUME NEW s \in Sources, HealthInv(s), source[s].status # "deleted",
         source'[s].fails = source[s].fails,
         UNCHANGED <<proc, streak, gone, enabling, raced>>,
         source'[s].status = "active" => ~Earned(s) \/ s \in spared',
         source'[s].status = "disabled" => s \in paused'
  PROVE  HealthInv(s)'
<1>1. Nursing(s)' = Nursing(s) /\ (Earned(s)' <=> Earned(s)) /\ (Counted(s)' <=> Counted(s))
  BY DEF Nursing, Earned, Counted
<1>2. OwnersDoing(s)' /\ (Counted(s) => Settled(s)')
  BY <1>1 DEF OwnersDoing, Settled
<1>3. Untouched(s) => Untouched(s)'
  BY DEF Untouched
<1>4. ASSUME NEW p \in Nursing(s), Nursed(p, s) PROVE Nursed(p, s)'
  BY <1>1, <1>2, <1>4 DEF Nursed, Settled
<1> QED
  BY <1>1, <1>2, <1>3, <1>4 DEF HealthInv, Settled

(* Who works on a source after a step of p.                                 *)
LEMMA NursingStep ==
  ASSUME TypeOK, NEW p \in Procs, NEW q, proc' = [proc EXCEPT ![p] = q], NEW s \in Sources
  PROVE  /\ q.cur = s => Nursing(s)' = Nursing(s) \union {p}
         /\ q.cur # s => Nursing(s)' = Nursing(s) \ {p}
         /\ \A r \in Procs \ {p} : proc'[r] = proc[r]
         /\ proc'[p] = q
BY DEF TypeOK, Nursing

(* A step of a process that works on no source and takes none up.            *)
LEMMA IdleHealth ==
  ASSUME TypeOK, NEW p \in Procs, NEW q, proc' = [proc EXCEPT ![p] = q],
         proc[p].cur = 0, q.cur = 0,
         UNCHANGED <<source, streak, gone, excused, enabling>>, raced \subseteq raced',
         NEW s \in Sources, HealthInv(s)
  PROVE  HealthInv(s)'
<1>1. p \notin Nursing(s) /\ q.cur # s
  BY Constants DEF Nursing
<1>2. Nursing(s)' = Nursing(s) /\ \A r \in Nursing(s) : proc'[r].pc = proc[r].pc
  BY <1>1, NursingStep DEF Nursing
<1>3. SameHealth(s)
  BY <1>2 DEF SameHealth, excused
<1> QED
  BY <1>3, HealthStays

LEMMA FetchHealth ==
  ASSUME TypeOK, ProcInv, NEW p \in Procs, Fetch(p), NEW s \in Sources, HealthInv(s)
  PROVE  HealthInv(s)'
<1>1. PICK f \in Sources, o \in Outcome, q \in Processes :
        /\ proc' = [proc EXCEPT ![p] = q]
        /\ q.pc = Step(o) /\ q.cur = f
        /\ streak' = [streak EXCEPT ![f] = IF o \in {"story", "same"} THEN 0
                                           ELSE IF o = "droppable" THEN @ + 1 ELSE @]
        /\ gone' = CASE o = "gone" -> gone \union {f}
                     [] o = "transient" -> gone
                     [] OTHER -> gone \ {f}
        /\ spared' = IF o = "transient" THEN spared ELSE spared \ {f}
        /\ raced' = IF \/ Nursing(f) # {} \/ enabling[f] > 0
                       \/ source[f].status = "disabled" /\ f \notin paused
                    THEN raced \union {f} ELSE raced
  BY FetchStep
<1>2. UNCHANGED <<source, enabling, paused>> /\ proc[p].pc = "source"
  BY DEF Fetch
<1>3. proc[p].cur = 0 /\ p \notin Nursing(s)
  BY <1>2, ProcTypes, Constants DEF Nurses, Nursing
<1>4. CASE f # s
  <2>1. Nursing(s)' = Nursing(s) /\ \A r \in Nursing(s) : proc'[r].pc = proc[r].pc
    BY <1>1, <1>3, <1>4, NursingStep DEF Nursing
  <2>2. /\ streak'[s] = streak[s] /\ (s \in gone' <=> s \in gone)
        /\ (s \in spared' <=> s \in spared) /\ (s \in raced => s \in raced')
    BY <1>1, <1>4 DEF TypeOK, Outcome
  <2>3. SameHealth(s)
    BY <1>2, <2>1, <2>2 DEF SameHealth
  <2> QED
    BY <2>3, HealthStays
<1>5. CASE f = s /\ ~Untouched(s)'
  <2>1. /\ s \notin raced' /\ s \notin raced /\ Nursing(s) = {} /\ ~(enabling[s] > 0)
        /\ OwnersDoing(s) /\ source[s].status # "deleted"
    BY <1>1, <1>2, <1>5 DEF Untouched, OwnersDoing
  <2>2. ~Untouched(s) /\ Settled(s)
    BY <2>1 DEF HealthInv, Untouched
  <2>3. Counted(s)
    BY <2>2 DEF Settled
  <2>4. streak \in [Sources -> Nat] /\ Threshold \in Nat /\ source[s].fails \in Nat
    BY Constants DEF TypeOK
  <2>5. Nursing(s)' = {p} /\ proc'[p].pc = Step(o)
    <3>1. Nursing(s)' = Nursing(s) \union {p} /\ proc'[p] = q
      <4>1. q.cur = s /\ proc' = [proc EXCEPT ![p] = q]
        BY <1>1, <1>5
      <4> QED
        BY <4>1, NursingStep
    <3> QED
      BY <1>1, <2>1, <3>1
  <2>6. /\ source'[s].status = source[s].status /\ source'[s].fails = source[s].fails
        /\ OwnersDoing(s)'
    BY <1>2, <2>1 DEF OwnersDoing
  <2>7. Nursed(p, s)'
    <3>1. CASE o \in {"story", "same"}
      <4>1. Step(o) = "clear"
        BY <3>1 DEF Step
      <4>2. streak'[s] = 0 /\ s \notin gone'
        BY <1>1, <1>5, <2>4, <3>1
      <4>3. ~Earned(s)'
        BY <2>4, <4>2 DEF Earned
      <4> QED
        BY <2>5, <2>6, <4>1, <4>2, <4>3 DEF Nursed
    <3>2. CASE o = "droppable" /\ Threshold > 0
      <4>1. Step(o) = "bump"
        BY <3>2 DEF Step
      <4>2. streak'[s] = streak[s] + 1 /\ s \notin gone'
        BY <1>1, <1>5, <2>4, <3>2
      <4>3. source'[s].fails + 1 = streak'[s] /\ s \notin gone'
        BY <2>3, <2>6, <3>2, <4>2 DEF Counted
      <4> QED
        BY <2>5, <2>6, <3>2, <4>1, <4>3 DEF Nursed
    <3>3. CASE o = "gone" /\ Threshold > 0
      <4>1. Step(o) = "disable"
        BY <3>3 DEF Step
      <4>2. streak'[s] = streak[s] /\ s \in gone'
        BY <1>1, <1>5, <2>4, <3>3
      <4>3. Earned(s)' /\ Counted(s)'
        BY <2>3, <2>6, <3>3, <4>2 DEF Earned, Counted
      <4> QED
        BY <2>5, <2>6, <4>1, <4>3 DEF Nursed
    <3>4. CASE o = "transient"
      <4>1. Step(o) = "stamp"
        BY <3>4 DEF Step
      <4>2. streak'[s] = streak[s] /\ gone' = gone /\ spared' = spared
        BY <1>1, <1>5, <2>4, <3>4
      <4>3. Settled(s)'
        BY <1>2, <2>2, <2>6, <4>2 DEF Settled, Earned, Counted
      <4> QED
        BY <2>5, <4>1, <4>3 DEF Nursed
    <3>5. CASE o \in {"droppable", "gone"} /\ ~(Threshold > 0)
      <4>1. Step(o) = "stamp"
        BY <3>5 DEF Step
      <4>2. Settled(s)'
        BY <2>6, <3>5 DEF Settled, Earned, Counted, OwnersDoing
      <4> QED
        BY <2>5, <4>1, <4>2 DEF Nursed
    <3> QED
      BY <3>1, <3>2, <3>3, <3>4, <3>5 DEF Outcome
  <2>8. ~(enabling'[s] > 0)
    BY <1>2, <2>1
  <2> QED
    BY <2>5, <2>7, <2>8 DEF HealthInv
<1>6. CASE Untouched(s)'
  BY <1>6 DEF HealthInv
<1> QED
  BY <1>4, <1>5, <1>6

LEMMA NurseHealth ==
  ASSUME TypeOK, ProcInv, NEW p \in Procs, Nurse(p) \/ Stamp(p),
         NEW s \in Sources, HealthInv(s)
  PROVE  HealthInv(s)'
<1>1. PICK q \in Processes :
         /\ proc' = [proc EXCEPT ![p] = q]
         /\ q.cur = IF Stamp(p) THEN 0 ELSE proc[p].cur
         /\ ClearFailures(p) \/ Disable(p) => q.pc = "stamp"
         /\ Bump(p) => q.pc = "count"
         /\ Count(p) /\ source[proc[p].cur].status # "deleted" =>
              q.pc = IF source[proc[p].cur].fails >= Threshold THEN "disable" ELSE "stamp"
  BY NurseStep
<1>2. UNCHANGED <<enabling, streak, gone, spared, paused, raced>>
  BY DEF Nurse, ClearFailures, Bump, Count, Disable, Health, Stamp, history, excused
<1>3. PICK row \in SourceRow :
        /\ source' = [source EXCEPT ![proc[p].cur] = row]
        /\ row.status = IF Disable(p) /\ source[proc[p].cur].status # "deleted"
                        THEN "disabled" ELSE source[proc[p].cur].status
        /\ source[proc[p].cur].status # "deleted" =>
             row.fails = IF ClearFailures(p) THEN 0
                         ELSE IF Bump(p) THEN source[proc[p].cur].fails + 1
                         ELSE source[proc[p].cur].fails
  BY NurseRow
<1>4. CASE proc[p].cur # s
  <2>1. p \notin Nursing(s) /\ q.cur # s
    BY <1>1, <1>4, Constants DEF Nursing
  <2>2. Nursing(s)' = Nursing(s) /\ \A r \in Nursing(s) : proc'[r].pc = proc[r].pc
    BY <1>1, <2>1, NursingStep DEF Nursing
  <2>3. source'[s] = source[s]
    BY <1>3, <1>4 DEF TypeOK
  <2>4. SameHealth(s)
    BY <1>2, <2>2, <2>3 DEF SameHealth
  <2> QED
    BY <2>4, HealthStays
<1>5. CASE proc[p].cur = s /\ Untouched(s)
  <2>1. source[s].status = "deleted" => source'[s].status = "deleted"
    BY <1>3, <1>5 DEF TypeOK
  <2> QED
    BY <1>2, <1>5, <2>1 DEF HealthInv, Untouched
<1>6. CASE proc[p].cur = s /\ ~Untouched(s)
  <2>1. p \in Nursing(s) /\ source[s].status # "deleted"
    BY <1>6 DEF Nursing, Untouched
  <2>2. Nursing(s) = {p} /\ Nursed(p, s) /\ ~(enabling[s] > 0)
    BY <1>6, <2>1 DEF HealthInv
  <2>3. source'[s] = row
    BY <1>3, <1>6 DEF TypeOK
  <2>4. row.status = IF Disable(p) THEN "disabled" ELSE source[s].status
    BY <1>3, <1>6, <2>1
  <2>5. row.fails = IF ClearFailures(p) THEN 0
                    ELSE IF Bump(p) THEN source[s].fails + 1 ELSE source[s].fails
    BY <1>3, <1>6, <2>1
  <2>6. /\ streak[s] \in Nat /\ Threshold \in Nat /\ source[s].fails \in Nat
        /\ proc[p].pc \in Nurses
    BY Constants, NurseRow DEF TypeOK
  <2>7. /\ Earned(s)' <=> Earned(s)
        /\ Counted(s)' <=> (Threshold > 0 => row.fails = streak[s])
        /\ proc'[p] = q
    BY <1>1, <1>2, <2>3, NursingStep DEF Earned, Counted
  <2>8. CASE Stamp(p)
    <3>1. Nursing(s)' = {}
      <4>1. q.cur # s /\ proc' = [proc EXCEPT ![p] = q]
        BY <1>1, <2>8, Constants
      <4>2. Nursing(s)' = Nursing(s) \ {p}
        BY <4>1 DEF Nursing, TypeOK
      <4> QED
        BY <2>2, <4>2
    <3>2. proc[p].pc = "stamp" /\ ~Disable(p) /\ ~ClearFailures(p) /\ ~Bump(p)
      BY <2>8 DEF Stamp, Disable, ClearFailures, Bump
    <3>3. Settled(s)'
      BY <1>2, <2>2, <2>3, <2>4, <2>5, <2>7, <3>2 DEF Nursed, Settled, Counted
    <3>4. ~(enabling'[s] > 0)
      BY <1>2, <2>2
    <3> QED
      BY <3>1, <3>3, <3>4 DEF HealthInv
  <2>9. CASE ~Stamp(p)
    <3>1. Nursing(s)' = {p}
      <4>1. q.cur = s /\ proc' = [proc EXCEPT ![p] = q]
        BY <1>1, <1>6, <2>9
      <4>2. Nursing(s)' = Nursing(s) \union {p}
        BY <4>1, NursingStep
      <4> QED
        BY <2>2, <4>2
    <3>2. Nursed(p, s)'
      <4>1. CASE ClearFailures(p)
        <5>1. /\ proc[p].pc = "clear" /\ ~Disable(p) /\ q.pc = "stamp"
              /\ row.fails = 0 /\ streak[s] = 0 /\ ~Earned(s)
              /\ row.status = "disabled" => s \in paused
          BY <1>1, <2>2, <2>4, <2>5, <4>1 DEF ClearFailures, Disable, Nursed, OwnersDoing
        <5> QED
          BY <1>2, <2>3, <2>7, <5>1 DEF Nursed, Settled
      <4>2. CASE Bump(p)
        <5>1. /\ proc[p].pc = "bump" /\ ~Disable(p) /\ ~ClearFailures(p) /\ q.pc = "count"
          BY <1>1, <4>2 DEF ClearFailures, Disable, Bump
        <5>2. /\ Threshold > 0 /\ row.fails = streak[s] /\ s \notin gone
              /\ row.status = "disabled" => s \in paused
          BY <2>2, <2>4, <2>5, <4>2, <5>1 DEF Nursed, OwnersDoing
        <5> QED
          BY <1>2, <2>3, <2>7, <5>1, <5>2 DEF Nursed, OwnersDoing
      <4>3. CASE Count(p)
        <5>1. /\ proc[p].pc = "count" /\ ~Disable(p) /\ ~ClearFailures(p) /\ ~Bump(p)
              /\ q.pc = IF source[s].fails >= Threshold THEN "disable" ELSE "stamp"
          BY <1>1, <1>6, <2>1, <4>3 DEF ClearFailures, Disable, Bump, Count
        <5>2. /\ Threshold > 0 /\ source[s].fails = streak[s] /\ s \notin gone
              /\ row.status = "disabled" => s \in paused
              /\ row.fails = source[s].fails
          BY <2>2, <2>4, <2>5, <5>1 DEF Nursed, Counted, OwnersDoing
        <5>3. Earned(s) <=> source[s].fails >= Threshold
          BY <5>2 DEF Earned
        <5> QED
          BY <1>2, <2>3, <2>7, <5>1, <5>2, <5>3 DEF Nursed, Settled
      <4>4. CASE Disable(p)
        <5>1. /\ proc[p].pc = "disable" /\ ~ClearFailures(p) /\ ~Bump(p) /\ q.pc = "stamp"
              /\ row.status = "disabled" /\ row.fails = source[s].fails
          BY <1>1, <2>4, <2>5, <4>4 DEF ClearFailures, Disable, Bump
        <5>2. Earned(s) /\ Counted(s)
          BY <2>2, <5>1 DEF Nursed
        <5> QED
          BY <2>3, <2>7, <5>1, <5>2 DEF Nursed, Settled, Counted
      <4> QED
        BY <2>9, <4>1, <4>2, <4>3, <4>4 DEF Nurse
    <3>3. ~(enabling'[s] > 0)
      BY <1>2, <2>2
    <3> QED
      BY <3>1, <3>2, <3>3 DEF HealthInv
  <2> QED
    BY <2>8, <2>9
<1> QED
  BY <1>4, <1>5, <1>6

LEMMA DieHealth ==
  ASSUME TypeOK, ProcInv, NEW p \in Procs, Die(p), NEW s \in Sources, HealthInv(s)
  PROVE  HealthInv(s)'
<1>0. /\ proc' = [proc EXCEPT ![p] = Idle] /\ Idle.cur = 0
      /\ UNCHANGED <<source, streak, gone, excused, enabling>> /\ raced \subseteq raced'
  BY IdleFields DEF Die
<1>1. CASE proc[p].cur = s
  <2>1. s \in raced'
    BY <1>1 DEF Die
  <2> QED
    BY <2>1 DEF HealthInv, Untouched
<1>2. CASE proc[p].cur # s
  <2>1. p \notin Nursing(s) /\ Idle.cur # s
    BY <1>0, <1>2, Constants DEF Nursing
  <2>2. Nursing(s)' = Nursing(s) /\ \A r \in Nursing(s) : proc'[r].pc = proc[r].pc
    BY <1>0, <2>1, NursingStep DEF Nursing
  <2>3. SameHealth(s)
    BY <1>0, <2>2 DEF SameHealth, excused
  <2> QED
    BY <2>3, HealthStays
<1> QED
  BY <1>1, <1>2

LEMMA AdminHealth ==
  ASSUME TypeOK, Admin, NEW s \in Sources, HealthInv(s)
  PROVE  HealthInv(s)'
<1>0. /\ source \in [Sources -> SourceRow] /\ streak \in [Sources -> Nat] /\ Threshold \in Nat
      /\ source[s] \in SourceRow /\ enabling \in [Sources -> Nat]
  BY TypeParts, Constants DEF RowsOK, HistoryOK
<1>1. proc' = proc /\ Nursing(s)' = Nursing(s)
  BY DEF Admin, SetSchedule, ResetSchedule, SetTopicCadence, SetSourceCadence, DeleteSource,
         SetStatus, ApproveAll, EnableSource, EnableClears, Nursing
<1>2. ASSUME SetSchedule \/ ResetSchedule \/ SetTopicCadence PROVE SameHealth(s)
  BY <1>1, <1>2 DEF SetSchedule, ResetSchedule, SetTopicCadence, SameHealth, history, excused
<1>3. ASSUME NEW f \in Sources, SetSourceCadence(f) PROVE SameHealth(s)
  BY <1>0, <1>1, <1>3 DEF SetSourceCadence, SameHealth, history, excused, SourceRow
<1>4. ASSUME NEW f \in Sources, DeleteSource(f) PROVE HealthInv(s)'
  <2>1. CASE f = s
    <3>1. source'[s].status = "deleted"
      BY <1>0, <1>4, <2>1 DEF DeleteSource, SourceRow
    <3> QED
      BY <3>1 DEF HealthInv, Untouched
  <2>2. CASE f # s
    <3>1. SameHealth(s)
      BY <1>0, <1>1, <1>4, <2>2 DEF DeleteSource, SameHealth, history, excused
    <3> QED
      BY <3>1, HealthStays
  <2> QED
    BY <2>1, <2>2
<1>5. ASSUME NEW f \in Sources, EnableSource(f) PROVE HealthInv(s)'
  <2>1. CASE f = s /\ Nursing(s) # {}
    BY <1>5, <2>1 DEF EnableSource, HealthInv, Untouched
  <2>2. CASE f = s /\ Nursing(s) = {}
    <3>1. enabling'[s] > 0 /\ source'[s].status = "active"
      BY <1>0, <1>5, <2>2 DEF EnableSource, SourceRow
    <3> QED
      BY <1>1, <2>2, <3>1 DEF HealthInv, OwnersDoing
  <2>3. CASE f # s
    <3>1. SameHealth(s)
      BY <1>0, <1>1, <1>5, <2>3 DEF EnableSource, SameHealth
    <3> QED
      BY <3>1, HealthStays
  <2> QED
    BY <2>1, <2>2, <2>3
<1>6. ASSUME NEW f \in Sources, EnableClears(f) PROVE HealthInv(s)'
  <2>1. CASE f = s /\ (Untouched(s) \/ Nursing(s) # {})
    <3>1. Untouched(s)'
      BY <1>0, <1>6, <2>1 DEF EnableClears, Untouched
    <3> QED
      BY <3>1 DEF HealthInv
  <2>2. CASE f = s /\ ~Untouched(s) /\ Nursing(s) = {}
    <3>1. OwnersDoing(s)
      BY <1>6, <2>2 DEF EnableClears, HealthInv
    <3>2. source' = [source EXCEPT ![s].fails = 0]
      BY <1>6, <2>2 DEF EnableClears, Untouched
    <3>3. source'[s].status = source[s].status /\ source'[s].fails = 0
      BY <1>0, <3>2 DEF SourceRow
    <3>4. streak'[s] = 0 /\ s \notin gone' /\ paused' = paused
      BY <1>0, <1>6, <2>2 DEF EnableClears
    <3>5. Settled(s)' /\ OwnersDoing(s)'
      BY <1>0, <3>1, <3>3, <3>4 DEF Settled, Earned, Counted, OwnersDoing
    <3> QED
      BY <1>1, <2>2, <3>5 DEF HealthInv
  <2>3. CASE f # s
    <3>1. source'[s] = source[s] /\ streak'[s] = streak[s] /\ enabling'[s] = enabling[s]
      BY <1>0, <1>6, <2>3 DEF EnableClears
    <3>2. SameHealth(s)
      BY <1>1, <1>6, <2>3, <3>1 DEF EnableClears, SameHealth
    <3> QED
      BY <3>2, HealthStays
  <2> QED
    BY <2>1, <2>2, <2>3
<1>7. ASSUME NEW f \in Sources, NEW status \in {"active", "rejected", "disabled"},
             SetStatus(f, status)
      PROVE  HealthInv(s)'
  <2>1. CASE f = s
    <3>1. source'[s].status = status /\ source'[s].fails = source[s].fails
      BY <1>0, <1>7, <2>1 DEF SetStatus, SourceRow
    <3> QED
      BY <1>7, <2>1, <3>1, StatusHealth DEF SetStatus
  <2>2. CASE f # s
    <3>1. SameHealth(s)
      BY <1>0, <1>1, <1>7, <2>2 DEF SetStatus, SameHealth
    <3> QED
      BY <3>1, HealthStays
  <2> QED
    BY <2>1, <2>2
<1>8. ASSUME ApproveAll PROVE HealthInv(s)'
  <2>1. CASE source[s].status = "candidate"
    <3>1. source'[s].status = "active" /\ source'[s].fails = source[s].fails
      BY <1>0, <1>8, <2>1 DEF ApproveAll, SourceRow
    <3>2. UNCHANGED <<proc, streak, gone, enabling, raced>> /\ (Earned(s) => s \in spared')
      BY <1>8, <2>1 DEF ApproveAll
    <3> QED
      BY <2>1, <3>1, <3>2, StatusHealth
  <2>2. CASE source[s].status # "candidate"
    <3>1. SameHealth(s)
      BY <1>0, <1>1, <1>8, <2>2 DEF ApproveAll, SameHealth
    <3> QED
      BY <3>1, HealthStays
  <2> QED
    BY <2>1, <2>2
<1> QED
  BY <1>2, <1>3, <1>4, <1>5, <1>6, <1>7, <1>8, HealthStays DEF Admin

LEMMA HealthNext ==
  ASSUME TypeOK, ProcInv, [Next]_vars, NEW s \in Sources, HealthInv(s)
  PROVE  HealthInv(s)'
<1> USE DEF history, excused, stories
<1>1. ASSUME NEW p \in Procs, BeginSearch(p) \/ BeginCollection(p) \/ BeginCollect(p) \/ Mark(p)
      PROVE  HealthInv(s)'
  <2>1. PICK q : proc' = [proc EXCEPT ![p] = q] /\ q.cur = 0
    BY <1>1, BeginSearchStep, CollectionStep
  <2>2. proc[p].pc \notin Nurses
    BY <1>1 DEF BeginSearch, BeginCollection, BeginCollect, Mark, Starts, Nurses
  <2>3. proc[p].cur = 0
    BY <2>2, ProcTypes
  <2>4. UNCHANGED <<source, streak, gone, excused, enabling, raced>>
    BY <1>1 DEF BeginSearch, BeginCollection, BeginCollect, Mark
  <2> QED
    BY <2>1, <2>3, <2>4, IdleHealth
<1>2. ASSUME NEW p \in Procs, Review(p) PROVE HealthInv(s)'
  <2>1. PICK q : proc' = [proc EXCEPT ![p] = q] /\ q.cur = 0
    BY <1>2, ScanStep, IdleFields DEF Review, Scan, Verdict
  <2>2. proc[p].pc \notin Nurses
    BY <1>2 DEF Review, Scan, Verdict, Nurses
  <2>3. proc[p].cur = 0
    BY <2>2, ProcTypes
  <2>4. UNCHANGED <<source, streak, gone, excused, enabling, raced>>
    BY <1>2 DEF Review, Scan, Verdict
  <2> QED
    BY <2>1, <2>3, <2>4, IdleHealth
<1>3. ASSUME Advance \/ UNCHANGED vars PROVE HealthInv(s)'
  <2>1. SameHealth(s)
    BY <1>3 DEF Advance, vars, SameHealth, Nursing
  <2> QED
    BY <2>1, HealthStays
<1> QED
  BY <1>1, <1>2, <1>3, FetchHealth, NurseHealth, DieHealth, AdminHealth
  DEF Next, Discover, Collect

-----------------------------------------------------------------------------
(* The inductive invariant holds of every behaviour.                        *)
LEMMA InvInit == Init => IInv
<1> SUFFICES ASSUME Init PROVE IInv
  OBVIOUS
<1>1. TypeOK
  BY TypeInit
<1>2. \A p \in Procs : proc[p] = Idle
  BY DEF Init
<1>3. ProcInv
  BY <1>2 DEF ProcInv, Idle, Nurses
<1>4. DayInv /\ OncePerDay
  BY DaysOfTimes DEF Init, DayInv, OncePerDay, Unscheduled
<1>5. StoryInv
  BY DEF Init, StoryInv
<1>6. ASSUME NEW s \in Sources PROVE HealthInv(s)
  <2>1. Nursing(s) = {}
    BY <1>2, Constants DEF Nursing, Idle
  <2>2. Settled(s)
    BY Constants DEF Init, Settled, Earned, Counted
  <2>3. ~(enabling[s] > 0)
    BY DEF Init
  <2> QED
    BY <2>1, <2>2, <2>3 DEF HealthInv
<1> QED
  BY <1>1, <1>3, <1>4, <1>5, <1>6 DEF IInv

LEMMA InvNext == IInv /\ [Next]_vars => IInv'
BY TypeNext, ProcInvNext, DayNext, StoryNext, HealthNext DEF IInv

LEMMA Invariance == Spec => []IInv
<1> QED
  BY InvInit, InvNext, PTL DEF Spec

(* Every variable keeps its type: a row's columns stay in the ranges the     *)
(* dashboard and the tick write, and the counters of the model in its bounds. *)
THEOREM TypeCorrect == Spec => []TypeOK
<1>1. IInv => TypeOK
  BY DEF IInv
<1> QED
  BY <1>1, Invariance, PTL

(* A topic's schedule fires at most once on any day of the calendar, however  *)
(* often the tick runs, unless two ticks overlap in their search or one dies   *)
(* in it before it marks the topic (run_tick, discovery_due, mark_discovered). *)
THEOREM FiresOncePerDay == Spec => []OncePerDay
<1>1. IInv => OncePerDay
  BY DEF IInv
<1> QED
  BY <1>1, Invariance, PTL

(* A source that no two processes worked on at once and nobody is working on:  *)
(* if its feed has failed Threshold times in a row or answered 410, it is not   *)
(* active, unless someone set it active since with its streak kept; and it is  *)
(* disabled only if that is so, or its owner disabled it (_update_source_health,*)
(* set_source_status).                                                       *)
THEOREM HealthIsEarned == Spec => []HealthEarned
<1>1. IInv => HealthEarned
  BY DEF IInv, HealthInv, Untouched, Settled, HealthEarned
<1> QED
  BY <1>1, Invariance, PTL

(* A story that has no verdict is with a process that will review its topic,   *)
(* or was left out by a death or by a collection that does not review          *)
(* (quickscan_topic).                                                        *)
THEOREM StoriesKept == Spec => []StoriesReviewed
<1>1. IInv => StoriesReviewed
  BY DEF IInv, StoryInv, Holds, StoriesReviewed
<1> QED
  BY <1>1, Invariance, PTL
=============================================================================
