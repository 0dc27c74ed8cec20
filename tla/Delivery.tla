----------------------------- MODULE Delivery ------------------------------
(***************************************************************************)
(* Two readers that remember how far they have read by fetched_at:          *)
(*   api.py, store_consumer.py   GET /consumer/items and its next_since     *)
(*   digest.py, notify.py        the digest mailed to each user             *)
(* and the collectors that write what they read (normalize.py, store.py).   *)
(* An item gets its stamp when its feed entry is parsed, is inserted later  *)
(* and joins a topic later still; stamps count whole seconds.  The model    *)
(* follows one topic, that the consumer's token covers.  Nothing keeps two  *)
(* digest processes apart: cron starts one while another is under way, or   *)
(* an operator does.                                                        *)
(***************************************************************************)
EXTENDS Naturals, FiniteSets, FiniteSetsExt

CONSTANTS
  Items,       \* stories, by dedupe_key
  Story,       \* the one, of these interchangeable values, that the liveness
               \* properties follow
  MaxUsers,    \* users with an address, numbered in the order of their ids
  MaxDigests,  \* digests that may be under way at once
  PageLimit,   \* the consumer's limit parameter
  DigestLimit, \* user_settings.digest_limit
  MaxClock,    \* bound on the seconds that pass
  MaxPasses,   \* bound on the times collectors parse an item
  MaxShared,   \* bound on the users of a digest that begins during another
  MaxUpsets    \* bound on what interferes: a digest that begins during another, a
               \* failed send, a death of the digest process, a change of a
               \* setting, subscription, token or verdict

ASSUME StoryAssumption == Story \in Items

ASSUME DeliveryAssumption ==
  /\ MaxUsers \in Nat /\ PageLimit \in Nat \ {0} /\ DigestLimit \in Nat \ {0}
  /\ MaxClock \in Nat \ {0} /\ MaxPasses \in Nat
  /\ MaxDigests \in Nat /\ MaxShared \in Nat /\ MaxUpsets \in Nat

Users   == 1..MaxUsers
Digests == 1..MaxDigests  \* a process of `bbv2 digest` is known by its slot
Stamps  == 0..MaxClock    \* 0 stands for NULL

VARIABLES
  clock,     \* the second of the latest parsing
  at,        \* where the collector of an item is
  parsed,    \* fetched_at of the copy a collector holds
  fetched,   \* items.fetched_at, once the item is inserted
  mapped,    \* item_topics
  hidden,    \* items whose mapping a review has marked irrelevant
  passes,    \* how often items have been parsed
  token,     \* the consumer's token is active
  since,     \* the checkpoint the consumer keeps
  seen,      \* the items the consumer has received
  enabled,   \* user_settings.email_enabled
  subscribed,\* subscriptions to the topic
  last,      \* user_settings.last_digest_at
  run,       \* a digest process: where it is, for whom, from which checkpoint,
             \* with which items
  mails,     \* how often an item was mailed to a user
  disorder,  \* history: items mapped after one with their stamp or a later one
  dropped,   \* history: items a digest left out or only a dry run showed
  torn,      \* history: digests that were sent and not checkpointed
  overlap,   \* history: passes over a user begun during another's
  upsets     \* counter for the bound

writerVars   == <<at, parsed, fetched, mapped, hidden, passes, disorder>>
consumerVars == <<token, since, seen>>
userVars     == <<enabled, subscribed>>
digestVars   == <<last, run, mails, dropped, torn, overlap>>
vars == <<clock, writerVars, consumerVars, userVars, digestVars, upsets>>

Idle == [pc |-> "off", todo |-> {}, who |-> 0, from |-> 0, batch |-> {}, dry |-> FALSE]

Init ==
  /\ clock = 1
  /\ at = [i \in Items |-> "idle"]
  /\ parsed = [i \in Items |-> 0]
  /\ fetched = [i \in Items |-> 0]
  /\ mapped = {} /\ hidden = {} /\ disorder = {}
  /\ passes = 0
  /\ token = TRUE /\ since = 0 /\ seen = {}
  /\ enabled \in SUBSET Users /\ subscribed = Users
  /\ last = [u \in Users |-> 0]
  /\ run = [d \in Digests |-> Idle]
  /\ mails = [u \in Users |-> [i \in Items |-> 0]]
  /\ dropped = [u \in Users |-> {}]
  /\ torn = [u \in Users |-> 0] /\ overlap = [u \in Users |-> 0]
  /\ upsets = 0

-----------------------------------------------------------------------------
(* The collectors.  _base_item stamps the copy with the time of its parsing,   *)
(* which is the only use of the time: it passes here.                       *)
Parse(i) ==
  /\ at[i] = "idle"
  /\ passes < MaxPasses
  /\ passes' = passes + 1
  /\ at' = [at EXCEPT ![i] = "parsed"]
  /\ clock' \in clock..MaxClock
  /\ parsed' = [parsed EXCEPT ![i] = clock']
  /\ UNCHANGED <<fetched, mapped, hidden, disorder, consumerVars, userVars,
                 digestVars, upsets>>

(* upsert_item: INSERT OR IGNORE, so an item stored before keeps its stamp.  *)
Upsert(i) ==
  /\ at[i] = "parsed"
  /\ fetched' = [fetched EXCEPT ![i] = IF @ = 0 THEN parsed[i] ELSE @]
  /\ at' = [at EXCEPT ![i] = "stored"]
  /\ parsed' = [parsed EXCEPT ![i] = 0]
  /\ UNCHANGED <<clock, mapped, hidden, passes, disorder, consumerVars, userVars,
                 digestVars, upsets>>

(* map_item_topic makes the item visible to both readers.                   *)
MapItem(i) ==
  /\ at[i] = "stored"
  /\ at' = [at EXCEPT ![i] = "idle"]
  /\ mapped' = mapped \union {i}
  /\ disorder' = IF i \notin mapped /\ \E j \in mapped : fetched[j] >= fetched[i]
                 THEN disorder \union {i} ELSE disorder
  /\ UNCHANGED <<clock, parsed, fetched, hidden, passes, consumerVars, userVars,
                 digestVars, upsets>>

(* The item's try block fails, or the collector's process dies.              *)
ItemFails(i) ==
  /\ at[i] # "idle"
  /\ at' = [at EXCEPT ![i] = "idle"]
  /\ parsed' = [parsed EXCEPT ![i] = 0]
  /\ UNCHANGED <<clock, fetched, mapped, hidden, passes, disorder, consumerVars,
                 userVars, digestVars, upsets>>

(* quickscan marks a mapping irrelevant; the consumer reads it all the same. *)
SetRelevance(i) ==
  /\ i \in mapped \ hidden
  /\ upsets < MaxUpsets
  /\ upsets' = upsets + 1
  /\ hidden' = hidden \union {i}
  /\ UNCHANGED <<clock, at, parsed, fetched, mapped, passes, disorder, consumerVars,
                 userVars, digestVars>>

-----------------------------------------------------------------------------
(* items_for_consumer: the rows past the checkpoint, oldest first, at most    *)
(* the limit.  Ties are broken in no particular order.                      *)
\* mutant: the join with item_topics is missing
AfterUnmapped(t) == {i \in Items : fetched[i] > t}

\* mutant: fetched_at >= since
AfterOrAt(t) == {i \in mapped : fetched[i] >= t}

After(t) == {i \in mapped : fetched[i] > t}

\* mutant: ORDER BY ... DESC, as the dashboard's queries have it
NewestPages(R, n) ==
  {P \in SUBSET R : /\ Cardinality(P) = Min({n, Cardinality(R)})
                    /\ \A i \in P, j \in R \ P : fetched[i] >= fetched[j]}

Pages(R, n) ==
  {P \in SUBSET R : /\ Cardinality(P) = Min({n, Cardinality(R)})
                    /\ \A i \in P, j \in R \ P : fetched[i] <= fetched[j]}

Newest(P) == Max({fetched[i] : i \in P})

(* next_since is the stamp of the last row, or the caller's own checkpoint.  *)
\* mutant: the caller's checkpoint is handed back
NextSinceSame(P) == since

NextSince(P) == IF P = {} THEN since ELSE Newest(P)

(* GET /consumer/items with a token that is not revoked.  A reply that is     *)
(* lost changes nothing: the consumer asks again from the same checkpoint.   *)
Poll ==
  /\ token
  /\ \E P \in Pages(After(since), PageLimit) :
       /\ seen' = seen \union P
       /\ since' = NextSince(P)
  /\ UNCHANGED <<clock, writerVars, token, userVars, digestVars, upsets>>

(* `bbv2 token revoke`, and the new token of a consumer that has none.       *)
RevokeToken ==
  /\ token
  /\ upsets < MaxUpsets
  /\ upsets' = upsets + 1
  /\ token' = FALSE
  /\ UNCHANGED <<clock, writerVars, since, seen, userVars, digestVars>>

CreateToken ==
  /\ ~token
  /\ token' = TRUE
  /\ UNCHANGED <<clock, writerVars, since, seen, userVars, digestVars, upsets>>

-----------------------------------------------------------------------------
(* run_digests, for the users enabled when it begins; a dry run differs only   *)
(* in its notifier.  No lock: another digest may be under way.               *)
UnderWay == {d \in Digests : run[d].pc # "off"}

BeginDigest(d, dry) ==
  /\ run[d].pc = "off" /\ \A e \in 1..(d - 1) : e \in UnderWay   \* the first free slot
  /\ enabled # {}
  /\ IF UnderWay = {} THEN upsets' = upsets
     ELSE /\ Cardinality(enabled) <= MaxShared /\ upsets < MaxUpsets
          /\ upsets' = upsets + 1
  /\ run' = [run EXCEPT ![d] =
               [Idle EXCEPT !.pc = "read", !.todo = enabled, !.dry = dry]]
  /\ UNCHANGED <<clock, writerVars, consumerVars, userVars, last, mails, dropped,
                 torn, overlap>>

(* The digests in the middle of a pass over a user.                         *)
Passing(u) == {d \in Digests : run[d].pc \in {"items", "send", "mark"} /\ run[d].who = u}

(* get_user_settings of the next user: the checkpoint the pass goes from.    *)
ReadSettings(d) ==
  /\ run[d].pc = "read"
  /\ LET u == Min(run[d].todo) IN
     /\ run' = [run EXCEPT ![d] = [run[d] EXCEPT !.pc = "items", !.todo = @ \ {u},
                                                 !.who = u, !.from = last[u]]]
     /\ overlap' = IF Passing(u) = {} THEN overlap ELSE [overlap EXCEPT ![u] = @ + 1]
  /\ UNCHANGED <<clock, writerVars, consumerVars, userVars, last, mails, dropped,
                 torn, upsets>>

(* items_for_user: relevant items of the user's topics past the checkpoint    *)
(* read before, newest first, at most digest_limit.                         *)
Due(u, t) == IF u \in subscribed THEN After(t) \ hidden ELSE {}

Batches(u, t) ==
  {P \in SUBSET Due(u, t) :
     /\ Cardinality(P) = Min({DigestLimit, Cardinality(Due(u, t))})
     /\ \A i \in P, j \in Due(u, t) \ P : fetched[i] >= fetched[j]}

(* After a user: the next one, or the end of the run.                       *)
NextUser(r) == IF r.todo = {} THEN Idle
               ELSE [r EXCEPT !.pc = "read", !.who = 0, !.from = 0, !.batch = {}]

(* A user with nothing to read is passed over.                              *)
\* mutant: return where the loop has continue
SkipReturns(r) == Idle

Skip(r) == NextUser(r)

ReadItems(d) ==
  /\ run[d].pc = "items"
  /\ LET r == run[d] IN
     \E P \in Batches(r.who, r.from) :
       /\ run' = [run EXCEPT ![d] = IF P = {} THEN Skip(r)
                                    ELSE [r EXCEPT !.pc = "send", !.batch = P]]
       /\ dropped' = [dropped EXCEPT ![r.who] = @ \union (Due(r.who, r.from) \ P)]
  /\ UNCHANGED <<clock, writerVars, consumerVars, userVars, last, mails, torn,
                 overlap, upsets>>

(* Mails that have gone out, once the batch of the run is among them.         *)
Sent(r) == [mails EXCEPT ![r.who] =
              [i \in Items |-> @[i] + IF i \in r.batch THEN 1 ELSE 0]]

(* notifier.send; LogNotifier only logs.                                    *)
Send(d) ==
  /\ run[d].pc = "send"
  /\ run' = [run EXCEPT ![d].pc = "mark"]
  /\ mails' = IF run[d].dry THEN mails ELSE Sent(run[d])
  /\ dropped' = IF run[d].dry
                THEN [dropped EXCEPT ![run[d].who] = @ \union run[d].batch]
                ELSE dropped
  /\ UNCHANGED <<clock, writerVars, consumerVars, userVars, last, torn, overlap,
                 upsets>>

(* set_user_settings(last_digest_at = items[0].fetched_at), whatever another   *)
(* digest has stored meanwhile.                                             *)
\* mutant: the time of the run
TimeOfRun(P) == clock

Checkpoint(P) == Newest(P)

Mark(d) ==
  /\ run[d].pc = "mark"
  /\ last' = [last EXCEPT ![run[d].who] = Checkpoint(run[d].batch)]
  /\ run' = [run EXCEPT ![d] = NextUser(run[d])]
  /\ UNCHANGED <<clock, writerVars, consumerVars, userVars, mails, dropped, torn,
                 overlap, upsets>>

(* A send fails, having reached the mail service or not, or the process dies: *)
(* nothing catches it, so the users left in the loop get nothing.            *)
DigestAborts(d) ==
  /\ run[d].pc # "off"
  /\ upsets < MaxUpsets
  /\ upsets' = upsets + 1
  /\ run' = [run EXCEPT ![d] = Idle]
  /\ LET r == run[d]
         cut == [torn EXCEPT ![r.who] = @ + 1] IN
     \/ /\ r.pc = "send" /\ ~r.dry
        /\ mails' = Sent(r)
        /\ torn' = cut
     \/ /\ mails' = mails
        /\ torn' = IF r.pc = "mark" THEN cut ELSE torn
  /\ UNCHANGED <<clock, writerVars, consumerVars, userVars, last, dropped, overlap>>

(* The settings and subscription routes and commands.                       *)
EditUser(u) ==
  /\ upsets < MaxUpsets
  /\ upsets' = upsets + 1
  /\ \/ enabled' = SymDiff(enabled, {u}) /\ UNCHANGED subscribed
     \/ subscribed' = SymDiff(subscribed, {u}) /\ UNCHANGED enabled
  /\ UNCHANGED <<clock, writerVars, consumerVars, digestVars>>

-----------------------------------------------------------------------------
Write(i) == Parse(i) \/ Upsert(i) \/ MapItem(i) \/ ItemFails(i) \/ SetRelevance(i)

DigestGoesOn(d) == ReadSettings(d) \/ ReadItems(d) \/ Send(d) \/ Mark(d)

Digest(d) == \/ \E dry \in BOOLEAN : BeginDigest(d, dry)
             \/ DigestGoesOn(d)
             \/ DigestAborts(d)

Next ==
  \/ \E i \in Items : Write(i)
  \/ Poll \/ RevokeToken \/ CreateToken
  \/ \E d \in Digests : Digest(d)
  \/ \E u \in Users : EditUser(u)

Spec == Init /\ [][Next]_vars

(* The consumer keeps polling and gets a new token for a revoked one; digests  *)
(* keep being run for real, and a run that has begun goes on.  No collector   *)
(* is obliged to work.                                                      *)
Fairness ==
  /\ WF_vars(Poll) /\ WF_vars(CreateToken)
  /\ WF_vars(\E d \in Digests : DigestGoesOn(d))
  /\ SF_vars(\E d \in Digests : BeginDigest(d, FALSE))

FairSpec == Spec /\ Fairness

-----------------------------------------------------------------------------
TypeOK ==
  /\ clock \in 1..MaxClock
  /\ at \in [Items -> {"idle", "parsed", "stored"}]
  /\ parsed \in [Items -> Stamps] /\ fetched \in [Items -> Stamps]
  /\ mapped \subseteq {i \in Items : fetched[i] > 0}
  /\ hidden \subseteq mapped /\ disorder \subseteq mapped
  /\ passes \in 0..MaxPasses
  /\ token \in BOOLEAN /\ since \in Stamps /\ seen \subseteq mapped
  /\ enabled \subseteq Users /\ subscribed \subseteq Users
  /\ last \in [Users -> Stamps]
  /\ run \in [Digests ->
       [pc : {"off", "read", "items", "send", "mark"}, todo : SUBSET Users,
        who : Users \union {0}, from : Stamps, batch : SUBSET mapped, dry : BOOLEAN]]
  /\ mails \in [Users -> [Items -> Nat]]
  /\ dropped \in [Users -> SUBSET Items]
  /\ torn \in [Users -> 0..MaxUpsets] /\ overlap \in [Users -> Nat]
  /\ upsets \in 0..MaxUpsets

(* store.py:390-391: "consumers can checkpoint the last fetched_at they saw".  *)
(* An item the checkpoint has passed was delivered, unless it joined the     *)
(* topic after another with its stamp or a later one, or shares its second    *)
(* with another item, that a page boundary may fall between.                 *)
Twins(i) == {j \in mapped \ {i} : fetched[j] = fetched[i]}

NothingSkipped ==
  \A i \in mapped : fetched[i] <= since =>
    i \in seen \/ i \in disorder \/ Twins(i) # {}

(* A digest item is mailed to a user once, and at most once more for every      *)
(* pass cut short between sending it and storing the checkpoint, and for every *)
(* pass begun while another over the same user was in the middle: also when    *)
(* passes end in another order than they began and the checkpoint goes back.   *)
MailedOnce ==
  \A u \in Users, i \in Items : mails[u][i] <= 1 + torn[u] + overlap[u]

(* An item a user's checkpoint has passed was mailed, unless it joined its    *)
(* topic out of order, was cut off by the limit or was shown by a dry run,    *)
(* or was hidden by a review.                                               *)
DigestAccounts ==
  \A u \in subscribed, i \in mapped \ hidden :
    fetched[i] <= last[u] =>
      mails[u][i] > 0 \/ i \in disorder \/ i \in dropped[u]

(* A story of the topic reaches the consumer, or was passed over.             *)
ConsumerReceives == Story \in mapped ~> (Story \in seen \/ fetched[Story] <= since)

(* A relevant story of a subscriber who wants mail is decided: mailed, or      *)
(* behind the checkpoint.                                                   *)
DigestReaches ==
  \A u \in Users :
    Story \in mapped /\ u \in enabled \intersect subscribed
      ~> \/ mails[u][Story] > 0 \/ fetched[Story] <= last[u] \/ Story \in hidden
         \/ u \notin enabled \intersect subscribed
=============================================================================
