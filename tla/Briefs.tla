------------------------------ MODULE Briefs -------------------------------
(***************************************************************************)
(* The brief of one topic and one day, and the generated pictures:          *)
(*   brief.py            the rundown built by the first viewer, and briefs   *)
(*                       built on demand by an admin or by the nightly job   *)
(*   topic_image.py      the picture of the day's brief, in the background   *)
(*   avatar_image.py     the picture of a user's profile, likewise           *)
(*   topic_index.py      the nightly sweep that embeds the briefs            *)
(* Requests run in threads of the web process, pictures in its two pools,    *)
(* the nightly job in a process of its own.  A prompt is named by the call   *)
(* that sent it; of a text the model keeps whether it is empty.              *)
(***************************************************************************)
EXTENDS Naturals, FiniteSets

CONSTANTS
  MaxCalls,  \* bound on the requests and nightly jobs, numbered as they start
  MaxUpsets, \* bound on failures of a model, the disk or the store, and deaths
  PoolSize   \* workers of each picture pool

ASSUME BriefsAssumption ==
  MaxCalls \in Nat /\ MaxUpsets \in Nat /\ PoolSize \in Nat \ {0}

Calls  == 1..MaxCalls
Prompts == 0..MaxCalls                   \* 0 stands for none
Texts  == {"none", "empty", "full"}      \* a summary
Kinds  == {"rundown", "glance", "admin", "nightly", "avatar"}
Status == {"none", "pending", "ready", "error"}

VARIABLES
  up,      \* the web process runs
  brief,   \* the row: the summary, the status of the picture
  lock,    \* the holder of _build_lock, 0 if free
  call,    \* the threads: kind, place, summary built
  job,     \* the picture a call has submitted: in which pool, how far
  avatar,  \* avatar_status of the user's row
  file,    \* whose picture the avatar's file holds
  vector,  \* the index holds a vector of the brief
  built,   \* history: briefs that viewers have stored
  paid,    \* history: pictures of the brief that were paid for
  boots,   \* history: starts of the web process after its death
  wanted,  \* history: the prompt the user asked for last, 0 after a reset
  stray,   \* history: avatar jobs a reset, or a stray one's result, overtook
  lost,    \* history: rows whose failed picture could not be recorded
  unswept, \* history: a sweep of the index failed
  upsets   \* counter for the bound

rows    == <<brief, avatar, file, vector>>
history == <<built, paid, boots, wanted, stray, lost, unswept>>
vars == <<up, rows, lock, call, job, history, upsets>>

NoCall == [kind |-> "none", pc |-> "free", text |-> "none"]
NoJob  == [pool |-> "none", pc |-> "none"]

Init ==
  /\ up = TRUE
  /\ brief = [text |-> "none", image |-> "none"]
  /\ lock = 0
  /\ call = [c \in Calls |-> NoCall]
  /\ job = [c \in Calls |-> NoJob]
  /\ avatar = "none"
  /\ file = 0 /\ vector = FALSE
  /\ built = 0 /\ paid = 0 /\ boots = 0
  /\ wanted = 0 /\ stray = {} /\ lost = {} /\ unswept = FALSE
  /\ upsets = 0

-----------------------------------------------------------------------------
(* Steps shared by the actions.                                             *)
At(c, kinds, pc) == call[c].kind \in kinds /\ call[c].pc = pc
Ended            == [NoCall EXCEPT !.pc = "done"]
Goto(c, pc)      == call' = [call EXCEPT ![c] = IF pc = "done" THEN Ended
                                                ELSE [@ EXCEPT !.pc = pc]]
Upset            == upsets < MaxUpsets /\ upsets' = upsets + 1

Jobs(pool)    == {c \in Calls : job[c].pool = pool}
Running(pool) == {c \in Jobs(pool) : job[c].pc # "queued"}
Submit(c, pool) == job' = [job EXCEPT ![c] = [pool |-> pool, pc |-> "queued"]]

(* Call c is the next to start; requests need the web process.               *)
Starts(c, kind, pc) ==
  /\ call[c].pc = "free"
  /\ \A d \in 1..(c - 1) : call[d].pc # "free"
  /\ kind = "nightly" \/ up
  /\ call' = [call EXCEPT ![c] = IF pc = "done" THEN Ended
                                ELSE [@ EXCEPT !.kind = kind, !.pc = pc]]

(* maybe_kick looks at the row the request has read: a brief with a summary  *)
(* and no picture is worth a claim, any other row ends the request.          *)
Kick == IF brief.text = "empty" \/ brief.image # "none" THEN "done" ELSE "claim"

-----------------------------------------------------------------------------
(* POST /topics/{slug}/rundown: get_or_build_brief.                          *)
FirstLook(c) ==
  /\ Starts(c, "rundown", IF brief.text # "none" THEN Kick ELSE "wait")
  /\ UNCHANGED <<up, rows, lock, job, history, upsets>>

\* mutant: the row is not looked at again under the lock
SecondLookNone(c) ==
  /\ At(c, {"rundown"}, "wait") /\ lock = 0
  /\ Goto(c, "read") /\ lock' = c
  /\ UNCHANGED <<up, rows, job, history, upsets>>

(* With the lock in hand the row is looked for again.                        *)
SecondLook(c) ==
  /\ At(c, {"rundown"}, "wait") /\ lock = 0
  /\ IF brief.text # "none"
     THEN Goto(c, Kick) /\ UNCHANGED lock
     ELSE Goto(c, "read") /\ lock' = c
  /\ UNCHANGED <<up, rows, job, history, upsets>>

(* POST /topics/{slug}/brief and the nightly job build at once, unlocked.    *)
BuildNow(c) ==
  /\ Starts(c, "admin", "read") \/ Starts(c, "nightly", "read")
  /\ UNCHANGED <<up, rows, lock, job, history, upsets>>

\* mutant: a failed build keeps the lock
LeaveLocked(c) ==
  /\ Goto(c, IF call[c].kind = "nightly" THEN "sweep" ELSE "done")
  /\ UNCHANGED lock

(* Leaving build_brief without a brief: the viewer lets go of the lock and   *)
(* is answered, the nightly job goes on to its sweep.                        *)
Leave(c) ==
  /\ Goto(c, IF call[c].kind = "nightly" THEN "sweep" ELSE "done")
  /\ lock' = IF lock = c THEN 0 ELSE lock

(* build_brief.  Without stories of the last 48 hours there is no brief;     *)
(* from an answer of the model that is no JSON comes an empty summary.       *)
NoStories(c) ==
  /\ call[c].pc = "read"
  /\ Leave(c)
  /\ UNCHANGED <<up, rows, job, history, upsets>>

Generate(c) ==
  /\ call[c].pc = "read"
  /\ \E text \in Texts \ {"none"} :
       call' = [call EXCEPT ![c].pc = "save", ![c].text = text]
  /\ UNCHANGED <<up, rows, lock, job, history, upsets>>

BuildFails(c) ==
  /\ call[c].pc \in {"read", "save"}
  /\ Upset
  /\ Leave(c)
  /\ UNCHANGED <<up, rows, job, history>>

(* upsert_brief: a row of that day keeps its id and its picture.             *)
SaveBrief(c) ==
  /\ call[c].pc = "save"
  /\ brief' = [brief EXCEPT !.text = call[c].text]
  /\ built' = built + (IF call[c].kind = "rundown" THEN 1 ELSE 0)
  /\ Goto(c, CASE call[c].kind = "rundown" -> "reread"
               [] call[c].kind = "nightly" -> "sweep"
               [] OTHER -> "done")
  /\ UNCHANGED <<up, avatar, file, vector, lock, job, paid, boots, wanted, stray, lost,
                 unswept, upsets>>

Reread(c) ==
  /\ At(c, {"rundown"}, "reread")
  /\ lock' = 0
  /\ Goto(c, Kick)
  /\ UNCHANGED <<up, rows, job, history, upsets>>

(* GET /briefs and GET /topics/{slug}/briefs read the row and kick.          *)
Glance(c) ==
  /\ Starts(c, "glance", IF brief.text = "none" THEN "done" ELSE Kick)
  /\ UNCHANGED <<up, rows, lock, job, history, upsets>>

-----------------------------------------------------------------------------
(* The nightly job's embed_pending_briefs: read the rows without a vector    *)
(* (whoever built them), ask the embedder, store.                           *)
\* mutant: only the brief this job has built itself is embedded
MissingOwn(c) == brief.text # "none" /\ ~vector /\ call[c].text # "none"

Missing(c) == brief.text # "none" /\ ~vector

SweepRead(c) ==
  /\ At(c, {"nightly"}, "sweep")
  /\ Goto(c, IF Missing(c) THEN "embed" ELSE "done")
  /\ UNCHANGED <<up, rows, lock, job, history, upsets>>

SweepStore(c) ==
  /\ At(c, {"nightly"}, "embed")
  /\ vector' = TRUE
  /\ Goto(c, "done")
  /\ UNCHANGED <<up, brief, avatar, file, lock, job, history, upsets>>

SweepFails(c) ==
  /\ At(c, {"nightly"}, "embed")
  /\ Upset
  /\ unswept' = TRUE
  /\ Goto(c, "done")
  /\ UNCHANGED <<up, rows, lock, job, built, paid, boots, wanted, stray, lost>>

-----------------------------------------------------------------------------
(* The picture of the brief.  A row that had none is claimed for this caller *)
(* alone, if it still has none.                                             *)
ClaimImage(c) ==
  /\ call[c].pc = "claim"
  /\ IF brief.image = "none"
     THEN /\ brief' = [brief EXCEPT !.image = "pending"]
          /\ Submit(c, "brief")
     ELSE UNCHANGED <<brief, job>>
  /\ Goto(c, "done")
  /\ UNCHANGED <<up, avatar, file, vector, lock, history, upsets>>

(* POST /profile/avatar: a pending picture, the limiter or the budget may    *)
(* refuse; then the claim, from any state but pending.                      *)
AskAvatar(c) ==
  /\ Starts(c, "avatar", IF avatar = "pending" THEN "done" ELSE "ask")
  /\ UNCHANGED <<up, rows, lock, job, history, upsets>>

\* mutant: the earlier look at the row is taken for the claim
ClaimAvatarAny(c) ==
  /\ At(c, {"avatar"}, "ask")
  /\ avatar' = "pending"
  /\ wanted' = c
  /\ Submit(c, "avatar")
  /\ Goto(c, "done")
  /\ UNCHANGED <<up, brief, file, vector, lock, built, paid, boots, stray, lost, unswept,
                 upsets>>

ClaimAvatar(c) ==
  /\ At(c, {"avatar"}, "ask")
  /\ IF avatar = "pending"
     THEN UNCHANGED <<avatar, wanted, job>>
     ELSE /\ avatar' = "pending"
          /\ wanted' = c
          /\ Submit(c, "avatar")
  /\ Goto(c, "done")
  /\ UNCHANGED <<up, brief, file, vector, lock, built, paid, boots, stray, lost, unswept,
                 upsets>>

(* DELETE /profile/avatar: back to the identicon; no job is cancelled.       *)
ResetAvatar(c) ==
  /\ Starts(c, "reset", "done")
  /\ avatar' = "none"
  /\ wanted' = 0
  /\ stray' = stray \union Jobs("avatar")
  /\ UNCHANGED <<up, brief, file, vector, lock, job, built, paid, boots, lost, unswept,
                 upsets>>

-----------------------------------------------------------------------------
(* The pools.  A worker asks for the picture, writes the file and sets the   *)
(* row ready; any exception sets it to error, and a second one is swallowed. *)
Work(c) ==
  /\ job[c].pc = "queued"
  /\ Cardinality(Running(job[c].pool)) < PoolSize
  /\ job' = [job EXCEPT ![c].pc = "working"]
  /\ paid' = paid + (IF job[c].pool = "brief" THEN 1 ELSE 0)
  /\ UNCHANGED <<up, rows, lock, call, built, boots, wanted, stray, lost, unswept, upsets>>

WriteFile(c) ==
  /\ job[c].pc = "working"
  /\ job' = [job EXCEPT ![c].pc = "filed"]
  /\ file' = IF job[c].pool = "avatar" THEN c ELSE file
  /\ UNCHANGED <<up, brief, avatar, vector, lock, call, history, upsets>>

WorkFails(c) ==
  /\ job[c].pc \in {"working", "filed"}
  /\ Upset
  /\ job' = [job EXCEPT ![c].pc = "failing"]
  /\ UNCHANGED <<up, rows, lock, call, history>>

(* set_brief_image or set_avatar with the outcome of the job.                *)
SetStatus(c, status) ==
  IF job[c].pool = "avatar"
  THEN /\ avatar' = status
       /\ stray' = IF c \in stray THEN stray \union Jobs("avatar") ELSE stray
       /\ UNCHANGED brief
  ELSE /\ brief' = [brief EXCEPT !.image = status]
       /\ UNCHANGED <<avatar, stray>>

Record(c) ==
  /\ job[c].pc \in {"filed", "failing"}
  /\ SetStatus(c, IF job[c].pc = "filed" THEN "ready" ELSE "error")
  /\ job' = [job EXCEPT ![c] = NoJob]
  /\ UNCHANGED <<up, file, vector, lock, call, built, paid, boots, wanted, lost, unswept,
                 upsets>>

RecordFails(c) ==
  /\ job[c].pc = "failing"
  /\ job' = [job EXCEPT ![c] = NoJob]
  /\ lost' = lost \union {job[c].pool}
  /\ UNCHANGED <<up, rows, lock, call, built, paid, boots, wanted, stray, unswept, upsets>>

-----------------------------------------------------------------------------
(* The web process dies with its threads, its pools and its locks; when it   *)
(* starts again it resets the pictures that have lost their worker.          *)
Crash ==
  /\ up
  /\ Upset
  /\ up' = FALSE
  /\ lock' = 0
  /\ call' = [c \in Calls |->
                IF call[c].pc = "free" \/ call[c].kind = "nightly" THEN call[c]
                ELSE Ended]
  /\ job' = [c \in Calls |-> NoJob]
  /\ UNCHANGED <<rows, history>>

\* mutant: pending pictures are left as they are
ResetNone(status) == status

Reset(status) == IF status = "pending" THEN "none" ELSE status

Boot ==
  /\ ~up
  /\ up' = TRUE
  /\ brief' = [brief EXCEPT !.image = Reset(@)]
  /\ avatar' = Reset(avatar)
  /\ boots' = boots + 1
  /\ lost' = {}
  /\ UNCHANGED <<file, vector, lock, call, job, built, paid, wanted, stray, unswept,
                 upsets>>

-----------------------------------------------------------------------------
Request(c) == FirstLook(c) \/ BuildNow(c) \/ Glance(c) \/ AskAvatar(c) \/ ResetAvatar(c)
Build(c)   == \/ SecondLook(c) \/ NoStories(c) \/ Generate(c) \/ BuildFails(c)
              \/ SaveBrief(c) \/ Reread(c)
Sweep(c)   == SweepRead(c) \/ SweepStore(c) \/ SweepFails(c)
Ask(c)     == ClaimImage(c) \/ ClaimAvatar(c)
Picture(c) == Work(c) \/ WriteFile(c) \/ WorkFails(c) \/ Record(c) \/ RecordFails(c)

Next ==
  \/ \E c \in Calls : Request(c) \/ Build(c) \/ Sweep(c) \/ Ask(c) \/ Picture(c)
  \/ Crash \/ Boot

Spec == Init /\ [][Next]_vars

(* A thread that runs goes on (calls to the models have timeouts), a free     *)
(* worker takes the next job, which begins when its request has ended, and   *)
(* the web process is started again.                                        *)
FairSpec ==
  /\ Spec
  /\ \A c \in Calls : WF_vars(Build(c) \/ Sweep(c) \/ Ask(c) \/ Picture(c))
  /\ WF_vars(Boot)

-----------------------------------------------------------------------------
(* The type invariant: the row of the brief, the avatar and the threads have *)
(* the shapes the code gives them.                                          *)
TypeOK ==
  /\ up \in BOOLEAN
  /\ brief \in [text : Texts, image : Status]
  /\ lock \in 0..MaxCalls
  /\ call \in [Calls -> [kind : Kinds \union {"none"},
                         pc : {"free", "wait", "read", "save", "reread", "sweep",
                               "embed", "claim", "ask", "done"},
                         text : Texts]]
  /\ job \in [Calls -> [pool : {"none", "brief", "avatar"},
                        pc : {"none", "queued", "working", "filed", "failing"}]]
  /\ avatar \in Status
  /\ file \in Prompts /\ vector \in BOOLEAN
  /\ built \in Nat /\ paid \in Nat /\ boots \in Nat /\ upsets \in 0..MaxUpsets
  /\ wanted \in Prompts /\ stray \subseteq Calls /\ lost \subseteq {"brief", "avatar"}
  /\ unswept \in BOOLEAN
  /\ \A c \in Calls :
       lock = c <=> /\ call[c].kind = "rundown"
                    /\ call[c].pc \in {"read", "save", "reread"}

(* What is paid for is paid once.  However the requests of a day interleave  *)
(* with each other, with the nightly job and with deaths of the process,     *)
(* viewers store one rundown, and the brief's picture is generated once, and *)
(* once more only after a restart (get_or_build_brief, claim_brief_image).   *)
PaidOnce == built <= 1 /\ paid <= 1 + boots

(* A generated avatar is shown only if it is the one its user asked for      *)
(* last: not that of an earlier prompt, and none after a reset -- except     *)
(* through a generation a reset has overtaken, which nothing cancels         *)
(* (claim_avatar, set_avatar, reset_avatar).                                *)
AvatarShown == avatar = "ready" => file = wanted \/ stray # {}

(* Nothing waits for ever: every request is answered, those that wait for    *)
(* the builder of the rundown too; a picture that is pending becomes ready,  *)
(* fails or is reset, unless its failure could not be recorded; and the      *)
(* nightly sweep embeds the day's brief even when it was built by a viewer   *)
(* and the nightly job's own build failed (embed_pending_briefs).           *)
EverythingSettles ==
  /\ \A c \in Calls : call[c].pc # "free" ~> call[c].pc = "done"
  /\ brief.image = "pending" ~> brief.image # "pending" \/ "brief" \in lost
  /\ avatar = "pending" ~> avatar # "pending" \/ "avatar" \in lost
  /\ \A c \in Calls :
       At(c, {"nightly"}, "sweep") /\ brief.text # "none" ~> vector \/ unswept
=============================================================================
