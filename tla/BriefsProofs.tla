----------------------------- MODULE BriefsProofs -----------------------------
(***************************************************************************)
(* Proofs about Briefs, for any number of requests, failures and workers:   *)
(*   TypeCorrect    the type invariant, with what _build_lock protects;      *)
(*   PaidForOnce    one rundown is stored by viewers, and its picture is     *)
(*                  paid for once, and once more per restart at most;        *)
(*   AvatarsShown   a ready avatar is the one asked for last, unless a       *)
(*                  reset has overtaken a generation.                       *)
(***************************************************************************)
EXTENDS Briefs, TLAPS

PCs == {"free", "wait", "read", "save", "reread", "sweep", "embed", "claim", "ask",
        "done"}
CallRecs == [kind : Kinds \union {"none"}, pc : PCs, text : Texts]
JobRecs  == [pool : {"none", "brief", "avatar"},
             pc : {"none", "queued", "working", "filed", "failing"}]

(***************************************************************************)
(* The inductive invariant, in parts.                                       *)
(***************************************************************************)
(* What a thread has at hand, and where the nightly job can be.              *)
CallsInv ==
  \A c \in Calls :
    /\ call[c].pc = "save" => call[c].text # "none"
    /\ call[c].kind = "nightly" => call[c].pc \in {"read", "save", "sweep", "embed"}

(* Nothing of the web process runs while it is down.                        *)
DownInv ==
  ~up => \A c \in Calls :
           /\ job[c].pool = "none"
           /\ call[c].pc \in {"free", "done"} \/ call[c].kind = "nightly"

(* A viewer that builds, under the lock, builds the first rundown.           *)
RundownInv ==
  /\ built <= 1
  /\ built # 0 => brief.text # "none"
  /\ \A c \in Calls :
       call[c].kind = "rundown" /\ call[c].pc \in {"read", "save"} => built = 0

JobsInv == \A c \in Calls : job[c].pool = "none" <=> job[c].pc = "none"

(* The brief's picture has one job at most, which holds the claim; and while *)
(* the picture may still be paid for, fewer have been than the restarts      *)
(* allow.                                                                   *)
PictureInv ==
  /\ \A c, d \in Jobs("brief") : c = d
  /\ \A c \in Jobs("brief") :
       brief.image = "pending" /\ (job[c].pc = "queued" => paid <= boots)
  /\ brief.image = "none" => paid <= boots
  /\ paid <= 1 + boots

(* As long as no reset has overtaken one, an avatar job is the one asked for *)
(* last, and once it has written the file the file is its.                   *)
AvatarInv ==
  stray = {} =>
    /\ \A c \in Jobs("avatar") :
         avatar = "pending" /\ wanted = c /\ (job[c].pc = "filed" => file = c)
    /\ avatar = "ready" => file = wanted

IInv == /\ TypeOK /\ CallsInv /\ DownInv /\ RundownInv
        /\ JobsInv /\ PictureInv /\ AvatarInv
-------------------------------------------------------------------------------
(* What the steps of a thread do to the threads, field by field.            *)
OnlyCall(c) == \A d \in Calls : d # c => call'[d] = call[d]

LEMMA CallType == ASSUME TypeOK PROVE call \in [Calls -> CallRecs]
BY DEF TypeOK, CallRecs, PCs

LEMMA GotoFacts ==
  ASSUME TypeOK, NEW c \in Calls, NEW pc \in PCs, Goto(c, pc)
  PROVE  /\ call' \in [Calls -> CallRecs] /\ OnlyCall(c) /\ call'[c].pc = pc
         /\ pc = "done" => call'[c].kind = "none"
         /\ pc # "done" => call'[c].kind = call[c].kind /\ call'[c].text = call[c].text
<1>1. call \in [Calls -> CallRecs] /\ call[c] \in CallRecs
  BY CallType
<1>2. CASE pc = "done"
  <2>1. Ended = [kind |-> "none", pc |-> "done", text |-> "none"]
    BY DEF Ended, NoCall
  <2>2. Ended \in CallRecs
    BY <2>1 DEF CallRecs, PCs, Kinds, Texts
  <2> QED
    BY <1>1, <1>2, <2>1, <2>2 DEF Goto, OnlyCall
<1>3. CASE pc # "done"
  <2> DEFINE s == [call[c] EXCEPT !.pc = pc]
  <2>1. s \in CallRecs /\ s.pc = pc /\ s.kind = call[c].kind /\ s.text = call[c].text
    BY <1>1 DEF CallRecs
  <2>2. call' = [call EXCEPT ![c] = s]
    BY <1>3 DEF Goto
  <2> HIDE DEF s
  <2> QED
    BY <1>1, <1>3, <2>1, <2>2 DEF OnlyCall
<1> QED
  BY <1>2, <1>3

LEMMA StartsFacts ==
  ASSUME TypeOK, NEW c \in Calls, NEW kind, NEW pc \in PCs, Starts(c, kind, pc),
         pc = "done" \/ kind \in Kinds
  PROVE  /\ call' \in [Calls -> CallRecs] /\ OnlyCall(c) /\ call'[c].pc = pc
         /\ pc = "done" => call'[c].kind = "none"
         /\ pc # "done" => call'[c].kind = kind
         /\ call[c].pc = "free" /\ (kind = "nightly" \/ up)
<1>1. call \in [Calls -> CallRecs] /\ call[c] \in CallRecs
  BY CallType
<1>2. call[c].pc = "free" /\ (kind = "nightly" \/ up)
  BY DEF Starts
<1>3. CASE pc = "done"
  <2>1. Ended = [kind |-> "none", pc |-> "done", text |-> "none"]
    BY DEF Ended, NoCall
  <2>2. Ended \in CallRecs
    BY <2>1 DEF CallRecs, PCs, Kinds, Texts
  <2> QED
    BY <1>1, <1>2, <1>3, <2>1, <2>2 DEF Starts, OnlyCall
<1>4. CASE pc # "done"
  <2> DEFINE s == [call[c] EXCEPT !.kind = kind, !.pc = pc]
  <2>1. s \in CallRecs /\ s.pc = pc /\ s.kind = kind
    BY <1>1, <1>4 DEF CallRecs
  <2>2. call' = [call EXCEPT ![c] = s]
    BY <1>4 DEF Starts
  <2> HIDE DEF s
  <2> QED
    BY <1>1, <1>2, <1>4, <2>1, <2>2 DEF OnlyCall
<1> QED
  BY <1>3, <1>4

LEMMA UpsetType == ASSUME TypeOK, Upset PROVE upsets' \in 0..MaxUpsets
<1>1. upsets \in 0..MaxUpsets /\ upsets < MaxUpsets /\ upsets' = upsets + 1
      /\ MaxUpsets \in Nat
  BY BriefsAssumption DEF TypeOK, Upset
<1> QED
  BY <1>1

LEMMA KickFacts == Kick \in {"done", "claim"}
BY DEF Kick

(* What every step of a thread has to establish for the thread itself.      *)
HoldsLock(c) == call[c].kind = "rundown" /\ call[c].pc \in {"read", "save", "reread"}
Stopped(c)   == call[c].pc \in {"free", "done"} \/ call[c].kind = "nightly"
InPlace(c) ==
  /\ call[c].pc = "save" => call[c].text # "none"
  /\ call[c].kind = "nightly" => call[c].pc \in {"read", "save", "sweep", "embed"}

Moves(c) ==
  /\ up' = up
  /\ call' \in [Calls -> CallRecs] /\ OnlyCall(c)
  /\ lock' \in 0..MaxCalls /\ (lock' = lock \/ (lock \in {0, c} /\ lock' \in {0, c}))
  /\ lock' = c <=> HoldsLock(c)'
  /\ InPlace(c)'
  /\ ~up => Stopped(c)'

LEMMA MoveKeeps ==
  ASSUME IInv, NEW c \in Calls, Moves(c)
  PROVE  /\ \A d \in Calls : lock' = d <=> HoldsLock(d)'
         /\ CallsInv'
         /\ ~up' => \A d \in Calls : Stopped(d)'
<1>1. ASSUME NEW d \in Calls
      PROVE  (lock' = d <=> HoldsLock(d)') /\ InPlace(d)' /\ (~up' => Stopped(d)')
  <2>1. CASE d = c
    BY <2>1 DEF Moves
  <2>2. CASE d # c
    <3>1. call'[d] = call[d] /\ up' = up
      BY <2>2 DEF Moves, OnlyCall
    <3>2. (lock = d <=> HoldsLock(d)) /\ InPlace(d) /\ (~up => Stopped(d))
      BY DEF IInv, TypeOK, CallsInv, DownInv, HoldsLock, InPlace, Stopped
    <3>3. lock' = d <=> lock = d
      BY <2>2 DEF Moves, Calls
    <3>4. (HoldsLock(d)' <=> HoldsLock(d)) /\ (InPlace(d)' <=> InPlace(d))
          /\ (Stopped(d)' <=> Stopped(d))
      BY <3>1 DEF HoldsLock, InPlace, Stopped
    <3> QED
      BY <3>1, <3>2, <3>3, <3>4
  <2> QED
    BY <2>1, <2>2
<1> QED
  BY <1>1 DEF CallsInv, InPlace

(* A step of a thread that changes no row but, perhaps, that of a vector.   *)
LEMMA ThreadStep ==
  ASSUME IInv, NEW c \in Calls, Moves(c),
         UNCHANGED <<brief, avatar, file, job, built, paid, boots, wanted, stray, lost>>,
         vector' \in BOOLEAN, unswept' \in BOOLEAN, upsets' \in 0..MaxUpsets,
         call'[c].kind = "rundown" /\ call'[c].pc \in {"read", "save"} => built = 0
  PROVE  IInv'
<1>1. TypeOK'
  BY MoveKeeps DEF IInv, TypeOK, Moves, HoldsLock, CallRecs, PCs
<1>2. CallsInv' /\ DownInv'
  BY MoveKeeps DEF IInv, DownInv, Moves, Stopped
<1>3. RundownInv'
  BY DEF IInv, RundownInv, Moves, OnlyCall
<1>4. JobsInv' /\ PictureInv' /\ AvatarInv'
  BY DEF IInv, JobsInv, PictureInv, AvatarInv, Jobs
<1> QED
  BY <1>1, <1>2, <1>3, <1>4 DEF IInv

(* Viewers, admins and the nightly job, up to the upsert.                   *)
LEMMA StartKeeps ==
  ASSUME IInv, NEW c \in Calls, NEW kind, NEW pc \in PCs, Starts(c, kind, pc),
         \/ pc = "done"
         \/ kind \in Kinds /\ pc \in {"wait", "claim", "ask"} /\ kind # "nightly"
         \/ kind \in {"admin", "nightly"} /\ pc = "read",
         UNCHANGED <<up, rows, lock, job, history, upsets>>
  PROVE  IInv'
<1>1. /\ call' \in [Calls -> CallRecs] /\ OnlyCall(c) /\ call'[c].pc = pc
      /\ pc = "done" => call'[c].kind = "none"
      /\ pc # "done" => call'[c].kind = kind
      /\ call[c].pc = "free" /\ (kind = "nightly" \/ up)
  BY StartsFacts DEF IInv, Kinds
<1>2. Moves(c)
  <2>1. lock # c /\ lock \in 0..MaxCalls
    BY <1>1 DEF IInv, TypeOK
  <2>2. ~HoldsLock(c)' /\ InPlace(c)' /\ (~up => Stopped(c)')
    BY <1>1 DEF HoldsLock, InPlace, Stopped
  <2> QED
    BY <1>1, <2>1, <2>2 DEF Moves
<1> QED
  BY <1>1, <1>2, ThreadStep DEF IInv, TypeOK, rows, history

LEMMA LookKeeps ==
  ASSUME IInv, NEW c \in Calls, SecondLook(c) PROVE IInv'
<1>1. /\ At(c, {"rundown"}, "wait") /\ lock = 0
      /\ UNCHANGED <<up, rows, job, history, upsets>>
      /\ c # 0 /\ lock \in 0..MaxCalls /\ c \in 0..MaxCalls
      /\ call[c].kind = "rundown" /\ up
  BY DEF SecondLook, At, Calls, IInv, TypeOK, BriefsAssumption, DownInv
<1>2. CASE brief.text # "none"
  <2>1. Goto(c, Kick) /\ lock' = lock /\ Kick \in PCs
    BY <1>2, KickFacts DEF SecondLook, PCs
  <2>2. /\ call' \in [Calls -> CallRecs] /\ OnlyCall(c) /\ call'[c].pc \in {"done", "claim"}
        /\ call'[c].pc = "done" => call'[c].kind = "none"
        /\ call'[c].pc = "claim" => call'[c].kind = "rundown"
    BY <1>1, <2>1, KickFacts, GotoFacts DEF IInv
  <2>3. Moves(c)
    BY <1>1, <2>1, <2>2 DEF Moves, HoldsLock, InPlace, Stopped
  <2> QED
    BY <1>1, <2>2, <2>3, ThreadStep DEF IInv, TypeOK, rows, history
<1>3. CASE brief.text = "none"
  <2>1. Goto(c, "read") /\ lock' = c /\ "read" \in PCs
    BY <1>3 DEF SecondLook, PCs
  <2>2. /\ call' \in [Calls -> CallRecs] /\ OnlyCall(c) /\ call'[c].pc = "read"
        /\ call'[c].kind = "rundown"
    BY <1>1, <2>1, GotoFacts DEF IInv
  <2>3. Moves(c)
    BY <1>1, <2>1, <2>2 DEF Moves, HoldsLock, InPlace, Stopped
  <2>4. built = 0
    BY <1>3 DEF IInv, RundownInv
  <2> QED
    BY <1>1, <2>2, <2>3, <2>4, ThreadStep DEF IInv, TypeOK, rows, history
<1> QED
  BY <1>2, <1>3

(* Leaving build_brief gives up the lock, which only a viewer has.          *)
LEMMA LeaveKeeps ==
  ASSUME IInv, NEW c \in Calls, call[c].pc \in {"read", "save"}, Leave(c),
         UNCHANGED <<up, rows, job, history>>, upsets' \in 0..MaxUpsets
  PROVE  IInv'
<1> DEFINE to == IF call[c].kind = "nightly" THEN "sweep" ELSE "done"
<1>1. Goto(c, to) /\ to \in PCs /\ lock' = (IF lock = c THEN 0 ELSE lock)
  BY DEF Leave, PCs
<1>2. /\ call' \in [Calls -> CallRecs] /\ OnlyCall(c) /\ call'[c].pc = to
      /\ to = "done" => call'[c].kind = "none"
      /\ to # "done" => call'[c].kind = "nightly"
  BY <1>1, GotoFacts DEF IInv
<1>3. Moves(c)
  <2>1. c # 0 /\ lock \in 0..MaxCalls /\ 0 \in 0..MaxCalls /\ lock' # c
    BY <1>1, BriefsAssumption DEF Calls, IInv, TypeOK
  <2>2. ~HoldsLock(c)' /\ InPlace(c)' /\ Stopped(c)'
    BY <1>2 DEF HoldsLock, InPlace, Stopped
  <2> QED
    BY <1>1, <1>2, <2>1, <2>2 DEF Moves
<1> QED
  BY <1>2, <1>3, ThreadStep DEF IInv, TypeOK, rows, history

LEMMA GenerateKeeps ==
  ASSUME IInv, NEW c \in Calls, Generate(c) PROVE IInv'
<1>1. PICK text \in Texts \ {"none"} :
        call' = [call EXCEPT ![c].pc = "save", ![c].text = text]
  BY DEF Generate
<1>2. call[c].pc = "read" /\ UNCHANGED <<up, rows, lock, job, history, upsets>>
  BY DEF Generate
<1> DEFINE s == [call[c] EXCEPT !.pc = "save", !.text = text]
<1>3. call \in [Calls -> CallRecs] /\ call[c] \in CallRecs
  BY CallType DEF IInv
<1>4. s \in CallRecs /\ s.pc = "save" /\ s.kind = call[c].kind /\ s.text = text
  BY <1>3 DEF CallRecs, PCs
<1>5. call' = [call EXCEPT ![c] = s]
  BY <1>1, <1>3
<1> HIDE DEF s
<1>6. /\ call' \in [Calls -> CallRecs] /\ OnlyCall(c)
      /\ call'[c].pc = "save" /\ call'[c].kind = call[c].kind /\ call'[c].text # "none"
  BY <1>3, <1>4, <1>5 DEF OnlyCall
<1>7. Moves(c)
  <2>1. lock = c <=> call[c].kind = "rundown"
    BY <1>2 DEF IInv, TypeOK
  <2>2. ~up => call[c].kind = "nightly"
    BY <1>2 DEF IInv, DownInv
  <2> QED
    BY <1>2, <1>6, <2>1, <2>2 DEF Moves, HoldsLock, InPlace, Stopped, IInv, TypeOK
<1>8. call[c].kind = "rundown" => built = 0
  BY <1>2 DEF IInv, RundownInv
<1> QED
  BY <1>2, <1>6, <1>7, <1>8, ThreadStep DEF IInv, TypeOK, rows, history

LEMMA RereadKeeps ==
  ASSUME IInv, NEW c \in Calls, Reread(c) PROVE IInv'
<1>1. /\ call[c].kind = "rundown" /\ call[c].pc = "reread" /\ lock' = 0
      /\ UNCHANGED <<up, rows, job, history, upsets>>
      /\ Goto(c, Kick) /\ Kick \in PCs
  BY KickFacts DEF Reread, At, PCs
<1>2. /\ call' \in [Calls -> CallRecs] /\ OnlyCall(c) /\ call'[c].pc \in {"done", "claim"}
      /\ call'[c].pc = "done" => call'[c].kind = "none"
      /\ call'[c].pc = "claim" => call'[c].kind = "rundown"
  BY <1>1, KickFacts, GotoFacts DEF IInv
<1>3. lock = c /\ up /\ c # 0 /\ 0 \in 0..MaxCalls
  BY <1>1, BriefsAssumption DEF IInv, TypeOK, DownInv, Calls
<1>4. Moves(c)
  BY <1>1, <1>2, <1>3 DEF Moves, HoldsLock, InPlace, Stopped
<1> QED
  BY <1>1, <1>2, <1>4, ThreadStep DEF IInv, TypeOK, rows, history

(* The sweep of the nightly job.                                            *)
LEMMA SweepKeeps ==
  ASSUME IInv, NEW c \in Calls, Sweep(c) PROVE IInv'
<1>1. /\ call[c].kind = "nightly" /\ call[c].pc \in {"sweep", "embed"}
      /\ Goto(c, "embed") \/ Goto(c, "done")
      /\ UNCHANGED <<up, lock, brief, avatar, file, job, built, paid, boots, wanted,
                     stray, lost>>
      /\ vector' \in BOOLEAN /\ unswept' \in BOOLEAN /\ upsets' \in 0..MaxUpsets
  <2>1. vector \in BOOLEAN /\ unswept \in BOOLEAN /\ upsets \in 0..MaxUpsets
    BY DEF IInv, TypeOK
  <2>2. CASE SweepRead(c)
    BY <2>1, <2>2 DEF SweepRead, At, rows, history
  <2>3. CASE SweepStore(c)
    BY <2>1, <2>3 DEF SweepStore, At, history
  <2>4. CASE SweepFails(c)
    BY <2>1, <2>4, UpsetType DEF SweepFails, At, rows, IInv
  <2> QED
    BY <2>2, <2>3, <2>4 DEF Sweep
<1>2. /\ call' \in [Calls -> CallRecs] /\ OnlyCall(c)
      /\ \/ call'[c].pc = "embed" /\ call'[c].kind = "nightly"
         \/ call'[c].pc = "done" /\ call'[c].kind = "none"
  BY <1>1, GotoFacts DEF IInv, PCs
<1>3. lock # c /\ lock \in 0..MaxCalls
  BY <1>1 DEF IInv, TypeOK
<1>4. Moves(c)
  BY <1>1, <1>2, <1>3 DEF Moves, HoldsLock, InPlace, Stopped
<1> QED
  BY <1>1, <1>2, <1>4, ThreadStep

(* The upsert: a viewer's is the first, and from then on there is a row.     *)
LEMMA SaveKeeps ==
  ASSUME IInv, NEW c \in Calls, SaveBrief(c) PROVE IInv'
<1> DEFINE to == CASE call[c].kind = "rundown" -> "reread"
                   [] call[c].kind = "nightly" -> "sweep"
                   [] OTHER -> "done"
<1>1. /\ call[c].pc = "save" /\ Goto(c, to) /\ to \in PCs
      /\ brief' = [brief EXCEPT !.text = call[c].text]
      /\ built' = built + (IF call[c].kind = "rundown" THEN 1 ELSE 0)
      /\ UNCHANGED <<up, avatar, file, vector, lock, job, paid, boots, wanted, stray,
                     lost, unswept, upsets>>
  BY DEF SaveBrief, PCs
<1>2. /\ call[c].kind = "rundown" => to = "reread"
      /\ call[c].kind = "nightly" => to = "sweep"
      /\ call[c].kind \notin {"rundown", "nightly"} => to = "done"
  OBVIOUS
<1> HIDE DEF to
<1>3. /\ call' \in [Calls -> CallRecs] /\ OnlyCall(c) /\ call'[c].pc = to
      /\ to = "done" => call'[c].kind = "none"
      /\ to # "done" => call'[c].kind = call[c].kind
  BY <1>1, GotoFacts DEF IInv
<1>4. Moves(c)
  <2>1. lock = c <=> call[c].kind = "rundown"
    BY <1>1 DEF IInv, TypeOK
  <2>2. ~up => call[c].kind = "nightly"
    BY <1>1 DEF IInv, DownInv
  <2> QED
    BY <1>1, <1>2, <1>3, <2>1, <2>2 DEF Moves, HoldsLock, InPlace, Stopped, IInv, TypeOK
<1>5. /\ call[c] \in CallRecs /\ call[c].text \in Texts /\ call[c].text # "none"
  BY <1>1, CallType DEF IInv, CallsInv, CallRecs
<1>6. /\ brief' \in [text : Texts, image : Status]
      /\ brief'.text # "none" /\ brief'.image = brief.image
  BY <1>1, <1>5 DEF IInv, TypeOK
<1>7. TypeOK'
  BY <1>1, <1>4, <1>6, MoveKeeps DEF IInv, TypeOK, Moves, HoldsLock, CallRecs, PCs
<1>8. CallsInv' /\ DownInv'
  BY <1>1, <1>4, MoveKeeps DEF IInv, DownInv, Moves, Stopped
<1>9. RundownInv'
  <2>1. CASE call[c].kind = "rundown"
    <3>1. built = 0 /\ built' = 1 /\ lock = c
      BY <1>1, <2>1 DEF IInv, RundownInv, TypeOK
    <3>2. ASSUME NEW d \in Calls
          PROVE  ~(call'[d].kind = "rundown" /\ call'[d].pc \in {"read", "save"})
      <4>1. CASE d = c
        BY <1>2, <1>3, <2>1, <4>1
      <4>2. CASE d # c
        BY <1>3, <3>1, <4>2 DEF IInv, TypeOK, OnlyCall
      <4> QED
        BY <4>1, <4>2
    <3> QED
      BY <1>6, <3>1, <3>2 DEF RundownInv
  <2>2. CASE call[c].kind # "rundown"
    BY <1>1, <1>2, <1>3, <1>6, <2>2 DEF IInv, RundownInv, TypeOK, OnlyCall
  <2> QED
    BY <2>1, <2>2
<1>10. JobsInv' /\ PictureInv' /\ AvatarInv'
  BY <1>1, <1>6 DEF IInv, JobsInv, PictureInv, AvatarInv, Jobs
<1> QED
  BY <1>7, <1>8, <1>9, <1>10 DEF IInv

-------------------------------------------------------------------------------
(* The claims.  A step of a thread that touches the pictures establishes     *)
(* the rest by itself.                                                      *)
LEMMA ClaimFrame ==
  ASSUME IInv, NEW c \in Calls, call[c].pc \in {"claim", "ask"}, Goto(c, "done"),
         UNCHANGED <<up, lock>>
  PROVE  Moves(c) /\ up
<1>1. /\ call' \in [Calls -> CallRecs] /\ OnlyCall(c)
      /\ call'[c].pc = "done" /\ call'[c].kind = "none"
  BY GotoFacts DEF IInv, PCs
<1>2. lock # c /\ lock \in 0..MaxCalls
  BY DEF IInv, TypeOK
<1>3. up
  BY DEF IInv, CallsInv, DownInv
<1> QED
  BY <1>1, <1>2, <1>3 DEF Moves, HoldsLock, InPlace, Stopped

LEMMA SubmitFacts ==
  ASSUME TypeOK, NEW c \in Calls, NEW pool \in {"brief", "avatar"}, Submit(c, pool)
  PROVE  /\ job' \in [Calls -> JobRecs]
         /\ job'[c].pool = pool /\ job'[c].pc = "queued"
         /\ \A d \in Calls : d # c => job'[d] = job[d]
<1> DEFINE s == [pool |-> pool, pc |-> "queued"]
<1>1. s \in JobRecs /\ s.pool = pool /\ s.pc = "queued"
  BY DEF JobRecs
<1>2. job \in [Calls -> JobRecs]
  BY DEF TypeOK, JobRecs
<1>3. job' = [job EXCEPT ![c] = s]
  BY DEF Submit
<1> HIDE DEF s
<1> QED
  BY <1>1, <1>2, <1>3

LEMMA ClaimImageKeeps ==
  ASSUME IInv, NEW c \in Calls, ClaimImage(c) PROVE IInv'
<1>1. /\ call[c].pc = "claim" /\ Goto(c, "done")
      /\ UNCHANGED <<up, avatar, file, vector, lock, built, paid, boots, wanted, stray,
                     lost, unswept, upsets>>
  BY DEF ClaimImage, history
<1>2. Moves(c) /\ up
  BY <1>1, ClaimFrame
<1>3. call'[c].kind = "none"
  BY <1>1, GotoFacts DEF IInv, PCs
<1>4. CASE brief.image # "none"
  <2>1. brief' = brief /\ job' = job
    BY <1>4 DEF ClaimImage
  <2> QED
    BY <1>1, <1>2, <1>3, <2>1, ThreadStep DEF IInv, TypeOK
<1>5. CASE brief.image = "none"
  <2>1. brief' = [brief EXCEPT !.image = "pending"] /\ Submit(c, "brief")
    BY <1>5 DEF ClaimImage
  <2>2. /\ brief' \in [text : Texts, image : Status]
        /\ brief'.image = "pending" /\ brief'.text = brief.text
    BY <2>1 DEF IInv, TypeOK, Status
  <2>3. /\ job' \in [Calls -> JobRecs]
        /\ job'[c].pool = "brief" /\ job'[c].pc = "queued"
        /\ \A d \in Calls : d # c => job'[d] = job[d]
    BY <2>1, SubmitFacts DEF IInv
  <2>4. TypeOK'
    BY <1>1, <1>2, <2>2, <2>3, MoveKeeps
       DEF IInv, TypeOK, Moves, HoldsLock, CallRecs, PCs, JobRecs
  <2>5. CallsInv' /\ DownInv'
    BY <1>1, <1>2, MoveKeeps DEF DownInv
  <2>6. RundownInv'
    BY <1>1, <1>2, <1>3, <2>2 DEF IInv, RundownInv, Moves, OnlyCall
  <2>7. JobsInv'
    BY <2>3 DEF IInv, JobsInv
  <2>8. PictureInv'
    <3>1. paid <= boots /\ \A d \in Calls : job[d].pool # "brief"
      BY <1>5 DEF IInv, PictureInv, Jobs
    <3>2. \A d \in Calls : job'[d].pool = "brief" => d = c
      BY <2>3, <3>1
    <3> QED
      BY <1>1, <2>2, <3>1, <3>2 DEF IInv, PictureInv, Jobs
  <2>9. AvatarInv'
    BY <1>1, <2>3 DEF IInv, AvatarInv, Jobs
  <2> QED
    BY <2>4, <2>5, <2>6, <2>7, <2>8, <2>9 DEF IInv
<1> QED
  BY <1>4, <1>5

LEMMA ClaimAvatarKeeps ==
  ASSUME IInv, NEW c \in Calls, ClaimAvatar(c) PROVE IInv'
<1>1. /\ call[c].pc = "ask" /\ Goto(c, "done")
      /\ UNCHANGED <<up, brief, file, vector, lock, built, paid, boots, stray, lost,
                     unswept, upsets>>
  BY DEF ClaimAvatar, At
<1>2. Moves(c) /\ up
  BY <1>1, ClaimFrame
<1>3. call'[c].kind = "none"
  BY <1>1, GotoFacts DEF IInv, PCs
<1>4. CASE avatar = "pending"
  <2>1. avatar' = avatar /\ job' = job /\ wanted' = wanted
    BY <1>4 DEF ClaimAvatar
  <2> QED
    BY <1>1, <1>2, <1>3, <2>1, ThreadStep DEF IInv, TypeOK
<1>5. CASE avatar # "pending"
  <2>1. avatar' = "pending" /\ wanted' = c /\ Submit(c, "avatar")
    BY <1>5 DEF ClaimAvatar
  <2>2. /\ job' \in [Calls -> JobRecs]
        /\ job'[c].pool = "avatar" /\ job'[c].pc = "queued"
        /\ \A d \in Calls : d # c => job'[d] = job[d]
    BY <2>1, SubmitFacts DEF IInv
  <2>3. c \in Prompts
    BY BriefsAssumption DEF Calls, Prompts
  <2>4. TypeOK'
    BY <1>1, <1>2, <2>1, <2>2, <2>3, MoveKeeps
       DEF IInv, TypeOK, Moves, HoldsLock, CallRecs, PCs, JobRecs, Status
  <2>5. CallsInv' /\ DownInv'
    BY <1>1, <1>2, MoveKeeps DEF DownInv
  <2>6. RundownInv'
    BY <1>1, <1>2, <1>3 DEF IInv, RundownInv, Moves, OnlyCall
  <2>7. JobsInv' /\ PictureInv'
    BY <1>1, <2>2 DEF IInv, JobsInv, PictureInv, Jobs
  <2>8. AvatarInv'
    <3>1. stray = {} => \A d \in Calls : job[d].pool # "avatar"
      BY <1>5 DEF IInv, AvatarInv, Jobs
    <3> QED
      BY <1>1, <2>1, <2>2, <3>1 DEF AvatarInv, Jobs
  <2> QED
    BY <2>4, <2>5, <2>6, <2>7, <2>8 DEF IInv
<1> QED
  BY <1>4, <1>5

LEMMA ResetKeeps ==
  ASSUME IInv, NEW c \in Calls, ResetAvatar(c) PROVE IInv'
<1>1. /\ Starts(c, "reset", "done") /\ avatar' = "none" /\ wanted' = 0
      /\ stray' = stray \union Jobs("avatar")
      /\ UNCHANGED <<up, brief, file, vector, lock, job, built, paid, boots, lost,
                     unswept, upsets>>
  BY DEF ResetAvatar
<1>2. /\ call' \in [Calls -> CallRecs] /\ OnlyCall(c) /\ call'[c].pc = "done"
      /\ call'[c].kind = "none" /\ call[c].pc = "free"
  BY <1>1, StartsFacts DEF IInv, PCs
<1>3. Moves(c)
  <2>1. lock # c /\ lock \in 0..MaxCalls
    BY <1>2 DEF IInv, TypeOK
  <2> QED
    BY <1>1, <1>2, <2>1 DEF Moves, HoldsLock, InPlace, Stopped
<1>4. TypeOK'
  BY <1>1, <1>3, MoveKeeps, BriefsAssumption
     DEF IInv, TypeOK, Moves, HoldsLock, CallRecs, PCs, Status, Prompts, Jobs
<1>5. CallsInv' /\ DownInv'
  BY <1>1, <1>3, MoveKeeps DEF IInv, DownInv, Stopped
<1>6. RundownInv'
  BY <1>1, <1>2 DEF IInv, RundownInv, OnlyCall
<1>7. JobsInv' /\ PictureInv'
  BY <1>1 DEF IInv, JobsInv, PictureInv, Jobs
<1>8. AvatarInv'
  BY <1>1 DEF AvatarInv, Jobs
<1> QED
  BY <1>4, <1>5, <1>6, <1>7, <1>8 DEF IInv

-------------------------------------------------------------------------------
(* The pools.  A job exists only while the process is up; what a worker does  *)
(* to its own job leaves the threads alone.                                 *)
OnlyJob(c) == \A d \in Calls : d # c => job'[d] = job[d]

LEMMA JobFacts ==
  ASSUME TypeOK, NEW c \in Calls, NEW pc \in {"working", "filed", "failing"},
         job' = [job EXCEPT ![c].pc = pc]
  PROVE  /\ job' \in [Calls -> JobRecs] /\ OnlyJob(c)
         /\ job'[c].pool = job[c].pool /\ job'[c].pc = pc
<1> DEFINE s == [job[c] EXCEPT !.pc = pc]
<1>1. job \in [Calls -> JobRecs] /\ job[c] \in JobRecs
  BY DEF TypeOK, JobRecs
<1>2. s \in JobRecs /\ s.pool = job[c].pool /\ s.pc = pc
  BY <1>1 DEF JobRecs
<1>3. job' = [job EXCEPT ![c] = s]
  BY <1>1
<1> HIDE DEF s
<1> QED
  BY <1>1, <1>2, <1>3 DEF OnlyJob

LEMMA NoJobFacts ==
  ASSUME TypeOK, NEW c \in Calls, job' = [job EXCEPT ![c] = NoJob]
  PROVE  /\ job' \in [Calls -> JobRecs] /\ OnlyJob(c)
         /\ job'[c].pool = "none" /\ job'[c].pc = "none"
<1>1. NoJob \in JobRecs /\ NoJob.pool = "none" /\ NoJob.pc = "none"
  BY DEF NoJob, JobRecs
<1>2. job \in [Calls -> JobRecs]
  BY DEF TypeOK, JobRecs
<1> QED
  BY <1>1, <1>2 DEF OnlyJob

LEMMA PoolFrame ==
  ASSUME IInv, NEW c \in Calls, job[c].pc # "none",
         job' \in [Calls -> JobRecs], UNCHANGED <<up, call, lock, vector, built, boots,
                                                  wanted, unswept>>,
         brief' \in [text : Texts, image : Status], brief'.text = brief.text,
         avatar' \in Status, file' \in Prompts, paid' \in Nat, stray' \subseteq Calls,
         lost' \subseteq {"brief", "avatar"}, upsets' \in 0..MaxUpsets
  PROVE  /\ TypeOK' /\ CallsInv' /\ DownInv' /\ RundownInv'
         /\ job[c].pool \in {"brief", "avatar"}
<1>1. job[c].pool \in {"brief", "avatar"}
  BY DEF IInv, JobsInv, TypeOK
<1>2. up
  BY <1>1 DEF IInv, DownInv
<1>3. TypeOK'
  BY DEF IInv, TypeOK, JobRecs
<1>4. CallsInv' /\ RundownInv'
  BY DEF IInv, CallsInv, RundownInv
<1> QED
  BY <1>1, <1>2, <1>3, <1>4 DEF DownInv

LEMMA WorkKeeps ==
  ASSUME IInv, NEW c \in Calls, Work(c) PROVE IInv'
<1>1. /\ job[c].pc = "queued" /\ job' = [job EXCEPT ![c].pc = "working"]
      /\ paid' = paid + (IF job[c].pool = "brief" THEN 1 ELSE 0)
      /\ UNCHANGED <<up, rows, lock, call, built, boots, wanted, stray, lost, unswept,
                     upsets>>
  BY DEF Work
<1>2. /\ job' \in [Calls -> JobRecs] /\ OnlyJob(c)
      /\ job'[c].pool = job[c].pool /\ job'[c].pc = "working"
  BY <1>1, JobFacts DEF IInv
<1>3. paid' \in Nat
  BY <1>1 DEF IInv, TypeOK
<1>4. /\ TypeOK' /\ CallsInv' /\ DownInv' /\ RundownInv'
      /\ job[c].pool \in {"brief", "avatar"}
  BY <1>1, <1>2, <1>3, PoolFrame DEF rows, IInv, TypeOK
<1>5. JobsInv'
  BY <1>2, <1>4 DEF IInv, JobsInv, OnlyJob
<1>6. PictureInv'
  <2>1. \A d \in Calls : job'[d].pool = job[d].pool
    BY <1>2 DEF OnlyJob
  <2>2. CASE job[c].pool = "brief"
    <3>1. paid' = paid + 1 /\ paid <= boots /\ brief' = brief /\ boots' = boots
          /\ brief.image = "pending"
      BY <1>1, <2>2 DEF IInv, PictureInv, Jobs, rows
    <3>2. \A d \in Calls : job'[d].pool = "brief" => d = c
      BY <2>1, <2>2 DEF IInv, PictureInv, Jobs
    <3>3. paid \in Nat /\ boots \in Nat
      BY DEF IInv, TypeOK
    <3> QED
      BY <1>2, <3>1, <3>2, <3>3 DEF PictureInv, Jobs
  <2>3. CASE job[c].pool # "brief"
    <3>1. paid' = paid
      BY <1>1, <2>3 DEF IInv, TypeOK
    <3> QED
      BY <1>1, <1>2, <2>1, <2>3, <3>1 DEF IInv, PictureInv, Jobs, OnlyJob, rows
  <2> QED
    BY <2>2, <2>3
<1>7. AvatarInv'
  BY <1>1, <1>2 DEF IInv, AvatarInv, Jobs, OnlyJob, rows
<1> QED
  BY <1>4, <1>5, <1>6, <1>7 DEF IInv

LEMMA WriteKeeps ==
  ASSUME IInv, NEW c \in Calls, WriteFile(c) PROVE IInv'
<1>1. /\ job[c].pc = "working" /\ job' = [job EXCEPT ![c].pc = "filed"]
      /\ file' = IF job[c].pool = "avatar" THEN c ELSE file
      /\ UNCHANGED <<up, brief, avatar, vector, lock, call, history, upsets>>
  BY DEF WriteFile
<1>2. /\ job' \in [Calls -> JobRecs] /\ OnlyJob(c)
      /\ job'[c].pool = job[c].pool /\ job'[c].pc = "filed"
  BY <1>1, JobFacts DEF IInv
<1>3. file' \in Prompts
  BY <1>1, BriefsAssumption DEF IInv, TypeOK, Calls, Prompts
<1>4. /\ TypeOK' /\ CallsInv' /\ DownInv' /\ RundownInv'
      /\ job[c].pool \in {"brief", "avatar"}
  BY <1>1, <1>2, <1>3, PoolFrame DEF history, IInv, TypeOK
<1>5. JobsInv' /\ PictureInv'
  BY <1>1, <1>2, <1>4 DEF IInv, JobsInv, PictureInv, Jobs, OnlyJob, history
<1>6. AvatarInv'
  <2>1. CASE job[c].pool = "avatar"
    <3>1. stray = {} => avatar = "pending" /\ wanted = c /\
                        \A d \in Jobs("avatar") : d = c
      BY <2>1 DEF IInv, AvatarInv, Jobs
    <3>2. Jobs("avatar")' = Jobs("avatar")
      BY <1>2 DEF Jobs, OnlyJob
    <3> QED
      BY <1>1, <2>1, <3>1, <3>2 DEF AvatarInv, history
  <2>2. CASE job[c].pool # "avatar"
    BY <1>1, <1>2, <2>2 DEF IInv, AvatarInv, Jobs, OnlyJob, history
  <2> QED
    BY <2>1, <2>2
<1> QED
  BY <1>4, <1>5, <1>6 DEF IInv

LEMMA WorkFailsKeeps ==
  ASSUME IInv, NEW c \in Calls, WorkFails(c) PROVE IInv'
<1>1. /\ job[c].pc \in {"working", "filed"} /\ job' = [job EXCEPT ![c].pc = "failing"]
      /\ Upset /\ UNCHANGED <<up, rows, lock, call, history>>
  BY DEF WorkFails
<1>2. /\ job' \in [Calls -> JobRecs] /\ OnlyJob(c)
      /\ job'[c].pool = job[c].pool /\ job'[c].pc = "failing"
  BY <1>1, JobFacts DEF IInv
<1>3. upsets' \in 0..MaxUpsets
  BY <1>1, UpsetType DEF IInv
<1>4. /\ TypeOK' /\ CallsInv' /\ DownInv' /\ RundownInv'
      /\ job[c].pool \in {"brief", "avatar"}
  BY <1>1, <1>2, <1>3, PoolFrame DEF history, rows, IInv, TypeOK
<1>5. JobsInv' /\ PictureInv' /\ AvatarInv'
  BY <1>1, <1>2, <1>4
     DEF IInv, JobsInv, PictureInv, AvatarInv, Jobs, OnlyJob, history, rows
<1> QED
  BY <1>4, <1>5 DEF IInv

(* The job's outcome reaches the row, and the job is gone.                  *)
LEMMA RecordKeeps ==
  ASSUME IInv, NEW c \in Calls, Record(c) PROVE IInv'
<1> DEFINE st == IF job[c].pc = "filed" THEN "ready" ELSE "error"
<1>1. /\ job[c].pc \in {"filed", "failing"} /\ job' = [job EXCEPT ![c] = NoJob]
      /\ SetStatus(c, st)
      /\ UNCHANGED <<up, file, vector, lock, call, built, paid, boots, wanted, lost,
                     unswept, upsets>>
  BY DEF Record
<1>2. /\ job' \in [Calls -> JobRecs] /\ OnlyJob(c)
      /\ job'[c].pool = "none" /\ job'[c].pc = "none"
  BY <1>1, NoJobFacts DEF IInv
<1>3. st \in {"ready", "error"} /\ (st = "ready" => job[c].pc = "filed")
  OBVIOUS
<1> HIDE DEF st
<1>4. job[c].pool \in {"brief", "avatar"}
  BY <1>1 DEF IInv, JobsInv, TypeOK
<1>5. CASE job[c].pool = "brief"
  <2>1. /\ brief' = [brief EXCEPT !.image = st] /\ avatar' = avatar /\ stray' = stray
    BY <1>1, <1>5 DEF SetStatus
  <2>2. /\ brief' \in [text : Texts, image : Status] /\ brief'.text = brief.text
        /\ brief'.image = st
    BY <1>3, <2>1 DEF IInv, TypeOK, Status
  <2>3. TypeOK' /\ CallsInv' /\ DownInv' /\ RundownInv'
    BY <1>1, <1>2, <2>1, <2>2, PoolFrame DEF IInv, TypeOK
  <2>4. JobsInv'
    BY <1>2 DEF IInv, JobsInv, OnlyJob
  <2>5. PictureInv'
    <3>1. \A d \in Calls : job'[d].pool # "brief"
      BY <1>2, <1>5 DEF IInv, PictureInv, Jobs, OnlyJob
    <3> QED
      BY <1>1, <1>3, <2>2, <3>1 DEF IInv, PictureInv, Jobs
  <2>6. AvatarInv'
    BY <1>1, <1>2, <2>1 DEF IInv, AvatarInv, Jobs, OnlyJob
  <2> QED
    BY <2>3, <2>4, <2>5, <2>6 DEF IInv
<1>6. CASE job[c].pool = "avatar"
  <2>1. /\ avatar' = st /\ brief' = brief
        /\ stray' = IF c \in stray THEN stray \union Jobs("avatar") ELSE stray
    BY <1>1, <1>6 DEF SetStatus
  <2>2. avatar' \in Status /\ stray' \subseteq Calls
    BY <1>3, <2>1 DEF IInv, TypeOK, Status, Jobs
  <2>3. TypeOK' /\ CallsInv' /\ DownInv' /\ RundownInv'
    BY <1>1, <1>2, <2>1, <2>2, PoolFrame DEF IInv, TypeOK
  <2>4. JobsInv' /\ PictureInv'
    BY <1>1, <1>2, <2>1 DEF IInv, JobsInv, PictureInv, Jobs, OnlyJob
  <2>5. AvatarInv'
    <3> SUFFICES ASSUME stray' = {}
                 PROVE  /\ \A d \in Calls : job'[d].pool # "avatar"
                        /\ avatar' = "ready" => file' = wanted'
      BY DEF AvatarInv, Jobs
    <3>1. stray = {}
      BY <2>1
    <3>2. /\ \A d \in Calls : job[d].pool = "avatar" => d = c
          /\ wanted = c /\ (job[c].pc = "filed" => file = c)
      BY <1>6, <3>1 DEF IInv, AvatarInv, Jobs
    <3> QED
      BY <1>1, <1>2, <1>3, <2>1, <3>2 DEF OnlyJob
  <2> QED
    BY <2>3, <2>4, <2>5 DEF IInv
<1> QED
  BY <1>4, <1>5, <1>6

LEMMA RecordFailsKeeps ==
  ASSUME IInv, NEW c \in Calls, RecordFails(c) PROVE IInv'
<1>1. /\ job[c].pc = "failing" /\ job' = [job EXCEPT ![c] = NoJob]
      /\ lost' = lost \union {job[c].pool}
      /\ UNCHANGED <<up, rows, lock, call, built, paid, boots, wanted, stray, unswept,
                     upsets>>
  BY DEF RecordFails
<1>2. /\ job' \in [Calls -> JobRecs] /\ OnlyJob(c)
      /\ job'[c].pool = "none" /\ job'[c].pc = "none"
  BY <1>1, NoJobFacts DEF IInv
<1>3. lost' \subseteq {"brief", "avatar"}
  BY <1>1 DEF IInv, JobsInv, TypeOK
<1>4. TypeOK' /\ CallsInv' /\ DownInv' /\ RundownInv'
  BY <1>1, <1>2, <1>3, PoolFrame DEF rows, IInv, TypeOK
<1>5. JobsInv' /\ PictureInv' /\ AvatarInv'
  BY <1>1, <1>2 DEF IInv, JobsInv, PictureInv, AvatarInv, Jobs, OnlyJob, rows
<1> QED
  BY <1>4, <1>5 DEF IInv

-------------------------------------------------------------------------------
(* The web process dies and starts again.                                   *)
LEMMA CrashKeeps == ASSUME IInv, Crash PROVE IInv'
<1>1. /\ up' = FALSE /\ lock' = 0 /\ Upset /\ UNCHANGED <<rows, history>>
      /\ job' = [c \in Calls |-> NoJob]
      /\ call' = [c \in Calls |->
                    IF call[c].pc = "free" \/ call[c].kind = "nightly" THEN call[c]
                    ELSE Ended]
  BY DEF Crash
<1>2. Ended = [kind |-> "none", pc |-> "done", text |-> "none"]
  BY DEF Ended, NoCall
<1>3. Ended \in CallRecs /\ NoJob \in JobRecs /\ NoJob.pool = "none" /\ NoJob.pc = "none"
      /\ Ended.kind = "none" /\ Ended.pc = "done"
  BY <1>2 DEF CallRecs, PCs, Kinds, Texts, NoJob, JobRecs
<1>4. call' \in [Calls -> CallRecs] /\ job' \in [Calls -> JobRecs]
  BY <1>1, <1>3, CallType DEF IInv
<1>5. ASSUME NEW c \in Calls
      PROVE  /\ InPlace(c)' /\ ~HoldsLock(c)' /\ Stopped(c)' /\ c # 0
             /\ call'[c].kind # "rundown" \/ call'[c].pc = "free"
             /\ job'[c].pool = "none" /\ job'[c].pc = "none"
  <2>1. InPlace(c)
    BY DEF IInv, CallsInv, InPlace
  <2>2. \/ call'[c] = call[c] /\ (call[c].pc = "free" \/ call[c].kind = "nightly")
        \/ call'[c].kind = "none" /\ call'[c].pc = "done"
    BY <1>1, <1>3
  <2> QED
    BY <1>1, <1>3, <2>1, <2>2 DEF InPlace, HoldsLock, Stopped, Calls
<1>6. TypeOK'
  <2>1. upsets' \in 0..MaxUpsets /\ 0 \in 0..MaxCalls
    BY <1>1, UpsetType, BriefsAssumption DEF IInv
  <2> QED
    BY <1>1, <1>4, <1>5, <2>1
       DEF IInv, TypeOK, rows, history, HoldsLock, CallRecs, PCs, JobRecs
<1>7. CallsInv' /\ DownInv' /\ RundownInv'
  BY <1>1, <1>5 DEF IInv, CallsInv, DownInv, RundownInv, InPlace, Stopped, rows, history
<1>8. JobsInv' /\ PictureInv' /\ AvatarInv'
  BY <1>1, <1>5 DEF IInv, JobsInv, PictureInv, AvatarInv, Jobs, rows, history
<1> QED
  BY <1>6, <1>7, <1>8 DEF IInv

LEMMA BootKeeps == ASSUME IInv, Boot PROVE IInv'
<1>1. /\ ~up /\ up' = TRUE /\ avatar' = Reset(avatar) /\ boots' = boots + 1
      /\ brief' = [brief EXCEPT !.image = Reset(brief.image)] /\ lost' = {}
      /\ UNCHANGED <<file, vector, lock, call, job, built, paid, wanted, stray, unswept,
                     upsets>>
  BY DEF Boot
<1>2. /\ brief' \in [text : Texts, image : Status] /\ brief'.text = brief.text
      /\ brief'.image = Reset(brief.image)
  BY <1>1 DEF IInv, TypeOK, Status, Reset
<1>3. \A c \in Calls : job[c].pool = "none"
  BY <1>1 DEF IInv, DownInv
<1>4. TypeOK'
  BY <1>1, <1>2 DEF IInv, TypeOK, Status, Reset
<1>5. CallsInv' /\ DownInv' /\ RundownInv' /\ JobsInv'
  BY <1>1, <1>2 DEF IInv, CallsInv, DownInv, RundownInv, JobsInv
<1>6. PictureInv'
  BY <1>1, <1>2, <1>3 DEF IInv, PictureInv, TypeOK, Jobs
<1>7. AvatarInv'
  BY <1>1, <1>3 DEF IInv, AvatarInv, Jobs, Reset
<1> QED
  BY <1>4, <1>5, <1>6, <1>7 DEF IInv

-------------------------------------------------------------------------------
LEMMA InitInv == ASSUME Init PROVE IInv
<1>1. /\ \A c \in Calls : /\ call[c] = NoCall /\ job[c] = NoJob /\ c # 0
      /\ NoCall \in CallRecs /\ NoJob \in JobRecs
      /\ NoCall.kind = "none" /\ NoCall.pc = "free"
      /\ NoJob.pool = "none" /\ NoJob.pc = "none"
  BY DEF Init, NoCall, NoJob, CallRecs, JobRecs, PCs, Kinds, Texts, Calls
<1>2. TypeOK
  <2>1. call \in [Calls -> CallRecs] /\ job \in [Calls -> JobRecs]
    BY <1>1 DEF Init
  <2>2. brief \in [text : Texts, image : Status]
    BY DEF Init, Texts, Status
  <2>3. \A c \in Calls : lock = c <=> HoldsLock(c)
    BY <1>1 DEF Init, HoldsLock
  <2>4. 0 \in 0..MaxCalls /\ 0 \in 0..MaxUpsets
    BY BriefsAssumption
  <2> QED
    BY <2>1, <2>2, <2>3, <2>4
       DEF Init, TypeOK, CallRecs, JobRecs, PCs, Status, Prompts, HoldsLock
<1>3. CallsInv /\ DownInv /\ RundownInv
  BY <1>1 DEF Init, CallsInv, DownInv, RundownInv
<1>4. JobsInv /\ PictureInv /\ AvatarInv
  BY <1>1 DEF Init, JobsInv, PictureInv, AvatarInv, Jobs
<1> QED
  BY <1>2, <1>3, <1>4 DEF IInv

LEMMA StepInv == ASSUME IInv, [Next]_vars PROVE IInv'
<1>1. ASSUME NEW c \in Calls, Request(c) PROVE IInv'
  <2>1. Kick \in {"done", "claim"} /\ {"done", "claim", "wait", "ask", "read"} \subseteq PCs
        /\ {"rundown", "glance", "avatar", "admin", "nightly"} \subseteq Kinds
    BY KickFacts DEF PCs, Kinds
  <2>2. CASE FirstLook(c)
    <3>1. PICK pc \in {"done", "claim", "wait"} : Starts(c, "rundown", pc)
      BY <2>1, <2>2 DEF FirstLook
    <3> QED
      BY <2>1, <2>2, <3>1, StartKeeps DEF FirstLook
  <2>3. CASE BuildNow(c)
    <3>1. PICK kind \in {"admin", "nightly"} : Starts(c, kind, "read")
      BY <2>3 DEF BuildNow
    <3> QED
      BY <2>1, <2>3, <3>1, StartKeeps DEF BuildNow
  <2>4. CASE Glance(c)
    <3>1. PICK pc \in {"done", "claim"} : Starts(c, "glance", pc)
      BY <2>1, <2>4 DEF Glance
    <3> QED
      BY <2>1, <2>4, <3>1, StartKeeps DEF Glance
  <2>5. CASE AskAvatar(c)
    <3>1. PICK pc \in {"done", "ask"} : Starts(c, "avatar", pc)
      BY <2>5 DEF AskAvatar
    <3> QED
      BY <2>1, <2>5, <3>1, StartKeeps DEF AskAvatar
  <2> QED
    BY <1>1, <2>2, <2>3, <2>4, <2>5, ResetKeeps DEF Request
<1>2. ASSUME NEW c \in Calls, Build(c) PROVE IInv'
  <2>1. CASE NoStories(c)
    BY <2>1, LeaveKeeps DEF NoStories, IInv, TypeOK
  <2>2. CASE BuildFails(c)
    BY <2>2, LeaveKeeps, UpsetType DEF BuildFails, IInv
  <2> QED
    BY <1>2, <2>1, <2>2, LookKeeps, GenerateKeeps, SaveKeeps, RereadKeeps DEF Build
<1>3. ASSUME NEW c \in Calls, Sweep(c) \/ Ask(c) PROVE IInv'
  BY <1>3, SweepKeeps, ClaimImageKeeps, ClaimAvatarKeeps DEF Ask
<1>4. ASSUME NEW c \in Calls, Picture(c) PROVE IInv'
  BY <1>4, WorkKeeps, WriteKeeps, WorkFailsKeeps, RecordKeeps, RecordFailsKeeps
     DEF Picture
<1>5. CASE UNCHANGED vars
  BY <1>5 DEF vars, rows, history, IInv, TypeOK, CallsInv, DownInv, RundownInv, JobsInv,
              PictureInv, AvatarInv, Jobs
<1> QED
  BY <1>1, <1>2, <1>3, <1>4, <1>5, CrashKeeps, BootKeeps DEF Next

LEMMA Invariant == Spec => []IInv
<1>1. Init => IInv
  BY InitInv
<1>2. IInv /\ [Next]_vars => IInv'
  BY StepInv
<1> QED
  BY <1>1, <1>2, PTL DEF Spec

(* Type correctness; with it, _build_lock of brief.py is held by exactly the *)
(* viewer that builds, reads again or is about to let go.                   *)
THEOREM TypeCorrect == Spec => []TypeOK
<1>1. IInv => TypeOK
  BY DEF IInv
<1> QED
  BY <1>1, Invariant, PTL

(* What is paid for is paid once, however many requests, nightly jobs and    *)
(* deaths of the process interleave: viewers store one rundown a day, and    *)
(* the brief's picture is generated once, and once more per restart at most. *)
THEOREM PaidForOnce == Spec => []PaidOnce
<1>1. IInv => PaidOnce
  BY DEF IInv, RundownInv, PictureInv, PaidOnce
<1> QED
  BY <1>1, Invariant, PTL

(* A ready avatar is the one its user asked for last, unless a reset has     *)
(* overtaken a generation that was still under way.                         *)
THEOREM AvatarsShown == Spec => []AvatarShown
<1>1. IInv => AvatarShown
  BY DEF IInv, AvatarInv, AvatarShown
<1> QED
  BY <1>1, Invariant, PTL
=============================================================================
