---------------------------- MODULE DeliveryProofs ----------------------------
(***************************************************************************)
(* Proofs about Delivery, for any stories, users, limits and clock:          *)
(*   TypeCorrect      the type invariant, with the bounds on what is mailed; *)
(*   NothingLost      the consumer's checkpoint passes over no item, save    *)
(*                    those that came late or share their second;            *)
(*   NoDoubleMail     no item is mailed twice to a user, save after a torn    *)
(*                    run or by passes that overlapped;                      *)
(*   DigestsAccount   what a user's checkpoint has passed was mailed, or      *)
(*                    there is a reason on record why not;                   *)
(* and, at the end, about FeedCollect, which fills the tables Delivery reads: *)
(*   CollectTypeCorrect, VouchedCollected.                                   *)
(***************************************************************************)
EXTENDS Delivery, FiniteSetTheorems, WellFoundedInduction, TLAPS

RunRecs == [pc : {"off", "read", "items", "send", "mark"}, todo : SUBSET Users,
            who : Users \union {0}, from : Stamps, batch : SUBSET mapped,
            dry : BOOLEAN]

(***************************************************************************)
(* The inductive invariant, in parts.                                       *)
(***************************************************************************)
(* A copy a collector holds carries a stamp, and so does a stored item.       *)
WriterInv ==
  \A i \in Items : /\ at[i] = "parsed" => parsed[i] > 0
                   /\ at[i] = "stored" => fetched[i] > 0

(* A checkpoint is the stamp of an item of the topic: an item that joins it    *)
(* at or behind the checkpoint comes after another with its stamp or later.  *)
Witnessed(t) == t = 0 \/ \E j \in mapped : fetched[j] = t

CheckpointInv == Witnessed(since) /\ \A u \in Users : Witnessed(last[u])

(* A digest under way has users left, or a user, and from the read on a batch   *)
(* of items past the checkpoint its pass goes from.                          *)
AtWork(r, u) == r.pc \in {"items", "send", "mark"} /\ r.who = u

RunOK(r) ==
  /\ r.pc = "read" => r.todo # {}
  /\ r.pc \in {"items", "send", "mark"} => r.who \in Users
  /\ r.pc \in {"send", "mark"} => r.batch # {} /\ \A i \in r.batch : fetched[i] > r.from
  /\ Witnessed(r.from)

RunInv == \A d \in Digests : RunOK(run[d])

(* Of the passes over a user that are under way, all but one began during      *)
(* another.                                                                 *)
PassInv(u) == Cardinality(Passing(u)) <= 1 + overlap[u]

(* An item's claims are its mails and the passes that may still mail it.  They *)
(* exceed what is excused by one at most, and not at all once a pass has left  *)
(* the item out, or the checkpoint is before it and no pass has it ahead.     *)
Will(r, u, i) ==
  /\ r.who = u
  /\ \/ r.pc = "items" /\ fetched[i] > r.from
     \/ r.pc = "send" /\ i \in r.batch

MayMail(u, i) == {d \in Digests : Will(run[d], u, i)}

Claims(u, i) == mails[u][i] + Cardinality(MayMail(u, i))

Excused(u) == torn[u] + overlap[u]

LeftOut(u, i) ==
  \E d \in Digests :
    AtWork(run[d], u) /\ run[d].pc # "items" /\ i \notin run[d].batch
      /\ fetched[i] > run[d].from

Ahead(u, i) ==
  fetched[i] > last[u] /\ \A d \in Digests : AtWork(run[d], u) => fetched[i] <= run[d].from

MailInv(u, i) ==
  IF i \in mapped
  THEN /\ Claims(u, i) <= 1 + Excused(u)
       /\ LeftOut(u, i) \/ Ahead(u, i) => Claims(u, i) <= Excused(u)
  ELSE mails[u][i] = 0

(* What a pass has behind it, or has read, covers what the checkpoint it       *)
(* stores will pass.                                                        *)
Accounted(u, i) == mails[u][i] > 0 \/ i \in disorder \/ i \in dropped[u]

PassAccounts(r, u, i) ==
  AtWork(r, u) =>
    /\ i \in mapped \ hidden /\ fetched[i] <= r.from => Accounted(u, i)
    /\ r.pc # "items" /\ i \in mapped \ hidden /\ (\E j \in r.batch : fetched[i] <= fetched[j])
         => i \in r.batch \/ Accounted(u, i)
    /\ r.pc = "mark" /\ i \in r.batch => mails[u][i] > 0 \/ i \in dropped[u]

AccountInv(u, i) ==
  /\ i \in mapped \ hidden /\ fetched[i] <= last[u] => Accounted(u, i)
  /\ \A d \in Digests : PassAccounts(run[d], u, i)

TornInv == \A u \in Users : torn[u] <= upsets

IInv ==
  /\ TypeOK /\ WriterInv /\ CheckpointInv /\ RunInv /\ TornInv
  /\ NothingSkipped
  /\ \A u \in Users : PassInv(u)
  /\ \A u \in Users, i \in Items : MailInv(u, i) /\ AccountInv(u, i)
-------------------------------------------------------------------------------
(* A set of naturals has a least element, and a greatest if it has a bound.   *)
LEMMA NatMin ==
  ASSUME NEW S \in SUBSET Nat, S # {}
  PROVE  \E m \in S : \A n \in S : m <= n
<1> DEFINE R == OpToRel(<, Nat)
<1>1. IsWellFoundedOn(R, Nat)
  BY NatLessThanWellFounded
<1>2. \A x, y \in Nat : x < y => <<x, y>> \in R
  BY DEF OpToRel
<1> HIDE DEF R
<1>3. PICK x \in S : \A y \in S : ~ (<<y, x>> \in R)
  BY <1>1, WFMin
<1>4. \A y \in S : ~ (y < x)
  BY <1>2, <1>3
<1>5. \A y \in S : x <= y
  BY <1>4
<1> QED
  BY <1>5

LEMMA NatMax ==
  ASSUME NEW S \in SUBSET Nat, S # {}, NEW b \in Nat, \A n \in S : n <= b
  PROVE  Max(S) \in S /\ \A n \in S : n <= Max(S)
<1> DEFINE U == {n \in Nat : \A m \in S : m <= n}
<1>1. U \in SUBSET Nat /\ U # {}
  OBVIOUS
<1> HIDE DEF U
<1>2. PICK u \in U : \A n \in U : u <= n
  BY <1>1, NatMin
<1>3. u \in Nat /\ \A m \in S : m <= u
  BY <1>2 DEF U
<1>4. u \in S
  <2> SUFFICES ASSUME u \notin S PROVE FALSE
    OBVIOUS
  <2>1. \A m \in S : m < u
    BY <1>3
  <2>2. u - 1 \in Nat /\ \A m \in S : m <= u - 1
    <3>1. PICK x \in S : TRUE
      OBVIOUS
    <3>2. x \in Nat /\ x < u
      BY <2>1
    <3> QED
      BY <1>3, <2>1, <3>2
  <2>3. u - 1 \in U
    BY <2>2 DEF U
  <2> QED
    BY <1>2, <1>3, <2>3
<1>5. \E x \in S : \A y \in S : x >= y
  BY <1>3, <1>4
<1>6. Max(S) \in S /\ \A y \in S : Max(S) >= y
  BY <1>5 DEF Max
<1> QED
  BY <1>6

(* The checkpoint a page or a batch leads to.                                *)
LEMMA NewestFacts ==
  ASSUME TypeOK, NEW P \in SUBSET mapped, P # {}
  PROVE  /\ Newest(P) \in Stamps
         /\ \E j \in P : fetched[j] = Newest(P)
         /\ \A i \in P : fetched[i] <= Newest(P)
<1> DEFINE S == {fetched[i] : i \in P}
<1>1. S \in SUBSET Nat /\ S # {} /\ MaxClock \in Nat /\ \A n \in S : n <= MaxClock
  BY DeliveryAssumption DEF TypeOK, Stamps
<1>2. Max(S) \in S /\ \A n \in S : n <= Max(S)
  BY <1>1, NatMax
<1>3. Newest(P) = Max(S)
  BY DEF Newest
<1>4. \A n \in S : n \in Stamps
  BY DEF TypeOK
<1> QED
  BY <1>2, <1>3, <1>4

-------------------------------------------------------------------------------
(* Nothing that the invariant speaks of changes, or only upsets grow.        *)
LEMMA QuietStep ==
  ASSUME IInv, TypeOK', UNCHANGED <<writerVars, since, seen, digestVars>>,
         upsets' >= upsets
  PROVE  IInv'
<1>1. WriterInv' /\ CheckpointInv' /\ RunInv'
  BY DEF IInv, WriterInv, CheckpointInv, Witnessed, RunInv, RunOK, writerVars, digestVars
<1>2. TornInv'
  BY DEF IInv, TornInv, TypeOK, digestVars
<1>3. NothingSkipped'
  BY DEF IInv, NothingSkipped, Twins, writerVars
<1>4. ASSUME NEW u \in Users, NEW i \in Items PROVE MailInv(u, i)' /\ AccountInv(u, i)'
  <2>1. UNCHANGED <<mapped, hidden, disorder, fetched, last, run, mails, dropped, torn,
                    overlap>>
    BY DEF writerVars, digestVars
  <2>2. MailInv(u, i) /\ AccountInv(u, i)
    BY DEF IInv
  <2> QED
    BY <2>1, <2>2 DEF MailInv, Claims, MayMail, Excused, LeftOut, Ahead, AccountInv,
                      PassAccounts, Accounted, AtWork, Will
<1>5. \A u \in Users : PassInv(u)'
  BY DEF IInv, PassInv, Passing, digestVars
<1> QED
  BY <1>1, <1>2, <1>3, <1>4, <1>5 DEF IInv

(* What the collectors may do to the readers: items of the topic stay there   *)
(* with their stamps, and one that joins at or behind another's stamp is in   *)
(* disorder.                                                                *)
OnlyJoins ==
  /\ mapped \subseteq mapped' /\ hidden \subseteq hidden' /\ disorder \subseteq disorder'
  /\ \A i \in mapped : fetched'[i] = fetched[i]
  /\ \A i \in mapped' \ mapped, j \in mapped :
       fetched[j] >= fetched'[i] => i \in disorder'

(* A pass counts one at most among those that may mail an item, and no more    *)
(* passes may mail one than there are.                                       *)
One(b) == IF b THEN 1 ELSE 0

LEMMA PassCounts ==
  ASSUME NEW u \in Users, NEW i \in Items
  PROVE  /\ IsFiniteSet(Passing(u)) /\ Cardinality(Passing(u)) \in Nat
         /\ IsFiniteSet(MayMail(u, i)) /\ Cardinality(MayMail(u, i)) \in Nat
         /\ Cardinality(MayMail(u, i)) <= Cardinality(Passing(u))
<1>1. IsFiniteSet(Digests)
  BY FS_Interval, DeliveryAssumption DEF Digests
<1>2. Passing(u) \in SUBSET Digests /\ MayMail(u, i) \in SUBSET Passing(u)
  BY DEF Passing, MayMail, Will
<1>3. IsFiniteSet(Passing(u))
  BY <1>1, <1>2, FS_Subset
<1>4. IsFiniteSet(MayMail(u, i)) /\ Cardinality(MayMail(u, i)) <= Cardinality(Passing(u))
  BY <1>2, <1>3, FS_Subset
<1> QED
  BY <1>3, <1>4, FS_CardinalityType

LEMMA WriterStep ==
  ASSUME IInv, TypeOK', WriterInv', OnlyJoins, upsets' >= upsets,
         UNCHANGED <<since, seen, digestVars>>
  PROVE  IInv'
<1>1. /\ run' = run /\ last' = last /\ mails' = mails /\ dropped' = dropped /\ torn' = torn
      /\ overlap' = overlap /\ since' = since /\ seen' = seen
  BY DEF digestVars
<1>2. /\ \A i \in Items : fetched[i] \in Nat /\ fetched'[i] \in Nat
      /\ mapped \subseteq Items /\ mapped' \subseteq Items
      /\ \A i \in mapped' : fetched'[i] > 0
      /\ since \in Nat /\ (\A u \in Users : last[u] \in Nat)
      /\ \A d \in Digests : run[d].from \in Nat
  BY DEF IInv, TypeOK, Stamps
<1>3. \A t : Witnessed(t) => Witnessed(t)'
  BY DEF Witnessed, OnlyJoins
<1>4. \A d \in Digests : run[d].batch \subseteq mapped /\ Witnessed(run[d].from)
  BY DEF IInv, TypeOK, RunInv, RunOK
<1>5. CheckpointInv' /\ RunInv' /\ TornInv'
  <2>1. CheckpointInv'
    BY <1>1, <1>3 DEF IInv, CheckpointInv, Witnessed
  <2>2. RunInv'
    BY <1>1, <1>3, <1>4 DEF IInv, RunInv, RunOK, Witnessed, OnlyJoins
  <2>3. TornInv'
    BY <1>1 DEF IInv, TornInv, TypeOK
  <2> QED
    BY <2>1, <2>2, <2>3
<1>6. ASSUME NEW t \in Nat, Witnessed(t), NEW i \in mapped' \ mapped, fetched'[i] <= t
      PROVE  i \in disorder'
  <2>1. PICK j \in mapped : fetched[j] = t
    BY <1>2, <1>6 DEF Witnessed
  <2> QED
    BY <1>6, <2>1, <1>2 DEF OnlyJoins
<1>7. NothingSkipped'
  <2> SUFFICES ASSUME NEW i \in mapped', fetched'[i] <= since
               PROVE  i \in seen \/ i \in disorder' \/ Twins(i)' # {}
    BY <1>1 DEF NothingSkipped
  <2>1. CASE i \in mapped
    <3>1. i \in seen \/ i \in disorder \/ Twins(i) # {}
      BY <2>1 DEF IInv, NothingSkipped, OnlyJoins
    <3>2. Twins(i) \subseteq Twins(i)'
      BY <2>1 DEF Twins, OnlyJoins
    <3> QED
      BY <3>1, <3>2 DEF OnlyJoins
  <2>2. CASE i \notin mapped
    BY <1>2, <1>6, <2>2 DEF IInv, CheckpointInv
  <2> QED
    BY <2>1, <2>2
<1>8. ASSUME NEW u \in Users, NEW i \in Items PROVE AccountInv(u, i)'
  <2>1. AccountInv(u, i)
    BY DEF IInv
  <2>2. CASE i \in mapped
    <3>1. fetched'[i] = fetched[i] /\ (Accounted(u, i) => Accounted(u, i)')
      BY <1>1, <2>2 DEF OnlyJoins, Accounted
    <3>2. \A d \in Digests : \A j \in run[d].batch : fetched'[j] = fetched[j]
      BY <1>4 DEF OnlyJoins
    <3> QED
      BY <1>1, <2>1, <2>2, <3>1, <3>2 DEF AccountInv, PassAccounts, AtWork, OnlyJoins
  <2>3. CASE i \in mapped' \ mapped
    <3>1. fetched'[i] <= last[u] => i \in disorder'
      BY <1>2, <1>6, <2>3 DEF IInv, CheckpointInv
    <3>2. ASSUME NEW d \in Digests
          PROVE  /\ fetched'[i] <= run[d].from => i \in disorder'
                 /\ (\E j \in run[d].batch : fetched'[i] <= fetched'[j]) => i \in disorder'
                 /\ i \notin run[d].batch
      <4>1. fetched'[i] <= run[d].from => i \in disorder'
        BY <1>2, <1>4, <1>6, <2>3
      <4>2. (\E j \in run[d].batch : fetched'[i] <= fetched'[j]) => i \in disorder'
        BY <1>2, <1>4, <2>3 DEF OnlyJoins
      <4> QED
        BY <1>4, <2>3, <4>1, <4>2
    <3> QED
      BY <1>1, <3>1, <3>2 DEF AccountInv, PassAccounts, Accounted
  <2>4. CASE i \notin mapped'
    <3>1. \A d \in Digests : i \notin run[d].batch
      BY <1>4, <2>4 DEF OnlyJoins
    <3> QED
      BY <1>1, <2>4, <3>1 DEF AccountInv, PassAccounts
  <2> QED
    BY <2>2, <2>3, <2>4
<1>9. ASSUME NEW u \in Users, NEW i \in Items PROVE MailInv(u, i)'
  <2>1. MailInv(u, i) /\ torn[u] \in Nat /\ overlap[u] \in Nat
    BY DEF IInv, TypeOK
  <2>2. CASE i \in mapped
    <3>1. fetched'[i] = fetched[i] /\ i \in mapped'
      BY <2>2 DEF OnlyJoins
    <3>2. /\ MayMail(u, i)' = MayMail(u, i)
          /\ LeftOut(u, i)' = LeftOut(u, i) /\ Ahead(u, i)' = Ahead(u, i)
      BY <1>1, <3>1 DEF MayMail, Will, LeftOut, Ahead, AtWork
    <3> QED
      BY <1>1, <2>1, <2>2, <3>1, <3>2 DEF MailInv, Claims, Excused
  <2>3. CASE i \in mapped' \ mapped
    <3>1. mails'[u][i] = 0
      BY <1>1, <2>1, <2>3 DEF MailInv
    <3>2. /\ Cardinality(Passing(u)) <= 1 + overlap[u]
          /\ Passing(u) = {d \in Digests : AtWork(run[d], u)}
          /\ IsFiniteSet(Passing(u)) /\ Cardinality(Passing(u)) \in Nat
      BY PassCounts DEF IInv, PassInv, Passing, AtWork
    <3>3. MayMail(u, i)' = {d \in Digests : /\ run[d].who = u /\ run[d].pc = "items"
                                            /\ fetched'[i] > run[d].from}
      BY <1>1, <1>4, <2>3 DEF MayMail, Will
    <3>4. MayMail(u, i)' \in SUBSET Passing(u)
      BY <3>2, <3>3 DEF AtWork
    <3>5. /\ Cardinality(MayMail(u, i)') \in Nat
          /\ Cardinality(MayMail(u, i)') <= Cardinality(Passing(u))
      BY <3>2, <3>4, FS_Subset, FS_CardinalityType
    <3>6. LeftOut(u, i)' => Cardinality(MayMail(u, i)') <= Cardinality(Passing(u)) - 1
      <4> SUFFICES ASSUME LeftOut(u, i)'
                   PROVE  Cardinality(MayMail(u, i)') <= Cardinality(Passing(u)) - 1
        OBVIOUS
      <4>1. PICK d \in Digests : AtWork(run[d], u) /\ run[d].pc # "items"
        BY <1>1 DEF LeftOut, AtWork
      <4>2. d \in Passing(u) /\ MayMail(u, i)' \in SUBSET (Passing(u) \ {d})
        BY <3>2, <3>3, <3>4, <4>1
      <4>3. /\ IsFiniteSet(Passing(u) \ {d})
            /\ Cardinality(Passing(u) \ {d}) = Cardinality(Passing(u)) - 1
        BY <3>2, <4>2, FS_RemoveElement
      <4>4. Cardinality(MayMail(u, i)') <= Cardinality(Passing(u) \ {d})
        BY <4>2, <4>3, FS_Subset
      <4> QED
        BY <4>3, <4>4
    <3>7. Ahead(u, i)' => Cardinality(MayMail(u, i)') = 0
      <4>1. Ahead(u, i)' => MayMail(u, i)' = {}
        BY <1>1, <1>2, <3>2, <3>3 DEF Ahead, AtWork
      <4> QED
        BY <4>1, FS_EmptySet
    <3>8. Claims(u, i)' = Cardinality(MayMail(u, i)') /\ Excused(u)' = torn[u] + overlap[u]
      BY <1>1, <3>1, <3>5 DEF Claims, Excused
    <3>9. Claims(u, i)' <= 1 + Excused(u)'
      BY <2>1, <3>2, <3>5, <3>8
    <3>10. LeftOut(u, i)' \/ Ahead(u, i)' => Claims(u, i)' <= Excused(u)'
      BY <2>1, <3>2, <3>5, <3>6, <3>7, <3>8
    <3> QED
      BY <2>3, <3>9, <3>10 DEF MailInv
  <2>4. CASE i \notin mapped'
    BY <1>1, <2>1, <2>4 DEF MailInv, OnlyJoins
  <2> QED
    BY <2>2, <2>3, <2>4
<1>10. \A u \in Users : PassInv(u)'
  BY <1>1 DEF IInv, PassInv, Passing
<1> QED
  BY <1>5, <1>7, <1>8, <1>9, <1>10 DEF IInv

LEMMA WriteKeeps ==
  ASSUME IInv, NEW i \in Items, Write(i) PROVE IInv'
<1>0. /\ clock \in Nat /\ clock >= 1 /\ clock \in Stamps /\ 0 \in Stamps
      /\ MaxPasses \in Nat /\ MaxUpsets \in Nat
      /\ passes \in 0..MaxPasses /\ upsets \in 0..MaxUpsets
  BY DeliveryAssumption DEF IInv, TypeOK, Stamps
<1>s. \A n \in Stamps : n \in Nat
  BY DeliveryAssumption DEF Stamps
<1> USE DEF consumerVars, userVars, digestVars
<1>1. CASE Parse(i)
  <2>1. passes' \in 0..MaxPasses
    BY <1>0, <1>1 DEF Parse
  <2>0. clock' \in 1..MaxClock /\ clock' \in Stamps /\ clock' > 0
    BY <1>0, <1>1, DeliveryAssumption DEF Parse, Stamps
  <2>2. TypeOK'
    BY <1>0, <1>1, <2>0, <2>1 DEF Parse, IInv, TypeOK
  <2>3. WriterInv'
    BY <1>0, <1>1, <2>0 DEF Parse, IInv, TypeOK, WriterInv
  <2> QED
    BY <1>0, <1>1, <2>2, <2>3, WriterStep DEF Parse, OnlyJoins
<1>2. CASE Upsert(i)
  <2>1. parsed[i] > 0 /\ at[i] = "parsed" /\ fetched[i] \in Nat
    BY <1>2, <1>s DEF Upsert, IInv, TypeOK, WriterInv
  <2>2. \A j \in mapped : fetched'[j] = fetched[j]
    BY <1>2 DEF Upsert, IInv, TypeOK
  <2>3. TypeOK'
    <3>1. fetched' \in [Items -> Stamps]
      BY <1>2 DEF Upsert, IInv, TypeOK
    <3>2. mapped \subseteq {j \in Items : fetched'[j] > 0}
      BY <2>2 DEF IInv, TypeOK
    <3> QED
      BY <1>0, <1>2, <3>1, <3>2 DEF Upsert, IInv, TypeOK
  <2>4. WriterInv'
    BY <1>2, <2>1, <1>s DEF Upsert, IInv, TypeOK, WriterInv
  <2> QED
    BY <1>0, <1>2, <2>2, <2>3, <2>4, WriterStep DEF Upsert, OnlyJoins
<1>3. CASE MapItem(i)
  <2>1. fetched[i] > 0 /\ at[i] = "stored"
    BY <1>3 DEF MapItem, IInv, WriterInv
  <2>2. TypeOK'
    BY <1>0, <1>3, <2>1 DEF MapItem, IInv, TypeOK
  <2>3. WriterInv'
    BY <1>3 DEF MapItem, IInv, TypeOK, WriterInv
  <2> QED
    BY <1>0, <1>3, <2>2, <2>3, WriterStep DEF MapItem, OnlyJoins
<1>4. CASE ItemFails(i)
  <2>1. TypeOK'
    BY <1>0, <1>4 DEF ItemFails, IInv, TypeOK
  <2>2. WriterInv'
    BY <1>4 DEF ItemFails, IInv, TypeOK, WriterInv
  <2> QED
    BY <1>0, <1>4, <2>1, <2>2, WriterStep DEF ItemFails, OnlyJoins
<1>5. CASE SetRelevance(i)
  <2>1. upsets' \in 0..MaxUpsets /\ upsets' >= upsets
    BY <1>0, <1>5 DEF SetRelevance
  <2>2. TypeOK'
    BY <1>5, <2>1 DEF SetRelevance, IInv, TypeOK
  <2>3. WriterInv'
    BY <1>5 DEF SetRelevance, IInv, WriterInv
  <2> QED
    BY <1>5, <2>1, <2>2, <2>3, WriterStep DEF SetRelevance, OnlyJoins
<1> QED
  BY <1>1, <1>2, <1>3, <1>4, <1>5 DEF Write

(* A page: whatever the new checkpoint passes is on it, was passed before, or  *)
(* has the stamp of an item on it.                                          *)
LEMMA PollKeeps == ASSUME IInv, Poll PROVE IInv'
<1>1. PICK P \in Pages(After(since), PageLimit) :
        seen' = seen \union P /\ since' = NextSince(P)
  BY DEF Poll
<1>2. UNCHANGED <<clock, writerVars, token, userVars, digestVars, upsets>>
  BY DEF Poll
<1>3. /\ P \subseteq After(since) /\ P \subseteq mapped
      /\ \A i \in P, j \in After(since) \ P : fetched[i] <= fetched[j]
  BY DEF Pages, After
<1>4. /\ since' \in Stamps /\ Witnessed(since')
      /\ P # {} => \E j \in P : fetched[j] = since'
  <2>1. CASE P = {}
    BY <1>1, <2>1 DEF NextSince, IInv, TypeOK, CheckpointInv
  <2>2. CASE P # {}
    <3>1. /\ since' = Newest(P) /\ Newest(P) \in Stamps
          /\ \E j \in P : fetched[j] = Newest(P)
      BY <1>1, <1>3, <2>2, NewestFacts DEF NextSince, IInv
    <3> QED
      BY <1>3, <3>1 DEF Witnessed
  <2> QED
    BY <2>1, <2>2
<1>5. TypeOK'
  BY <1>1, <1>2, <1>3, <1>4 DEF IInv, TypeOK, writerVars, userVars, digestVars
<1>6. NothingSkipped'
  <2> SUFFICES ASSUME NEW i \in mapped, fetched[i] <= since'
               PROVE  i \in seen' \/ i \in disorder \/ Twins(i) # {}
    BY <1>2 DEF NothingSkipped, writerVars, Twins
  <2>0. fetched[i] \in Nat /\ since \in Nat
    BY DEF IInv, TypeOK, Stamps
  <2>1. CASE fetched[i] <= since
    BY <1>1, <2>1 DEF IInv, NothingSkipped
  <2>2. CASE ~(fetched[i] <= since) /\ i \notin P
    <3>1. i \in After(since) \ P /\ since' # since
      BY <2>0, <2>2 DEF After
    <3>2. P # {}
      BY <1>1, <3>1 DEF NextSince
    <3>3. PICK j \in P : fetched[j] = since'
      BY <1>4, <3>2
    <3>4. fetched[j] <= fetched[i] /\ j \in mapped /\ j # i /\ fetched[j] \in Nat
      BY <1>3, <2>2, <3>1 DEF IInv, TypeOK, Stamps
    <3>5. j \in Twins(i)
      BY <2>0, <3>3, <3>4 DEF Twins
    <3> QED
      BY <3>5
  <2> QED
    BY <1>1, <2>1, <2>2
<1>7. WriterInv' /\ CheckpointInv' /\ RunInv' /\ TornInv'
  BY <1>2, <1>4 DEF IInv, WriterInv, CheckpointInv, Witnessed, RunInv, RunOK, TornInv,
                    writerVars, digestVars
<1>8. ASSUME NEW u \in Users, NEW i \in Items PROVE MailInv(u, i)' /\ AccountInv(u, i)'
  <2>1. UNCHANGED <<mapped, hidden, disorder, fetched, last, run, mails, dropped, torn,
                    overlap>>
    BY <1>2 DEF writerVars, digestVars
  <2>2. MailInv(u, i) /\ AccountInv(u, i)
    BY DEF IInv
  <2> QED
    BY <2>1, <2>2 DEF MailInv, Claims, MayMail, Excused, LeftOut, Ahead, AccountInv,
                      PassAccounts, Accounted, AtWork, Will
<1>9. \A u \in Users : PassInv(u)'
  BY <1>2 DEF IInv, PassInv, Passing, digestVars
<1> QED
  BY <1>5, <1>6, <1>7, <1>8, <1>9 DEF IInv

-------------------------------------------------------------------------------
(* The digest.  A run that goes to the next user, or ends, has no batch.      *)
Between(r) == /\ r \in RunRecs /\ r.pc \in {"off", "read"} /\ r.from = 0
              /\ r.pc = "read" => r.todo # {}

LEMMA BetweenOK == ASSUME NEW r, Between(r) PROVE RunOK(r)
BY DEF Between, RunOK, Witnessed

LEMMA IdleFacts == Between(Idle)
<1>1. Idle = [pc |-> "off", todo |-> {}, who |-> 0, from |-> 0, batch |-> {}, dry |-> FALSE]
  BY DEF Idle
<1>2. 0 \in Stamps
  BY DeliveryAssumption DEF Stamps
<1>3. Idle \in RunRecs /\ Idle.pc = "off" /\ Idle.from = 0
  BY <1>1, <1>2 DEF RunRecs
<1> QED
  BY <1>3 DEF Between

LEMMA NextUserFacts == ASSUME NEW r \in RunRecs PROVE Between(NextUser(r))
<1>1. CASE r.todo = {}
  BY <1>1, IdleFacts DEF NextUser
<1>2. CASE r.todo # {}
  <2> DEFINE s == [r EXCEPT !.pc = "read", !.who = 0, !.from = 0, !.batch = {}]
  <2>0. 0 \in Stamps
    BY DeliveryAssumption DEF Stamps
  <2>1. s \in RunRecs /\ s.pc = "read" /\ s.todo = r.todo /\ s.from = 0
    BY <2>0 DEF RunRecs
  <2>2. NextUser(r) = s
    BY <1>2 DEF NextUser
  <2> HIDE DEF s
  <2> QED
    BY <1>2, <2>1, <2>2 DEF Between
<1> QED
  BY <1>1, <1>2

DigestFrame == UNCHANGED <<clock, writerVars, consumerVars, userVars>>

(* One digest moves: its record is a record again, and the others' stay.      *)
Moves(d) ==
  /\ DigestFrame
  /\ run' \in [Digests -> RunRecs] /\ \A e \in Digests : e # d => run'[e] = run[e]
  /\ RunOK(run'[d])

(* Everything but what is said of passes, mails and accounts.                *)
LEMMA DigestKeeps ==
  ASSUME IInv, NEW d \in Digests, Moves(d),
         last' \in [Users -> Stamps], \A u \in Users : Witnessed(last'[u]),
         dropped' \in [Users -> SUBSET Items],
         mails' \in [Users -> [Items -> Nat]],
         torn' \in [Users -> Nat], \A u \in Users : torn'[u] <= upsets',
         overlap' \in [Users -> Nat], upsets' \in 0..MaxUpsets,
         \A u \in Users : PassInv(u)',
         \A u \in Users, i \in Items : MailInv(u, i)' /\ AccountInv(u, i)'
  PROVE  IInv'
<1>1. MaxUpsets \in Nat /\ upsets' \in Nat /\ upsets' <= MaxUpsets
  BY DeliveryAssumption
<1>2. torn' \in [Users -> 0..MaxUpsets]
  BY <1>1
<1>3. TypeOK'
  BY <1>2
     DEF IInv, TypeOK, Moves, DigestFrame, writerVars, consumerVars, userVars, RunRecs
<1>4. WriterInv' /\ CheckpointInv' /\ NothingSkipped' /\ TornInv'
  BY DEF IInv, WriterInv, CheckpointInv, Witnessed, NothingSkipped, Twins, TornInv,
         Moves, DigestFrame, writerVars, consumerVars
<1>5. RunInv'
  BY DEF IInv, RunInv, RunOK, Witnessed, Moves, DigestFrame, writerVars
<1> QED
  BY <1>3, <1>4, <1>5 DEF IInv

(* The variables before the step.                                           *)
LEMMA DigestTypes ==
  ASSUME IInv
  PROVE  /\ run \in [Digests -> RunRecs]
         /\ \A d \in Digests : /\ run[d].batch \subseteq mapped /\ run[d].todo \subseteq Users
                               /\ run[d].from \in Nat /\ run[d].from \in Stamps
         /\ last \in [Users -> Stamps] /\ \A u \in Users : last[u] \in Nat
         /\ \A u \in Users : Witnessed(last[u])
         /\ dropped \in [Users -> SUBSET Items]
         /\ mails \in [Users -> [Items -> Nat]]
         /\ torn \in [Users -> Nat] /\ \A u \in Users : torn[u] <= upsets
         /\ overlap \in [Users -> Nat]
         /\ upsets \in 0..MaxUpsets /\ upsets \in Nat
         /\ mapped \subseteq Items /\ \A i \in Items : fetched[i] \in Nat
<1>1. MaxUpsets \in Nat /\ MaxClock \in Nat
  BY DeliveryAssumption
<1>2. run \in [Digests -> RunRecs]
  BY DEF IInv, TypeOK, RunRecs
<1>3. ASSUME NEW d \in Digests
      PROVE  /\ run[d].batch \subseteq mapped /\ run[d].todo \subseteq Users
             /\ run[d].from \in Nat /\ run[d].from \in Stamps
  <2>1. run[d] \in RunRecs
    BY <1>2
  <2> QED
    BY <1>1, <2>1 DEF RunRecs, Stamps
<1>4. torn \in [Users -> Nat]
  BY <1>1 DEF IInv, TypeOK
<1>5. (\A u \in Users : last[u] \in Nat) /\ \A i \in Items : fetched[i] \in Nat
  BY <1>1 DEF IInv, TypeOK, Stamps
<1> QED
  BY <1>1, <1>2, <1>3, <1>4, <1>5 DEF IInv, TypeOK, CheckpointInv, TornInv

(* Two sets that differ by one element at most.                             *)
LEMMA SetMove ==
  ASSUME NEW S, NEW T, NEW x, IsFiniteSet(S), T \ {x} = S \ {x}
  PROVE  /\ Cardinality(S) \in Nat /\ Cardinality(T) \in Nat
         /\ Cardinality(T) + One(x \in S) = Cardinality(S) + One(x \in T)
<1> DEFINE R == S \ {x}
<1>1. IsFiniteSet(R) /\ x \notin R
  BY FS_RemoveElement
<1>2. ASSUME NEW Q, Q \ {x} = R
      PROVE  Cardinality(Q) = Cardinality(R) + One(x \in Q)
  <2>1. Cardinality(R) \in Nat
    BY <1>1, FS_CardinalityType
  <2>2. CASE x \in Q
    <3>1. Q = R \cup {x}
      BY <1>2, <2>2
    <3>2. Cardinality(R \cup {x}) = Cardinality(R) + 1
      BY <1>1, FS_AddElement
    <3> HIDE DEF R
    <3> QED
      BY <2>2, <3>1, <3>2 DEF One
  <2>3. CASE x \notin Q
    <3>1. Q = R
      BY <1>2, <2>3
    <3> HIDE DEF R
    <3> QED
      BY <2>1, <2>3, <3>1 DEF One
  <2> QED
    BY <2>2, <2>3
<1>3. Cardinality(S) = Cardinality(R) + One(x \in S)
  BY <1>2
<1>4. Cardinality(T) = Cardinality(R) + One(x \in T)
  BY <1>2
<1>5. Cardinality(R) \in Nat /\ One(x \in S) \in Nat /\ One(x \in T) \in Nat
  BY <1>1, FS_CardinalityType DEF One
<1> HIDE DEF R
<1> QED
  BY <1>3, <1>4, <1>5

(* What the move of a digest does to the counts.                             *)
LEMMA MoveCounts ==
  ASSUME IInv, NEW d \in Digests, Moves(d), NEW u \in Users, NEW i \in Items
  PROVE  /\ Cardinality(Passing(u)) \in Nat /\ Cardinality(Passing(u)') \in Nat
         /\ Cardinality(Passing(u)') + One(AtWork(run[d], u))
              = Cardinality(Passing(u)) + One(AtWork(run'[d], u))
         /\ Cardinality(MayMail(u, i)) \in Nat /\ Cardinality(MayMail(u, i)') \in Nat
         /\ Cardinality(MayMail(u, i)') + One(Will(run[d], u, i))
              = Cardinality(MayMail(u, i)) + One(Will(run'[d], u, i))
<1>1. fetched' = fetched /\ \A e \in Digests : e # d => run'[e] = run[e]
  BY DEF Moves, DigestFrame, writerVars
<1>2. /\ Passing(u)' \ {d} = Passing(u) \ {d}
      /\ d \in Passing(u) <=> AtWork(run[d], u)
      /\ d \in Passing(u)' <=> AtWork(run'[d], u)
  BY <1>1 DEF Passing, AtWork
<1>3. /\ MayMail(u, i)' \ {d} = MayMail(u, i) \ {d}
      /\ d \in MayMail(u, i) <=> Will(run[d], u, i)
      /\ d \in MayMail(u, i)' <=> Will(run'[d], u, i)
  BY <1>1 DEF MayMail, Will
<1>4. IsFiniteSet(Passing(u)) /\ IsFiniteSet(MayMail(u, i))
  BY PassCounts
<1>5. /\ Cardinality(Passing(u)) \in Nat /\ Cardinality(Passing(u)') \in Nat
      /\ Cardinality(Passing(u)') + One(d \in Passing(u))
           = Cardinality(Passing(u)) + One(d \in Passing(u)')
  BY <1>2, <1>4, SetMove
<1>6. /\ Cardinality(MayMail(u, i)) \in Nat /\ Cardinality(MayMail(u, i)') \in Nat
      /\ Cardinality(MayMail(u, i)') + One(d \in MayMail(u, i))
           = Cardinality(MayMail(u, i)) + One(d \in MayMail(u, i)')
  BY <1>3, <1>4, SetMove
<1> QED
  BY <1>2, <1>3, <1>5, <1>6 DEF One

(* A pass that ends or goes on: no more passes than before.                  *)
LEMMA PassKeeps ==
  ASSUME IInv, NEW d \in Digests, Moves(d), NEW u \in Users,
         AtWork(run'[d], u) => AtWork(run[d], u), overlap'[u] = overlap[u]
  PROVE  PassInv(u)'
<1>1. fetched' = fetched /\ \A e \in Digests : e # d => run'[e] = run[e]
  BY DEF Moves, DigestFrame, writerVars
<1>2. Passing(u)' \in SUBSET Passing(u)
  BY <1>1 DEF Passing, AtWork
<1>3. IsFiniteSet(Digests) /\ Passing(u) \in SUBSET Digests
  BY FS_Interval, DeliveryAssumption DEF Digests, Passing
<1>4. IsFiniteSet(Passing(u)) /\ IsFiniteSet(Passing(u)')
  BY <1>2, <1>3, FS_Subset
<1>5. /\ Cardinality(Passing(u)') <= Cardinality(Passing(u))
      /\ Cardinality(Passing(u)) \in Nat /\ Cardinality(Passing(u)') \in Nat
  BY <1>2, <1>4, FS_Subset, FS_CardinalityType
<1>6. Cardinality(Passing(u)) <= 1 + overlap[u] /\ overlap[u] \in Nat
  BY DigestTypes DEF IInv, PassInv
<1> QED
  BY <1>5, <1>6 DEF PassInv

(* A user whom the digest that moves has nothing to do with.                 *)
LEMMA Elsewhere ==
  ASSUME IInv, NEW d \in Digests, Moves(d), NEW u \in Users, NEW i \in Items,
         ~AtWork(run[d], u), ~AtWork(run'[d], u),
         mails'[u] = mails[u], last'[u] = last[u], torn'[u] = torn[u],
         overlap'[u] = overlap[u], i \in dropped[u] => i \in dropped'[u]
  PROVE  MailInv(u, i)' /\ AccountInv(u, i)'
<1>1. /\ \A e \in Digests : e # d => run'[e] = run[e]
      /\ UNCHANGED <<fetched, mapped, hidden, disorder>>
  BY DEF Moves, DigestFrame, writerVars
<1>2. ~Will(run[d], u, i) /\ ~Will(run'[d], u, i)
  BY DEF Will, AtWork
<1>3. MayMail(u, i)' = MayMail(u, i)
  BY <1>1, <1>2 DEF MayMail, Will
<1>4. (LeftOut(u, i)' => LeftOut(u, i)) /\ (Ahead(u, i)' => Ahead(u, i))
  BY <1>1 DEF LeftOut, Ahead, AtWork
<1>5. MailInv(u, i) /\ AccountInv(u, i)
  BY DEF IInv
<1>6. MailInv(u, i)'
  BY <1>1, <1>3, <1>4, <1>5 DEF MailInv, Claims, Excused
<1>7. AccountInv(u, i)'
  BY <1>1, <1>5 DEF AccountInv, PassAccounts, Accounted, AtWork
<1> QED
  BY <1>6, <1>7

(* Of the user a pass is over: the others' passes leave out and have ahead     *)
(* what they did, and what was accounted for is.                             *)
LEMMA OthersAccount ==
  ASSUME IInv, NEW d \in Digests, Moves(d), NEW u \in Users, NEW i \in Items,
         mails'[u][i] >= mails[u][i], mails'[u][i] \in Nat,
         i \in dropped[u] => i \in dropped'[u]
  PROVE  /\ Accounted(u, i) => Accounted(u, i)'
         /\ \A e \in Digests : e # d => PassAccounts(run[e], u, i)'
<1>1. /\ \A e \in Digests : e # d => run'[e] = run[e]
      /\ UNCHANGED <<fetched, mapped, hidden, disorder>>
  BY DEF Moves, DigestFrame, writerVars
<1>2. mails[u][i] \in Nat /\ (mails[u][i] > 0 => mails'[u][i] > 0)
  BY DigestTypes
<1>3. Accounted(u, i) => Accounted(u, i)'
  BY <1>1, <1>2 DEF Accounted
<1>4. \A e \in Digests : PassAccounts(run[e], u, i)
  BY DEF IInv, AccountInv
<1> QED
  BY <1>1, <1>2, <1>3, <1>4 DEF PassAccounts, AtWork

(* What a step adds to an item's claims must be excused, and a pass that        *)
(* leaves the item out, or a checkpoint that falls behind it, must find a      *)
(* claim to spare.                                                          *)
LEMMA ClaimsMove ==
  ASSUME IInv, NEW d \in Digests, Moves(d), NEW u \in Users, NEW i \in Items,
         mails'[u][i] \in Nat
  PROVE  /\ mails[u][i] \in Nat /\ Claims(u, i) \in Nat /\ Claims(u, i)' \in Nat
         /\ Claims(u, i)' + mails[u][i] + One(Will(run[d], u, i))
              = Claims(u, i) + mails'[u][i] + One(Will(run'[d], u, i))
<1>1. /\ Cardinality(MayMail(u, i)) \in Nat /\ Cardinality(MayMail(u, i)') \in Nat
      /\ Cardinality(MayMail(u, i)') + One(Will(run[d], u, i))
           = Cardinality(MayMail(u, i)) + One(Will(run'[d], u, i))
  BY MoveCounts
<1>2. mails[u][i] \in Nat
  BY DigestTypes
<1>3. One(Will(run[d], u, i)) \in Nat /\ One(Will(run'[d], u, i)) \in Nat
  BY DEF One
<1> QED
  BY <1>1, <1>2, <1>3 DEF Claims

LEMMA MailKeeps ==
  ASSUME IInv, NEW d \in Digests, Moves(d), NEW u \in Users, NEW i \in Items,
         mails'[u][i] \in Nat, torn'[u] \in Nat, overlap'[u] \in Nat,
         i \notin mapped => mails'[u][i] = mails[u][i],
         i \in mapped => mails'[u][i] + One(Will(run'[d], u, i)) + Excused(u)
                           <= mails[u][i] + One(Will(run[d], u, i)) + Excused(u)',
         i \in mapped /\ (LeftOut(u, i)' \/ Ahead(u, i)') =>
           \/ LeftOut(u, i) \/ Ahead(u, i)
           \/ mails'[u][i] + One(Will(run'[d], u, i)) + Excused(u)
                < mails[u][i] + One(Will(run[d], u, i)) + Excused(u)'
  PROVE  MailInv(u, i)'
<1>1. MailInv(u, i) /\ mapped' = mapped
  BY DEF IInv, Moves, DigestFrame, writerVars
<1>2. CASE i \notin mapped
  BY <1>1, <1>2 DEF MailInv
<1>3. CASE i \in mapped
  <2>1. /\ mails[u][i] \in Nat /\ Claims(u, i) \in Nat /\ Claims(u, i)' \in Nat
        /\ Claims(u, i)' + mails[u][i] + One(Will(run[d], u, i))
             = Claims(u, i) + mails'[u][i] + One(Will(run'[d], u, i))
    BY ClaimsMove
  <2>2. One(Will(run[d], u, i)) \in Nat /\ One(Will(run'[d], u, i)) \in Nat
    BY DEF One
  <2>3. Excused(u) \in Nat /\ Excused(u)' \in Nat
    BY DigestTypes DEF Excused
  <2>4. /\ Claims(u, i) <= 1 + Excused(u)
        /\ LeftOut(u, i) \/ Ahead(u, i) => Claims(u, i) <= Excused(u)
    BY <1>1, <1>3 DEF MailInv
  <2>5. Claims(u, i)' <= 1 + Excused(u)'
    BY <1>3, <2>1, <2>2, <2>3, <2>4
  <2>6. LeftOut(u, i)' \/ Ahead(u, i)' => Claims(u, i)' <= Excused(u)'
    BY <1>3, <2>1, <2>2, <2>3, <2>4
  <2> QED
    BY <1>1, <1>3, <2>5, <2>6 DEF MailInv
<1> QED
  BY <1>2, <1>3

(* What the other passes leave out and the checkpoint has ahead, before and     *)
(* after the move.                                                          *)
LEMMA OthersLeave ==
  ASSUME NEW d \in Digests, Moves(d), NEW u \in Users, NEW i \in Items
  PROVE  /\ fetched' = fetched /\ mapped' = mapped /\ hidden' = hidden
         /\ \A e \in Digests : e # d => run'[e] = run[e]
         /\ LeftOut(u, i)' => \/ LeftOut(u, i)
                              \/ /\ AtWork(run'[d], u) /\ run'[d].pc # "items"
                                 /\ i \notin run'[d].batch /\ fetched[i] > run'[d].from
         /\ Ahead(u, i)' /\ last'[u] = last[u]
              /\ (AtWork(run[d], u) => fetched[i] <= run[d].from) => Ahead(u, i)
         /\ Ahead(u, i)' => /\ fetched[i] > last'[u]
                            /\ AtWork(run'[d], u) => fetched[i] <= run'[d].from
<1>1. /\ fetched' = fetched /\ mapped' = mapped /\ hidden' = hidden
      /\ \A e \in Digests : e # d => run'[e] = run[e]
  BY DEF Moves, DigestFrame, writerVars
<1> QED
  BY <1>1 DEF LeftOut, Ahead, AtWork

LEMMA SentFacts ==
  ASSUME IInv, NEW d \in Digests, run[d].who \in Users
  PROVE  /\ Sent(run[d]) \in [Users -> [Items -> Nat]]
         /\ \A u \in Users : u # run[d].who => Sent(run[d])[u] = mails[u]
         /\ \A i \in Items : Sent(run[d])[run[d].who][i]
                               = mails[run[d].who][i] + One(i \in run[d].batch)
<1>1. mails \in [Users -> [Items -> Nat]]
  BY DigestTypes
<1> DEFINE w == run[d].who
           f == [i \in Items |-> mails[w][i] + IF i \in run[d].batch THEN 1 ELSE 0]
<1>2. Sent(run[d]) = [mails EXCEPT ![w] = f]
  BY <1>1 DEF Sent
<1>3. /\ f \in [Items -> Nat]
      /\ \A i \in Items : f[i] = mails[w][i] + One(i \in run[d].batch)
  BY <1>1 DEF One
<1> HIDE DEF f
<1> QED
  BY <1>1, <1>2, <1>3

LEMMA ToMoves ==
  ASSUME IInv, NEW d \in Digests, DigestFrame, run'[d] \in RunRecs, RunOK(run'[d]),
         run' = [run EXCEPT ![d] = run'[d]]
  PROVE  Moves(d)
<1>1. run \in [Digests -> RunRecs]
  BY DigestTypes
<1> QED
  BY <1>1 DEF Moves

LEMMA BeginKeeps ==
  ASSUME IInv, NEW d \in Digests, NEW dry \in BOOLEAN, BeginDigest(d, dry)
  PROVE  IInv'
<1> DEFINE s == [Idle EXCEPT !.pc = "read", !.todo = enabled, !.dry = dry]
<1>1. /\ run[d].pc = "off" /\ enabled # {} /\ run' = [run EXCEPT ![d] = s]
      /\ DigestFrame /\ UNCHANGED <<last, mails, dropped, torn, overlap>>
  BY DEF BeginDigest, DigestFrame
<1>2. upsets' \in 0..MaxUpsets /\ upsets' >= upsets
  BY DeliveryAssumption DEF BeginDigest, IInv, TypeOK
<1>3. run \in [Digests -> RunRecs] /\ enabled \subseteq Users
  BY DigestTypes DEF IInv, TypeOK
<1>4. s \in RunRecs /\ s.pc = "read" /\ s.todo = enabled /\ s.from = 0
  <2>1. Idle \in RunRecs /\ Idle.from = 0
    BY IdleFacts DEF Between
  <2> QED
    BY <1>3, <2>1 DEF RunRecs
<1>5. Between(s)
  BY <1>1, <1>4 DEF Between
<1>6. run'[d] = s
  BY <1>1, <1>3
<1> HIDE DEF s
<1>7. Moves(d)
  BY <1>1, <1>4, <1>5, <1>6, BetweenOK, ToMoves
<1>8. \A u \in Users : ~AtWork(run[d], u) /\ ~AtWork(run'[d], u)
  BY <1>1, <1>4, <1>6 DEF AtWork
<1>9. \A u \in Users : PassInv(u)'
  BY <1>1, <1>7, <1>8, PassKeeps
<1>10. \A u \in Users, i \in Items : MailInv(u, i)' /\ AccountInv(u, i)'
  BY <1>1, <1>7, <1>8, Elsewhere
<1>11. \A u \in Users : torn'[u] <= upsets'
  <2>1. /\ torn \in [Users -> Nat] /\ upsets \in Nat /\ upsets' \in Nat
        /\ \A u \in Users : torn[u] <= upsets
    BY <1>2, DigestTypes, DeliveryAssumption
  <2> QED
    BY <1>1, <1>2, <2>1
<1> QED
  BY <1>1, <1>2, <1>7, <1>9, <1>10, <1>11, DigestTypes, DigestKeeps

LEMMA SettingsKeeps ==
  ASSUME IInv, NEW d \in Digests, ReadSettings(d)
  PROVE  IInv'
<1>0. PICK u \in Users : u = Min(run[d].todo)
  <2>1. run[d].todo # {} /\ run[d].todo \subseteq Users
    BY DigestTypes DEF IInv, RunInv, RunOK, ReadSettings
  <2>2. run[d].todo \in SUBSET Nat
    BY <2>1 DEF Users
  <2>3. \E x \in run[d].todo : \A y \in run[d].todo : x <= y
    BY <2>1, <2>2, NatMin
  <2>4. Min(run[d].todo) \in run[d].todo
    BY <2>3 DEF Min
  <2> QED
    BY <2>1, <2>4
<1> DEFINE s == [run[d] EXCEPT !.pc = "items", !.todo = @ \ {u}, !.who = u, !.from = last[u]]
<1>1. /\ run[d].pc = "read" /\ DigestFrame
      /\ run' = [run EXCEPT ![d] = s]
      /\ overlap' = IF Passing(u) = {} THEN overlap ELSE [overlap EXCEPT ![u] = @ + 1]
      /\ UNCHANGED <<last, mails, dropped, torn, upsets>>
  <2>1. run[d].pc = "read" /\ DigestFrame /\ UNCHANGED <<last, mails, dropped, torn, upsets>>
    BY DEF ReadSettings, DigestFrame
  <2>2. run' = [run EXCEPT ![d] = s]
    BY <1>0 DEF ReadSettings
  <2>3. overlap' = IF Passing(u) = {} THEN overlap ELSE [overlap EXCEPT ![u] = @ + 1]
    BY <1>0 DEF ReadSettings
  <2> QED
    BY <2>1, <2>2, <2>3
<1>2. u \in Users
  OBVIOUS
<1>3. /\ run \in [Digests -> RunRecs] /\ last[u] \in Stamps /\ last[u] \in Nat
      /\ Witnessed(last[u]) /\ overlap \in [Users -> Nat]
  BY <1>2, DigestTypes
<1>4. /\ s \in RunRecs /\ s.pc = "items" /\ s.who = u /\ s.from = last[u]
      /\ run'[d] = s
  BY <1>1, <1>2, <1>3 DEF RunRecs
<1> HIDE DEF s
<1>5. Moves(d)
  <2>1. RunOK(s)
    BY <1>2, <1>3, <1>4 DEF RunOK
  <2> QED
    BY <1>1, <1>4, <2>1, ToMoves
<1>6. overlap' \in [Users -> Nat] /\ \A v \in Users : v # u => overlap'[v] = overlap[v]
  BY <1>1, <1>2, <1>3
<1>7. \A v \in Users : ~AtWork(run[d], v) /\ (AtWork(run'[d], v) <=> v = u)
  BY <1>1, <1>4 DEF AtWork
<1>8. PassInv(u)'
  <2>1. /\ Cardinality(Passing(u)) \in Nat /\ Cardinality(Passing(u)') \in Nat
        /\ Cardinality(Passing(u)') + One(AtWork(run[d], u))
             = Cardinality(Passing(u)) + One(AtWork(run'[d], u))
    BY <1>2, <1>5, MoveCounts, StoryAssumption
  <2>2. Cardinality(Passing(u)') = Cardinality(Passing(u)) + 1
    BY <1>2, <1>7, <2>1 DEF One
  <2>3. Cardinality(Passing(u)) <= 1 + overlap[u]
    BY <1>2 DEF IInv, PassInv
  <2>4. CASE Passing(u) = {}
    BY <1>1, <1>2, <1>3, <2>2, <2>4, FS_EmptySet DEF PassInv
  <2>5. CASE Passing(u) # {}
    <3>1. overlap'[u] = overlap[u] + 1 /\ overlap[u] \in Nat
      BY <1>1, <1>2, <1>3, <2>5
    <3> QED
      BY <2>1, <2>2, <2>3, <3>1 DEF PassInv
  <2> QED
    BY <2>4, <2>5
<1>9. \A v \in Users : PassInv(v)'
  BY <1>5, <1>6, <1>7, <1>8, PassKeeps
<1>10. ASSUME NEW i \in Items PROVE MailInv(u, i)' /\ AccountInv(u, i)'
  <2>1. /\ fetched[i] \in Nat /\ mails[u][i] \in Nat /\ torn[u] \in Nat /\ overlap[u] \in Nat
        /\ mails'[u][i] = mails[u][i] /\ torn'[u] = torn[u] /\ last'[u] = last[u]
        /\ dropped'[u] = dropped[u]
    BY <1>1, <1>2, DigestTypes
  <2>2. ~Will(run[d], u, i) /\ (Will(run'[d], u, i) <=> fetched[i] > last[u])
    BY <1>1, <1>4 DEF Will
  <2>3. /\ LeftOut(u, i)' => LeftOut(u, i)
        /\ ~Ahead(u, i)'
    <3>1. ~(fetched[i] > last[u] /\ fetched[i] <= last[u])
      BY <1>3, <2>1
    <3> QED
      BY <1>2, <1>4, <1>5, <1>7, <2>1, <3>1, OthersLeave
  <2>4. ASSUME Passing(u) # {} PROVE MailInv(u, i)'
    <3>1. overlap'[u] = overlap[u] + 1
      BY <1>1, <1>2, <1>3, <2>4
    <3>2. /\ mails'[u][i] + One(Will(run'[d], u, i)) + Excused(u)
               <= mails[u][i] + One(Will(run[d], u, i)) + Excused(u)'
      BY <2>1, <2>2, <3>1 DEF One, Excused
    <3> QED
      BY <1>2, <1>5, <1>6, <2>1, <2>3, <3>2, MailKeeps
  <2>5. ASSUME Passing(u) = {} PROVE MailInv(u, i)'
    <3>1. overlap'[u] = overlap[u]
      BY <1>1, <2>5
    <3>2. \A e \in Digests : ~AtWork(run[e], u)
      BY <2>5 DEF Passing, AtWork
    <3>3. ~LeftOut(u, i)'
      BY <2>3, <3>2 DEF LeftOut
    <3>4. CASE fetched[i] > last[u]
      <4>1. Ahead(u, i)
        BY <3>2, <3>4 DEF Ahead
      <4>2. /\ Claims(u, i) \in Nat /\ Claims(u, i)' \in Nat
            /\ Claims(u, i)' = Claims(u, i) + 1
        <5>1. /\ Claims(u, i) \in Nat /\ Claims(u, i)' \in Nat
              /\ Claims(u, i)' + mails[u][i] + One(Will(run[d], u, i))
                   = Claims(u, i) + mails'[u][i] + One(Will(run'[d], u, i))
          BY <1>2, <1>5, <2>1, ClaimsMove
        <5> QED
          BY <2>1, <2>2, <3>4, <5>1 DEF One
      <4>3. Excused(u)' = Excused(u) /\ Excused(u) \in Nat
        BY <2>1, <3>1 DEF Excused
      <4>4. MailInv(u, i) /\ mapped' = mapped
        BY <1>2, <1>5, OthersLeave DEF IInv
      <4> QED
        BY <2>1, <2>3, <3>3, <4>1, <4>2, <4>3, <4>4 DEF MailInv
    <3>5. CASE ~(fetched[i] > last[u])
      <4>1. /\ mails'[u][i] + One(Will(run'[d], u, i)) + Excused(u)
                 <= mails[u][i] + One(Will(run[d], u, i)) + Excused(u)'
        BY <2>1, <2>2, <3>1, <3>5 DEF One, Excused
      <4> QED
        BY <1>2, <1>5, <1>6, <2>1, <2>3, <4>1, MailKeeps
    <3> QED
      BY <3>4, <3>5
  <2>6. AccountInv(u, i)'
    <3>1. /\ Accounted(u, i) => Accounted(u, i)'
          /\ \A e \in Digests : e # d => PassAccounts(run[e], u, i)'
      BY <1>2, <1>5, <2>1, OthersAccount
    <3>2. i \in mapped' \ hidden' /\ fetched'[i] <= last[u] => Accounted(u, i)'
      BY <1>2, <1>5, <3>1, OthersLeave DEF IInv, AccountInv
    <3>3. PassAccounts(run[d], u, i)'
      BY <1>4, <3>2 DEF PassAccounts
    <3> QED
      BY <2>1, <3>1, <3>2, <3>3 DEF AccountInv
  <2> QED
    BY <2>4, <2>5, <2>6
<1>11. ASSUME NEW v \in Users, NEW i \in Items PROVE MailInv(v, i)' /\ AccountInv(v, i)'
  <2>1. CASE v = u
    BY <1>10, <2>1
  <2>2. CASE v # u
    <3>1. /\ mails'[v] = mails[v] /\ last'[v] = last[v] /\ torn'[v] = torn[v]
          /\ overlap'[v] = overlap[v] /\ (i \in dropped[v] => i \in dropped'[v])
      BY <1>1, <1>6, <2>2
    <3> QED
      BY <1>5, <1>7, <2>2, <3>1, Elsewhere
  <2> QED
    BY <2>1, <2>2
<1> QED
  BY <1>1, <1>5, <1>6, <1>9, <1>11, DigestTypes, DigestKeeps

(* A step in the middle of a pass: only what it does to the user it is over     *)
(* has to be shown.                                                         *)
LEMMA PassStep ==
  ASSUME IInv, NEW d \in Digests, Moves(d), NEW u \in Users, AtWork(run[d], u),
         \A v \in Users : v # u => ~AtWork(run'[d], v),
         \A v \in Users : v # u =>
           mails'[v] = mails[v] /\ last'[v] = last[v] /\ torn'[v] = torn[v],
         last'[u] \in Stamps, Witnessed(last'[u]), torn'[u] <= upsets', torn'[u] \in Nat,
         last' \in [Users -> Stamps], mails' \in [Users -> [Items -> Nat]],
         torn' \in [Users -> Nat], dropped' \in [Users -> SUBSET Items],
         overlap' = overlap, upsets' \in 0..MaxUpsets, upsets' >= upsets,
         \A v \in Users : dropped[v] \subseteq dropped'[v],
         \A i \in Items : MailInv(u, i)' /\ AccountInv(u, i)'
  PROVE  IInv'
<1>1. /\ overlap \in [Users -> Nat] /\ torn \in [Users -> Nat] /\ upsets \in Nat
      /\ \A v \in Users : Witnessed(last[v]) /\ torn[v] <= upsets
  BY DigestTypes
<1>2. \A v \in Users : v # u => ~AtWork(run[d], v)
  BY DEF AtWork
<1>3. \A v \in Users : PassInv(v)'
  BY <1>2, PassKeeps
<1>4. ASSUME NEW v \in Users, NEW i \in Items PROVE MailInv(v, i)' /\ AccountInv(v, i)'
  <2>1. CASE v = u
    BY <2>1
  <2>2. CASE v # u
    BY <1>2, <2>2, Elsewhere
  <2> QED
    BY <2>1, <2>2
<1>5. \A v \in Users : Witnessed(last'[v])
  BY <1>1
<1>6. \A v \in Users : torn'[v] <= upsets'
  <2>1. upsets' \in Nat
    BY DeliveryAssumption
  <2> QED
    BY <1>1, <2>1
<1> QED
  BY <1>1, <1>3, <1>4, <1>5, <1>6, DigestKeeps

LEMMA ReadKeeps ==
  ASSUME IInv, NEW d \in Digests, ReadItems(d)
  PROVE  IInv'
<1>0. PICK u \in Users : u = run[d].who
  BY DEF ReadItems, IInv, RunInv, RunOK
<1>1. /\ run[d].pc = "items" /\ DigestFrame
      /\ UNCHANGED <<last, mails, torn, overlap, upsets>>
  BY DEF ReadItems, DigestFrame
<1>2. PICK P \in Batches(u, run[d].from) :
        /\ run' = [run EXCEPT ![d] = IF P = {} THEN Skip(run[d])
                                     ELSE [run[d] EXCEPT !.pc = "send", !.batch = P]]
        /\ dropped' = [dropped EXCEPT ![u] = @ \union (Due(u, run[d].from) \ P)]
  BY <1>0 DEF ReadItems
<1>3. /\ run \in [Digests -> RunRecs] /\ run[d] \in RunRecs
      /\ dropped \in [Users -> SUBSET Items] /\ run[d].from \in Nat
      /\ Witnessed(run[d].from) /\ mapped \subseteq Items
  BY <1>1, DigestTypes DEF IInv, RunInv, RunOK
<1>4. /\ P \subseteq Due(u, run[d].from) /\ P \subseteq mapped
      /\ \A i \in P : fetched[i] > run[d].from
      /\ P # {} => \A i \in mapped \ hidden :
                     fetched[i] > run[d].from => i \in Due(u, run[d].from)
      /\ Due(u, run[d].from) \subseteq Items
  BY <1>3 DEF Batches, Due, After
<1>5. /\ dropped' \in [Users -> SUBSET Items]
      /\ \A v \in Users : dropped[v] \subseteq dropped'[v]
      /\ \A i \in Due(u, run[d].from) : i \in P \/ i \in dropped'[u]
  BY <1>2, <1>3, <1>4
<1>6. /\ P = {} => Between(run'[d])
      /\ P # {} => /\ run'[d] \in RunRecs /\ run'[d].pc = "send" /\ run'[d].who = u
                   /\ run'[d].from = run[d].from /\ run'[d].batch = P
  <2>1. CASE P = {}
    <3>1. run'[d] = NextUser(run[d])
      BY <1>2, <1>3, <2>1 DEF Skip
    <3> QED
      BY <1>3, <2>1, <3>1, NextUserFacts
  <2>2. CASE P # {}
    <3>1. run'[d] = [run[d] EXCEPT !.pc = "send", !.batch = P]
      BY <1>2, <1>3, <2>2
    <3> QED
      BY <1>0, <1>3, <1>4, <2>2, <3>1 DEF RunRecs
  <2> QED
    BY <2>1, <2>2
<1>7. Moves(d)
  <2>1. run'[d] \in RunRecs
    BY <1>6 DEF Between
  <2>2. RunOK(run'[d])
    <3>1. CASE P = {}
      BY <1>6, <3>1, BetweenOK
    <3>2. CASE P # {}
      BY <1>3, <1>4, <1>6, <3>2 DEF RunOK
    <3> QED
      BY <3>1, <3>2
  <2>3. run' = [run EXCEPT ![d] = run'[d]]
    BY <1>2, <1>3
  <2> QED
    BY <1>1, <2>1, <2>2, <2>3, ToMoves
<1>8. /\ AtWork(run[d], u) /\ \A v \in Users : v # u => ~AtWork(run'[d], v)
      /\ AtWork(run'[d], u) <=> P # {}
  BY <1>0, <1>1, <1>6 DEF AtWork, Between
<1>9. ASSUME NEW i \in Items PROVE MailInv(u, i)' /\ AccountInv(u, i)'
  <2>1. /\ fetched[i] \in Nat /\ mails[u][i] \in Nat /\ torn[u] \in Nat /\ overlap[u] \in Nat
        /\ last[u] \in Nat
    BY DigestTypes
  <2>2. /\ mails'[u][i] = mails[u][i] /\ torn'[u] = torn[u] /\ last'[u] = last[u]
        /\ overlap'[u] = overlap[u] /\ Excused(u)' = Excused(u) /\ Excused(u) \in Nat
    BY <1>1, <2>1 DEF Excused
  <2>3. /\ Will(run[d], u, i) <=> fetched[i] > run[d].from
        /\ Will(run'[d], u, i) <=> i \in P
    BY <1>0, <1>1, <1>6 DEF Will, Between
  <2>4. /\ i \in P => fetched[i] > run[d].from
        /\ ~(fetched[i] > run[d].from /\ fetched[i] <= run[d].from)
    BY <1>3, <1>4, <2>1
  <2>5. One(Will(run'[d], u, i)) <= One(Will(run[d], u, i))
    BY <2>3, <2>4 DEF One
  <2>6. fetched[i] > run[d].from /\ i \notin P =>
          One(Will(run'[d], u, i)) < One(Will(run[d], u, i))
    BY <2>3 DEF One
  <2>7. LeftOut(u, i)' \/ Ahead(u, i)' =>
          LeftOut(u, i) \/ Ahead(u, i) \/ (fetched[i] > run[d].from /\ i \notin P)
    <3>1. LeftOut(u, i)' => LeftOut(u, i) \/ (fetched[i] > run[d].from /\ i \notin P)
      BY <1>6, <1>7, <1>8, OthersLeave
    <3>2. Ahead(u, i)' => Ahead(u, i) \/ (fetched[i] > run[d].from /\ i \notin P)
      <4>1. CASE fetched[i] <= run[d].from
        BY <1>7, <2>2, <4>1, OthersLeave
      <4>2. CASE fetched[i] > run[d].from
        BY <1>4, <1>6, <1>7, <1>8, <2>4, <4>2, OthersLeave
      <4> QED
        BY <1>3, <2>1, <4>1, <4>2
    <3> QED
      BY <3>1, <3>2
  <2>8. MailInv(u, i)'
    <3>1. mails'[u][i] + One(Will(run'[d], u, i)) + Excused(u)
            <= mails[u][i] + One(Will(run[d], u, i)) + Excused(u)'
      BY <2>1, <2>2, <2>5 DEF One
    <3>2. fetched[i] > run[d].from /\ i \notin P =>
            mails'[u][i] + One(Will(run'[d], u, i)) + Excused(u)
              < mails[u][i] + One(Will(run[d], u, i)) + Excused(u)'
      BY <2>1, <2>2, <2>6 DEF One
    <3> QED
      BY <1>7, <2>1, <2>2, <2>7, <3>1, <3>2, MailKeeps
  <2>9. AccountInv(u, i)'
    <3>1. /\ Accounted(u, i) => Accounted(u, i)'
          /\ \A e \in Digests : e # d => PassAccounts(run[e], u, i)'
      BY <1>5, <1>7, <2>1, <2>2, OthersAccount
    <3>2. fetched' = fetched /\ mapped' = mapped /\ hidden' = hidden
      BY <1>7, OthersLeave
    <3>3. AccountInv(u, i)
      BY DEF IInv
    <3>4. i \in mapped \ hidden /\ fetched[i] <= run[d].from => Accounted(u, i)'
      BY <1>8, <3>1, <3>3 DEF AccountInv, PassAccounts
    <3>5. i \in mapped \ hidden /\ P # {} => i \in P \/ Accounted(u, i)'
      BY <1>3, <1>4, <1>5, <2>1, <3>4 DEF Accounted
    <3>6. PassAccounts(run[d], u, i)'
      BY <1>6, <1>8, <3>2, <3>4, <3>5 DEF PassAccounts
    <3> QED
      BY <2>2, <3>1, <3>2, <3>3, <3>6 DEF AccountInv
  <2> QED
    BY <2>8, <2>9
<1>10. /\ last[u] \in Stamps /\ Witnessed(last[u]) /\ torn[u] <= upsets /\ torn[u] \in Nat
       /\ last \in [Users -> Stamps] /\ mails \in [Users -> [Items -> Nat]]
       /\ torn \in [Users -> Nat] /\ upsets \in 0..MaxUpsets /\ upsets \in Nat
  BY DigestTypes
<1> QED
  BY <1>1, <1>5, <1>7, <1>8, <1>9, <1>10, PassStep

LEMMA SendKeeps ==
  ASSUME IInv, NEW d \in Digests, Send(d)
  PROVE  IInv'
<1>0. PICK u \in Users : u = run[d].who
  BY DEF Send, IInv, RunInv, RunOK
<1>1. /\ run[d].pc = "send" /\ DigestFrame /\ run' = [run EXCEPT ![d].pc = "mark"]
      /\ mails' = IF run[d].dry THEN mails ELSE Sent(run[d])
      /\ dropped' = IF run[d].dry THEN [dropped EXCEPT ![u] = @ \union run[d].batch]
                    ELSE dropped
      /\ UNCHANGED <<last, torn, overlap, upsets>>
  BY <1>0 DEF Send, DigestFrame
<1>2. /\ run \in [Digests -> RunRecs] /\ run[d] \in RunRecs /\ run[d].batch \subseteq mapped
      /\ dropped \in [Users -> SUBSET Items] /\ mails \in [Users -> [Items -> Nat]]
      /\ run[d].from \in Nat /\ mapped \subseteq Items
  BY DigestTypes
<1>3. /\ run'[d] \in RunRecs /\ run'[d].pc = "mark" /\ run'[d].who = u
      /\ run'[d].from = run[d].from /\ run'[d].batch = run[d].batch
  <2>1. run'[d] = [run[d] EXCEPT !.pc = "mark"]
    BY <1>1, <1>2
  <2> QED
    BY <1>0, <1>2, <2>1 DEF RunRecs
<1>4. Moves(d)
  <2>1. RunOK(run[d])
    BY DEF IInv, RunInv
  <2>2. RunOK(run'[d])
    BY <1>1, <1>3, <2>1 DEF RunOK
  <2>3. run' = [run EXCEPT ![d] = run'[d]]
    BY <1>1, <1>2
  <2> QED
    BY <1>1, <1>3, <2>2, <2>3, ToMoves
<1>5. /\ AtWork(run[d], u) /\ AtWork(run'[d], u)
      /\ \A v \in Users : v # u => ~AtWork(run'[d], v)
  BY <1>0, <1>1, <1>3 DEF AtWork
<1>6. /\ mails' \in [Users -> [Items -> Nat]]
      /\ \A v \in Users : v # u => mails'[v] = mails[v]
      /\ \A i \in Items :
           mails'[u][i] = mails[u][i] + One(~run[d].dry /\ i \in run[d].batch)
  <2>1. CASE run[d].dry
    BY <1>1, <1>2, <2>1 DEF One
  <2>2. CASE ~run[d].dry
    BY <1>0, <1>1, <1>2, <2>2, SentFacts DEF One
  <2> QED
    BY <2>1, <2>2
<1>7. /\ dropped' \in [Users -> SUBSET Items]
      /\ \A v \in Users : dropped[v] \subseteq dropped'[v]
      /\ run[d].dry => run[d].batch \subseteq dropped'[u]
  BY <1>1, <1>2
<1>8. ASSUME NEW i \in Items PROVE MailInv(u, i)' /\ AccountInv(u, i)'
  <2>1. /\ fetched[i] \in Nat /\ mails[u][i] \in Nat /\ torn[u] \in Nat /\ overlap[u] \in Nat
    BY DigestTypes
  <2>2. /\ torn'[u] = torn[u] /\ last'[u] = last[u] /\ overlap'[u] = overlap[u]
        /\ Excused(u)' = Excused(u) /\ Excused(u) \in Nat
        /\ mails'[u][i] \in Nat /\ mails'[u][i] >= mails[u][i]
    BY <1>1, <1>6, <2>1 DEF Excused, One
  <2>3. /\ Will(run[d], u, i) <=> i \in run[d].batch
        /\ ~Will(run'[d], u, i)
    BY <1>0, <1>1, <1>3 DEF Will
  <2>4. fetched' = fetched /\ mapped' = mapped /\ hidden' = hidden
    BY <1>4, OthersLeave
  <2>5. MailInv(u, i)'
    <3>1. i \notin mapped => mails'[u][i] = mails[u][i]
      BY <1>2, <1>6, <2>1 DEF One
    <3>2. mails'[u][i] + One(Will(run'[d], u, i)) + Excused(u)
            <= mails[u][i] + One(Will(run[d], u, i)) + Excused(u)'
      BY <1>6, <2>1, <2>2, <2>3 DEF One
    <3>3. LeftOut(u, i)' => LeftOut(u, i)
      BY <1>1, <1>3, <1>4, <1>5, OthersLeave DEF LeftOut
    <3>4. Ahead(u, i)' => Ahead(u, i)
      BY <1>3, <1>4, <1>5, <2>2, OthersLeave
    <3> QED
      BY <1>4, <2>1, <2>2, <3>1, <3>2, <3>3, <3>4, MailKeeps
  <2>6. AccountInv(u, i)'
    <3>1. /\ Accounted(u, i) => Accounted(u, i)'
          /\ \A e \in Digests : e # d => PassAccounts(run[e], u, i)'
      BY <1>4, <1>7, <2>2, OthersAccount
    <3>2. AccountInv(u, i) /\ PassAccounts(run[d], u, i)
      BY DEF IInv, AccountInv
    <3>3. i \in run[d].batch => mails'[u][i] > 0 \/ i \in dropped'[u]
      BY <1>6, <1>7, <2>1 DEF One
    <3>4. PassAccounts(run[d], u, i)'
      BY <1>1, <1>3, <1>5, <2>4, <3>1, <3>2, <3>3 DEF PassAccounts
    <3> QED
      BY <2>2, <2>4, <3>1, <3>2, <3>4 DEF AccountInv
  <2> QED
    BY <2>5, <2>6
<1>9. /\ last[u] \in Stamps /\ Witnessed(last[u]) /\ torn[u] <= upsets /\ torn[u] \in Nat
      /\ last \in [Users -> Stamps] /\ torn \in [Users -> Nat]
      /\ upsets \in 0..MaxUpsets /\ upsets \in Nat
  BY DigestTypes
<1>10. /\ last'[u] \in Stamps /\ Witnessed(last'[u]) /\ torn'[u] <= upsets' /\ torn'[u] \in Nat
       /\ last' \in [Users -> Stamps] /\ torn' \in [Users -> Nat]
       /\ upsets' \in 0..MaxUpsets /\ upsets' >= upsets /\ overlap' = overlap
       /\ \A v \in Users : v # u =>
            mails'[v] = mails[v] /\ last'[v] = last[v] /\ torn'[v] = torn[v]
  BY <1>1, <1>6, <1>9
<1> QED
  BY <1>4, <1>5, <1>6, <1>7, <1>8, <1>10, PassStep

LEMMA MarkKeeps ==
  ASSUME IInv, NEW d \in Digests, Mark(d)
  PROVE  IInv'
<1>0. PICK u \in Users : u = run[d].who
  BY DEF Mark, IInv, RunInv, RunOK
<1>1. /\ run[d].pc = "mark" /\ DigestFrame
      /\ last' = [last EXCEPT ![u] = Newest(run[d].batch)]
      /\ run' = [run EXCEPT ![d] = NextUser(run[d])]
      /\ UNCHANGED <<mails, dropped, torn, overlap, upsets>>
  BY <1>0 DEF Mark, Checkpoint, DigestFrame
<1>2. /\ run \in [Digests -> RunRecs] /\ run[d] \in RunRecs /\ run[d].batch \subseteq mapped
      /\ run[d].batch # {} /\ \A i \in run[d].batch : fetched[i] > run[d].from
      /\ last \in [Users -> Stamps] /\ run[d].from \in Nat /\ mapped \subseteq Items
      /\ \A i \in Items : fetched[i] \in Nat
  BY <1>1, DigestTypes DEF IInv, RunInv, RunOK
<1>3. /\ last' \in [Users -> Stamps] /\ last'[u] \in Stamps /\ last'[u] \in Nat
      /\ \A v \in Users : v # u => last'[v] = last[v]
      /\ \E j \in run[d].batch : fetched[j] = last'[u]
      /\ \A j \in run[d].batch : fetched[j] <= last'[u]
  <2>1. /\ Newest(run[d].batch) \in Stamps
        /\ \E j \in run[d].batch : fetched[j] = Newest(run[d].batch)
        /\ \A j \in run[d].batch : fetched[j] <= Newest(run[d].batch)
    BY <1>2, NewestFacts DEF IInv
  <2>2. last'[u] = Newest(run[d].batch)
    BY <1>1, <1>2
  <2> QED
    BY <1>1, <1>2, <2>1, <2>2
<1>4. run'[d] = NextUser(run[d]) /\ Between(run'[d])
  BY <1>1, <1>2, NextUserFacts
<1>5. Moves(d)
  BY <1>1, <1>2, <1>4, BetweenOK, ToMoves DEF Between
<1>6. AtWork(run[d], u) /\ \A v \in Users : ~AtWork(run'[d], v)
  BY <1>0, <1>1, <1>4 DEF AtWork, Between
<1>7. ASSUME NEW i \in Items PROVE MailInv(u, i)' /\ AccountInv(u, i)'
  <2>1. /\ fetched[i] \in Nat /\ mails[u][i] \in Nat /\ torn[u] \in Nat /\ overlap[u] \in Nat
    BY DigestTypes
  <2>2. /\ mails'[u][i] = mails[u][i] /\ torn'[u] = torn[u] /\ overlap'[u] = overlap[u]
        /\ Excused(u)' = Excused(u) /\ Excused(u) \in Nat
    BY <1>1, <2>1 DEF Excused
  <2>3. ~Will(run[d], u, i) /\ ~Will(run'[d], u, i)
    BY <1>1, <1>4 DEF Will, Between
  <2>4. fetched' = fetched /\ mapped' = mapped /\ hidden' = hidden
    BY <1>5, OthersLeave
  <2>5. MailInv(u, i)'
    <3>1. mails'[u][i] + One(Will(run'[d], u, i)) + Excused(u)
            <= mails[u][i] + One(Will(run[d], u, i)) + Excused(u)'
      BY <2>1, <2>2, <2>3 DEF One
    <3>2. LeftOut(u, i)' => LeftOut(u, i)
      BY <1>5, <1>6, OthersLeave
    <3>3. Ahead(u, i)' => LeftOut(u, i)
      <4> SUFFICES ASSUME Ahead(u, i)' PROVE LeftOut(u, i)
        OBVIOUS
      <4>1. fetched[i] > last'[u]
        BY <1>5, OthersLeave
      <4>2. i \notin run[d].batch /\ fetched[i] > run[d].from
        BY <1>2, <1>3, <2>1, <4>1
      <4> QED
        BY <1>1, <1>6, <4>2 DEF LeftOut
    <3> QED
      BY <1>5, <2>1, <2>2, <3>1, <3>2, <3>3, MailKeeps
  <2>6. AccountInv(u, i)'
    <3>1. /\ Accounted(u, i) => Accounted(u, i)'
          /\ \A e \in Digests : e # d => PassAccounts(run[e], u, i)'
      BY <1>1, <1>5, <2>1, <2>2, OthersAccount
    <3>2. PassAccounts(run[d], u, i)
      BY DEF IInv, AccountInv
    <3>3. i \in mapped \ hidden /\ fetched[i] <= last'[u] => Accounted(u, i)'
      <4>1. i \in mapped \ hidden /\ fetched[i] <= last'[u] =>
              i \in run[d].batch \/ Accounted(u, i)
        BY <1>1, <1>3, <1>6, <3>2 DEF PassAccounts
      <4>2. i \in mapped \ hidden /\ i \in run[d].batch => Accounted(u, i)
        BY <1>1, <1>6, <3>2 DEF PassAccounts, Accounted
      <4> QED
        BY <3>1, <4>1, <4>2
    <3>4. PassAccounts(run[d], u, i)'
      BY <1>6 DEF PassAccounts
    <3> QED
      BY <2>4, <3>1, <3>3, <3>4 DEF AccountInv
  <2> QED
    BY <2>5, <2>6
<1>8. /\ Witnessed(last'[u])
      /\ torn[u] <= upsets /\ torn[u] \in Nat /\ torn \in [Users -> Nat]
      /\ mails \in [Users -> [Items -> Nat]] /\ dropped \in [Users -> SUBSET Items]
      /\ upsets \in 0..MaxUpsets /\ upsets \in Nat
  BY <1>2, <1>3, DigestTypes DEF Witnessed
<1> QED
  BY <1>1, <1>3, <1>5, <1>6, <1>7, <1>8, PassStep

(* A digest that ends early, wherever it was.                                *)
LEMMA AbortKeeps ==
  ASSUME IInv, NEW d \in Digests, DigestAborts(d)
  PROVE  IInv'
<1>1. /\ run' = [run EXCEPT ![d] = Idle] /\ DigestFrame
      /\ upsets' = upsets + 1 /\ upsets < MaxUpsets
      /\ UNCHANGED <<last, dropped, overlap>>
  BY DEF DigestAborts, DigestFrame
<1>2. \/ /\ run[d].pc = "send" /\ mails' = Sent(run[d])
         /\ torn' = [torn EXCEPT ![run[d].who] = @ + 1]
      \/ /\ mails' = mails
         /\ torn' = IF run[d].pc = "mark" THEN [torn EXCEPT ![run[d].who] = @ + 1] ELSE torn
  BY DEF DigestAborts
<1>3. /\ run \in [Digests -> RunRecs] /\ run[d] \in RunRecs /\ run[d].batch \subseteq mapped
      /\ torn \in [Users -> Nat] /\ overlap \in [Users -> Nat]
      /\ mails \in [Users -> [Items -> Nat]] /\ dropped \in [Users -> SUBSET Items]
      /\ last \in [Users -> Stamps] /\ \A v \in Users : Witnessed(last[v]) /\ torn[v] <= upsets
      /\ upsets \in Nat /\ upsets' \in Nat /\ upsets' \in 0..MaxUpsets /\ upsets' >= upsets
      /\ run[d].from \in Nat
  BY <1>1, DigestTypes, DeliveryAssumption
<1>4. run'[d] = Idle /\ Between(run'[d]) /\ run'[d].pc = "off"
  BY <1>1, <1>3, IdleFacts DEF Idle
<1>5. Moves(d)
  BY <1>1, <1>3, <1>4, BetweenOK, ToMoves DEF Between
<1>6. \A v \in Users : ~AtWork(run'[d], v)
  BY <1>4 DEF AtWork
<1>7. CASE run[d].pc \notin {"items", "send", "mark"}
  <2>1. mails' = mails /\ torn' = torn
    BY <1>2, <1>7
  <2>2. \A v \in Users : ~AtWork(run[d], v)
    BY <1>7 DEF AtWork
  <2>3. \A v \in Users, i \in Items : MailInv(v, i)' /\ AccountInv(v, i)'
    BY <1>1, <1>5, <1>6, <2>1, <2>2, Elsewhere
  <2>4. \A v \in Users : PassInv(v)'
    BY <1>1, <1>5, <1>6, PassKeeps
  <2>5. \A v \in Users : torn'[v] <= upsets'
    BY <1>3, <1>1, <2>1
  <2> QED
    BY <1>1, <1>3, <1>5, <2>1, <2>3, <2>4, <2>5, DigestKeeps
<1>8. CASE run[d].pc \in {"items", "send", "mark"}
  <2>0. PICK u \in Users : u = run[d].who
    BY <1>8 DEF IInv, RunInv, RunOK
  <2>1. AtWork(run[d], u)
    BY <1>8, <2>0 DEF AtWork
  <2>2. ASSUME NEW i \in Items
        PROVE  /\ mails'[u][i] \in Nat /\ mails'[u][i] >= mails[u][i]
               /\ torn'[u] \in Nat /\ torn'[u] >= torn[u] /\ torn'[u] <= torn[u] + 1
               /\ i \notin mapped => mails'[u][i] = mails[u][i]
               /\ \/ /\ torn'[u] = torn[u] + 1
                     /\ mails'[u][i] = mails[u][i] + One(Will(run[d], u, i))
                  \/ /\ run[d].pc = "mark" /\ torn'[u] = torn[u] + 1
                     /\ mails'[u][i] = mails[u][i]
                  \/ /\ run[d].pc # "mark" /\ torn'[u] = torn[u]
                     /\ mails'[u][i] = mails[u][i]
    <3>1. mails[u][i] \in Nat /\ torn[u] \in Nat
      BY <1>3
    <3>2. CASE /\ run[d].pc = "send" /\ mails' = Sent(run[d])
               /\ torn' = [torn EXCEPT ![run[d].who] = @ + 1]
      <4>1. mails'[u][i] = mails[u][i] + One(i \in run[d].batch) /\ torn'[u] = torn[u] + 1
        BY <1>3, <2>0, <3>2, SentFacts
      <4>2. Will(run[d], u, i) <=> i \in run[d].batch
        BY <2>0, <3>2 DEF Will
      <4> QED
        BY <1>3, <3>1, <4>1, <4>2 DEF One
    <3>3. CASE /\ mails' = mails
               /\ torn' = IF run[d].pc = "mark" THEN [torn EXCEPT ![run[d].who] = @ + 1]
                          ELSE torn
      BY <1>3, <2>0, <3>1, <3>3
    <3> QED
      BY <1>2, <3>2, <3>3
  <2>3. ASSUME NEW i \in Items PROVE MailInv(u, i)' /\ AccountInv(u, i)'
    <3>1. /\ fetched[i] \in Nat /\ mails[u][i] \in Nat /\ torn[u] \in Nat /\ overlap[u] \in Nat
      BY DigestTypes
    <3>2. /\ last'[u] = last[u] /\ overlap'[u] = overlap[u]
          /\ torn'[u] \in Nat /\ mails'[u][i] \in Nat
          /\ Excused(u) = torn[u] + overlap[u] /\ Excused(u)' = torn'[u] + overlap[u]
      BY <1>1, <2>2 DEF Excused
    <3>3. ~Will(run'[d], u, i)
      BY <1>4 DEF Will
    <3>4. One(Will(run[d], u, i)) \in {0, 1} /\ One(Will(run'[d], u, i)) = 0
      BY <3>3 DEF One
    <3>5. fetched' = fetched /\ mapped' = mapped /\ hidden' = hidden
      BY <1>5, OthersLeave
    <3>6. mails'[u][i] + One(Will(run'[d], u, i)) + Excused(u)
            <= mails[u][i] + One(Will(run[d], u, i)) + Excused(u)'
      BY <2>2, <3>1, <3>2, <3>4
    <3>7. LeftOut(u, i)' => LeftOut(u, i)
      BY <1>5, <1>6, OthersLeave
    <3>8. Ahead(u, i)' =>
            \/ LeftOut(u, i) \/ Ahead(u, i)
            \/ mails'[u][i] + One(Will(run'[d], u, i)) + Excused(u)
                 < mails[u][i] + One(Will(run[d], u, i)) + Excused(u)'
      <4>1. CASE torn'[u] = torn[u] + 1
        BY <2>2, <3>1, <3>2, <3>4, <4>1
      <4>2. CASE torn'[u] = torn[u]
        <5>1. run[d].pc # "mark" /\ mails'[u][i] = mails[u][i]
          BY <2>2, <3>1, <4>2
        <5>2. CASE fetched[i] <= run[d].from
          BY <1>5, <3>2, <5>2, OthersLeave
        <5>3. CASE fetched[i] > run[d].from /\ Will(run[d], u, i)
          BY <3>1, <3>2, <3>4, <4>2, <5>1, <5>3 DEF One
        <5>4. CASE fetched[i] > run[d].from /\ ~Will(run[d], u, i)
          <6>1. run[d].pc = "send" /\ i \notin run[d].batch
            BY <1>8, <2>0, <5>1, <5>4 DEF Will
          <6> QED
            BY <2>1, <5>4, <6>1 DEF LeftOut
        <5> QED
          BY <1>3, <3>1, <5>2, <5>3, <5>4
      <4> QED
        BY <2>2, <4>1, <4>2
    <3>9. MailInv(u, i)'
      BY <1>5, <2>2, <3>1, <3>2, <3>6, <3>7, <3>8, MailKeeps
    <3>10. /\ Accounted(u, i) => Accounted(u, i)'
           /\ \A e \in Digests : e # d => PassAccounts(run[e], u, i)'
      BY <1>1, <1>5, <2>2, OthersAccount
    <3>11. AccountInv(u, i)
      BY DEF IInv
    <3>12. PassAccounts(run[d], u, i)'
      BY <1>6 DEF PassAccounts
    <3> QED
      BY <3>2, <3>5, <3>9, <3>10, <3>11, <3>12 DEF AccountInv
  <2>4. /\ torn' \in [Users -> Nat] /\ mails' \in [Users -> [Items -> Nat]]
        /\ torn'[u] <= upsets'
        /\ \A v \in Users : v # u => mails'[v] = mails[v] /\ torn'[v] = torn[v]
    <3>1. torn[u] <= upsets /\ torn[u] \in Nat
      BY <1>3
    <3>2. CASE /\ run[d].pc = "send" /\ mails' = Sent(run[d])
               /\ torn' = [torn EXCEPT ![run[d].who] = @ + 1]
      BY <1>1, <1>3, <2>0, <3>1, <3>2, SentFacts
    <3>3. CASE /\ mails' = mails
               /\ torn' = IF run[d].pc = "mark" THEN [torn EXCEPT ![run[d].who] = @ + 1]
                          ELSE torn
      BY <1>1, <1>3, <2>0, <3>1, <3>3
    <3> QED
      BY <1>2, <3>2, <3>3
  <2>5. torn'[u] \in Nat
    BY <2>4
  <2> QED
    BY <1>1, <1>3, <1>5, <1>6, <2>1, <2>3, <2>4, <2>5, PassStep
<1> QED
  BY <1>7, <1>8

-------------------------------------------------------------------------------
LEMMA InitInv ==
  ASSUME Init
  PROVE  IInv
<1>1. /\ MaxClock \in Nat \ {0} /\ MaxUpsets \in Nat /\ MaxPasses \in Nat
      /\ 0 \in Stamps /\ 1 \in 1..MaxClock
  BY DeliveryAssumption DEF Stamps
<1>2. Idle \in RunRecs /\ Idle.pc = "off" /\ RunOK(Idle)
  BY IdleFacts, BetweenOK DEF Between, Idle
<1>3. run \in [Digests -> RunRecs] /\ \A d \in Digests : run[d] = Idle
  BY <1>2 DEF Init
<1>4. TypeOK
  BY <1>1, <1>3 DEF Init, TypeOK, RunRecs
<1>5. WriterInv /\ CheckpointInv /\ TornInv /\ NothingSkipped
  BY <1>1 DEF Init, WriterInv, CheckpointInv, Witnessed, TornInv, NothingSkipped
<1>6. RunInv
  BY <1>2, <1>3 DEF RunInv
<1>7. ASSUME NEW u \in Users PROVE PassInv(u)
  <2>1. Passing(u) = {} /\ overlap[u] = 0
    BY <1>2, <1>3, <1>7 DEF Passing, Init
  <2> QED
    BY <2>1, FS_EmptySet DEF PassInv
<1>8. ASSUME NEW u \in Users, NEW i \in Items PROVE MailInv(u, i) /\ AccountInv(u, i)
  <2>1. mapped = {} /\ mails[u][i] = 0 /\ \A d \in Digests : ~AtWork(run[d], u)
    BY <1>2, <1>3, <1>8 DEF Init, AtWork
  <2> QED
    BY <2>1 DEF MailInv, AccountInv, PassAccounts
<1> QED
  BY <1>4, <1>5, <1>6, <1>7, <1>8 DEF IInv

LEMMA StepInv ==
  ASSUME IInv, [Next]_vars
  PROVE  IInv'
<1>0. /\ upsets \in Nat /\ upsets \in 0..MaxUpsets /\ MaxUpsets \in Nat /\ TypeOK
  BY DigestTypes, DeliveryAssumption DEF IInv
<1>1. CASE UNCHANGED vars
  <2>1. TypeOK'
    BY <1>0, <1>1 DEF TypeOK, vars, writerVars, consumerVars, userVars, digestVars
  <2> QED
    BY <1>0, <1>1, <2>1, QuietStep DEF vars, consumerVars
<1>2. ASSUME NEW i \in Items, Write(i) PROVE IInv'
  BY <1>2, WriteKeeps
<1>3. CASE Poll
  BY <1>3, PollKeeps
<1>4. CASE RevokeToken \/ CreateToken
  <2>1. token' \in BOOLEAN
    BY <1>4 DEF RevokeToken, CreateToken
  <2>2. upsets' \in 0..MaxUpsets /\ upsets' >= upsets
    <3>1. upsets' = upsets \/ (upsets < MaxUpsets /\ upsets' = upsets + 1)
      BY <1>4 DEF RevokeToken, CreateToken
    <3> QED
      BY <1>0, <3>1
  <2>3. UNCHANGED <<clock, writerVars, since, seen, userVars, digestVars>>
    BY <1>4 DEF RevokeToken, CreateToken
  <2>4. TypeOK'
    BY <1>0, <2>1, <2>2, <2>3 DEF TypeOK, writerVars, userVars, digestVars
  <2> QED
    BY <2>2, <2>3, <2>4, QuietStep
<1>5. ASSUME NEW d \in Digests, Digest(d) PROVE IInv'
  BY <1>5, BeginKeeps, SettingsKeeps, ReadKeeps, SendKeeps, MarkKeeps, AbortKeeps
     DEF Digest, DigestGoesOn
<1>6. ASSUME NEW u \in Users, EditUser(u) PROVE IInv'
  <2>1. enabled' \subseteq Users /\ subscribed' \subseteq Users
    BY <1>0, <1>6 DEF TypeOK, EditUser, SymDiff
  <2>2. TypeOK' /\ upsets' >= upsets
    BY <1>0, <1>6, <2>1, DeliveryAssumption
       DEF TypeOK, EditUser, writerVars, consumerVars, digestVars
  <2> QED
    BY <1>6, <2>2, QuietStep DEF EditUser, consumerVars
<1> QED
  BY <1>1, <1>2, <1>3, <1>4, <1>5, <1>6 DEF Next

LEMMA Invariant == Spec => []IInv
<1>1. Init => IInv
  BY InitInv
<1>2. IInv /\ [Next]_vars => IInv'
  BY StepInv
<1> QED
  BY <1>1, <1>2, PTL DEF Spec
(* Type correctness, with the bound on torn runs.                            *)
THEOREM TypeCorrect == Spec => []TypeOK
<1>1. IInv => TypeOK
  BY DEF IInv
<1> QED
  BY <1>1, Invariant, PTL

(* The promise of GET /consumer/items: an item the checkpoint has passed was  *)
(* delivered, whatever the page limit, the collectors and the token did,     *)
(* unless it joined the topic late or shares its second with another item.   *)
THEOREM NothingLost == Spec => []NothingSkipped
<1>1. IInv => NothingSkipped
  BY DEF IInv
<1> QED
  BY <1>1, Invariant, PTL

(* However many digests overlap, run_digests mails an item to a user once, and *)
(* at most once more for each pass that was cut short between its mail and its *)
(* checkpoint and for each that began during another.                        *)
THEOREM NoDoubleMail == Spec => []MailedOnce
<1>1. ASSUME IInv PROVE MailedOnce
  <2> SUFFICES ASSUME NEW u \in Users, NEW i \in Items
               PROVE  mails[u][i] <= 1 + torn[u] + overlap[u]
    BY DEF MailedOnce
  <2>1. /\ MailInv(u, i) /\ mails[u][i] \in Nat /\ torn[u] \in Nat /\ overlap[u] \in Nat
        /\ Cardinality(MayMail(u, i)) \in Nat
    BY <1>1, PassCounts DEF IInv, TypeOK
  <2> QED
    BY <2>1 DEF MailInv, Claims, Excused
<1> QED
  BY <1>1, Invariant, PTL

(* Nothing falls silently behind last_digest_at: an item it has passed was    *)
(* mailed, or was late, cut off by the limit, shown by a dry run or hidden.  *)
THEOREM DigestsAccount == Spec => []DigestAccounts
<1>1. IInv => DigestAccounts
  BY DEF IInv, TypeOK, AccountInv, Accounted, DigestAccounts
<1> QED
  BY <1>1, Invariant, PTL
-------------------------------------------------------------------------------
(***************************************************************************)
(* Collecting a feed, which fills the tables that Delivery reads: proofs    *)
(* about FeedCollect, for any threads, topics, document, cap and bounds.      *)
(***************************************************************************)
CONSTANTS Threads, Topics, Shown, Cap, MaxEntries, MaxPreviews, MaxDeletes,
          MaxErrors, MaxFaults

VARIABLES published, etag, links, items, placed, pc, scope, sent, body, todo,
          entry, unmapped, excuse, previews, deletes, errors, faults

C == INSTANCE FeedCollect WITH last <- published, mapped <- placed

(* Entries are left to store only past the write of the validator.            *)
TodoInv ==
  \A t \in Threads : pc[t] \notin {"loop", "map"} => todo[t] = {}

CollectInv == C!TypeOK /\ TodoInv /\ C!VouchedIsCollected

(* The newest of the entries a collector has left.                           *)
LEMMA NextEntry ==
  ASSUME C!TypeOK, NEW t \in Threads, todo[t] # {}
  PROVE  C!Max(todo[t]) \in todo[t]
<1>1. todo[t] \in SUBSET Nat /\ published \in Nat /\ \A n \in todo[t] : n <= published
  BY DEF C!TypeOK
<1>2. Max(todo[t]) \in todo[t]
  BY <1>1, NatMax
<1> QED
  BY <1>2 DEF C!Max, Max

(* What a pass takes of a document is in the document.                        *)
LEMMA TakenPublished ==
  ASSUME C!SizesAssumption, NEW n \in 0..published, published \in 0..MaxEntries
  PROVE  C!Newest(n) \subseteq 1..published
BY DEF C!SizesAssumption, C!Newest, C!Document, C!Entries

LEMMA CollectTypeInit ==
  ASSUME C!SizesAssumption, C!Init
  PROVE  C!TypeOK
<1>1. published \in 0..MaxEntries
  BY DEF C!SizesAssumption, C!Init, C!Smaller
<1>2. /\ pc \in [Threads -> C!PCs] /\ scope \in [Threads -> SUBSET Topics]
      /\ sent \in [Threads -> 0..published] /\ body \in [Threads -> 0..published]
  BY <1>1 DEF C!SizesAssumption, C!Init, C!PCs
<1>3. /\ todo \in [Threads -> SUBSET (1..published)]
      /\ entry \in [Threads -> 0..published]
      /\ unmapped \in [Threads -> SUBSET Topics]
  BY <1>1 DEF C!SizesAssumption, C!Init
<1>4. \A t \in Threads : pc[t] # "map"
  BY DEF C!Init
<1>5. etag \in 0..published /\ items \subseteq 1..published /\ placed \subseteq items \X Topics
  BY <1>1 DEF C!SizesAssumption, C!Init
<1>6. /\ previews \in 0..MaxPreviews /\ deletes \in 0..MaxDeletes
      /\ errors \in 0..MaxErrors /\ faults \in 0..MaxFaults
  BY DEF C!SizesAssumption, C!Init
<1>7. links \subseteq Topics /\ excuse \in BOOLEAN
  BY DEF C!Init
<1> QED
  BY <1>1, <1>2, <1>3, <1>4, <1>5, <1>6, <1>7 DEF C!TypeOK

(* A thread that has gone idle is well typed.                                *)
LEMMA CollectTypeIdle ==
  ASSUME C!SizesAssumption, C!TypeOK, NEW t \in Threads, C!Idle(t),
         published' = published, links' = links, placed' = placed, items' = items,
         etag' \in 0..published, excuse' \in BOOLEAN, previews' = previews,
         deletes' = deletes, errors' \in 0..MaxErrors, faults' \in 0..MaxFaults
  PROVE  C!TypeOK'
<1>1. /\ pc' \in [Threads -> C!PCs] /\ scope' \in [Threads -> SUBSET Topics]
      /\ sent' \in [Threads -> 0..published] /\ body' \in [Threads -> 0..published]
  BY DEF C!TypeOK, C!Idle, C!PCs
<1>2. /\ todo' \in [Threads -> SUBSET (1..published)]
      /\ entry' \in [Threads -> 0..published]
      /\ unmapped' \in [Threads -> SUBSET Topics]
  BY DEF C!TypeOK, C!Idle
<1>3. \A u \in Threads : pc'[u] = "map" => entry'[u] \in items /\ unmapped'[u] # {}
  BY DEF C!TypeOK, C!Idle
<1> QED
  BY <1>1, <1>2, <1>3 DEF C!TypeOK, C!PCs

LEMMA CollectTypeStep ==
  ASSUME C!SizesAssumption, C!TypeOK, [C!Next]_C!vars
  PROVE  C!TypeOK'
<1> USE DEF C!store, C!locals, C!counters
<1>1. CASE UNCHANGED C!vars
  BY <1>1 DEF C!TypeOK, C!vars, C!PCs
<1>2. CASE C!Publish
  <2>1. /\ published' = published + 1 /\ published' \in 0..MaxEntries
        /\ UNCHANGED <<etag, links, items, placed, pc, scope, sent, body, todo, entry,
                       unmapped, excuse, previews, deletes, errors, faults>>
    BY <1>2 DEF C!SizesAssumption, C!TypeOK, C!Publish
  <2>2. /\ 0..published \subseteq 0..published' /\ 1..published \subseteq 1..published'
        /\ published \in Nat /\ published' \in Nat
    BY <2>1 DEF C!TypeOK
  <2>3. /\ etag' \in 0..published' /\ items' \subseteq 1..published'
        /\ placed' \subseteq items' \X Topics /\ links' \subseteq Topics
    BY <2>1, <2>2 DEF C!TypeOK
  <2>4. /\ sent' \in [Threads -> 0..published'] /\ body' \in [Threads -> 0..published']
        /\ entry' \in [Threads -> 0..published']
    BY <2>1, <2>2 DEF C!TypeOK
  <2>5. todo' \in [Threads -> SUBSET (1..published')]
    BY <2>1, <2>2 DEF C!TypeOK
  <2> QED
    BY <2>1, <2>3, <2>4, <2>5 DEF C!TypeOK, C!PCs
<1>3. CASE C!DeleteSource
  BY <1>3 DEF C!SizesAssumption, C!TypeOK, C!DeleteSource, C!PCs
<1>4. ASSUME NEW p \in Topics, C!Link(p) PROVE C!TypeOK'
  BY <1>4 DEF C!TypeOK, C!Link, C!PCs
<1>5. ASSUME NEW t \in Threads, C!BeginCollect(t) PROVE C!TypeOK'
  BY <1>5 DEF C!TypeOK, C!BeginCollect, C!PCs
<1>6. ASSUME NEW t \in Threads, C!BeginPreview(t) PROVE C!TypeOK'
  BY <1>6 DEF C!SizesAssumption, C!TypeOK, C!BeginPreview, C!PCs
<1>7. ASSUME NEW t \in Threads, C!ReadHeaders(t) PROVE C!TypeOK'
  BY <1>7 DEF C!TypeOK, C!ReadHeaders, C!PCs
<1>8. ASSUME NEW t \in Threads, C!NotModified(t) PROVE C!TypeOK'
  BY <1>8, CollectTypeIdle DEF C!TypeOK, C!NotModified
<1>9. ASSUME NEW t \in Threads, C!Fetched(t) PROVE C!TypeOK'
  BY <1>9 DEF C!TypeOK, C!Fetched, C!PCs
<1>10. ASSUME NEW t \in Threads, C!FetchFails(t) PROVE C!TypeOK'
  <2>1. errors' \in 0..MaxErrors /\ C!Idle(t)
    BY <1>10 DEF C!SizesAssumption, C!TypeOK, C!FetchFails
  <2> QED
    BY <1>10, <2>1, CollectTypeIdle DEF C!TypeOK, C!FetchFails
<1>11. ASSUME NEW t \in Threads, C!WriteCache(t) PROVE C!TypeOK'
  <2>1. /\ etag' \in 0..published /\ excuse' \in BOOLEAN
        /\ UNCHANGED <<published, links, items, placed, previews, deletes, errors, faults>>
    BY <1>11 DEF C!TypeOK, C!WriteCache, C!Excuse
  <2>2. CASE C!Preview(t)
    <3>1. C!Idle(t)
      BY <1>11, <2>2 DEF C!WriteCache
    <3>2. errors' \in 0..MaxErrors /\ faults' \in 0..MaxFaults
      BY <2>1 DEF C!TypeOK
    <3> QED
      BY <2>1, <3>1, <3>2, CollectTypeIdle
  <2>3. CASE ~C!Preview(t)
    <3>1. /\ pc' = [pc EXCEPT ![t] = "loop"]
          /\ todo' = [todo EXCEPT ![t] = C!Takes(t)]
          /\ UNCHANGED <<scope, sent, body, entry, unmapped>>
      BY <1>11, <2>3 DEF C!WriteCache
    <3>2. C!Takes(t) \subseteq 1..published
      BY TakenPublished DEF C!TypeOK, C!Takes
    <3> QED
      BY <2>1, <3>1, <3>2 DEF C!TypeOK, C!PCs
  <2> QED
    BY <2>2, <2>3
<1>12. ASSUME NEW t \in Threads, C!UpsertItem(t) PROVE C!TypeOK'
  <2> DEFINE e == C!Max(todo[t])
  <2>1. e \in todo[t] /\ e \in 1..published
    BY <1>12, NextEntry DEF C!TypeOK, C!UpsertItem
  <2>2. /\ items' = items \union {e}
        /\ todo' = [todo EXCEPT ![t] = @ \ {e}]
        /\ entry' = [entry EXCEPT ![t] = e]
        /\ unmapped' = [unmapped EXCEPT ![t] = scope[t]]
        /\ pc' = [pc EXCEPT ![t] = IF scope[t] = {} THEN "loop" ELSE "map"]
        /\ UNCHANGED <<published, etag, links, placed, scope, sent, body, excuse,
                       previews, deletes, errors, faults>>
    BY <1>12 DEF C!UpsertItem, C!Maps
  <2> HIDE DEF e
  <2>3. /\ items' \subseteq 1..published /\ placed' \subseteq items' \X Topics
        /\ todo' \in [Threads -> SUBSET (1..published)]
        /\ entry' \in [Threads -> 0..published]
    BY <2>1, <2>2 DEF C!TypeOK
  <2>4. /\ pc' \in [Threads -> C!PCs] /\ unmapped' \in [Threads -> SUBSET Topics]
    BY <2>2 DEF C!TypeOK, C!PCs
  <2>5. \A u \in Threads : pc'[u] = "map" => entry'[u] \in items' /\ unmapped'[u] # {}
    BY <2>2 DEF C!TypeOK
  <2> QED
    BY <2>2, <2>3, <2>4, <2>5 DEF C!TypeOK, C!PCs
<1>13. ASSUME NEW t \in Threads, C!MapItemTopic(t) PROVE C!TypeOK'
  <2>1. PICK p \in unmapped[t] :
          /\ placed' = placed \union {<<entry[t], p>>}
          /\ unmapped' = [unmapped EXCEPT ![t] = @ \ {p}]
          /\ pc' = [pc EXCEPT ![t] = IF unmapped[t] = {p} THEN "loop" ELSE "map"]
    BY <1>13 DEF C!MapItemTopic
  <2>2. /\ pc[t] = "map"
        /\ UNCHANGED <<published, etag, links, items, scope, sent, body, todo, entry,
                       excuse, previews, deletes, errors, faults>>
    BY <1>13 DEF C!MapItemTopic
  <2>3. p \in Topics /\ entry[t] \in items
    BY <2>1, <2>2 DEF C!TypeOK
  <2>4. placed' \subseteq items \X Topics
    BY <2>1, <2>3 DEF C!TypeOK
  <2>5. pc' \in [Threads -> C!PCs] /\ unmapped' \in [Threads -> SUBSET Topics]
    BY <2>1 DEF C!TypeOK, C!PCs
  <2>6. \A u \in Threads : pc'[u] = "map" => entry'[u] \in items /\ unmapped'[u] # {}
    BY <2>1, <2>2, <2>3 DEF C!TypeOK
  <2> QED
    BY <2>2, <2>4, <2>5, <2>6 DEF C!TypeOK, C!PCs
<1>14. ASSUME NEW t \in Threads, C!ItemFails(t) PROVE C!TypeOK'
  <2>1. faults' \in 0..MaxFaults
    BY <1>14 DEF C!SizesAssumption, C!TypeOK, C!ItemFails
  <2>2. todo' \in [Threads -> SUBSET (1..published)]
    BY <1>14 DEF C!TypeOK, C!ItemFails
  <2>3. /\ pc' = [pc EXCEPT ![t] = "loop"] /\ unmapped' = [unmapped EXCEPT ![t] = {}]
        /\ excuse' = TRUE
        /\ UNCHANGED <<published, etag, links, items, placed, scope, sent, body, entry,
                       previews, deletes, errors>>
    BY <1>14 DEF C!ItemFails
  <2> QED
    BY <2>1, <2>2, <2>3 DEF C!TypeOK, C!PCs
<1>15. ASSUME NEW t \in Threads, C!EndCollect(t) PROVE C!TypeOK'
  BY <1>15, CollectTypeIdle DEF C!TypeOK, C!EndCollect
<1>16. ASSUME NEW t \in Threads, C!Die(t) PROVE C!TypeOK'
  <2>1. faults' \in 0..MaxFaults /\ C!Idle(t) /\ excuse' \in BOOLEAN
    BY <1>16 DEF C!SizesAssumption, C!TypeOK, C!Die
  <2> QED
    BY <1>16, <2>1, CollectTypeIdle DEF C!TypeOK, C!Die
<1> QED
  BY <1>1, <1>2, <1>3, <1>4, <1>5, <1>6, <1>7, <1>8, <1>9, <1>10, <1>11, <1>12,
     <1>13, <1>14, <1>15, <1>16 DEF C!Next, C!Step

(* What a thread has left to store keeps vouching for the cached document     *)
(* until it is stored or its loss is excused.                                *)
LEMMA StillVouched ==
  ASSUME C!VouchedIsCollected, etag' = etag, links' \subseteq links,
         placed \subseteq placed', excuse' = FALSE => excuse = FALSE,
         excuse' \in BOOLEAN, excuse \in BOOLEAN,
         \A t \in Threads : \A e \in C!Newest(etag), p \in links :
           ~excuse' /\ C!Pending(t, e, p) => C!Pending(t, e, p)' \/ <<e, p>> \in placed'
  PROVE  C!VouchedIsCollected'
<1> SUFFICES ASSUME ~excuse', etag # 0, NEW e \in C!Newest(etag), NEW p \in links',
                    <<e, p>> \notin placed'
             PROVE  \E t \in Threads : C!Pending(t, e, p)'
  BY DEF C!VouchedIsCollected
<1>1. PICK t \in Threads : C!Pending(t, e, p)
  BY DEF C!VouchedIsCollected
<1> QED
  BY <1>1

(* A thread goes idle with nothing left.                                     *)
LEMMA IdleVouched ==
  ASSUME CollectInv, NEW t \in Threads, C!Idle(t), pc[t] # "map", todo[t] = {},
         UNCHANGED <<etag, links, placed>>, excuse' = excuse
  PROVE  TodoInv' /\ C!VouchedIsCollected'
<1>1. TodoInv'
  BY DEF CollectInv, C!TypeOK, TodoInv, C!Idle
<1>2. \A u \in Threads : \A e, p : C!Pending(u, e, p) => C!Pending(u, e, p)'
  BY DEF CollectInv, C!TypeOK, C!Idle, C!Pending
<1> QED
  BY <1>1, <1>2, StillVouched DEF CollectInv, C!TypeOK

LEMMA CollectStep ==
  ASSUME C!SizesAssumption, CollectInv, [C!Next]_C!vars
  PROVE  TodoInv' /\ C!VouchedIsCollected'
<1> USE DEF C!store, C!locals, C!counters
<1>0. C!TypeOK /\ TodoInv /\ C!VouchedIsCollected /\ C!TypeOK'
  BY CollectTypeStep DEF CollectInv
<1>1. CASE UNCHANGED C!vars
  BY <1>0, <1>1 DEF C!vars, TodoInv, C!VouchedIsCollected, C!Pending
<1>2. CASE C!Publish
  BY <1>0, <1>2 DEF C!Publish, TodoInv, C!VouchedIsCollected, C!Pending
<1>3. CASE C!DeleteSource
  BY <1>0, <1>3 DEF C!DeleteSource, TodoInv, C!VouchedIsCollected, C!Pending
<1>4. ASSUME NEW q \in Topics, C!Link(q) PROVE TodoInv' /\ C!VouchedIsCollected'
  BY <1>0, <1>4 DEF C!Link, TodoInv, C!VouchedIsCollected
<1>5. ASSUME NEW t \in Threads, \/ C!BeginCollect(t) \/ C!BeginPreview(t)
                                \/ C!ReadHeaders(t) \/ C!Fetched(t)
      PROVE  TodoInv' /\ C!VouchedIsCollected'
  <2>1. /\ pc[t] \in {"idle", "headers", "get"} /\ pc'[t] \in {"headers", "get", "cache"}
        /\ \A u \in Threads \ {t} : pc'[u] = pc[u] /\ scope'[u] = scope[u]
        /\ UNCHANGED <<etag, links, placed, todo, entry, unmapped, excuse>>
    BY <1>0, <1>5 DEF C!TypeOK, C!BeginCollect, C!BeginPreview, C!ReadHeaders, C!Fetched
  <2>2. todo[t] = {}
    BY <1>0, <2>1 DEF TodoInv
  <2>3. TodoInv'
    BY <1>0, <2>1, <2>2 DEF TodoInv
  <2>4. \A u \in Threads : \A e, p : C!Pending(u, e, p) => C!Pending(u, e, p)'
    BY <2>1, <2>2 DEF C!Pending
  <2> QED
    BY <1>0, <2>1, <2>3, <2>4, StillVouched DEF C!TypeOK
<1>6. ASSUME NEW t \in Threads, \/ C!NotModified(t) \/ C!FetchFails(t) \/ C!EndCollect(t)
      PROVE  TodoInv' /\ C!VouchedIsCollected'
  <2>1. /\ C!Idle(t) /\ pc[t] # "map" /\ todo[t] = {}
        /\ UNCHANGED <<etag, links, placed>> /\ excuse' = excuse
    BY <1>0, <1>6 DEF C!NotModified, C!FetchFails, C!EndCollect, TodoInv
  <2> QED
    BY <2>1, IdleVouched
<1>7. ASSUME NEW t \in Threads, C!WriteCache(t) PROVE TodoInv' /\ C!VouchedIsCollected'
  <2>1. /\ pc[t] = "cache" /\ etag' = body[t] /\ excuse' = (scope[t] # links)
        /\ UNCHANGED <<links, placed, scope>> \/ C!Preview(t)
        /\ links' = links /\ todo[t] = {}
    BY <1>0, <1>7 DEF C!WriteCache, C!Excuse, TodoInv
  <2>2. CASE C!Preview(t)
    <3>1. C!Idle(t) /\ scope[t] = {}
      BY <1>7, <2>2 DEF C!WriteCache, C!Preview
    <3>2. TodoInv'
      BY <1>0, <3>1 DEF C!TypeOK, C!Idle, TodoInv
    <3> QED
      BY <2>1, <3>1, <3>2 DEF C!VouchedIsCollected
  <2>3. CASE ~C!Preview(t)
    <3>1. /\ pc' = [pc EXCEPT ![t] = "loop"]
          /\ todo' = [todo EXCEPT ![t] = C!Newest(body[t])] /\ scope' = scope
      BY <1>7, <2>3 DEF C!WriteCache, C!Takes
    <3>2. pc'[t] = "loop" /\ todo'[t] = C!Newest(body[t])
      BY <1>0, <3>1 DEF C!TypeOK
    <3>3. TodoInv'
      BY <1>0, <3>1 DEF C!TypeOK, TodoInv
    <3>4. ASSUME ~excuse', NEW e \in C!Newest(etag'), NEW p \in links'
          PROVE  C!Pending(t, e, p)'
      BY <2>1, <3>1, <3>2, <3>4 DEF C!Pending
    <3> QED
      BY <3>3, <3>4 DEF C!VouchedIsCollected
  <2> QED
    BY <2>2, <2>3
<1>8. ASSUME NEW t \in Threads, C!UpsertItem(t) PROVE TodoInv' /\ C!VouchedIsCollected'
  <2> DEFINE top == C!Max(todo[t])
  <2>1. /\ pc[t] = "loop"
        /\ todo' = [todo EXCEPT ![t] = @ \ {top}]
        /\ entry' = [entry EXCEPT ![t] = top]
        /\ unmapped' = [unmapped EXCEPT ![t] = scope[t]]
        /\ pc' = [pc EXCEPT ![t] = IF scope[t] = {} THEN "loop" ELSE "map"]
        /\ UNCHANGED <<etag, links, placed, scope, excuse>>
    BY <1>8 DEF C!UpsertItem, C!Maps
  <2> HIDE DEF top
  <2>2. TodoInv'
    BY <1>0, <2>1 DEF C!TypeOK, TodoInv
  <2>3. /\ todo'[t] = todo[t] \ {top} /\ entry'[t] = top /\ unmapped'[t] = scope[t]
        /\ scope[t] # {} => pc'[t] = "map"
        /\ \A u \in Threads \ {t} : /\ pc'[u] = pc[u] /\ todo'[u] = todo[u]
                                    /\ entry'[u] = entry[u] /\ unmapped'[u] = unmapped[u]
    BY <1>0, <2>1 DEF C!TypeOK
  <2>4. \A u \in Threads : \A e, p : C!Pending(u, e, p) => C!Pending(u, e, p)'
    BY <2>1, <2>3 DEF C!Pending
  <2> QED
    BY <1>0, <2>1, <2>2, <2>4, StillVouched DEF C!TypeOK
<1>9. ASSUME NEW t \in Threads, C!MapItemTopic(t) PROVE TodoInv' /\ C!VouchedIsCollected'
  <2>1. PICK q \in unmapped[t] :
          /\ placed' = placed \union {<<entry[t], q>>}
          /\ unmapped' = [unmapped EXCEPT ![t] = @ \ {q}]
          /\ pc' = [pc EXCEPT ![t] = IF unmapped[t] = {q} THEN "loop" ELSE "map"]
    BY <1>9 DEF C!MapItemTopic
  <2>2. pc[t] = "map" /\ UNCHANGED <<etag, links, scope, todo, entry, excuse>>
    BY <1>9 DEF C!MapItemTopic
  <2>3. TodoInv'
    BY <1>0, <2>1, <2>2 DEF C!TypeOK, TodoInv
  <2>4. /\ unmapped'[t] = unmapped[t] \ {q} /\ (unmapped'[t] # {} => pc'[t] = "map")
        /\ \A u \in Threads \ {t} : pc'[u] = pc[u] /\ unmapped'[u] = unmapped[u]
    BY <1>0, <2>1 DEF C!TypeOK
  <2>5. \A u \in Threads : \A e, p :
          C!Pending(u, e, p) => C!Pending(u, e, p)' \/ <<e, p>> \in placed'
    BY <2>1, <2>2, <2>4 DEF C!Pending
  <2> QED
    BY <1>0, <2>1, <2>2, <2>3, <2>5, StillVouched DEF C!TypeOK
<1>10. ASSUME NEW t \in Threads, C!ItemFails(t) PROVE TodoInv' /\ C!VouchedIsCollected'
  <2>1. TodoInv'
    BY <1>0, <1>10 DEF C!TypeOK, C!ItemFails, TodoInv
  <2> QED
    BY <1>10, <2>1 DEF C!ItemFails, C!VouchedIsCollected
<1>11. ASSUME NEW t \in Threads, C!Die(t) PROVE TodoInv' /\ C!VouchedIsCollected'
  <2>1. CASE pc[t] \in {"loop", "map"}
    <3>1. TodoInv' /\ excuse'
      BY <1>0, <1>11, <2>1 DEF C!TypeOK, C!Die, C!Idle, TodoInv
    <3> QED
      BY <3>1 DEF C!VouchedIsCollected
  <2>2. CASE pc[t] \notin {"loop", "map"}
    <3>1. /\ C!Idle(t) /\ pc[t] # "map" /\ todo[t] = {}
          /\ UNCHANGED <<etag, links, placed>> /\ excuse' = excuse
      BY <1>0, <1>11, <2>2 DEF C!TypeOK, C!Die, TodoInv
    <3> QED
      BY <3>1, IdleVouched
  <2> QED
    BY <2>1, <2>2
<1> QED
  BY <1>1, <1>2, <1>3, <1>4, <1>5, <1>6, <1>7, <1>8, <1>9, <1>10, <1>11
     DEF C!Next, C!Step

LEMMA CollectInvariance ==
  C!SizesAssumption => (C!Spec => []CollectInv)
<1>1. C!SizesAssumption /\ C!Init => CollectInv
  <2> SUFFICES ASSUME C!SizesAssumption, C!Init PROVE CollectInv
    OBVIOUS
  <2>1. C!TypeOK
    BY CollectTypeInit
  <2>2. TodoInv /\ C!VouchedIsCollected
    BY DEF C!Init, TodoInv, C!VouchedIsCollected
  <2> QED
    BY <2>1, <2>2 DEF CollectInv
<1>2. C!SizesAssumption /\ CollectInv /\ [C!Next]_C!vars => CollectInv'
  BY CollectTypeStep, CollectStep DEF CollectInv
<1> SUFFICES ASSUME C!SizesAssumption PROVE C!Spec => []CollectInv
  OBVIOUS
<1> QED
  BY <1>1, <1>2, PTL DEF C!Spec

(* A collector's type invariant: what it holds and what is stored was         *)
(* published, and it maps an entry that is an item (collect_source).          *)
THEOREM CollectTypeCorrect ==
  C!SizesAssumption => (C!Spec => []C!TypeOK)
<1>1. CollectInv => C!TypeOK
  BY DEF CollectInv
<1> QED
  BY <1>1, CollectInvariance, PTL

(* What the stored validator vouches for is collected, or is about to be,     *)
(* whatever collectors overlapped and however their replies were ordered,     *)
(* unless there is an excuse on record (fetch_rss_feed, collect_source).      *)
THEOREM VouchedCollected ==
  C!SizesAssumption => (C!Spec => []C!VouchedIsCollected)
<1>1. CollectInv => C!VouchedIsCollected
  BY DEF CollectInv
<1> QED
  BY <1>1, CollectInvariance, PTL
=============================================================================
