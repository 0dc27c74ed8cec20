-------------------------- MODULE RateLimiterProofs --------------------------
(***************************************************************************)
(* Proofs about RateLimiter, for any set of keys and threads, any limits,  *)
(* windows, horizon and stalls, the code's windows as long as the horizon  *)
(* among them: types, the window bound over what the sweep's horizon can   *)
(* guarantee of each window, and the honesty of Retry-After.               *)
(*                                                                         *)
(* The argument for the bound: the deque is always the most recent stretch *)
(* of the history of admitted hits, never longer than the limit, and       *)
(* everything that has left it is already outside the guaranteed part of   *)
(* the window.  Pruning keeps this because its cutoff is no later than     *)
(* now - window; the sweep because no hit is later than the last of its    *)
(* deque by more than MaxStall.                                            *)
(***************************************************************************)
EXTENDS RateLimiter, FiniteSetTheorems, SequenceTheorems, TLAPS

\* The guaranteed part of a window: within it, and short of the horizon by a
\* stall.
LEMMA GuaranteedBounds ==
  ASSUME NEW k \in Keys
  PROVE  /\ Guaranteed(k) \in Int
         /\ Guaranteed(k) <= Window[k]
         /\ Guaranteed(k) + MaxStall <= MaxIdle
BY WindowAssumption, TimeAssumption DEF Guaranteed

(***************************************************************************)
(* The inductive invariant, in parts.                                      *)
(***************************************************************************)
\* q is the tail of l.
SuffixOf(q, l) ==
  /\ Len(q) <= Len(l)
  /\ \A i \in 1..Len(q) : q[i] = l[Len(l) - Len(q) + i]

\* Every entry of l before its tail q is at or before the cutoff.
ForgottenBy(q, l, cutoff) ==
  \A i \in 1..(Len(l) - Len(q)) : l[i] <= cutoff

\* No entry exceeds a later one by more than a stall, or the time c at all.
NearlySorted(l, c) ==
  /\ \A i \in 1..Len(l) : l[i] <= c
  /\ \A i, j \in 1..Len(l) : i < j => l[i] <= l[j] + MaxStall

StampsFresh ==
  \A t \in Threads : stamp[t] # None =>
    stamp[t] <= clock /\ clock <= stamp[t] + MaxStall

KeyInv(k, q, l, c) ==
  /\ Len(q) <= Limit[k]
  /\ SuffixOf(q, l)
  /\ ForgottenBy(q, l, c - Guaranteed(k))
  /\ NearlySorted(l, c)

IInv ==
  /\ TypeOK
  /\ StampsFresh
  /\ \A k \in Keys : KeyInv(k, hits[k], log[k], clock)

-----------------------------------------------------------------------------
(***************************************************************************)
(* What pruning returns: the rest of the deque, still the tail of the      *)
(* history, and nothing forgotten that the cutoff does not cover.          *)
(***************************************************************************)
LEMMA DropType ==
  ASSUME NEW q \in Seq(Nat), NEW n \in 0..Len(q)
  PROVE  /\ Drop(q, n) \in Seq(Nat)
         /\ Len(Drop(q, n)) = Len(q) - n
         /\ \A i \in 1..(Len(q) - n) : Drop(q, n)[i] = q[n + i]
<1>1. \A i \in (n + 1)..Len(q) : q[i] \in Nat
  OBVIOUS
<1>2. /\ SubSeq(q, n + 1, Len(q)) \in Seq(Nat)
      /\ Len(SubSeq(q, n + 1, Len(q))) =
           IF n + 1 <= Len(q) THEN Len(q) - (n + 1) + 1 ELSE 0
      /\ \A i \in 1..(Len(q) - (n + 1) + 1) :
           SubSeq(q, n + 1, Len(q))[i] = q[(n + 1) + i - 1]
  BY <1>1, SubSeqProperties, n + 1 \in Int, Len(q) \in Int
<1>3. Len(SubSeq(q, n + 1, Len(q))) = Len(q) - n
  BY <1>2
<1>4. \A i \in 1..(Len(q) - n) : SubSeq(q, n + 1, Len(q))[i] = q[n + i]
  BY <1>2
<1>5. QED
  BY <1>2, <1>3, <1>4 DEF Drop

LEMMA PruneKeeps ==
  ASSUME NEW k \in Keys, NEW q \in Seq(Nat), NEW l \in Seq(Nat), NEW c \in Nat,
         KeyInv(k, q, l, c),
         NEW now \in Nat, now <= c,
         NEW n \in 0..Len(q), Prunes(q, now - Window[k], n)
  PROVE  KeyInv(k, Drop(q, n), l, c)
<1> DEFINE r == Drop(q, n)
<1>1. /\ r \in Seq(Nat)
      /\ Len(r) = Len(q) - n
      /\ \A i \in 1..(Len(q) - n) : r[i] = q[n + i]
  BY DropType
<1>w. Window[k] \in Nat /\ Limit[k] \in Nat
  BY WindowAssumption, LimitAssumption
<1>2. Len(r) <= Limit[k]
  BY <1>1, <1>w DEF KeyInv
<1>3. SuffixOf(r, l)
  <2>1. Len(r) <= Len(l)
    BY <1>1 DEF KeyInv, SuffixOf
  <2>2. ASSUME NEW i \in 1..Len(r)
        PROVE  r[i] = l[Len(l) - Len(r) + i]
    <3>1. r[i] = q[n + i] /\ n + i \in 1..Len(q)
      BY <1>1
    <3>2. q[n + i] = l[Len(l) - Len(q) + (n + i)]
      BY <3>1 DEF KeyInv, SuffixOf
    <3>3. Len(l) - Len(q) + (n + i) = Len(l) - Len(r) + i
      BY <1>1
    <3> QED
      BY <3>1, <3>2, <3>3
  <2> QED
    BY <2>1, <2>2 DEF SuffixOf
<1>4. ForgottenBy(r, l, c - Guaranteed(k))
  <2> SUFFICES ASSUME NEW i \in 1..(Len(l) - Len(r))
               PROVE  l[i] <= c - Guaranteed(k)
    BY DEF ForgottenBy
  <2>1. CASE i <= Len(l) - Len(q)
    BY <2>1 DEF KeyInv, ForgottenBy
  <2>2. CASE i > Len(l) - Len(q)
    <3> DEFINE m == i - (Len(l) - Len(q))
    <3>1. m \in 1..n /\ m \in 1..Len(q) /\ Len(l) - Len(q) + m = i
      BY <2>2, <1>1, SMTT(30)
    <3>2. q[m] <= now - Window[k]
      BY <3>1 DEF Prunes, Expired
    <3>3. q[m] = l[i]
      BY <3>1 DEF KeyInv, SuffixOf
    <3>4. q[m] \in Int
      BY <3>1, SMTT(30)
    <3>5. q[m] <= c - Guaranteed(k)
      BY <3>2, <3>4, <1>w, GuaranteedBounds, SMTT(30)
    <3> QED
      BY <3>3, <3>5
  <2> QED
    BY <2>1, <2>2
<1> QED
  BY <1>2, <1>3, <1>4 DEF KeyInv

(***************************************************************************)
(* Admitting a hit taken at `now`, at most MaxStall ago, extends deque and *)
(* history alike.                                                          *)
(***************************************************************************)
LEMMA AppendKeeps ==
  ASSUME NEW k \in Keys, NEW q \in Seq(Nat), NEW l \in Seq(Nat), NEW c \in Nat,
         KeyInv(k, q, l, c), ~Full(q, k),
         NEW now \in Nat, now <= c, c <= now + MaxStall
  PROVE  KeyInv(k, Append(q, now), Append(l, now), c)
<1> DEFINE r == Append(q, now)
           m == Append(l, now)
<1>1. /\ r \in Seq(Nat) /\ Len(r) = Len(q) + 1 /\ r[Len(q) + 1] = now
      /\ \A i \in 1..Len(q) : r[i] = q[i]
  OBVIOUS
<1>2. /\ m \in Seq(Nat) /\ Len(m) = Len(l) + 1 /\ m[Len(l) + 1] = now
      /\ \A i \in 1..Len(l) : m[i] = l[i]
  OBVIOUS
<1>w. Window[k] \in Nat /\ Limit[k] \in Nat /\ MaxStall \in Nat
  BY WindowAssumption, LimitAssumption, TimeAssumption
<1> HIDE DEF r, m
<1>3. Len(r) <= Limit[k]
  BY <1>1, <1>w DEF Full
<1>4. SuffixOf(r, m)
  <2>1. Len(q) <= Len(l)
    BY DEF KeyInv, SuffixOf
  <2>2. ASSUME NEW i \in 1..Len(r)
        PROVE  r[i] = m[Len(m) - Len(r) + i]
    <3>1. CASE i = Len(q) + 1
      BY <3>1, <1>1, <1>2, <2>1
    <3>2. CASE i <= Len(q)
      <4>1. r[i] = q[i] /\ i \in 1..Len(q)
        BY <3>2, <1>1
      <4>2. q[i] = l[Len(l) - Len(q) + i]
        BY <4>1 DEF KeyInv, SuffixOf
      <4>3. Len(l) - Len(q) + i \in 1..Len(l)
        BY <4>1, <2>1
      <4>4. Len(m) - Len(r) = Len(l) - Len(q)
        BY <1>1, <1>2
      <4> QED
        BY <4>1, <4>2, <4>3, <4>4, <1>2
    <3> QED
      BY <3>1, <3>2, <1>1
  <2> QED
    BY <2>1, <2>2, <1>1, <1>2 DEF SuffixOf
<1>5. ForgottenBy(r, m, c - Guaranteed(k))
  <2>1. Len(q) <= Len(l) /\ Len(m) - Len(r) = Len(l) - Len(q)
    BY <1>1, <1>2 DEF KeyInv, SuffixOf
  <2> SUFFICES ASSUME NEW i \in 1..(Len(m) - Len(r))
               PROVE  m[i] <= c - Guaranteed(k)
    BY DEF ForgottenBy
  <2>2. i \in 1..(Len(l) - Len(q)) /\ i \in 1..Len(l)
    BY <2>1
  <2>3. l[i] <= c - Guaranteed(k)
    BY <2>2 DEF KeyInv, ForgottenBy
  <2> QED
    BY <1>2, <2>2, <2>3
<1>6. NearlySorted(m, c)
  <2>1. ASSUME NEW i \in 1..Len(m) PROVE m[i] <= c
    <3>1. CASE i = Len(l) + 1
      BY <3>1, <1>2
    <3>2. CASE i # Len(l) + 1
      <4>1. i \in 1..Len(l)
        BY <3>2, <1>2
      <4> QED
        BY <4>1, <1>2 DEF KeyInv, NearlySorted
    <3> QED
      BY <3>1, <3>2
  <2>2. ASSUME NEW i \in 1..Len(m), NEW j \in 1..Len(m), i < j
        PROVE  m[i] <= m[j] + MaxStall
    <3>1. i \in 1..Len(l) /\ m[i] = l[i] /\ m[i] \in Nat
      BY <1>2, <2>2, SMTT(30)
    <3>2. CASE j = Len(l) + 1
      <4>1. m[j] = now /\ m[i] <= c
        BY <3>2, <2>1, <1>2
      <4> QED
        BY <4>1, <3>1, <1>w
    <3>3. CASE j <= Len(l)
      <4>1. j \in 1..Len(l) /\ m[j] = l[j]
        BY <3>3, <1>2, SMTT(30)
      <4>2. l[i] <= l[j] + MaxStall
        BY <4>1, <3>1, <2>2 DEF KeyInv, NearlySorted
      <4> QED
        BY <4>1, <4>2, <3>1
    <3> QED
      BY <3>2, <3>3, <1>2
  <2> QED
    BY <2>1, <2>2 DEF NearlySorted
<1> QED
  BY <1>3, <1>4, <1>5, <1>6 DEF KeyInv, r, m

(***************************************************************************)
(* Emptying an idle deque forgets nothing the window is guaranteed to hold. *)
(***************************************************************************)
LEMMA SweepKeeps ==
  ASSUME NEW k \in Keys, NEW q \in Seq(Nat), NEW l \in Seq(Nat), NEW c \in Nat,
         KeyInv(k, q, l, c), NEW now \in Nat, now <= c, Idle(q, now)
  PROVE  KeyInv(k, <<>>, l, c)
<1>w. /\ Guaranteed(k) \in Int /\ Limit[k] \in Nat /\ MaxStall \in Nat
      /\ MaxIdle \in Nat /\ Guaranteed(k) + MaxStall <= MaxIdle
  BY GuaranteedBounds, LimitAssumption, TimeAssumption
<1>1. CASE q = <<>>
  BY <1>1
<1>2. CASE q # <<>>
  <2> DEFINE z == Len(l)
  <2>1. /\ Len(q) \in Nat /\ Len(q) >= 1 /\ Len(q) <= z /\ z \in Nat
        /\ l[z] = q[Len(q)]
    BY <1>2 DEF KeyInv, SuffixOf
  <2>2. l[z] <= now - MaxIdle
    BY <2>1, <1>2 DEF Idle
  <2>3. ASSUME NEW i \in 1..z PROVE l[i] <= c - Guaranteed(k)
    <3>1. l[i] <= l[z] + MaxStall
      <4>1. CASE i = z
        BY <4>1, <1>w
      <4>2. CASE i < z
        BY <4>2, <2>1 DEF KeyInv, NearlySorted
      <4> QED
        BY <4>1, <4>2
    <3>2. PICK x \in Int, y \in Int : x = l[i] /\ y = l[z]
      BY <2>1
    <3>3. PICK w \in Int, s \in Int, d \in Int :
            w = Guaranteed(k) /\ s = MaxStall /\ d = MaxIdle /\ w + s <= d
      BY <1>w
    <3>4. x <= y + s /\ y <= now - d
      BY <3>1, <3>2, <3>3, <2>2
    <3>5. x <= c - w
      BY <3>3, <3>4, SMTT(30)
    <3> QED
      BY <3>2, <3>3, <3>5
  <2>4. ForgottenBy(<<>>, l, c - Guaranteed(k))
    BY <2>3 DEF ForgottenBy
  <2>5. SuffixOf(<<>>, l)
    BY DEF SuffixOf
  <2> QED
    BY <2>4, <2>5, <1>w DEF KeyInv
<1> QED
  BY <1>1, <1>2

\* The passing of time forgets nothing that was not forgotten.
LEMMA AgeKeeps ==
  ASSUME NEW k \in Keys, NEW q \in Seq(Nat), NEW l \in Seq(Nat),
         NEW c \in Nat, NEW d \in Nat, c <= d, KeyInv(k, q, l, c)
  PROVE  KeyInv(k, q, l, d)
<1>w. Guaranteed(k) \in Int
  BY GuaranteedBounds
<1>1. Len(q) <= Limit[k] /\ SuffixOf(q, l)
  BY DEF KeyInv
<1>2. ForgottenBy(q, l, d - Guaranteed(k))
  <2> SUFFICES ASSUME NEW i \in 1..(Len(l) - Len(q))
               PROVE  l[i] <= d - Guaranteed(k)
    BY DEF ForgottenBy
  <2>1. l[i] <= c - Guaranteed(k)
    BY DEF KeyInv, ForgottenBy
  <2>2. l[i] \in Nat
    OBVIOUS
  <2> QED
    BY <2>1, <2>2, <1>w, SMTT(30)
<1>3. NearlySorted(l, d)
  BY DEF KeyInv, NearlySorted
<1> QED
  BY <1>1, <1>2, <1>3 DEF KeyInv

-----------------------------------------------------------------------------
LEMMA TypeInit == ASSUME Init PROVE TypeOK
BY TimeAssumption DEF Init, TypeOK, None

\* A check leaves everything it writes typed, refused or admitted.
LEMMA CheckType ==
  ASSUME TypeOK, NEW t \in Threads, NEW k \in Keys, Check(t, k)
  PROVE  TypeOK'
<1> DEFINE now == stamp[t]
<1>1. /\ now \in Nat /\ hits[k] \in Seq(Nat) /\ log[k] \in Seq(Nat)
      /\ stamp' = [stamp EXCEPT ![t] = None] /\ clock' = clock
  BY DEF Check, TypeOK, None
<1>2. PICK n \in 0..Len(hits[k]) :
        Refuse(t, k, Drop(hits[k], n)) \/ Admit(t, k, Drop(hits[k], n))
  BY DEF Check
<1> DEFINE q == Drop(hits[k], n)
<1>3. q \in Seq(Nat)
  BY <1>1, DropType
<1>4. stamp' \in [Threads -> Nat \cup {None}] /\ clock' \in Nat
  BY <1>1 DEF TypeOK
<1> HIDE DEF q
<1>5. CASE Refuse(t, k, q)
  <2>1. Len(q) >= 1
    BY <1>5, <1>3, LimitAssumption DEF Refuse, Full
  <2>2. q[1] \in Nat /\ Window[k] \in Nat
    BY <2>1, <1>3, WindowAssumption
  <2>3. now + RetryAfter(q, k, now) \in Int
    BY <2>2, <1>1 DEF RetryAfter
  <2>4. promise' \in [Keys -> Int]
    BY <1>5, <2>3 DEF Refuse, TypeOK
  <2> QED
    BY <1>5, <1>3, <1>4, <2>4 DEF Refuse, TypeOK
<1>6. CASE Admit(t, k, q)
  <2> DEFINE added == [hits EXCEPT ![k] = Append(q, now)]
  <2>1. /\ hits' = IF SweepDue THEN Swept(added, now) ELSE added
        /\ log' = [log EXCEPT ![k] = Append(@, now)]
        /\ sinceSweep' = IF SweepDue THEN 0 ELSE sinceSweep + 1
        /\ promise' = [promise EXCEPT ![k] = None]
    BY <1>6 DEF Admit
  <2>2. log' \in [Keys -> Seq(Nat)] /\ added \in [Keys -> Seq(Nat)]
    BY <2>1, <1>1, <1>3 DEF TypeOK
  <2> HIDE DEF added
  <2>3. Swept(added, now) \in [Keys -> Seq(Nat)]
    BY <2>2 DEF Swept
  <2>4. sinceSweep' \in 0..(SweepEvery - 1) /\ promise' \in [Keys -> Int]
    BY <2>1, TimeAssumption DEF TypeOK, None, SweepDue
  <2> QED
    BY <2>1, <2>2, <2>3, <2>4, <1>4 DEF TypeOK
<1> QED
  BY <1>2, <1>5, <1>6 DEF q

LEMMA TypeStep == ASSUME TypeOK, [Next]_vars PROVE TypeOK'
<1>1. CASE Tick
  BY <1>1 DEF Tick, TypeOK
<1>2. ASSUME NEW t \in Threads, Arrive(t) PROVE TypeOK'
  BY <1>2 DEF Arrive, TypeOK
<1>3. ASSUME NEW t \in Threads, NEW k \in Keys, Check(t, k) PROVE TypeOK'
  BY <1>3, CheckType
<1>4. CASE UNCHANGED vars
  BY <1>4 DEF vars, TypeOK
<1> QED
  BY <1>1, <1>2, <1>3, <1>4 DEF Next

(***************************************************************************)
(* Type correctness: whatever the limits and the horizon, stamps, deques   *)
(* and promises of ratelimit.py stay times, and the counter of admitted    *)
(* hits never reaches _SWEEP_EVERY.                                        *)
(***************************************************************************)
THEOREM TypeCorrect == Spec => []TypeOK
<1>1. Init => TypeOK
  BY TypeInit
<1>2. TypeOK /\ [Next]_vars => TypeOK'
  BY TypeStep
<1> QED
  BY <1>1, <1>2, PTL DEF Spec

-----------------------------------------------------------------------------
\* The invariant implies the bound: the window lies inside the deque.
LEMMA InvBounds == ASSUME IInv PROVE WindowBound
<1> SUFFICES ASSUME NEW k \in Keys
             PROVE  Cardinality(InWindow(k)) <= Limit[k]
  BY DEF WindowBound
<1> DEFINE lo == Len(log[k]) - Len(hits[k]) + 1
           hi == Len(log[k])
<1>1. /\ log[k] \in Seq(Nat) /\ hits[k] \in Seq(Nat) /\ clock \in Nat
      /\ KeyInv(k, hits[k], log[k], clock)
      /\ Guaranteed(k) \in Int /\ Limit[k] \in Nat
  BY GuaranteedBounds, LimitAssumption DEF IInv, TypeOK
<1>2. InWindow(k) \subseteq lo..hi
  <2> SUFFICES ASSUME NEW i \in 1..Len(log[k]), log[k][i] > clock - Guaranteed(k)
               PROVE  i \in lo..hi
    BY DEF InWindow
  <2>1. log[k][i] \in Nat
    BY <1>1
  <2>2. ~ (i \in 1..(Len(log[k]) - Len(hits[k])))
    <3>1. SUFFICES ASSUME i \in 1..(Len(log[k]) - Len(hits[k])) PROVE FALSE
      OBVIOUS
    <3>2. log[k][i] <= clock - Guaranteed(k)
      BY <1>1, <3>1 DEF KeyInv, ForgottenBy
    <3>3. clock - Guaranteed(k) \in Int
      BY <1>1
    <3> QED
      BY <2>1, <3>2, <3>3
  <2>3. PICK x \in Nat, y \in Nat : x = Len(hits[k]) /\ y = Len(log[k])
    BY <1>1
  <2>4. i \in 1..y /\ ~ (i \in 1..(y - x)) => i \in (y - x + 1)..y
    OBVIOUS
  <2> QED
    BY <2>2, <2>3, <2>4
<1>3. lo \in Int /\ hi \in Int
  BY <1>1
<1>4. /\ IsFiniteSet(lo..hi)
      /\ Cardinality(lo..hi) = IF lo > hi THEN 0 ELSE hi - lo + 1
  BY <1>3, FS_Interval
<1>5. Cardinality(lo..hi) = Len(hits[k])
  <2>1. Len(hits[k]) \in Nat /\ Len(log[k]) \in Nat
    BY <1>1
  <2>2. PICK x \in Nat, y \in Nat : x = Len(hits[k]) /\ y = Len(log[k])
    BY <2>1
  <2>3. lo = y - x + 1 /\ hi = y
    BY <2>2
  <2>4. (IF y - x + 1 > y THEN 0 ELSE y - (y - x + 1) + 1) = x
    OBVIOUS
  <2> HIDE DEF lo, hi
  <2> QED
    BY <2>2, <2>3, <2>4, <1>4
<1>6. /\ Cardinality(InWindow(k)) <= Cardinality(lo..hi)
      /\ IsFiniteSet(InWindow(k))
  BY <1>2, <1>4, FS_Subset
<1>7. Cardinality(InWindow(k)) \in Nat
  BY <1>6, FS_CardinalityType
<1> QED
  <2>1. Len(hits[k]) <= Limit[k] /\ Len(hits[k]) \in Nat
    BY <1>1 DEF KeyInv
  <2> HIDE DEF lo, hi
  <2> QED
    BY <2>1, <1>1, <1>5, <1>6, <1>7

LEMMA InitInv == ASSUME Init PROVE IInv
<1>1. TypeOK
  BY TypeInit
<1>2. StampsFresh
  BY DEF Init, StampsFresh
<1>3. ASSUME NEW k \in Keys PROVE KeyInv(k, <<>>, <<>>, 0)
  BY LimitAssumption DEF KeyInv, SuffixOf, ForgottenBy, NearlySorted
<1> QED
  BY <1>1, <1>2, <1>3 DEF Init, IInv

\* Every step of the limiter preserves the invariant.
LEMMA StepInv ==
  ASSUME IInv, [Next]_vars
  PROVE  IInv'
<1> USE DEF IInv
<1>t. TypeOK'
  BY TypeStep
<1>w. /\ MaxStall \in Nat /\ MaxIdle \in Nat
      /\ \A k \in Keys : Window[k] \in Nat /\ Limit[k] \in Nat
  BY TimeAssumption, WindowAssumption, LimitAssumption
<1>1. CASE Tick
  <2>2. StampsFresh'
    BY <1>1, <1>w DEF Tick, StampsFresh, TypeOK, None
  <2>3. ASSUME NEW k \in Keys PROVE KeyInv(k, hits'[k], log'[k], clock')
    <3>1. /\ clock' = clock + 1 /\ clock \in Nat
          /\ hits' = hits /\ log' = log /\ log[k] \in Seq(Nat)
      BY <1>1 DEF Tick, TypeOK
    <3>2. KeyInv(k, hits[k], log[k], clock)
      OBVIOUS
    <3>3. clock' \in Nat /\ clock <= clock' /\ hits[k] \in Seq(Nat)
      BY <3>1 DEF TypeOK
    <3>4. KeyInv(k, hits[k], log[k], clock')
      BY <3>1, <3>2, <3>3, AgeKeeps
    <3> QED
      BY <3>1, <3>4
  <2> QED
    BY <1>t, <2>2, <2>3
<1>2. ASSUME NEW t \in Threads, Arrive(t) PROVE IInv'
  <2>2. StampsFresh'
    BY <1>2, <1>w DEF Arrive, StampsFresh, TypeOK, None
  <2> QED
    BY <1>t, <1>2, <2>2 DEF Arrive
<1>3. ASSUME NEW t \in Threads, NEW k \in Keys, Check(t, k) PROVE IInv'
  <2> DEFINE now == stamp[t]
  <2>1. /\ now \in Nat /\ clock \in Nat /\ now <= clock /\ clock <= now + MaxStall
        /\ hits[k] \in Seq(Nat) /\ log[k] \in Seq(Nat)
    BY <1>3 DEF Check, TypeOK, StampsFresh, None
  <2>2. PICK n \in 0..Len(hits[k]) :
          /\ Prunes(hits[k], now - Window[k], n)
          /\ Refuse(t, k, Drop(hits[k], n)) \/ Admit(t, k, Drop(hits[k], n))
    BY <1>3 DEF Check
  <2> DEFINE q == Drop(hits[k], n)
  <2>3. q \in Seq(Nat)
    BY <2>1, DropType
  <2>4. KeyInv(k, q, log[k], clock)
    BY <2>1, <2>2, PruneKeeps
  <2>5. /\ stamp' = [stamp EXCEPT ![t] = None]
        /\ clock' = clock
    BY <1>3 DEF Check
  <2>6. StampsFresh'
    BY <2>5 DEF StampsFresh, TypeOK
  <2> HIDE DEF q
  <2>7. CASE Refuse(t, k, q)
    <3>1. /\ hits' = [hits EXCEPT ![k] = q] /\ log' = log
          /\ sinceSweep' = sinceSweep
      BY <2>7 DEF Refuse
    <3>4. ASSUME NEW j \in Keys PROVE KeyInv(j, hits'[j], log'[j], clock')
      BY <3>1, <2>4, <2>5 DEF TypeOK
    <3> QED
      BY <1>t, <3>4, <2>6
  <2>8. CASE Admit(t, k, q)
    <3> DEFINE added == [hits EXCEPT ![k] = Append(q, now)]
    <3>1. /\ ~Full(q, k)
          /\ hits' = IF SweepDue THEN Swept(added, now) ELSE added
          /\ log' = [log EXCEPT ![k] = Append(@, now)]
          /\ sinceSweep' = IF SweepDue THEN 0 ELSE sinceSweep + 1
          /\ promise' = [promise EXCEPT ![k] = None]
      BY <2>8 DEF Admit
    <3>2. KeyInv(k, Append(q, now), Append(log[k], now), clock)
      BY <3>1, <2>1, <2>3, <2>4, AppendKeeps
    <3>3. log' \in [Keys -> Seq(Nat)] /\ added \in [Keys -> Seq(Nat)]
      BY <3>1, <2>1, <2>3 DEF TypeOK
    <3>4. ASSUME NEW j \in Keys PROVE KeyInv(j, added[j], log'[j], clock)
      BY <3>1, <3>2 DEF TypeOK
    <3>5. ASSUME NEW j \in Keys
          PROVE  KeyInv(j, Swept(added, now)[j], log'[j], clock)
      <4> HIDE DEF added, now
      <4>1. KeyInv(j, added[j], log'[j], clock)
        BY <3>4
      <4>2. Swept(added, now)[j] = IF Idle(added[j], now) THEN <<>> ELSE added[j]
        BY DEF Swept
      <4>3. CASE Idle(added[j], now)
        <5>1. added[j] \in Seq(Nat) /\ log'[j] \in Seq(Nat)
          BY <3>3
        <5>2. KeyInv(j, <<>>, log'[j], clock)
          BY <4>1, <4>3, <5>1, <2>1, SweepKeeps
        <5> QED
          BY <4>2, <4>3, <5>2
      <4> QED
        BY <4>1, <4>2, <4>3
    <3> HIDE DEF added
    <3>9. ASSUME NEW j \in Keys PROVE KeyInv(j, hits'[j], log'[j], clock')
      BY <3>1, <3>4, <3>5, <2>5
    <3> QED
      BY <1>t, <3>9, <2>6
  <2> QED
    BY <2>2, <2>7, <2>8 DEF q
<1>4. CASE UNCHANGED vars
  BY <1>4 DEF vars, TypeOK, StampsFresh
<1> QED
  BY <1>1, <1>2, <1>3, <1>4 DEF Next

(***************************************************************************)
(* The sliding window of ratelimit.py, for every limit, window and         *)
(* horizon: at no time have more than Limit[k] of the hits admitted for a  *)
(* key been stamped within the last Window[k], or within the last          *)
(* MaxIdle - MaxStall when the window is longer than that.                 *)
(***************************************************************************)
THEOREM WindowBoundHolds == Spec => []WindowBound
<1>1. Init => IInv
  BY InitInv
<1>2. IInv /\ [Next]_vars => IInv'
  BY StepInv
<1>3. IInv => WindowBound
  BY InvBounds
<1> QED
  BY <1>1, <1>2, <1>3, PTL DEF Spec

-----------------------------------------------------------------------------
(***************************************************************************)
(* Retry-After.  The invariant: a promise that still stands is the moment  *)
(* the oldest hit of the deque leaves the window, unless the sweep has     *)
(* emptied the deque since; and no deque exceeds its limit, so that one    *)
(* hit gone is room enough.  Nothing is asked of the horizon.              *)
(***************************************************************************)
PromiseInv(k) ==
  /\ Len(hits[k]) <= Limit[k]
  /\ promise[k] # None /\ hits[k] # <<>> => promise[k] = hits[k][1] + Window[k]

RInv == TypeOK /\ \A k \in Keys : PromiseInv(k)

\* A check restates the promise, or withdraws it, for its own key.
LEMMA CheckPromise ==
  ASSUME RInv, NEW t \in Threads, NEW k \in Keys, Check(t, k), NEW j \in Keys
  PROVE  PromiseInv(j)'
<1> DEFINE now == stamp[t]
<1>1. /\ now \in Nat /\ hits[k] \in Seq(Nat) /\ hits[j] \in Seq(Nat)
      /\ Window[k] \in Nat /\ Limit[k] \in Nat \ {0} /\ Limit[j] \in Nat
  BY WindowAssumption, LimitAssumption DEF RInv, Check, TypeOK, None
<1>2. PICK n \in 0..Len(hits[k]) :
        Refuse(t, k, Drop(hits[k], n)) \/ Admit(t, k, Drop(hits[k], n))
  BY DEF Check
<1> DEFINE q == Drop(hits[k], n)
<1>3. q \in Seq(Nat) /\ Len(q) <= Limit[k]
  <2>1. q \in Seq(Nat) /\ Len(q) = Len(hits[k]) - n
    BY <1>1, DropType
  <2>2. Len(hits[k]) <= Limit[k] /\ Len(hits[k]) \in Nat
    BY <1>1 DEF RInv, PromiseInv
  <2> HIDE DEF q
  <2> QED
    BY <2>1, <2>2, <1>1
<1> HIDE DEF q
<1>4. CASE Refuse(t, k, q)
  <2>1. Len(q) >= 1
    BY <1>4, <1>1, <1>3 DEF Refuse, Full
  <2>2. q[1] \in Nat
    BY <2>1, <1>3
  <2>3. now + RetryAfter(q, k, now) = q[1] + Window[k]
    BY <2>2, <1>1 DEF RetryAfter
  <2>4. /\ hits' = [hits EXCEPT ![k] = q]
        /\ promise' = [promise EXCEPT ![k] = q[1] + Window[k]]
    BY <1>4, <2>3 DEF Refuse
  <2> QED
    BY <2>4, <1>3 DEF RInv, TypeOK, PromiseInv
<1>5. CASE Admit(t, k, q)
  <2> DEFINE added == [hits EXCEPT ![k] = Append(q, now)]
  <2>1. /\ hits' = IF SweepDue THEN Swept(added, now) ELSE added
        /\ promise' = [promise EXCEPT ![k] = None]
        /\ Len(q) < Limit[k]
    BY <1>1, <1>3, <1>5 DEF Admit, Full
  <2>2. added[j] = IF j = k THEN Append(q, now) ELSE hits[j]
    BY DEF RInv, TypeOK
  <2>3. Len(Append(q, now)) = Len(q) + 1
    BY <1>1, <1>3
  <2>4. Len(added[j]) <= Limit[j]
    BY <2>1, <2>2, <2>3, <1>1, <1>3 DEF RInv, PromiseInv
  <2> HIDE DEF added
  <2>5. hits'[j] = added[j] \/ hits'[j] = <<>>
    BY <2>1 DEF Swept
  <2>6. j # k => promise'[j] = promise[j]
    BY <2>1 DEF RInv, TypeOK
  <2>7. promise'[k] = None
    BY <2>1 DEF RInv, TypeOK
  <2>8. Len(hits'[j]) <= Limit[j]
    BY <2>4, <2>5, <1>1
  <2> QED
    BY <2>2, <2>5, <2>6, <2>7, <2>8 DEF RInv, PromiseInv
<1> QED
  BY <1>2, <1>4, <1>5 DEF q

LEMMA PromiseStep == ASSUME RInv, [Next]_vars PROVE RInv'
<1>1. TypeOK'
  BY TypeStep DEF RInv
<1>2. ASSUME NEW j \in Keys PROVE PromiseInv(j)'
  <2>1. ASSUME NEW t \in Threads, NEW k \in Keys, Check(t, k) PROVE PromiseInv(j)'
    BY <2>1, CheckPromise
  <2>2. CASE Tick \/ (\E t \in Threads : Arrive(t)) \/ UNCHANGED vars
    BY <2>2 DEF Tick, Arrive, vars, RInv, PromiseInv
  <2> QED
    BY <2>1, <2>2 DEF Next
<1> QED
  BY <1>1, <1>2 DEF RInv

\* A caller that waited as long as it was told finds room.
LEMMA PromiseKept ==
  ASSUME RInv, NEW t \in Threads, NEW k \in Keys,
         Check(t, k), promise[k] # None, stamp[t] >= promise[k]
  PROVE  promise'[k] = None
<1> DEFINE now == stamp[t]
<1>1. /\ now \in Nat /\ hits[k] \in Seq(Nat) /\ promise \in [Keys -> Int]
      /\ Window[k] \in Nat /\ Limit[k] \in Nat \ {0}
  BY WindowAssumption, LimitAssumption DEF RInv, Check, TypeOK, None
<1>2. PICK n \in 0..Len(hits[k]) :
        /\ Prunes(hits[k], now - Window[k], n)
        /\ Refuse(t, k, Drop(hits[k], n)) \/ Admit(t, k, Drop(hits[k], n))
  BY DEF Check
<1>3. Len(Drop(hits[k], n)) = Len(hits[k]) - n
  BY <1>1, DropType
<1>4. ~Full(Drop(hits[k], n), k)
  <2>1. SUFFICES ASSUME Full(Drop(hits[k], n), k) PROVE FALSE
    OBVIOUS
  <2>2. n = 0 /\ Len(hits[k]) >= 1
    BY <2>1, <1>1, <1>3 DEF Full, RInv, PromiseInv
  <2>3. promise[k] = hits[k][1] + Window[k] /\ hits[k][1] \in Nat
    BY <2>2, <1>1 DEF RInv, PromiseInv
  <2>4. ~Expired(hits[k][1], now - Window[k])
    BY <2>2, <1>2 DEF Prunes
  <2> QED
    BY <2>3, <2>4, <1>1 DEF Expired
<1> QED
  BY <1>1, <1>2, <1>4 DEF Refuse, Admit

(***************************************************************************)
(* The Retry-After of a refusal is honest: a caller that comes back no     *)
(* earlier than told, nobody having been admitted under its key since, is  *)
(* admitted, for every limit, window, stall and horizon.                   *)
(***************************************************************************)
THEOREM RetryAfterKept == Spec => RetryAfterHonest
<1> DEFINE Kept == \A t \in Threads, k \in Keys :
                     Check(t, k) /\ promise[k] # None /\ stamp[t] >= promise[k]
                       => promise'[k] = None
<1>1. Init => RInv
  BY TypeInit, LimitAssumption DEF Init, RInv, PromiseInv
<1>2. RInv /\ [Next]_vars => RInv'
  BY PromiseStep
<1>3. RInv /\ [Next]_vars => [Kept]_vars
  BY PromiseKept
<1> HIDE DEF Kept
<1>4. Spec => [][Kept]_vars
  BY <1>1, <1>2, <1>3, PTL DEF Spec
<1> QED
  BY <1>4 DEF Kept, RetryAfterHonest

=============================================================================
