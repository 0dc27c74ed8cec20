----------------------------- MODULE RateLimiter -----------------------------
(***************************************************************************)
(* The in-memory sliding-window rate limiter of bbv2/ratelimit.py.  One    *)
(* process-wide instance guards the consumer API (api.py), the dashboard's *)
(* create and provision routes (dashboard_api.py), the avatar route        *)
(* (dashboard_profile.py) and the chat route (dashboard_chat.py).          *)
(*                                                                         *)
(* check() reads the wall clock BEFORE it takes the lock, so a thread may  *)
(* enter the critical section with a time that is already old and the      *)
(* deque of a key need not be sorted.  Arrive is the clock read, Check the *)
(* critical section.  The sweep runs inside Check, over every key, as it   *)
(* does in the code.                                                       *)
(*                                                                         *)
(* Time is a counter of ticks and never runs backwards (a step of the wall *)
(* clock is not modelled).  A key whose deque is empty and a key absent    *)
(* from the dictionary are the same to check(), which reads a defaultdict. *)
(***************************************************************************)
EXTENDS Integers, Sequences, FiniteSets

CONSTANTS
  Keys,        \* (action, user) pairs, one deque each
  Threads,     \* threads of the request pool that call check()
  Limit,       \* Limit[k]: hits admitted per window
  Window,      \* Window[k]: length of the window, in ticks
  MaxIdle,     \* _MAX_IDLE_S, the sweep's idle horizon
  SweepEvery,  \* _SWEEP_EVERY, admitted hits between two sweeps
  MaxStall,    \* longest time from a thread's clock read to its lock
  MaxClock     \* bound on time

ASSUME LimitAssumption  == Limit \in [Keys -> Nat \ {0}]
ASSUME WindowAssumption == Window \in [Keys -> Nat \ {0}]
ASSUME TimeAssumption   == /\ MaxIdle \in Nat /\ MaxStall \in Nat
                           /\ MaxClock \in Nat /\ SweepEvery \in Nat \ {0}

VARIABLES
  clock,       \* the wall clock
  stamp,       \* stamp[t]: `now` of the call thread t is in, or None
  hits,        \* hits[k]: the deque of key k
  sinceSweep,  \* _since_sweep
  log,         \* history: log[k], the stamps admitted for k, in order
  promise      \* history: the time the last refusal of k told its caller to
               \* come back, None once a hit of k has been admitted since

vars == <<clock, stamp, hits, sinceSweep, log, promise>>

None == -1

TypeOK ==
  /\ clock \in Nat
  /\ stamp \in [Threads -> Nat \cup {None}]
  /\ hits \in [Keys -> Seq(Nat)]
  /\ sinceSweep \in 0..(SweepEvery - 1)
  /\ log \in [Keys -> Seq(Nat)]
  /\ promise \in [Keys -> Int]

Init ==
  /\ clock = 0
  /\ stamp = [t \in Threads |-> None]
  /\ hits = [k \in Keys |-> <<>>]
  /\ sinceSweep = 0
  /\ log = [k \in Keys |-> <<>>]
  /\ promise = [k \in Keys |-> None]

-----------------------------------------------------------------------------
(***************************************************************************)
(* Pruning: n hits are popped from the left, all at or before the cutoff,  *)
(* and the next one, if any, is after it.                                  *)
(***************************************************************************)
Expired(at, cutoff) == at <= cutoff

Prunes(q, cutoff, n) ==
  /\ n \in 0..Len(q)
  /\ \A i \in 1..n : Expired(q[i], cutoff)
  /\ n < Len(q) => ~Expired(q[n + 1], cutoff)

Drop(q, n) == SubSeq(q, n + 1, Len(q))

Full(q, k) == Len(q) >= Limit[k]

\* Faulty variant: the time since the oldest hit, not the time it has left.
ElapsedRetryAfter(q, k, now) == now - q[1]

RetryAfter(q, k, now) == Window[k] - (now - q[1])

\* Faulty variant: the sweep judges a key by its FIRST hit.
FirstIdle(q, now) == q = <<>> \/ q[1] <= now - MaxIdle

\* A key is idle when it has no hit, or its LAST hit is at the horizon.
Idle(q, now) == q = <<>> \/ q[Len(q)] <= now - MaxIdle

\* Faulty variant: the sweep comes one admitted hit late.
SweepLate == sinceSweep >= SweepEvery

SweepDue == sinceSweep + 1 >= SweepEvery

Swept(h, now) == [k \in Keys |-> IF Idle(h[k], now) THEN <<>> ELSE h[k]]

-----------------------------------------------------------------------------
(***************************************************************************)
(* Time passes, but a thread waits at most MaxStall for the lock.          *)
(***************************************************************************)
Tick ==
  /\ clock < MaxClock
  /\ \A t \in Threads : stamp[t] # None => clock < stamp[t] + MaxStall
  /\ clock' = clock + 1
  /\ UNCHANGED <<stamp, hits, sinceSweep, log, promise>>

\* `now = _time()`, before the lock.
Arrive(t) ==
  /\ stamp[t] = None
  /\ stamp' = [stamp EXCEPT ![t] = clock]
  /\ UNCHANGED <<clock, hits, sinceSweep, log, promise>>

\* The critical section when the pruned deque is still full.
Refuse(t, k, q) ==
  /\ Full(q, k)
  /\ hits' = [hits EXCEPT ![k] = q]
  /\ promise' = [promise EXCEPT ![k] = stamp[t] + RetryAfter(q, k, stamp[t])]
  /\ UNCHANGED <<sinceSweep, log>>

\* The critical section when there is room: append, count, maybe sweep.
Admit(t, k, q) ==
  /\ ~Full(q, k)
  /\ LET added == [hits EXCEPT ![k] = Append(q, stamp[t])]
     IN  hits' = IF SweepDue THEN Swept(added, stamp[t]) ELSE added
  /\ sinceSweep' = IF SweepDue THEN 0 ELSE sinceSweep + 1
  /\ log' = [log EXCEPT ![k] = Append(@, stamp[t])]
  /\ promise' = [promise EXCEPT ![k] = None]

Check(t, k) ==
  /\ stamp[t] # None
  /\ \E n \in 0..Len(hits[k]) :
       /\ Prunes(hits[k], stamp[t] - Window[k], n)
       /\ LET q == Drop(hits[k], n) IN Refuse(t, k, q) \/ Admit(t, k, q)
  /\ stamp' = [stamp EXCEPT ![t] = None]
  /\ UNCHANGED clock

Next ==
  \/ Tick
  \/ \E t \in Threads : Arrive(t) \/ \E k \in Keys : Check(t, k)

Spec == Init /\ [][Next]_vars

-----------------------------------------------------------------------------
(***************************************************************************)
(* The promise of the module's docstring, a sliding window, as far as the  *)
(* sweep lets it hold: of the hits admitted for a key, at most Limit[k]    *)
(* carry a time inside the window that ends now.  It survives out-of-order *)
(* times and pruning with an old `now`.  The sweep judges a key by its     *)
(* LAST hit, which may be up to MaxStall older than one before it, so of a *)
(* window longer than MaxIdle - MaxStall only that much is guaranteed.     *)
(* The routes' windows of an hour are as long as _MAX_IDLE_S itself; the   *)
(* others are far shorter and guaranteed whole.                            *)
(***************************************************************************)
Guaranteed(k) ==
  IF Window[k] <= MaxIdle - MaxStall THEN Window[k] ELSE MaxIdle - MaxStall

InWindow(k) == {i \in 1..Len(log[k]) : log[k][i] > clock - Guaranteed(k)}

WindowBound == \A k \in Keys : Cardinality(InWindow(k)) <= Limit[k]

(***************************************************************************)
(* Retry-After is honest: a caller that comes back no earlier than it was  *)
(* told, nobody having been admitted under its key meanwhile, is not       *)
(* refused again.                                                          *)
(***************************************************************************)
RetryAfterHonest ==
  [][\A t \in Threads, k \in Keys :
       Check(t, k) /\ promise[k] # None /\ stamp[t] >= promise[k]
         => promise'[k] = None]_vars

=============================================================================
