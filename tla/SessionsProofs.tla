---------------------------- MODULE SessionsProofs ----------------------------
(***************************************************************************)
(* Proofs about Sessions, for any accounts, threads and number of          *)
(* sessions.                                                               *)
(***************************************************************************)
EXTENDS Sessions, FiniteSetTheorems, TLAPS

LEMMA TypeInit == ASSUME Init PROVE Typed
BY BoundAssumption, UsersAssumption
   DEF Init, Typed, Ids, Roles, AssignableRoles, PCs, UpdatePCs, LoginPCs, RotatePCs, CreatedPCs, LocalsSet,
       Bodies, NoBody, Keep

\* A new session leaves the table typed.
LEMMA CreateType ==
  ASSUME Typed, NEW u \in Users, NEW p \in 0..made, CreateSession(u, p)
  PROVE  /\ made' \in 0..MaxSessions /\ lapsed' \in 0..made'
         /\ 0..made \subseteq 0..made' /\ made + 1 \in 1..made'
         /\ 1..made \subseteq 1..made'
         /\ owner' \in [Ids -> Users \cup {NoUser}]
         /\ \A s \in 1..made' : owner'[s] \in Users
         /\ revoked' \in [Ids -> BOOLEAN]
         /\ next' \in [Ids -> 0..made'] /\ parent' \in [Ids -> 0..made']
         /\ ended' \subseteq 1..made'
<1>1. made' = made + 1 /\ made + 1 \in Ids /\ made \in Nat /\ MaxSessions \in Nat
  BY BoundAssumption DEF CreateSession, Typed, Ids
<1>2. /\ 0..made \subseteq 0..made' /\ 1..made \subseteq 1..made'
      /\ made + 1 \in 1..made' /\ made' \in 0..MaxSessions /\ lapsed' \in 0..made'
  BY <1>1 DEF CreateSession, Typed, Ids
<1>3. \A s \in 1..made' : owner'[s] \in Users
  BY <1>1 DEF CreateSession, Typed, Ids
<1> QED
  BY <1>1, <1>2, <1>3 DEF CreateSession, Typed

\* The reply leaves the locals of the thread typed.
LEMMA DoneType ==
  ASSUME Typed, NEW t \in Threads, Done(t)
  PROVE  /\ pc' \in [Threads -> PCs]
         /\ user' \in [Threads -> Users \cup {NoUser}]
         /\ \A r \in Threads : pc'[r] # "idle" => user'[r] \in Users
         /\ old' \in [Threads -> 0..made] /\ new' \in [Threads -> 0..made]
         /\ body' \in [Threads -> Bodies]
         /\ stale' \subseteq Threads
         /\ \A r \in Threads : LocalsSet(r)'
<1>1. NoBody \in Bodies
  BY DEF NoBody, Bodies, Keep
<1>2. \A r \in Threads : 
        r # t => /\ pc'[r] = pc[r] /\ user'[r] = user[r] /\ body'[r] = body[r]
                 /\ old'[r] = old[r] /\ new'[r] = new[r]
  BY DEF Done, Typed
<1>3. pc'[t] = "idle"
  BY DEF Done, Typed
<1>4. /\ pc' \in [Threads -> PCs] /\ user' \in [Threads -> Users \cup {NoUser}]
      /\ old' \in [Threads -> 0..made] /\ new' \in [Threads -> 0..made]
      /\ body' \in [Threads -> Bodies] /\ stale' \subseteq Threads
  BY <1>1 DEF Done, Typed, PCs, UpdatePCs, LoginPCs, LocalsSet, RotatePCs, CreatedPCs
<1> QED
  BY <1>2, <1>3, <1>4 DEF Typed, LocalsSet, RotatePCs, CreatedPCs

LEMMA TypeStep == ASSUME Typed, [Next]_vars PROVE Typed'
<1> USE DEF accounts, rows, locals, KeepLocals, At, GoTo
<1>1. ASSUME NEW t \in Threads, Exchange(t) PROVE Typed'
  <2>1. ASSUME NEW u \in Users, ExchangeAddUser(t, u) PROVE Typed'
    BY <2>1 DEF ExchangeAddUser, Typed, PCs, UpdatePCs, LoginPCs, LocalsSet, RotatePCs, CreatedPCs
  <2>2. CASE ExchangePromote(t)
    BY <2>2 DEF ExchangePromote, Typed, PCs, UpdatePCs, Roles, LoginPCs, LocalsSet, RotatePCs, CreatedPCs
  <2>3. CASE ExchangeDeny(t)
    BY <2>3, DoneType DEF ExchangeDeny, Typed
  <2>4. CASE ExchangeAllow(t)
    BY <2>4 DEF ExchangeAllow, Typed, PCs, UpdatePCs, LoginPCs, LocalsSet, RotatePCs, CreatedPCs
  <2>5. CASE ExchangeFindSpace(t)
    BY <2>5 DEF ExchangeFindSpace, Typed, PCs, UpdatePCs, LoginPCs, LocalsSet, RotatePCs, CreatedPCs
  <2>6. CASE ExchangeCreateSpace(t)
    BY <2>6 DEF ExchangeCreateSpace, Typed, PCs, UpdatePCs, LoginPCs, LocalsSet, RotatePCs, CreatedPCs
  <2>7. CASE ExchangeCreateSession(t)
    <3>1. /\ CreateSession(user[t], 0) /\ Done(t) /\ UNCHANGED <<accounts, cut>>
          /\ delivered' = delivered \cup {made + 1} /\ user[t] \in Users
      BY <2>7 DEF ExchangeCreateSession, Typed
    <3> QED
      BY <3>1, CreateType, DoneType DEF Typed
  <2> QED
    BY <1>1, <2>1, <2>2, <2>3, <2>4, <2>5, <2>6, <2>7 DEF Exchange
<1>2. ASSUME NEW t \in Threads, Refresh(t) PROVE Typed'
  <2>1. ASSUME NEW s \in Ids, RotateRead(t, s) PROVE Typed'
    BY <2>1 DEF RotateRead, Live, Typed, PCs, UpdatePCs, LoginPCs, LocalsSet, RotatePCs, CreatedPCs
  <2>2. CASE RotateCreate(t)
    <3>1. /\ CreateSession(user[t], old[t]) /\ user[t] \in Users /\ old[t] \in 0..made
          /\ pc' = [pc EXCEPT ![t] = "rotate_link"]
          /\ new' = [new EXCEPT ![t] = made + 1]
          /\ UNCHANGED <<accounts, delivered, user, old, body, stale, cut>>
      BY <2>2 DEF RotateCreate, Typed, RotatePCs
    <3>2. /\ pc' \in [Threads -> PCs] /\ user' \in [Threads -> Users \cup {NoUser}]
          /\ \A r \in Threads : pc'[r] # "idle" => user'[r] \in Users
      BY <3>1 DEF Typed, PCs, RotatePCs, CreatedPCs
    <3>3. \A r \in Threads : LocalsSet(r)'
      <4>1. old[t] # 0 /\ made \in Nat /\ new \in [Threads -> 0..made]
        BY <2>2 DEF RotateCreate, Typed, LocalsSet, RotatePCs
      <4> QED
        BY <3>1, <4>1 DEF Typed, LocalsSet, RotatePCs, CreatedPCs
    <3>4. old' \in [Threads -> 0..made'] /\ new' \in [Threads -> 0..made']
      BY <3>1, CreateType DEF Typed
    <3> QED
      BY <3>1, <3>2, <3>3, <3>4, CreateType DEF Typed
  <2>3. CASE RotateLink(t)
    BY <2>3 DEF RotateLink, Typed, PCs, UpdatePCs, LoginPCs, LocalsSet, RotatePCs, CreatedPCs
  <2>4. CASE RefreshDeliver(t)
    <3>1. new[t] \in 1..made
      <4>1. pc[t] \in CreatedPCs /\ new[t] \in 0..made /\ made \in Nat
        BY <2>4 DEF RefreshDeliver, Typed, CreatedPCs
      <4>2. new[t] # 0
        BY <4>1 DEF Typed, LocalsSet
      <4> QED
        BY <4>1, <4>2
    <3> QED
      BY <2>4, <3>1, DoneType DEF RefreshDeliver, Typed
  <2>5. CASE RefreshReject(t)
    <3>1. /\ Done(t) /\ revoked' = [revoked EXCEPT ![new[t]] = TRUE]
          /\ UNCHANGED <<accounts, made, owner, next, lapsed, parent, ended, delivered, cut>>
      BY <2>5 DEF RefreshReject
    <3> QED
      BY <3>1, DoneType DEF Typed
  <2> QED
    BY <1>2, <2>1, <2>2, <2>3, <2>4, <2>5 DEF Refresh
<1>3. ASSUME NEW t \in Threads, UpdateUser(t) PROVE Typed'
  <2>1. ASSUME NEW u \in Users, NEW b \in Bodies, UpdateRead(t, u, b) PROVE Typed'
    <3>1. /\ status' = status /\ role' = role /\ spaces' = spaces /\ UNCHANGED <<rows, delivered, old, new, stale, cut>>
          /\ b \in Bodies /\ b # NoBody
          /\ pc' = [pc EXCEPT ![t] = IF b.role = Keep THEN "set_status" ELSE "set_role"]
          /\ user' = [user EXCEPT ![t] = u] /\ body' = [body EXCEPT ![t] = b]
      BY <2>1 DEF UpdateRead
    <3>2. b.role = Keep => b.status # Keep
      BY <3>1 DEF NoBody, Bodies
    <3> QED
      BY <3>1, <3>2 DEF Typed, PCs, UpdatePCs, LoginPCs, LocalsSet, RotatePCs, CreatedPCs
  <2>2. CASE UpdateRole(t)
    <3>1. /\ pc[t] = "set_role" /\ role' = [role EXCEPT ![user[t]] = body[t].role]
          /\ UNCHANGED <<status, spaces, rows, delivered, cut>>
      BY <2>2 DEF UpdateRole
    <3>2. role' \in [Users -> Roles]
      <4>1. body[t].role \in Roles
        <5>1. body[t] \in Bodies /\ body[t].role # Keep
          BY <3>1 DEF Typed, LocalsSet
        <5>2. body[t].role \in AssignableRoles \cup {Keep}
          <6> DEFINE A == AssignableRoles \cup {Keep}
          <6>1. body[t] \in [role : A, status : {"active", "disabled", Keep}]
            BY <5>1 DEF Bodies
          <6> HIDE DEF A
          <6>2. body[t].role \in A
            BY <6>1
          <6> QED
            BY <6>2 DEF A
        <5> QED
          BY <5>1, <5>2 DEF Roles
      <4> QED
        BY <3>1, <4>1 DEF Typed
    <3>3. CASE Done(t)
      BY <3>1, <3>2, <3>3, DoneType DEF Typed
    <3>4. CASE /\ body[t].status # Keep
               /\ pc' = [pc EXCEPT ![t] = "set_status"]
               /\ UNCHANGED <<user, old, new, body, stale>>
      BY <3>1, <3>2, <3>4 DEF Typed, PCs, UpdatePCs, LoginPCs, LocalsSet, RotatePCs, CreatedPCs
    <3> QED
      BY <2>2, <3>3, <3>4 DEF UpdateRole
  <2>3. CASE UpdateStatus(t)
    <3>1. /\ pc[t] = "set_status" /\ status' = [status EXCEPT ![user[t]] = body[t].status]
          /\ cut' = [cut EXCEPT ![user[t]] = IF @ = "clean" THEN @ ELSE "none"]
          /\ UNCHANGED <<role, spaces, rows, delivered>>
      BY <2>3 DEF UpdateStatus
    <3>2. /\ status' \in [Users -> {"absent", "active", "disabled"}]
          /\ cut' \in [Users -> {"none", "clean", "rotation", "login"}]
      <4>1. body[t].status \in {"active", "disabled"}
        <5>1. body[t] \in Bodies /\ body[t].status # Keep
          BY <3>1 DEF Typed, LocalsSet
        <5>2. body[t].status \in {"active", "disabled", Keep}
          <6> DEFINE A == {"active", "disabled", Keep}
          <6>1. body[t] \in [role : AssignableRoles \cup {Keep}, status : A]
            BY <5>1 DEF Bodies
          <6> HIDE DEF A
          <6>2. body[t].status \in A
            BY <6>1
          <6> QED
            BY <6>2 DEF A
        <5> QED
          BY <5>1, <5>2
      <4> QED
        BY <3>1, <4>1 DEF Typed
    <3>3. CASE Done(t)
      BY <3>1, <3>2, <3>3, DoneType DEF Typed
    <3>4. CASE pc' = [pc EXCEPT ![t] = "revoke"] /\ UNCHANGED <<user, old, new, body, stale>>
      BY <3>1, <3>2, <3>4 DEF Typed, PCs, UpdatePCs, LoginPCs, LocalsSet, RotatePCs, CreatedPCs
    <3> QED
      BY <2>3, <3>3, <3>4 DEF UpdateStatus
  <2>4. CASE UpdateRevoke(t)
    BY <2>4, DoneType DEF UpdateRevoke, Typed, AllRevoked, Cut
  <2> QED
    BY <1>3, <2>1, <2>2, <2>3, <2>4 DEF UpdateUser
<1>4. ASSUME NEW t \in Threads, Crash(t) PROVE Typed'
  BY <1>4, DoneType DEF Crash, Typed
<1>5. ASSUME NEW s \in Ids, Logout(s) PROVE Typed'
  BY <1>5 DEF Logout, Typed, LocalsSet
<1>6. ASSUME NEW u \in Users, RevokeSessions(u) PROVE Typed'
  BY <1>6 DEF RevokeSessions, Typed, LocalsSet, AllRevoked, Cut
<1>7. CASE Expire
  BY <1>7 DEF Expire, Typed, LocalsSet
<1>8. CASE UNCHANGED vars
  BY <1>8 DEF vars, Typed, LocalsSet
<1>9. ASSUME NEW u \in Users, NEW r \in {"human", "user"}, AddUser(u, r) PROVE Typed'
  BY <1>9 DEF AddUser, Typed, LocalsSet, Roles, AssignableRoles
<1> QED
  BY <1>1, <1>2, <1>3, <1>4, <1>5, <1>6, <1>7, <1>8, <1>9 DEF Next

-----------------------------------------------------------------------------
(***************************************************************************)
(* Forced logouts.  The inductive invariant adds to the two properties who *)
(* may be half-way: after a clean cut no login and no rotation of the user *)
(* is about to create a session, after a cut that caught a rotation no     *)
(* login is, and a session being rotated in belongs to its thread's user.  *)
(***************************************************************************)
NoLogin(u)    == \A t \in Threads : pc[t] \in LoginPCs => user[t] # u
NoRotation(u) == \A t \in Threads : pc[t] = "rotate_create" => user[t] # u

CleanInv(u) ==
  cut[u] = "clean" =>
    /\ \A s \in SessionsOf(u) : ~Live(s)
    /\ NoLogin(u) /\ NoRotation(u)

RotationInv(u) ==
  cut[u] = "rotation" /\ status[u] = "disabled" =>
    /\ \A s \in SessionsOf(u) \cap delivered : ~Live(s)
    /\ NoLogin(u)

NewOwned == \A t \in Threads : pc[t] \in CreatedPCs => owner[new[t]] = user[t]

IInv ==
  /\ Typed
  /\ NewOwned
  /\ \A u \in Users : CleanInv(u) /\ RotationInv(u)

\* No thread comes nearer to creating or delivering a session.
NoNearer ==
  \A r \in Threads :
    /\ pc'[r] \in LoginPCs => pc[r] \in LoginPCs /\ user'[r] = user[r]
    /\ pc'[r] = "rotate_create" => pc[r] = "rotate_create" /\ user'[r] = user[r]
    /\ pc'[r] \in CreatedPCs =>
         pc[r] \in CreatedPCs /\ user'[r] = user[r] /\ new'[r] = new[r]

\* No session appears, is delivered or comes back to life.
NoneRevived ==
  /\ made' = made /\ owner' = owner /\ delivered' = delivered
  /\ \A s \in 1..made : Live(s)' => Live(s)

LEMMA QuietStep ==
  ASSUME IInv, Typed', NoNearer, NoneRevived, cut' = cut,
         \A u \in Users : status'[u] = "disabled" => status[u] = "disabled"
  PROVE  IInv'
<1>1. NewOwned'
  BY DEF IInv, NewOwned, NoNearer, NoneRevived
<1>2. ASSUME NEW u \in Users PROVE CleanInv(u)'
  <2> SUFFICES ASSUME cut'[u] = "clean"
               PROVE  /\ \A s \in SessionsOf(u)' : ~Live(s)'
                      /\ NoLogin(u)' /\ NoRotation(u)'
    BY DEF CleanInv
  <2>1. CleanInv(u) /\ cut[u] = "clean"
    BY DEF IInv
  <2> QED
    BY <2>1 DEF CleanInv, NoneRevived, NoNearer, NoLogin, NoRotation, SessionsOf
<1>3. ASSUME NEW u \in Users PROVE RotationInv(u)'
  <2> SUFFICES ASSUME cut'[u] = "rotation", status'[u] = "disabled"
               PROVE  /\ \A s \in (SessionsOf(u) \cap delivered)' : ~Live(s)'
                      /\ NoLogin(u)'
    BY DEF RotationInv
  <2>1. RotationInv(u) /\ cut[u] = "rotation" /\ status[u] = "disabled"
    BY DEF IInv
  <2> QED
    BY <2>1 DEF RotationInv, NoneRevived, NoNearer, NoLogin, SessionsOf
<1> QED
  BY <1>1, <1>2, <1>3 DEF IInv

\* A reply brings no thread nearer.
LEMMA DoneNoNearer ==
  ASSUME Typed, NEW t \in Threads, Done(t) PROVE NoNearer
BY DEF Done, NoNearer, Typed, LoginPCs, CreatedPCs

\* What revoke_user_sessions does to the rows.
RevokedAll(u) ==
  /\ revoked' = AllRevoked(u) /\ Cut(u)
  /\ UNCHANGED <<made, owner, lapsed, delivered, status>>

LEMMA CutStep ==
  ASSUME IInv, Typed', NEW u \in Users, RevokedAll(u), NoNearer
  PROVE  IInv'
<1>1. NewOwned'
  BY DEF IInv, NewOwned, NoNearer, RevokedAll
<1>2. /\ \A s \in 1..made : Live(s)' => Live(s)
      /\ \A s \in SessionsOf(u)' : ~Live(s)'
  <2>1. /\ made' = made /\ owner' = owner /\ lapsed' = lapsed
        /\ Typed
        /\ revoked' = [s \in Ids |-> revoked[s] \/ (s \in 1..made /\ owner[s] = u)]
    BY DEF RevokedAll, AllRevoked, IInv
  <2>2. 1..made \subseteq Ids
    BY <2>1, BoundAssumption DEF Typed, Ids
  <2>3. ASSUME NEW s \in 1..made
        PROVE  /\ Live(s)' => Live(s)
               /\ owner[s] = u => ~Live(s)'
    <3>1. revoked'[s] = (revoked[s] \/ owner[s] = u)
      BY <2>1, <2>2
    <3> QED
      BY <2>1, <3>1 DEF Live
  <2> QED
    BY <2>1, <2>3 DEF SessionsOf
<1>3. ASSUME NEW v \in Users, v # u PROVE CleanInv(v)' /\ RotationInv(v)'
  <2>1. cut'[v] = cut[v] /\ CleanInv(v) /\ RotationInv(v)
    BY <1>3 DEF RevokedAll, Cut, IInv, Typed
  <2> QED
    BY <2>1, <1>2 DEF CleanInv, RotationInv, NoNearer, NoLogin, NoRotation, SessionsOf, RevokedAll
<1>4. CleanInv(u)' /\ RotationInv(u)'
  <2>1. cut'[u] = IF LoginInFlight(u) THEN "login"
                  ELSE IF RotationInFlight(u) THEN "rotation" ELSE "clean"
    BY DEF RevokedAll, Cut, IInv, Typed
  <2>2. CASE LoginInFlight(u)
    BY <2>1, <2>2 DEF CleanInv, RotationInv
  <2>3. CASE ~LoginInFlight(u)
    <3>1. NoLogin(u)'
      BY <2>3 DEF LoginInFlight, NoLogin, NoNearer
    <3>2. ~RotationInFlight(u) => NoRotation(u)'
      BY DEF RotationInFlight, NoRotation, NoNearer
    <3>3. cut'[u] = "clean" => ~RotationInFlight(u)
      BY <2>1, <2>3
    <3> QED
      BY <3>1, <3>2, <3>3, <1>2 DEF CleanInv, RotationInv
  <2> QED
    BY <2>2, <2>3
<1> QED
  BY <1>1, <1>3, <1>4 DEF IInv

LEMMA InitInv == ASSUME Init PROVE IInv
BY TypeInit DEF Init, IInv, NewOwned, CleanInv, RotationInv, CreatedPCs

LEMMA StepInv == ASSUME IInv, [Next]_vars PROVE IInv'
<1>1. Typed /\ Typed'
  BY TypeStep DEF IInv
<1> USE DEF accounts, rows, locals, KeepLocals, At, GoTo
<1>2. ASSUME NEW t \in Threads, Exchange(t) PROVE IInv'
  <2>1. ASSUME NEW u \in Users, ExchangeAddUser(t, u) PROVE IInv'
    <3>1. NoNearer
      BY <1>1, <2>1 DEF ExchangeAddUser, NoNearer, Typed, LoginPCs, CreatedPCs
    <3>2. NoneRevived /\ cut' = cut
      BY <2>1 DEF ExchangeAddUser, NoneRevived, Live
    <3>3. \A v \in Users : status'[v] = "disabled" => status[v] = "disabled"
      BY <1>1, <2>1 DEF ExchangeAddUser, Typed
    <3> QED
      BY <3>1, <3>2, <3>3, <1>1, QuietStep
  <2>2. CASE ExchangePromote(t)
    <3>1. NoNearer
      BY <1>1, <2>2 DEF ExchangePromote, NoNearer, Typed, LoginPCs, CreatedPCs
    <3>2. NoneRevived /\ cut' = cut /\ status' = status
      BY <2>2 DEF ExchangePromote, NoneRevived, Live
    <3> QED
      BY <3>1, <3>2, <1>1, QuietStep
  <2>3. CASE ExchangeDeny(t)
    <3>1. NoneRevived /\ cut' = cut /\ status' = status /\ Done(t)
      BY <2>3 DEF ExchangeDeny, NoneRevived, Live
    <3> QED
      BY <3>1, <1>1, DoneNoNearer, QuietStep
  <2>4. CASE ExchangeAllow(t)
    <3>1. /\ pc' = [pc EXCEPT ![t] = "find_space"] /\ user' = user /\ new' = new
          /\ cut' = [cut EXCEPT ![user[t]] = "none"]
          /\ status' = status /\ user[t] \in Users
          /\ UNCHANGED <<made, owner, revoked, lapsed, delivered>>
      BY <1>1, <2>4 DEF ExchangeAllow, Typed
    <3>2. NewOwned'
      BY <1>1, <3>1 DEF IInv, NewOwned, Typed, CreatedPCs
    <3>3. ASSUME NEW v \in Users PROVE CleanInv(v)' /\ RotationInv(v)'
      <4>1. CASE v = user[t]
        BY <1>1, <3>1, <4>1 DEF CleanInv, RotationInv, Typed
      <4>2. CASE v # user[t]
        BY <1>1, <3>1, <4>2
           DEF IInv, CleanInv, RotationInv, NoLogin, NoRotation, Typed, SessionsOf, Live
      <4> QED
        BY <4>1, <4>2
    <3> QED
      BY <1>1, <3>2, <3>3 DEF IInv
  <2>5. CASE ExchangeFindSpace(t)
    <3>1. NoNearer
      BY <1>1, <2>5 DEF ExchangeFindSpace, NoNearer, Typed, LoginPCs, CreatedPCs
    <3>2. NoneRevived /\ cut' = cut /\ status' = status
      BY <2>5 DEF ExchangeFindSpace, NoneRevived, Live
    <3> QED
      BY <3>1, <3>2, <1>1, QuietStep
  <2>6. CASE ExchangeCreateSpace(t)
    <3>1. NoNearer
      BY <1>1, <2>6 DEF ExchangeCreateSpace, NoNearer, Typed, LoginPCs, CreatedPCs
    <3>2. NoneRevived /\ cut' = cut /\ status' = status
      BY <2>6 DEF ExchangeCreateSpace, NoneRevived, Live
    <3> QED
      BY <3>1, <3>2, <1>1, QuietStep
  <2>7. CASE ExchangeCreateSession(t)
    <3>1. /\ pc[t] \in LoginPCs /\ user[t] \in Users /\ Done(t)
          /\ made' = made + 1 /\ owner' = [owner EXCEPT ![made + 1] = user[t]]
          /\ UNCHANGED <<revoked, lapsed, status, cut>>
          /\ delivered' = delivered \cup {made + 1}
          /\ made \in Nat /\ made + 1 \in Ids
      BY <1>1, <2>7, BoundAssumption
         DEF ExchangeCreateSession, CreateSession, Typed, LoginPCs, Ids
    <3>2. NoNearer
      BY <1>1, <3>1, DoneNoNearer
    <3>3. NewOwned'
      <4>1. \A r \in Threads : pc[r] \in CreatedPCs => new[r] # made + 1
        BY <1>1, <3>1 DEF Typed
      <4> QED
        BY <1>1, <3>1, <3>2, <4>1 DEF IInv, NewOwned, NoNearer, Typed
    <3>4. ASSUME NEW v \in Users PROVE CleanInv(v)' /\ RotationInv(v)'
      <4>1. CASE v = user[t]
        <5>1. cut[v] # "clean" /\ ~(cut[v] = "rotation" /\ status[v] = "disabled")
          BY <3>1, <4>1 DEF IInv, CleanInv, RotationInv, NoLogin
        <5> QED
          BY <5>1, <3>1 DEF CleanInv, RotationInv
      <4>2. CASE v # user[t]
        <5>1. /\ SessionsOf(v)' = SessionsOf(v)
              /\ (SessionsOf(v) \cap delivered)' = SessionsOf(v) \cap delivered
          BY <1>1, <3>1, <4>2 DEF SessionsOf, Typed
        <5>2. \A s \in SessionsOf(v) : Live(s)' => Live(s)
          BY <1>1, <3>1 DEF SessionsOf, Live, Typed
        <5> QED
          BY <5>1, <5>2, <3>1, <3>2
             DEF IInv, CleanInv, RotationInv, NoLogin, NoRotation, NoNearer
      <4> QED
        BY <4>1, <4>2
    <3> QED
      BY <1>1, <3>3, <3>4 DEF IInv
  <2> QED
    BY <1>2, <2>1, <2>2, <2>3, <2>4, <2>5, <2>6, <2>7 DEF Exchange
<1>3. ASSUME NEW t \in Threads, Refresh(t) PROVE IInv'
  <2>1. ASSUME NEW s \in Ids, RotateRead(t, s) PROVE IInv'
    <3>1. /\ pc' = [pc EXCEPT ![t] = "rotate_create"]
          /\ user' = [user EXCEPT ![t] = owner[s]] /\ new' = new
          /\ UNCHANGED <<made, owner, revoked, lapsed, delivered, status, cut>>
          /\ s \in delivered /\ Live(s) /\ s \in 1..made
      BY <1>1, <2>1 DEF RotateRead, Typed
    <3>2. NewOwned'
      BY <1>1, <3>1 DEF IInv, NewOwned, Typed, CreatedPCs
    <3>3. ASSUME NEW v \in Users PROVE CleanInv(v)' /\ RotationInv(v)'
      <4>1. \A r \in 1..made : Live(r)' = Live(r)
        BY <3>1 DEF Live
      <4>2. cut[v] = "clean" => owner[s] # v
        BY <3>1 DEF IInv, CleanInv, SessionsOf
      <4> QED
        BY <1>1, <3>1, <4>1, <4>2
           DEF IInv, CleanInv, RotationInv, NoLogin, NoRotation, Typed, SessionsOf, LoginPCs
    <3> QED
      BY <1>1, <3>2, <3>3 DEF IInv
  <2>2. CASE RotateCreate(t)
    <3>1. /\ pc[t] = "rotate_create" /\ user[t] \in Users
          /\ pc' = [pc EXCEPT ![t] = "rotate_link"] /\ user' = user
          /\ new' = [new EXCEPT ![t] = made + 1]
          /\ made' = made + 1 /\ owner' = [owner EXCEPT ![made + 1] = user[t]]
          /\ UNCHANGED <<revoked, lapsed, status, cut, delivered>>
          /\ made \in Nat /\ made + 1 \in Ids
      BY <1>1, <2>2, BoundAssumption DEF RotateCreate, CreateSession, Typed, Ids
    <3>2. NewOwned'
      <4>1. \A r \in Threads : pc[r] \in CreatedPCs => new[r] # made + 1
        BY <1>1, <3>1 DEF Typed
      <4> QED
        BY <1>1, <3>1, <4>1 DEF IInv, NewOwned, Typed, CreatedPCs
    <3>3. ASSUME NEW v \in Users PROVE CleanInv(v)' /\ RotationInv(v)'
      <4>1. /\ NoLogin(v) => NoLogin(v)'
            /\ NoRotation(v) => NoRotation(v)'
        BY <1>1, <3>1 DEF NoLogin, NoRotation, Typed, LoginPCs
      <4>2. (SessionsOf(v) \cap delivered)' = SessionsOf(v) \cap delivered
        BY <1>1, <3>1 DEF SessionsOf, Typed
      <4>3. \A s \in 1..made : Live(s)' => Live(s)
        BY <1>1, <3>1 DEF Live, Typed
      <4>4. RotationInv(v)'
        BY <3>1, <4>1, <4>2, <4>3 DEF IInv, RotationInv, SessionsOf
      <4>5. cut[v] = "clean" => SessionsOf(v)' = SessionsOf(v)
        <5>1. cut[v] = "clean" => user[t] # v
          BY <3>1 DEF IInv, CleanInv, NoRotation
        <5>2. made' = made + 1 /\ made \in Nat /\ 1..made' = 1..made \cup {made + 1}
          BY <3>1
        <5>3. /\ owner'[made + 1] = user[t]
              /\ \A s \in 1..made : owner'[s] = owner[s]
          BY <1>1, <3>1 DEF Typed
        <5> QED
          BY <5>1, <5>2, <5>3 DEF SessionsOf
      <4>6. CleanInv(v)'
        BY <3>1, <4>1, <4>3, <4>5 DEF IInv, CleanInv, SessionsOf
      <4> QED
        BY <4>4, <4>6
    <3> QED
      BY <1>1, <3>2, <3>3 DEF IInv
  <2>3. CASE RotateLink(t)
    <3>1. NoNearer
      BY <1>1, <2>3 DEF RotateLink, NoNearer, Typed, LoginPCs, CreatedPCs
    <3>2. NoneRevived /\ cut' = cut /\ status' = status
      BY <1>1, <2>3 DEF RotateLink, NoneRevived, Live, Typed, Ids
    <3> QED
      BY <3>1, <3>2, <1>1, QuietStep
  <2>4. CASE RefreshDeliver(t)
    <3>1. /\ pc[t] \in CreatedPCs /\ status[user[t]] = "active" /\ Done(t)
          /\ delivered' = delivered \cup {new[t]} /\ owner[new[t]] = user[t]
          /\ UNCHANGED <<made, owner, revoked, lapsed, status, cut>>
      BY <2>4 DEF RefreshDeliver, CreatedPCs, Active, IInv, NewOwned
    <3>2. NoNearer
      BY <1>1, <3>1, DoneNoNearer
    <3>3. NewOwned'
      BY <3>1, <3>2 DEF IInv, NewOwned, NoNearer
    <3>4. ASSUME NEW v \in Users PROVE CleanInv(v)' /\ RotationInv(v)'
      <4>1. \A s \in 1..made : Live(s)' = Live(s)
        BY <3>1 DEF Live
      <4>2. CleanInv(v)'
        BY <3>1, <3>2, <4>1
           DEF IInv, CleanInv, NoLogin, NoRotation, NoNearer, SessionsOf
      <4>3. status[v] = "disabled" =>
              (SessionsOf(v) \cap delivered)' = SessionsOf(v) \cap delivered
        BY <3>1 DEF SessionsOf
      <4>4. RotationInv(v)'
        BY <3>1, <3>2, <4>1, <4>3 DEF IInv, RotationInv, NoLogin, NoNearer, SessionsOf
      <4> QED
        BY <4>2, <4>4
    <3> QED
      BY <1>1, <3>3, <3>4 DEF IInv
  <2>5. CASE RefreshReject(t)
    <3>1. NoneRevived /\ cut' = cut /\ status' = status /\ Done(t)
      BY <1>1, <2>5 DEF RefreshReject, NoneRevived, Live, Typed, Ids
    <3> QED
      BY <3>1, <1>1, DoneNoNearer, QuietStep
  <2> QED
    BY <1>3, <2>1, <2>2, <2>3, <2>4, <2>5 DEF Refresh
<1>4. ASSUME NEW t \in Threads, UpdateUser(t) PROVE IInv'
  <2>1. ASSUME NEW u \in Users, NEW b \in Bodies, UpdateRead(t, u, b) PROVE IInv'
    <3>1. NoNearer
      BY <1>1, <2>1 DEF UpdateRead, NoNearer, Typed, LoginPCs, CreatedPCs
    <3>2. NoneRevived /\ cut' = cut /\ status' = status
      BY <2>1 DEF UpdateRead, NoneRevived, Live
    <3> QED
      BY <3>1, <3>2, <1>1, QuietStep
  <2>2. CASE UpdateRole(t)
    <3>1. NoNearer
      BY <1>1, <2>2, DoneNoNearer DEF UpdateRole, NoNearer, Typed, LoginPCs, CreatedPCs
    <3>2. NoneRevived /\ cut' = cut /\ status' = status
      BY <2>2 DEF UpdateRole, NoneRevived, Live
    <3> QED
      BY <3>1, <3>2, <1>1, QuietStep
  <2>3. CASE UpdateStatus(t)
    <3>1. NoNearer
      BY <1>1, <2>3, DoneNoNearer DEF UpdateStatus, NoNearer, Typed, LoginPCs, CreatedPCs
    <3>2. /\ NoneRevived /\ user[t] \in Users
          /\ status' = [status EXCEPT ![user[t]] = body[t].status]
          /\ cut' = [cut EXCEPT ![user[t]] = IF @ = "clean" THEN @ ELSE "none"]
      BY <1>1, <2>3 DEF UpdateStatus, NoneRevived, Live, Typed
    <3>3. NewOwned'
      BY <3>1, <3>2 DEF IInv, NewOwned, NoNearer, NoneRevived
    <3>4. ASSUME NEW v \in Users PROVE CleanInv(v)' /\ RotationInv(v)'
      <4>1. /\ cut'[v] = "clean" => cut[v] = "clean"
            /\ cut'[v] = "rotation" => cut[v] = "rotation" /\ status'[v] = status[v]
        BY <1>1, <3>2 DEF Typed
      <4>2. CleanInv(v)'
        BY <3>1, <3>2, <4>1
           DEF IInv, CleanInv, NoneRevived, NoNearer, NoLogin, NoRotation, SessionsOf
      <4>3. RotationInv(v)'
        BY <3>1, <3>2, <4>1
           DEF IInv, RotationInv, NoneRevived, NoNearer, NoLogin, SessionsOf
      <4> QED
        BY <4>2, <4>3
    <3> QED
      BY <1>1, <3>3, <3>4 DEF IInv
  <2>4. CASE UpdateRevoke(t)
    <3>1. RevokedAll(user[t]) /\ Done(t) /\ user[t] \in Users
      BY <1>1, <2>4 DEF UpdateRevoke, RevokedAll, Typed
    <3> QED
      BY <3>1, <1>1, DoneNoNearer, CutStep
  <2> QED
    BY <1>4, <2>1, <2>2, <2>3, <2>4 DEF UpdateUser
<1>5. ASSUME NEW t \in Threads, Crash(t) PROVE IInv'
  <2>1. NoneRevived /\ cut' = cut /\ status' = status /\ Done(t)
    BY <1>5 DEF Crash, NoneRevived, Live
  <2> QED
    BY <2>1, <1>1, DoneNoNearer, QuietStep
<1>6. ASSUME NEW s \in Ids, Logout(s) PROVE IInv'
  <2>1. NoneRevived /\ cut' = cut /\ status' = status /\ NoNearer
    BY <1>1, <1>6 DEF Logout, NoneRevived, NoNearer, Live, Typed, Ids
  <2> QED
    BY <2>1, <1>1, QuietStep
<1>7. ASSUME NEW u \in Users, RevokeSessions(u) PROVE IInv'
  <2>1. RevokedAll(u) /\ NoNearer
    BY <1>7 DEF RevokeSessions, RevokedAll, NoNearer
  <2> QED
    BY <2>1, <1>1, CutStep
<1>8. CASE Expire
  <2>1. NoneRevived /\ cut' = cut /\ status' = status /\ NoNearer
    BY <1>1, <1>8 DEF Expire, NoneRevived, NoNearer, Live, Typed
  <2> QED
    BY <2>1, <1>1, QuietStep
<1>9. CASE UNCHANGED vars
  <2>1. NoneRevived /\ cut' = cut /\ status' = status /\ NoNearer
    BY <1>9 DEF vars, NoneRevived, NoNearer, Live
  <2> QED
    BY <2>1, <1>1, QuietStep
<1>10. ASSUME NEW u \in Users, NEW r \in {"human", "user"}, AddUser(u, r) PROVE IInv'
  <2>1. /\ NoneRevived /\ cut' = cut /\ NoNearer
        /\ status' = [status EXCEPT ![u] = "active"]
    BY <1>10 DEF AddUser, NoneRevived, NoNearer, Live
  <2>2. \A v \in Users : status'[v] = "disabled" => status[v] = "disabled"
    BY <1>1, <2>1 DEF Typed
  <2> QED
    BY <2>1, <2>2, <1>1, <1>10, TypeStep, QuietStep DEF IInv, Next
<1> QED
  BY <1>2, <1>3, <1>4, <1>5, <1>6, <1>7, <1>8, <1>9, <1>10 DEF Next

LEMMA InvImplies == ASSUME IInv PROVE CleanCutIsFinal /\ RotationCannotLeak
BY DEF IInv, CleanInv, RotationInv, CleanCutIsFinal, RotationCannotLeak

(***************************************************************************)
(* A forced logout with nothing in flight is final, and a rotation in      *)
(* flight cannot hand a disabled account a live session.                   *)
(***************************************************************************)
THEOREM ForcedLogoutSafe == Spec => []ForcedLogoutIsFinal
<1>1. Init => IInv
  BY InitInv
<1>2. IInv /\ [Next]_vars => IInv'
  BY StepInv
<1>3. IInv => ForcedLogoutIsFinal
  BY InvImplies DEF ForcedLogoutIsFinal
<1> QED
  BY <1>1, <1>2, <1>3, PTL DEF Spec

-----------------------------------------------------------------------------
(***************************************************************************)
(* The rotation chain.  The inductive invariant adds to ChainSound what a  *)
(* thread in the middle of a rotation knows: the session it read is its    *)
(* user's, the one it made is younger, of the same user, and remembers the *)
(* one it was made from; and past the link the old one is revoked.  What   *)
(* another thread does to the same session meanwhile takes none of it      *)
(* back, for rows are only added and revoked.                              *)
(***************************************************************************)
RotationKnows(t) ==
  /\ pc[t] = "rotate_create" => old[t] \in 1..made /\ owner[old[t]] = user[t]
  /\ pc[t] \in CreatedPCs =>
       /\ old[t] \in 1..made /\ new[t] \in 1..made /\ old[t] < new[t]
       /\ owner[old[t]] = owner[new[t]] /\ parent[new[t]] = old[t]
  /\ pc[t] = "rotate_check" => revoked[old[t]]

NextOfRows == \A s \in Ids : next[s] # 0 => s \in 1..made

ChainInv ==
  /\ Typed
  /\ \A t \in Threads : RotationKnows(t)
  /\ NextOfRows
  /\ ChainSound

\* Threads in a rotation stay where they are or leave it.
RotationsRest ==
  \A r \in Threads : pc'[r] \in RotatePCs =>
    pc'[r] = pc[r] /\ user'[r] = user[r] /\ old'[r] = old[r] /\ new'[r] = new[r]

\* Of the rows of user_sessions nothing changes but that some are revoked.
OnlyRevoked ==
  /\ UNCHANGED <<made, owner, next, parent, delivered>>
  /\ \A s \in Ids : revoked[s] => revoked'[s]

LEMMA RowIds == ASSUME Typed PROVE 1..made \subseteq Ids /\ made \in Nat
BY BoundAssumption DEF Typed, Ids

LEMMA KnowsStep ==
  ASSUME ChainInv, OnlyRevoked, NEW r \in Threads,
         pc'[r] \in RotatePCs =>
           pc'[r] = pc[r] /\ user'[r] = user[r] /\ old'[r] = old[r] /\ new'[r] = new[r]
  PROVE  RotationKnows(r)'
<1>1. 1..made \subseteq Ids
  BY RowIds DEF ChainInv
<1>2. RotationKnows(r)
  BY DEF ChainInv
<1>3. CASE pc'[r] \in RotatePCs
  BY <1>1, <1>2, <1>3 DEF RotationKnows, OnlyRevoked, RotatePCs, CreatedPCs
<1>4. CASE pc'[r] \notin RotatePCs
  BY <1>4 DEF RotationKnows, RotatePCs, CreatedPCs
<1> QED
  BY <1>3, <1>4

LEMMA SoundStep ==
  ASSUME ChainInv, OnlyRevoked PROVE NextOfRows' /\ ChainSound'
<1>1. 1..made \subseteq Ids
  BY RowIds DEF ChainInv
<1>2. ASSUME NEW s \in delivered, parent[s] # 0
      PROVE  revoked'[parent[s]] /\ owner[parent[s]] = owner[s]
  <2>1. revoked[parent[s]] /\ owner[parent[s]] = owner[s]
    BY <1>2 DEF ChainInv, ChainSound
  <2>2. parent[s] \in 1..made
    BY <1>1, <1>2, RowIds DEF ChainInv, Typed
  <2> QED
    BY <1>1, <2>1, <2>2 DEF OnlyRevoked
<1>3. ASSUME NEW s \in 1..made, next[s] # 0
      PROVE  /\ revoked'[s] /\ next[s] > s
             /\ owner[next[s]] = owner[s] /\ parent[next[s]] = s
  BY <1>1, <1>3 DEF ChainInv, ChainSound, OnlyRevoked
<1> QED
  BY <1>2, <1>3 DEF ChainInv, NextOfRows, ChainSound, OnlyRevoked

LEMMA ChainRests ==
  ASSUME ChainInv, Typed', OnlyRevoked, RotationsRest PROVE ChainInv'
BY KnowsStep, SoundStep DEF ChainInv, RotationsRest

\* The first statement of a rotation.
LEMMA ChainRead ==
  ASSUME ChainInv, Typed', NEW t \in Threads, NEW s \in Ids, RotateRead(t, s)
  PROVE  ChainInv'
<1>1. /\ OnlyRevoked /\ s \in 1..made
      /\ pc' = [pc EXCEPT ![t] = "rotate_create"]
      /\ user' = [user EXCEPT ![t] = owner[s]]
      /\ old' = [old EXCEPT ![t] = s] /\ new' = new
  BY DEF RotateRead, OnlyRevoked, Live, GoTo, rows
<1>2. ASSUME NEW r \in Threads PROVE RotationKnows(r)'
  <2>1. CASE r = t
    BY <1>1, <2>1 DEF ChainInv, Typed, RotationKnows, OnlyRevoked, CreatedPCs
  <2>2. CASE r # t
    BY <1>1, <2>2, KnowsStep DEF ChainInv, Typed
  <2> QED
    BY <2>1, <2>2
<1> QED
  BY <1>1, <1>2, SoundStep DEF ChainInv

\* A row is added: at login with its cookies, or by a rotation without.
LEMMA ChainGrows ==
  ASSUME ChainInv, Typed', NEW u \in Users, NEW p \in 0..made, CreateSession(u, p),
         delivered' = delivered \/ (p = 0 /\ delivered' = delivered \cup {made + 1})
  PROVE  /\ NextOfRows' /\ ChainSound'
         /\ \A r \in Threads :
              (pc'[r] = pc[r] /\ user'[r] = user[r] /\ old'[r] = old[r] /\ new'[r] = new[r])
                \/ pc'[r] \notin RotatePCs
              => RotationKnows(r)'
<1>1. /\ made' = made + 1 /\ made \in Nat /\ made + 1 \in Ids
      /\ 1..made \subseteq Ids /\ made + 1 \notin 1..made
      /\ 1..made' = 1..made \cup {made + 1}
  <2>1. made' = made + 1 /\ made \in Nat /\ 1..made \subseteq Ids /\ MaxSessions \in Nat
    BY RowIds, BoundAssumption DEF ChainInv, CreateSession
  <2>2. made + 1 \in Ids
    BY <2>1 DEF CreateSession, Ids
  <2> QED
    BY <2>1, <2>2
<1>2. /\ owner'[made + 1] = u /\ parent'[made + 1] = p
      /\ \A s \in 1..made : owner'[s] = owner[s] /\ parent'[s] = parent[s]
      /\ revoked' = revoked /\ next' = next
  BY <1>1 DEF ChainInv, CreateSession, Typed
<1>3. NextOfRows'
  BY <1>1, <1>2 DEF ChainInv, NextOfRows
<1>4. ASSUME NEW s \in delivered', parent'[s] # 0
      PROVE  revoked'[parent'[s]] /\ owner'[parent'[s]] = owner'[s]
  <2>1. s \in delivered /\ s \in 1..made
    BY <1>1, <1>2, <1>4 DEF ChainInv, Typed
  <2>2. parent[s] # 0 /\ parent[s] \in 1..made
    BY <1>1, <1>2, <1>4, <2>1 DEF ChainInv, Typed
  <2>3. revoked[parent[s]] /\ owner[parent[s]] = owner[s]
    BY <2>1, <2>2 DEF ChainInv, ChainSound
  <2> QED
    BY <1>2, <2>1, <2>2, <2>3
<1>5. ASSUME NEW s \in 1..made', next'[s] # 0
      PROVE  /\ revoked'[s] /\ next'[s] > s
             /\ owner'[next'[s]] = owner'[s] /\ parent'[next'[s]] = s
  <2>1. s \in 1..made /\ next[s] \in 1..made
    <3>1. s \in Ids /\ next[s] # 0
      BY <1>1, <1>2, <1>5
    <3>2. s \in 1..made /\ next[s] \in 0..made
      BY <3>1 DEF ChainInv, NextOfRows, Typed
    <3> QED
      BY <3>1, <3>2, <1>1
  <2>2. revoked[s] /\ next[s] > s /\ owner[next[s]] = owner[s] /\ parent[next[s]] = s
    BY <1>2, <1>5, <2>1 DEF ChainInv, ChainSound
  <2> QED
    BY <1>2, <2>1, <2>2
<1>6. ChainSound'
  BY <1>4, <1>5 DEF ChainSound
<1>7. ASSUME NEW r \in Threads,
             (pc'[r] = pc[r] /\ user'[r] = user[r] /\ old'[r] = old[r] /\ new'[r] = new[r])
               \/ pc'[r] \notin RotatePCs
      PROVE  RotationKnows(r)'
  <2>1. RotationKnows(r)
    BY DEF ChainInv
  <2>2. CASE pc'[r] \notin RotatePCs
    BY <2>2 DEF RotationKnows, RotatePCs, CreatedPCs
  <2>3. CASE pc'[r] = pc[r] /\ user'[r] = user[r] /\ old'[r] = old[r] /\ new'[r] = new[r]
    BY <1>1, <1>2, <2>1, <2>3 DEF RotationKnows
  <2> QED
    BY <1>7, <2>2, <2>3
<1> QED
  BY <1>3, <1>6, <1>7

\* The second statement of a rotation.
LEMMA ChainCreate ==
  ASSUME ChainInv, Typed', NEW t \in Threads, RotateCreate(t) PROVE ChainInv'
<1>1. /\ pc[t] = "rotate_create" /\ user[t] \in Users
      /\ old[t] \in 1..made /\ owner[old[t]] = user[t]
      /\ CreateSession(user[t], old[t]) /\ delivered' = delivered
      /\ pc' = [pc EXCEPT ![t] = "rotate_link"] /\ user' = user
      /\ old' = old /\ new' = [new EXCEPT ![t] = made + 1]
  BY DEF RotateCreate, At, GoTo, ChainInv, Typed, RotationKnows
<1>2. 1..made \subseteq 0..made /\ made \in Nat
  BY RowIds DEF ChainInv
<1>3. RotationKnows(t)'
  <2>1. made' = made + 1 /\ made + 1 \in Ids
    BY <1>1, <1>2, BoundAssumption DEF CreateSession, Ids
  <2>2. /\ owner'[made + 1] = user[t] /\ owner'[old[t]] = owner[old[t]]
        /\ parent'[made + 1] = old[t]
    BY <1>1, <1>2, <2>1 DEF CreateSession, ChainInv, Typed
  <2>3. pc'[t] = "rotate_link" /\ old'[t] = old[t] /\ new'[t] = made + 1
    BY <1>1 DEF ChainInv, Typed
  <2> QED
    BY <1>1, <1>2, <2>1, <2>2, <2>3 DEF RotationKnows
<1>4. /\ NextOfRows' /\ ChainSound'
      /\ \A r \in Threads :
           (pc'[r] = pc[r] /\ user'[r] = user[r] /\ old'[r] = old[r] /\ new'[r] = new[r])
             \/ pc'[r] \notin RotatePCs
           => RotationKnows(r)'
  BY <1>1, <1>2, ChainGrows
<1>5. \A r \in Threads \ {t} : RotationKnows(r)'
  BY <1>1, <1>4 DEF ChainInv, Typed
<1> QED
  BY <1>3, <1>4, <1>5 DEF ChainInv

LEMMA ChainLogin ==
  ASSUME ChainInv, Typed', NEW t \in Threads, ExchangeCreateSession(t) PROVE ChainInv'
<1>1. /\ CreateSession(user[t], 0) /\ delivered' = delivered \cup {made + 1}
      /\ user[t] \in Users /\ 0 \in 0..made /\ Done(t)
  BY RowIds DEF ExchangeCreateSession, At, ChainInv, Typed
<1>2. \A r \in Threads :
        (pc'[r] = pc[r] /\ user'[r] = user[r] /\ old'[r] = old[r] /\ new'[r] = new[r])
          \/ pc'[r] \notin RotatePCs
  BY <1>1 DEF Done, ChainInv, Typed, RotatePCs, CreatedPCs
<1> QED
  BY <1>1, <1>2, ChainGrows DEF ChainInv

\* The third statement: from here on the old session leads to the new.
LEMMA ChainLink ==
  ASSUME ChainInv, Typed', NEW t \in Threads, RotateLink(t) PROVE ChainInv'
<1>1. /\ pc[t] = "rotate_link"
      /\ pc' = [pc EXCEPT ![t] = "rotate_check"]
      /\ revoked' = [revoked EXCEPT ![old[t]] = TRUE]
      /\ next' = [next EXCEPT ![old[t]] = new[t]]
      /\ UNCHANGED <<made, owner, parent, delivered, user, old, new>>
  BY DEF RotateLink, At, GoTo, KeepLocals
<1>2. /\ old[t] \in 1..made /\ new[t] \in 1..made /\ old[t] < new[t]
      /\ owner[old[t]] = owner[new[t]] /\ parent[new[t]] = old[t]
  BY <1>1 DEF ChainInv, RotationKnows, CreatedPCs
<1>3. 1..made \subseteq Ids /\ made \in Nat
  BY RowIds DEF ChainInv
<1>4. /\ revoked'[old[t]] /\ next'[old[t]] = new[t]
      /\ \A s \in Ids : revoked[s] => revoked'[s]
      /\ \A s \in Ids : s # old[t] => next'[s] = next[s]
  BY <1>1, <1>2, <1>3 DEF ChainInv, Typed
<1>5. ASSUME NEW r \in Threads PROVE RotationKnows(r)'
  <2>1. RotationKnows(r) /\ (pc'[r] = pc[r] \/ (r = t /\ pc'[r] = "rotate_check"))
    BY <1>1 DEF ChainInv, Typed
  <2> QED
    BY <1>1, <1>2, <1>3, <1>4, <2>1 DEF RotationKnows, CreatedPCs
<1>6. NextOfRows'
  BY <1>1, <1>2, <1>4 DEF ChainInv, NextOfRows
<1>7. ASSUME NEW s \in delivered, parent[s] # 0
      PROVE  revoked'[parent[s]] /\ owner[parent[s]] = owner[s]
  <2>1. parent[s] \in 1..made
    BY <1>3, <1>7 DEF ChainInv, Typed
  <2> QED
    BY <1>3, <1>4, <1>7, <2>1 DEF ChainInv, ChainSound
<1>8. ASSUME NEW s \in 1..made, next'[s] # 0
      PROVE  /\ revoked'[s] /\ next'[s] > s
             /\ owner[next'[s]] = owner[s] /\ parent[next'[s]] = s
  <2>1. CASE s = old[t]
    BY <1>2, <1>4, <2>1
  <2>2. CASE s # old[t]
    BY <1>3, <1>4, <1>8, <2>2 DEF ChainInv, ChainSound
  <2> QED
    BY <2>1, <2>2
<1> QED
  BY <1>1, <1>5, <1>6, <1>7, <1>8 DEF ChainInv, ChainSound

\* The reply: the cookies of the new session leave the server.
LEMMA ChainDeliver ==
  ASSUME ChainInv, Typed', NEW t \in Threads, RefreshDeliver(t) PROVE ChainInv'
<1>1. /\ pc[t] = "rotate_check" /\ Done(t) /\ delivered' = delivered \cup {new[t]}
      /\ UNCHANGED <<made, owner, revoked, next, parent>>
  BY DEF RefreshDeliver, At, rows
<1>2. parent[new[t]] = old[t] /\ revoked[old[t]] /\ owner[old[t]] = owner[new[t]]
  BY <1>1 DEF ChainInv, RotationKnows, CreatedPCs
<1>3. ASSUME NEW r \in Threads PROVE RotationKnows(r)'
  <2>1. CASE pc'[r] \notin RotatePCs
    BY <2>1 DEF RotationKnows, RotatePCs, CreatedPCs
  <2>2. CASE pc'[r] \in RotatePCs
    <3>1. pc'[r] = pc[r] /\ user'[r] = user[r] /\ old'[r] = old[r] /\ new'[r] = new[r]
      BY <1>1, <2>2 DEF Done, ChainInv, Typed, RotatePCs, CreatedPCs
    <3> QED
      BY <1>1, <3>1 DEF ChainInv, RotationKnows
  <2> QED
    BY <2>1, <2>2
<1>4. NextOfRows' /\ ChainSound'
  BY <1>1, <1>2 DEF ChainInv, NextOfRows, ChainSound
<1> QED
  BY <1>3, <1>4 DEF ChainInv

(* A step rests every rotation and only revokes rows, but for those that     *)
(* create a session or take a rotation one statement further.               *)
Rotates(t) ==
  \/ ExchangeCreateSession(t) \/ RotateCreate(t) \/ RotateLink(t) \/ RefreshDeliver(t)
  \/ \E s \in Ids : RotateRead(t, s)

LEMMA QuietOrRotates ==
  ASSUME Typed, [Next]_vars
  PROVE  \/ OnlyRevoked /\ RotationsRest /\ (ended' = ended \/ \E s \in Ids : Logout(s))
         \/ (\E t \in Threads : Rotates(t)) /\ ended' = ended
<1> DEFINE Quiet == OnlyRevoked /\ RotationsRest
           Loud  == \E t \in Threads : Rotates(t)
<1> USE DEF accounts, rows, locals, KeepLocals, At, GoTo
<1>2. ASSUME NEW t \in Threads, Done(t) PROVE RotationsRest
  BY <1>2 DEF Done, RotationsRest, Typed, RotatePCs, CreatedPCs
<1>3. ASSUME NEW t \in Threads, Exchange(t) PROVE (Quiet \/ Loud) /\ ended' = ended
  <2>1. CASE ExchangeCreateSession(t)
    BY <2>1 DEF ExchangeCreateSession, CreateSession, Rotates
  <2>2. CASE ~ExchangeCreateSession(t)
    <3>1. OnlyRevoked /\ ended' = ended
      BY <1>3, <2>2
         DEF Exchange, ExchangeAddUser, ExchangePromote, ExchangeDeny, ExchangeAllow,
             ExchangeFindSpace, ExchangeCreateSpace, OnlyRevoked
    <3>2. RotationsRest
      <4>1. CASE ExchangeDeny(t)
        BY <1>2, <4>1 DEF ExchangeDeny
      <4>2. CASE ~ExchangeDeny(t)
        BY <1>3, <2>2, <4>2
           DEF Exchange, ExchangeAddUser, ExchangePromote, ExchangeAllow,
               ExchangeFindSpace, ExchangeCreateSpace, RotationsRest, Typed,
               RotatePCs, CreatedPCs
      <4> QED
        BY <4>1, <4>2
    <3> QED
      BY <3>1, <3>2
  <2> QED
    BY <2>1, <2>2
<1>4. ASSUME NEW t \in Threads, Refresh(t) PROVE (Quiet \/ Loud) /\ ended' = ended
  <2>1. CASE RefreshReject(t)
    <3>1. OnlyRevoked /\ Done(t) /\ ended' = ended
      BY <2>1 DEF RefreshReject, OnlyRevoked, Typed
    <3> QED
      BY <1>2, <3>1
  <2>2. CASE ~RefreshReject(t)
    <3>1. Loud
      BY <1>4, <2>2 DEF Refresh, Rotates
    <3>2. ended' = ended
      BY <1>4, <2>2
         DEF Refresh, RotateRead, RotateCreate, CreateSession, RotateLink, RefreshDeliver
    <3> QED
      BY <3>1, <3>2
  <2> QED
    BY <2>1, <2>2
<1>5. ASSUME NEW t \in Threads, UpdateUser(t) PROVE Quiet /\ ended' = ended
  <2>1. OnlyRevoked /\ ended' = ended
    BY <1>5
       DEF UpdateUser, UpdateRead, UpdateRole, UpdateStatus, UpdateRevoke, OnlyRevoked,
           AllRevoked, Typed
  <2>2. RotationsRest
    <3>1. CASE Done(t)
      BY <1>2, <3>1
    <3>2. CASE ~Done(t)
      BY <1>5, <3>2
         DEF UpdateUser, UpdateRead, UpdateRole, UpdateStatus, UpdateRevoke,
             RotationsRest, Typed, RotatePCs, CreatedPCs
    <3> QED
      BY <3>1, <3>2
  <2> QED
    BY <2>1, <2>2
<1>6. ASSUME NEW t \in Threads, Crash(t) PROVE Quiet /\ ended' = ended
  <2>1. OnlyRevoked /\ Done(t) /\ ended' = ended
    BY <1>6 DEF Crash, OnlyRevoked
  <2> QED
    BY <1>2, <2>1
<1>7. ASSUME \/ Expire \/ UNCHANGED vars
             \/ \E u \in Users : RevokeSessions(u)
             \/ \E u \in Users, r \in {"human", "user"} : AddUser(u, r)
      PROVE  Quiet /\ ended' = ended
  <2>1. OnlyRevoked /\ ended' = ended
    BY <1>7
       DEF Expire, RevokeSessions, AddUser, AllRevoked, vars, OnlyRevoked, Typed
  <2>2. RotationsRest
    BY <1>7 DEF Expire, RevokeSessions, AddUser, vars, RotationsRest
  <2> QED
    BY <2>1, <2>2
<1>8. ASSUME NEW s \in Ids, Logout(s) PROVE Quiet
  BY <1>8 DEF Logout, OnlyRevoked, RotationsRest, Typed
<1> HIDE DEF Quiet, Loud
<1>9. \/ Quiet /\ (ended' = ended \/ \E s \in Ids : Logout(s))
      \/ Loud /\ ended' = ended
  BY <1>3, <1>4, <1>5, <1>6, <1>7, <1>8 DEF Next
<1> QED
  BY <1>9 DEF Quiet, Loud

LEMMA ChainStep == ASSUME ChainInv, [Next]_vars PROVE ChainInv'
<1>1. Typed /\ Typed'
  BY TypeStep DEF ChainInv
<1>2. CASE OnlyRevoked /\ RotationsRest
  BY <1>1, <1>2, ChainRests
<1>3. ASSUME NEW t \in Threads, Rotates(t) PROVE ChainInv'
  BY <1>1, <1>3, ChainLogin, ChainRead, ChainCreate, ChainLink, ChainDeliver DEF Rotates
<1> QED
  BY <1>1, <1>2, <1>3, QuietOrRotates

(***************************************************************************)
(* The rotation chain of store_sessions.py is sound however refreshes,     *)
(* logins, logouts, forced logouts and crashes interleave: the session a   *)
(* delivered one was rotated from is dead and of the same user, and        *)
(* replaced_by leads to a younger session of that user which a rotation of *)
(* this one made, even when two refreshes raced for it.                    *)
(***************************************************************************)
THEOREM ChainHolds == Spec => []ChainSound
<1>1. Init => ChainInv
  BY TypeInit
     DEF Init, ChainInv, RotationKnows, NextOfRows, ChainSound, RotatePCs, CreatedPCs
<1>2. ChainInv /\ [Next]_vars => ChainInv'
  BY ChainStep
<1>3. ChainInv => ChainSound
  BY DEF ChainInv
<1> QED
  BY <1>1, <1>2, <1>3, PTL DEF Spec

-----------------------------------------------------------------------------
(***************************************************************************)
(* Logouts.  A session that was logged out while nobody was rotating it is *)
(* dead and no rotation of it is under way, so none can begin; and by the  *)
(* chain none was delivered, for then it would have been dead already.     *)
(***************************************************************************)
EndedInv ==
  \A s \in ended :
    revoked[s] /\ ~RotationOf(s) /\ \A c \in delivered : parent[c] # s

LEMMA EndedRests ==
  ASSUME ChainInv, EndedInv, OnlyRevoked, RotationsRest,
         NEW s \in 1..made, revoked'[s], ~RotationOf(s), \A c \in delivered : parent[c] # s
  PROVE  revoked'[s] /\ ~RotationOf(s)' /\ \A c \in delivered' : parent'[c] # s
BY DEF OnlyRevoked, RotationsRest, RotationOf

LEMMA EndedStep == ASSUME ChainInv, EndedInv, [Next]_vars PROVE EndedInv'
<1>1. /\ Typed /\ 1..made \subseteq Ids /\ made \in Nat /\ MaxSessions \in Nat
      /\ ended \subseteq 1..made /\ delivered \subseteq 1..made
  BY RowIds, BoundAssumption DEF ChainInv, Typed
<1>2. ASSUME OnlyRevoked, RotationsRest, NEW s \in ended
      PROVE  revoked'[s] /\ ~RotationOf(s)' /\ \A c \in delivered' : parent'[c] # s
  BY <1>1, <1>2, EndedRests DEF OnlyRevoked, EndedInv
<1>3. CASE OnlyRevoked /\ RotationsRest /\ ended' = ended
  BY <1>2, <1>3 DEF EndedInv
<1>4. ASSUME OnlyRevoked, RotationsRest, NEW s \in Ids, Logout(s) PROVE EndedInv'
  <2>1. /\ s \in delivered /\ ~revoked[s] /\ revoked'[s]
        /\ ended' = IF RotationOf(s) THEN ended ELSE ended \cup {s}
    BY <1>1, <1>4 DEF Logout, Typed
  <2>2. \A c \in delivered : parent[c] # s
    BY <1>1, <2>1 DEF ChainInv, ChainSound
  <2>3. ~RotationOf(s) =>
          revoked'[s] /\ ~RotationOf(s)' /\ \A c \in delivered' : parent'[c] # s
    BY <1>1, <1>4, <2>1, <2>2, EndedRests
  <2> QED
    BY <1>2, <1>4, <2>1, <2>3 DEF EndedInv
<1>5. ASSUME NEW t \in Threads, Rotates(t), ended' = ended PROVE EndedInv'
  <2> SUFFICES ASSUME NEW s \in ended
               PROVE  revoked'[s] /\ ~RotationOf(s)' /\ \A c \in delivered' : parent'[c] # s
    BY <1>5 DEF EndedInv
  <2> USE DEF accounts, rows, locals, KeepLocals, At, GoTo
  <2>1. s \in 1..made /\ s \in Ids /\ s # made + 1 /\ s # 0
    BY <1>1
  <2>2. revoked[s] /\ ~RotationOf(s) /\ \A c \in delivered : parent[c] # s
    BY DEF EndedInv
  <2>3. revoked'[s]
    <3>1. OnlyRevoked \/ revoked' = revoked \/ revoked' = [revoked EXCEPT ![old[t]] = TRUE]
      BY <1>5 DEF Rotates, ExchangeCreateSession, CreateSession, RotateRead, RotateCreate,
                  RotateLink, RefreshDeliver
    <3> QED
      BY <1>1, <2>1, <2>2, <3>1 DEF OnlyRevoked, Typed
  <2>4. ~RotationOf(s)'
    <3>1. \A r \in Threads : pc'[r] \in RotatePCs /\ old'[r] = s =>
            pc[r] \in RotatePCs /\ old[r] = s
      <4>1. ASSUME NEW q \in Ids, RotateRead(t, q)
            PROVE  /\ pc' = [pc EXCEPT ![t] = "rotate_create"]
                   /\ old' = [old EXCEPT ![t] = q] /\ q # s
        BY <2>2, <4>1 DEF RotateRead, Live
      <4>2. CASE \E q \in Ids : RotateRead(t, q)
        BY <1>1, <4>1, <4>2 DEF Typed
      <4>3. CASE ExchangeCreateSession(t) \/ RefreshDeliver(t)
        BY <1>1, <4>3
           DEF ExchangeCreateSession, RefreshDeliver, Done, Typed, RotatePCs, CreatedPCs
      <4>4. CASE RotateCreate(t) \/ RotateLink(t)
        BY <1>1, <4>4 DEF RotateCreate, RotateLink, Typed, RotatePCs, CreatedPCs
      <4> QED
        BY <1>5, <4>2, <4>3, <4>4 DEF Rotates
    <3> QED
      BY <2>2, <3>1 DEF RotationOf
  <2>5. ASSUME NEW c \in delivered' PROVE parent'[c] # s
    <3>1. CASE ExchangeCreateSession(t)
      <4>1. /\ made + 1 \in Ids /\ parent' = [parent EXCEPT ![made + 1] = 0]
            /\ delivered' = delivered \cup {made + 1}
        BY <1>1, <3>1 DEF ExchangeCreateSession, CreateSession, Ids
      <4> QED
        BY <1>1, <2>1, <2>2, <2>5, <4>1 DEF Typed
    <3>2. CASE RotateCreate(t)
      <4>1. c \in delivered /\ parent' = [parent EXCEPT ![made + 1] = old[t]]
        BY <2>5, <3>2 DEF RotateCreate, CreateSession
      <4>2. c # made + 1 /\ c \in Ids
        BY <1>1, <4>1
      <4> QED
        BY <1>1, <2>2, <4>1, <4>2 DEF Typed
    <3>3. CASE RefreshDeliver(t)
      <4>1. /\ pc[t] = "rotate_check" /\ parent' = parent
            /\ delivered' = delivered \cup {new[t]}
        BY <3>3 DEF RefreshDeliver
      <4>2. parent[new[t]] = old[t] /\ old[t] # s
        BY <2>2, <4>1 DEF ChainInv, RotationKnows, RotationOf, RotatePCs, CreatedPCs
      <4> QED
        BY <2>2, <2>5, <4>1, <4>2
    <3>4. CASE RotateLink(t) \/ \E q \in Ids : RotateRead(t, q)
      BY <2>2, <2>5, <3>4 DEF RotateLink, RotateRead
    <3> QED
      BY <1>5, <3>1, <3>2, <3>3, <3>4 DEF Rotates
  <2> QED
    BY <2>3, <2>4, <2>5
<1> QED
  BY <1>1, <1>3, <1>4, <1>5, QuietOrRotates

(***************************************************************************)
(* POST /api/auth/logout is final unless it overtakes a refresh: the       *)
(* session is dead, and no cookie rotated from it reaches a client, then   *)
(* or later, whatever refreshes, logins and crashes surround it.           *)
(***************************************************************************)
THEOREM LogoutFinal == Spec => []LogoutIsFinal
<1>1. Init => ChainInv /\ EndedInv
  BY TypeInit
     DEF Init, ChainInv, RotationKnows, NextOfRows, ChainSound, RotatePCs, CreatedPCs,
         EndedInv
<1>2. (ChainInv /\ EndedInv) /\ [Next]_vars => (ChainInv /\ EndedInv)'
  BY ChainStep, EndedStep
<1>3. EndedInv => LogoutIsFinal
  BY DEF EndedInv, LogoutIsFinal, Live
<1> QED
  BY <1>1, <1>2, <1>3, PTL DEF Spec

-----------------------------------------------------------------------------
(***************************************************************************)
(* Personal spaces.  A login about to create a space has found none, so    *)
(* the spaces of an account and the logins about to create one are         *)
(* together no more than the logins there can be.                          *)
(***************************************************************************)
FirstLogins(u) == {t \in Threads : pc[t] = "create_space" /\ user[t] = u}

SpacesInv ==
  \A u \in Users : spaces[u] + Cardinality(FirstLogins(u)) <= Cardinality(Threads)

LEMMA FewerFirstLogins ==
  ASSUME Typed, SpacesInv, spaces' = spaces,
         \A r \in Threads : pc'[r] = "create_space" =>
           pc[r] = "create_space" /\ user'[r] = user[r]
  PROVE  SpacesInv'
<1> SUFFICES ASSUME NEW u \in Users
             PROVE  spaces[u] + Cardinality(FirstLogins(u)') <= Cardinality(Threads)
  BY DEF SpacesInv
<1>1. FirstLogins(u) \in SUBSET Threads /\ FirstLogins(u)' \in SUBSET FirstLogins(u)
  BY DEF FirstLogins
<1>2. IsFiniteSet(FirstLogins(u))
  BY <1>1, ThreadsAssumption, FS_Subset
<1>3. Cardinality(FirstLogins(u)') <= Cardinality(FirstLogins(u))
  BY <1>1, <1>2, FS_Subset
<1>4. Cardinality(FirstLogins(u)') \in Nat /\ Cardinality(FirstLogins(u)) \in Nat
  BY <1>1, <1>2, FS_Subset, FS_CardinalityType
<1>5. Cardinality(Threads) \in Nat /\ spaces[u] \in Nat
  BY ThreadsAssumption, FS_CardinalityType DEF Typed
<1> HIDE DEF FirstLogins
<1> QED
  BY <1>3, <1>4, <1>5 DEF SpacesInv

LEMMA SpacesFind ==
  ASSUME Typed, SpacesInv, NEW t \in Threads, ExchangeFindSpace(t)
  PROVE  SpacesInv'
<1>1. /\ pc[t] = "find_space" /\ spaces' = spaces /\ user' = user
      /\ pc' = [pc EXCEPT ![t] = IF spaces[user[t]] = 0 THEN "create_space"
                                 ELSE "create_session"]
  BY DEF ExchangeFindSpace, At, GoTo, KeepLocals, accounts
<1>2. CASE spaces[user[t]] # 0
  BY <1>1, <1>2, FewerFirstLogins DEF Typed
<1>3. CASE spaces[user[t]] = 0
  <2> SUFFICES ASSUME NEW u \in Users
               PROVE  spaces[u] + Cardinality(FirstLogins(u)') <= Cardinality(Threads)
    BY <1>1 DEF SpacesInv
  <2>1. CASE u = user[t]
    <3>1. FirstLogins(u)' \in SUBSET Threads
      BY DEF FirstLogins
    <3>2. /\ Cardinality(FirstLogins(u)') <= Cardinality(Threads)
          /\ Cardinality(FirstLogins(u)') \in Nat
      BY <3>1, ThreadsAssumption, FS_Subset, FS_CardinalityType
    <3> QED
      BY <1>3, <2>1, <3>2
  <2>2. CASE u # user[t]
    <3>1. FirstLogins(u)' = FirstLogins(u)
      BY <1>1, <2>2 DEF FirstLogins, Typed
    <3> QED
      BY <3>1 DEF SpacesInv
  <2> QED
    BY <2>1, <2>2
<1> QED
  BY <1>2, <1>3

LEMMA SpacesCreate ==
  ASSUME Typed, SpacesInv, NEW t \in Threads, ExchangeCreateSpace(t)
  PROVE  SpacesInv'
<1>1. /\ pc[t] = "create_space" /\ user' = user /\ user[t] \in Users
      /\ pc' = [pc EXCEPT ![t] = "create_session"]
      /\ spaces' = [spaces EXCEPT ![user[t]] = @ + 1]
  BY DEF ExchangeCreateSpace, At, GoTo, KeepLocals, Typed
<1> SUFFICES ASSUME NEW u \in Users
             PROVE  spaces'[u] + Cardinality(FirstLogins(u)') <= Cardinality(Threads)
  BY DEF SpacesInv
<1>2. spaces[u] + Cardinality(FirstLogins(u)) <= Cardinality(Threads) /\ spaces[u] \in Nat
  BY DEF SpacesInv, Typed
<1>3. CASE u = user[t]
  <2>1. FirstLogins(u)' = FirstLogins(u) \ {t} /\ t \in FirstLogins(u)
    BY <1>1, <1>3 DEF FirstLogins, Typed
  <2>2. IsFiniteSet(FirstLogins(u)) /\ Cardinality(FirstLogins(u)) \in Nat
    <3>1. FirstLogins(u) \in SUBSET Threads
      BY DEF FirstLogins
    <3> QED
      BY <3>1, ThreadsAssumption, FS_Subset, FS_CardinalityType
  <2>3. Cardinality(FirstLogins(u) \ {t}) = Cardinality(FirstLogins(u)) - 1
    BY <2>1, <2>2, FS_RemoveElement
  <2>4. spaces'[u] = spaces[u] + 1 /\ Cardinality(Threads) \in Nat
    BY <1>1, <1>3, ThreadsAssumption, FS_CardinalityType DEF Typed
  <2> HIDE DEF FirstLogins
  <2> QED
    BY <1>2, <2>1, <2>2, <2>3, <2>4
<1>4. CASE u # user[t]
  <2>1. FirstLogins(u)' = FirstLogins(u) /\ spaces'[u] = spaces[u]
    BY <1>1, <1>4 DEF FirstLogins, Typed
  <2> QED
    BY <1>2, <2>1
<1> QED
  BY <1>3, <1>4

LEMMA SpacesStep == ASSUME Typed, SpacesInv, [Next]_vars PROVE SpacesInv'
<1> USE DEF accounts, rows, locals, KeepLocals, At, GoTo
<1> DEFINE Fewer == /\ spaces' = spaces
                    /\ \A r \in Threads : pc'[r] = "create_space" =>
                         pc[r] = "create_space" /\ user'[r] = user[r]
<1>1. ASSUME NEW t \in Threads, Done(t), spaces' = spaces PROVE Fewer
  BY <1>1 DEF Done, Typed
<1>2. ASSUME NEW t \in Threads, Exchange(t), ~ExchangeFindSpace(t), ~ExchangeCreateSpace(t)
      PROVE  Fewer
  <2>1. CASE ExchangeDeny(t) \/ ExchangeCreateSession(t)
    BY <1>1, <2>1 DEF ExchangeDeny, ExchangeCreateSession
  <2>2. CASE ExchangePromote(t) \/ ExchangeAllow(t) \/ \E u \in Users : ExchangeAddUser(t, u)
    BY <2>2 DEF ExchangePromote, ExchangeAllow, ExchangeAddUser, Typed
  <2> QED
    BY <1>2, <2>1, <2>2 DEF Exchange
<1>3. ASSUME NEW t \in Threads, Refresh(t) PROVE Fewer
  <2>1. CASE RefreshDeliver(t) \/ RefreshReject(t)
    BY <1>1, <2>1 DEF RefreshDeliver, RefreshReject
  <2>2. CASE RotateCreate(t) \/ RotateLink(t) \/ \E s \in Ids : RotateRead(t, s)
    BY <2>2 DEF RotateCreate, RotateLink, RotateRead, Typed
  <2> QED
    BY <1>3, <2>1, <2>2 DEF Refresh
<1>4. ASSUME NEW t \in Threads, UpdateUser(t) PROVE Fewer
  <2>1. spaces' = spaces
    BY <1>4 DEF UpdateUser, UpdateRead, UpdateRole, UpdateStatus, UpdateRevoke
  <2>2. CASE Done(t)
    BY <1>1, <2>1, <2>2
  <2>3. CASE ~Done(t)
    BY <1>4, <2>1, <2>3
       DEF UpdateUser, UpdateRead, UpdateRole, UpdateStatus, UpdateRevoke, Typed
  <2> QED
    BY <2>2, <2>3
<1>5. ASSUME NEW t \in Threads, Crash(t) PROVE Fewer
  BY <1>1, <1>5 DEF Crash
<1>6. ASSUME \/ Expire \/ UNCHANGED vars \/ \E s \in Ids : Logout(s)
             \/ \E u \in Users : RevokeSessions(u)
             \/ \E u \in Users, r \in {"human", "user"} : AddUser(u, r)
      PROVE  Fewer
  BY <1>6 DEF Expire, Logout, RevokeSessions, AddUser, vars
<1>7. Fewer => SpacesInv'
  BY FewerFirstLogins
<1> HIDE DEF Fewer
<1> QED
  BY <1>2, <1>3, <1>4, <1>5, <1>6, <1>7, SpacesFind, SpacesCreate DEF Next

(***************************************************************************)
(* Type correctness, with the bound on personal spaces: ensure_personal_   *)
(* space selects and then inserts, so an account may end up with a space   *)
(* for every login that was first with others, but with no more, however   *)
(* many logins follow or die half-way.                                     *)
(***************************************************************************)
THEOREM TypeCorrect == Spec => []TypeOK
<1>1. Init => SpacesInv
  <2> SUFFICES ASSUME Init, NEW u \in Users
               PROVE  spaces[u] + Cardinality(FirstLogins(u)) <= Cardinality(Threads)
    BY DEF SpacesInv
  <2>1. spaces[u] = 0 /\ FirstLogins(u) = {}
    BY DEF Init, FirstLogins
  <2> QED
    BY <2>1, ThreadsAssumption, FS_CardinalityType, FS_EmptySet
<1>2. (Typed /\ SpacesInv) /\ [Next]_vars => (Typed /\ SpacesInv)'
  BY TypeStep, SpacesStep
<1>3. Typed /\ SpacesInv => TypeOK
  <2> SUFFICES ASSUME Typed, SpacesInv, NEW u \in Users
               PROVE  spaces[u] <= Cardinality(Threads)
    BY DEF SpacesBounded, TypeOK
  <2>1. FirstLogins(u) \in SUBSET Threads
    BY DEF FirstLogins
  <2>2. Cardinality(FirstLogins(u)) \in Nat /\ Cardinality(Threads) \in Nat
    BY <2>1, ThreadsAssumption, FS_Subset, FS_CardinalityType
  <2> QED
    BY <2>2 DEF SpacesInv, Typed
<1> QED
  BY <1>1, <1>2, <1>3, TypeInit, PTL DEF Spec

-----------------------------------------------------------------------------
(***************************************************************************)
(* The owner.  An update that is about to write to an account with the     *)
(* owner role read it before the promotion, or is the `user enable` that   *)
(* does not look at the role; and the account has a row.                   *)
(***************************************************************************)
MayTouch(t) ==
  pc[t] \in UpdatePCs /\ role[user[t]] = "owner" =>
    t \in stale \/ (pc[t] = "set_status" /\ body[t].status = "active")

OwnerInv ==
  /\ Typed
  /\ \A t \in Threads : MayTouch(t)
  /\ \A t \in Threads : pc[t] = "promote" => status[user[t]] # "absent"
  /\ \A u \in Users : role[u] = "owner" => status[u] # "absent"

\* Nobody becomes the owner, and no thread takes up an update or a promotion.
NoNewOwner ==
  /\ \A u \in Users : role'[u] = "owner" => role[u] = "owner"
  /\ \A u \in Users : status'[u] = "absent" => status[u] = "absent"
  /\ \A r \in Threads :
       /\ pc'[r] = "promote" => pc[r] = "promote" /\ user'[r] = user[r]
       /\ pc'[r] \in UpdatePCs =>
            /\ pc'[r] = pc[r] /\ user'[r] = user[r] /\ body'[r] = body[r]
            /\ r \in stale => r \in stale'

LEMMA OwnerRests ==
  ASSUME OwnerInv, Typed', NoNewOwner PROVE OwnerInv'
<1>1. \A r \in Threads : pc[r] # "idle" => user[r] \in Users
  BY DEF OwnerInv, Typed
<1>2. ASSUME NEW r \in Threads PROVE MayTouch(r)'
  BY <1>1 DEF OwnerInv, NoNewOwner, MayTouch, UpdatePCs
<1>3. \A r \in Threads : pc'[r] = "promote" => status'[user'[r]] # "absent"
  BY <1>1 DEF OwnerInv, NoNewOwner
<1> QED
  BY <1>2, <1>3 DEF OwnerInv, NoNewOwner

LEMMA OwnerAdd ==
  ASSUME OwnerInv, Typed', NEW t \in Threads, NEW u \in Users, ExchangeAddUser(t, u)
  PROVE  OwnerInv'
<1>1. /\ pc' = [pc EXCEPT ![t] = IF u \in AdminEmails THEN "promote" ELSE "check_status"]
      /\ user' = [user EXCEPT ![t] = u]
      /\ status' = [status EXCEPT ![u] = IF @ = "absent" THEN "active" ELSE @]
      /\ UNCHANGED <<role, body, stale>>
  BY DEF ExchangeAddUser, At, GoTo
<1>2. \A v \in Users : status'[v] = "absent" => v # u /\ status[v] = "absent"
  BY <1>1 DEF OwnerInv, Typed
<1>3. pc'[t] \notin UpdatePCs /\ user'[t] = u
  BY <1>1 DEF OwnerInv, Typed, UpdatePCs
<1>4. \A r \in Threads : r # t => pc'[r] = pc[r] /\ user'[r] = user[r]
  BY <1>1 DEF OwnerInv, Typed
<1>5. ASSUME NEW r \in Threads PROVE MayTouch(r)'
  BY <1>1, <1>3, <1>4 DEF OwnerInv, MayTouch
<1>6. ASSUME NEW r \in Threads, pc'[r] = "promote" PROVE status'[user'[r]] # "absent"
  <2>1. user'[r] \in Users /\ (r # t => pc[r] = "promote" /\ user'[r] = user[r])
    BY <1>3, <1>4, <1>6 DEF OwnerInv, Typed
  <2> QED
    BY <1>2, <1>3, <2>1 DEF OwnerInv
<1> QED
  BY <1>1, <1>2, <1>5, <1>6 DEF OwnerInv

LEMMA OwnerPromote ==
  ASSUME OwnerInv, Typed', NEW t \in Threads, ExchangePromote(t)
  PROVE  OwnerInv'
<1>1. /\ pc[t] = "promote" /\ pc' = [pc EXCEPT ![t] = "check_status"]
      /\ role' = [role EXCEPT ![user[t]] = "owner"]
      /\ stale' = stale \cup {r \in Threads : pc[r] \in UpdatePCs /\ user[r] = user[t]}
      /\ UNCHANGED <<status, user, body>>
  BY DEF ExchangePromote, At, GoTo
<1>2. user[t] \in Users /\ status[user[t]] # "absent"
  BY <1>1 DEF OwnerInv, Typed
<1>3. ASSUME NEW r \in Threads PROVE MayTouch(r)'
  <2>1. pc'[r] \in UpdatePCs => pc'[r] = pc[r]
    BY <1>1 DEF OwnerInv, Typed, UpdatePCs
  <2>2. CASE user[r] = user[t]
    BY <1>1, <2>1, <2>2 DEF MayTouch
  <2>3. CASE user[r] # user[t]
    <3>1. pc[r] \in UpdatePCs => user[r] \in Users /\ role'[user[r]] = role[user[r]]
      BY <1>1, <2>3 DEF OwnerInv, Typed, UpdatePCs
    <3> QED
      BY <1>1, <2>1, <3>1 DEF OwnerInv, MayTouch
  <2> QED
    BY <2>2, <2>3
<1>4. \A r \in Threads : pc'[r] = "promote" => pc[r] = "promote"
  BY <1>1 DEF OwnerInv, Typed
<1>5. \A v \in Users : role'[v] = "owner" => v = user[t] \/ role[v] = "owner"
  BY <1>1, <1>2 DEF OwnerInv, Typed
<1> QED
  BY <1>1, <1>2, <1>3, <1>4, <1>5 DEF OwnerInv

LEMMA OwnerRead ==
  ASSUME OwnerInv, Typed', NEW t \in Threads, NEW u \in Users, NEW b \in Bodies,
         UpdateRead(t, u, b)
  PROVE  OwnerInv'
<1>1. /\ pc' = [pc EXCEPT ![t] = IF b.role = Keep THEN "set_status" ELSE "set_role"]
      /\ user' = [user EXCEPT ![t] = u] /\ body' = [body EXCEPT ![t] = b]
      /\ role[u] = "owner" => b = Enable
      /\ UNCHANGED <<status, role, stale>>
  BY DEF UpdateRead, At, GoTo, accounts
<1>2. MayTouch(t)'
  <2>1. role[u] = "owner" => pc'[t] = "set_status" /\ body'[t].status = "active"
    BY <1>1 DEF Enable, Keep, OwnerInv, Typed
  <2> QED
    BY <1>1, <2>1 DEF MayTouch, OwnerInv, Typed
<1>3. \A r \in Threads :
        r # t => pc'[r] = pc[r] /\ user'[r] = user[r] /\ body'[r] = body[r]
  BY <1>1 DEF OwnerInv, Typed
<1>4. \A r \in Threads : r # t => MayTouch(r)'
  BY <1>1, <1>3 DEF OwnerInv, MayTouch
<1>5. pc'[t] # "promote"
  BY <1>1 DEF OwnerInv, Typed
<1> QED
  BY <1>1, <1>2, <1>3, <1>4, <1>5 DEF OwnerInv

\* What an update that goes on is about to write.
LEMMA BodyFields ==
  ASSUME Typed, NEW t \in Threads
  PROVE  /\ pc[t] = "set_role" => body[t].role # "owner"
         /\ pc[t] = "set_status" => body[t].status \in {"active", "disabled"}
<1> DEFINE R == AssignableRoles \cup {Keep}
           S == {"active", "disabled", Keep}
<1>1. body[t] \in [role : R, status : S]
  BY DEF Typed, Bodies
<1> HIDE DEF R, S
<1>2. body[t].role \in R /\ body[t].status \in S
  BY <1>1
<1> QED
  BY <1>2 DEF R, S, AssignableRoles, Keep, Typed, LocalsSet

LEMMA OwnerRole ==
  ASSUME OwnerInv, Typed', NEW t \in Threads, UpdateRole(t)
  PROVE  OwnerInv'
<1>1. /\ pc[t] = "set_role" /\ role' = [role EXCEPT ![user[t]] = body[t].role]
      /\ status' = status /\ user[t] \in Users /\ body[t].role # "owner"
      /\ role'[user[t]] # "owner"
  BY BodyFields DEF UpdateRole, At, OwnerInv, Typed
<1>2. \A v \in Users : role'[v] = "owner" => role[v] = "owner" /\ v # user[t]
  BY <1>1 DEF OwnerInv, Typed
<1>3. /\ pc'[t] \in {"idle", "set_status"} /\ (pc'[t] = "set_status" => user'[t] = user[t])
      /\ \A r \in Threads : r # t => /\ pc'[r] = pc[r] /\ user'[r] = user[r]
                                     /\ body'[r] = body[r] /\ (r \in stale => r \in stale')
  <2>1. CASE Done(t)
    BY <2>1 DEF Done, OwnerInv, Typed
  <2>2. CASE GoTo(t, "set_status") /\ KeepLocals
    BY <2>2 DEF GoTo, KeepLocals, OwnerInv, Typed
  <2> QED
    BY <2>1, <2>2 DEF UpdateRole
<1>4. MayTouch(t)'
  BY <1>1, <1>3 DEF MayTouch, UpdatePCs
<1>5. ASSUME NEW r \in Threads, r # t PROVE MayTouch(r)'
  <2>1. pc[r] \in UpdatePCs => user[r] \in Users
    BY DEF OwnerInv, Typed, UpdatePCs
  <2> QED
    BY <1>2, <1>3, <1>5, <2>1 DEF OwnerInv, MayTouch
<1>6. \A r \in Threads : pc'[r] = "promote" => pc[r] = "promote" /\ user'[r] = user[r]
  BY <1>3
<1> QED
  BY <1>1, <1>2, <1>4, <1>5, <1>6 DEF OwnerInv

LEMMA OwnerStatus ==
  ASSUME OwnerInv, Typed', NEW t \in Threads, UpdateStatus(t)
  PROVE  OwnerInv'
<1>1. /\ pc[t] = "set_status" /\ status' = [status EXCEPT ![user[t]] = body[t].status]
      /\ role' = role /\ user[t] \in Users /\ body[t].status \in {"active", "disabled"}
  BY BodyFields DEF UpdateStatus, At, OwnerInv, Typed
<1>2. \A v \in Users : status'[v] = "absent" => status[v] = "absent"
  BY <1>1 DEF OwnerInv, Typed
<1>3. /\ \/ pc'[t] = "idle"
         \/ /\ pc'[t] = "revoke" /\ user'[t] = user[t] /\ body[t].status = "disabled"
            /\ t \in stale => t \in stale'
      /\ \A r \in Threads : r # t => /\ pc'[r] = pc[r] /\ user'[r] = user[r]
                                     /\ body'[r] = body[r] /\ (r \in stale => r \in stale')
  <2>1. CASE Done(t)
    BY <2>1 DEF Done, OwnerInv, Typed
  <2>2. CASE body[t].status = "disabled" /\ GoTo(t, "revoke") /\ KeepLocals
    BY <2>2 DEF GoTo, KeepLocals, OwnerInv, Typed
  <2> QED
    BY <2>1, <2>2 DEF UpdateStatus
<1>4. MayTouch(t)'
  BY <1>1, <1>3 DEF OwnerInv, MayTouch, UpdatePCs
<1>5. ASSUME NEW r \in Threads, r # t PROVE MayTouch(r)'
  BY <1>1, <1>3, <1>5 DEF OwnerInv, MayTouch
<1>6. ASSUME NEW r \in Threads, pc'[r] = "promote" PROVE status'[user'[r]] # "absent"
  <2>1. pc[r] = "promote" /\ user'[r] = user[r] /\ user[r] \in Users
    BY <1>3, <1>6 DEF OwnerInv, Typed
  <2> QED
    BY <1>2, <2>1 DEF OwnerInv
<1> QED
  BY <1>1, <1>2, <1>4, <1>5, <1>6 DEF OwnerInv

LEMMA OwnerStep == ASSUME OwnerInv, [Next]_vars PROVE OwnerInv'
<1>1. Typed /\ Typed'
  BY TypeStep DEF OwnerInv
<1> USE DEF accounts, rows, locals, KeepLocals, At, GoTo
<1>2. ASSUME NEW t \in Threads, Done(t), role' = role, status' = status PROVE NoNewOwner
  BY <1>1, <1>2 DEF Done, NoNewOwner, Typed, UpdatePCs
<1>3. ASSUME NEW t \in Threads, Exchange(t) PROVE OwnerInv'
  <2>1. CASE ExchangeDeny(t) \/ ExchangeCreateSession(t)
    BY <1>1, <1>2, <2>1, OwnerRests DEF ExchangeDeny, ExchangeCreateSession
  <2>2. CASE ExchangeAllow(t) \/ ExchangeFindSpace(t) \/ ExchangeCreateSpace(t)
    <3>1. NoNewOwner
      BY <1>1, <2>2
         DEF ExchangeAllow, ExchangeFindSpace, ExchangeCreateSpace, NoNewOwner, Typed,
             UpdatePCs
    <3> QED
      BY <1>1, <3>1, OwnerRests
  <2> QED
    BY <1>1, <1>3, <2>1, <2>2, OwnerAdd, OwnerPromote DEF Exchange
<1>4. ASSUME NEW t \in Threads, Refresh(t) PROVE OwnerInv'
  <2>1. CASE RefreshDeliver(t) \/ RefreshReject(t)
    BY <1>1, <1>2, <2>1, OwnerRests DEF RefreshDeliver, RefreshReject
  <2>2. CASE RotateCreate(t) \/ RotateLink(t) \/ \E s \in Ids : RotateRead(t, s)
    <3>1. NoNewOwner
      BY <1>1, <2>2 DEF RotateCreate, RotateLink, RotateRead, NoNewOwner, Typed, UpdatePCs
    <3> QED
      BY <1>1, <3>1, OwnerRests
  <2> QED
    BY <1>4, <2>1, <2>2 DEF Refresh
<1>5. ASSUME NEW t \in Threads, UpdateUser(t) PROVE OwnerInv'
  <2>1. CASE UpdateRevoke(t)
    BY <1>1, <1>2, <2>1, OwnerRests DEF UpdateRevoke
  <2> QED
    BY <1>1, <1>5, <2>1, OwnerRead, OwnerRole, OwnerStatus DEF UpdateUser
<1>6. ASSUME NEW t \in Threads, Crash(t) PROVE OwnerInv'
  BY <1>1, <1>2, <1>6, OwnerRests DEF Crash
<1>7. ASSUME \/ Expire \/ UNCHANGED vars \/ \E s \in Ids : Logout(s)
             \/ \E u \in Users : RevokeSessions(u)
      PROVE  OwnerInv'
  <2>1. NoNewOwner
    BY <1>7 DEF Expire, Logout, RevokeSessions, vars, NoNewOwner
  <2> QED
    BY <1>1, <2>1, OwnerRests
<1>8. ASSUME NEW u \in Users, NEW r \in {"human", "user"}, AddUser(u, r) PROVE OwnerInv'
  <2>1. NoNewOwner
    BY <1>1, <1>8 DEF AddUser, NoNewOwner, Typed
  <2> QED
    BY <1>1, <2>1, OwnerRests
<1> QED
  BY <1>3, <1>4, <1>5, <1>6, <1>7, <1>8 DEF Next

\* Who takes the owner's role or disables the owner.
LEMMA OwnerTouched ==
  ASSUME OwnerInv, [Next]_vars, NEW u \in Users, role[u] = "owner",
         role'[u] # "owner" \/ (status[u] = "active" /\ status'[u] # "active")
  PROVE  \E t \in stale : user[t] = u /\ (UpdateRole(t) \/ UpdateStatus(t))
<1> USE DEF accounts, rows, locals, KeepLocals, At, GoTo
<1>1. Typed /\ status[u] # "absent"
  BY DEF OwnerInv
<1>2. ASSUME NEW t \in Threads, UpdateRole(t) \/ UpdateStatus(t), user[t] = u
      PROVE  t \in stale
  <2>1. CASE UpdateRole(t)
    BY <1>2, <2>1 DEF UpdateRole, OwnerInv, MayTouch, UpdatePCs
  <2>2. CASE UpdateStatus(t) /\ ~UpdateRole(t)
    <3>1. pc[t] = "set_status" /\ role' = role
      BY <2>2 DEF UpdateStatus
    <3>2. status' = [status EXCEPT ![u] = body[t].status]
      BY <1>2, <2>2 DEF UpdateStatus
    <3>3. body[t].status # "active"
      BY <1>1, <3>1, <3>2 DEF Typed
    <3> QED
      BY <1>2, <3>1, <3>3 DEF OwnerInv, MayTouch, UpdatePCs
  <2> QED
    BY <1>2, <2>1, <2>2
<1>3. PICK t \in Threads : (UpdateRole(t) \/ UpdateStatus(t)) /\ user[t] = u
  <2>1. CASE UNCHANGED <<status, role>>
    BY <2>1
  <2>2. ASSUME NEW t \in Threads, UpdateRole(t) \/ UpdateStatus(t) PROVE user[t] = u
    BY <1>1, <2>2 DEF UpdateRole, UpdateStatus, Typed
  <2>3. ASSUME NEW t \in Threads, Exchange(t)
        PROVE  role'[u] = "owner" /\ (status[u] = "active" => status'[u] = "active")
    BY <1>1, <2>3
       DEF Exchange, ExchangeAddUser, ExchangePromote, ExchangeDeny, ExchangeAllow,
           ExchangeFindSpace, ExchangeCreateSpace, ExchangeCreateSession, Typed
  <2>4. ASSUME NEW t \in Threads, Refresh(t) PROVE UNCHANGED <<status, role>>
    BY <2>4 DEF Refresh, RotateRead, RotateCreate, RotateLink, RefreshDeliver, RefreshReject
  <2>5. ASSUME NEW t \in Threads, UpdateUser(t), ~UpdateRole(t), ~UpdateStatus(t)
        PROVE  UNCHANGED <<status, role>>
    BY <2>5 DEF UpdateUser, UpdateRead, UpdateRevoke
  <2>6. ASSUME NEW v \in Users, NEW r \in {"human", "user"}, AddUser(v, r)
        PROVE  role'[u] = role[u] /\ status'[u] = status[u]
    BY <1>1, <2>6 DEF AddUser, Typed
  <2>7. ASSUME \/ Expire \/ UNCHANGED vars \/ \E s \in Ids : Logout(s)
               \/ \E v \in Users : RevokeSessions(v) \/ \E t \in Threads : Crash(t)
        PROVE  UNCHANGED <<status, role>>
    BY <2>7 DEF Expire, Logout, RevokeSessions, Crash, vars
  <2> QED
    BY <2>1, <2>2, <2>3, <2>4, <2>5, <2>6, <2>7 DEF Next
<1> QED
  BY <1>2, <1>3

(***************************************************************************)
(* update_user and the `user` commands take the owner's role, or disable   *)
(* the owner, only on a row they read before a login made it the owner's:  *)
(* the guards of auth_api.py:186 and :193 have no other hole.              *)
(***************************************************************************)
THEOREM OwnerSafe == Spec => OwnerOutOfReach
<1> DEFINE Spared ==
      \A u \in Users :
        role[u] = "owner" /\ (role'[u] # "owner" \/ (Active(u) /\ ~Active(u)')) =>
          \E t \in stale : user[t] = u /\ (UpdateRole(t) \/ UpdateStatus(t))
<1>1. Init => OwnerInv
  BY TypeInit DEF Init, OwnerInv, MayTouch, UpdatePCs
<1>2. OwnerInv /\ [Next]_vars => OwnerInv'
  BY OwnerStep
<1>3. OwnerInv /\ [Next]_vars => [Spared]_vars
  BY OwnerTouched DEF Active
<1> HIDE DEF Spared
<1>4. Spec => [][Spared]_vars
  BY <1>1, <1>2, <1>3, PTL DEF Spec
<1> QED
  BY <1>4 DEF Spared, OwnerOutOfReach
=============================================================================
