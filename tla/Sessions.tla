------------------------------- MODULE Sessions -------------------------------
(***************************************************************************)
(* Logins, refresh-token rotation and forced logout: bbv2/auth_api.py over *)
(* store_sessions.py, store_users.py and store_spaces.py.                  *)
(*                                                                         *)
(* A handler is a sequence of Store calls and every Store call is its own  *)
(* SQLite transaction.  The request threads of the server and the operator *)
(* commands of cli.py (a process of its own) interleave between any two of *)
(* them, so one action here is one Store call together with the code that  *)
(* runs up to the next one.  A thread's pc names the call it makes next.   *)
(*                                                                         *)
(* Sessions are numbered in the order they are created; expires_at is a    *)
(* fixed time after creation, so they also expire in that order and one    *)
(* number says which have.  Tokens, cookies, audit rows and last_login_at  *)
(* are left out; that a client holds the cookies of session s is           *)
(* s \in delivered.  Rows are never deleted: nothing calls                 *)
(* prune_expired_sessions, and there is no route that removes a user.      *)
(***************************************************************************)
EXTENDS Integers, FiniteSets

CONSTANTS
  Users,        \* accounts, one verified email each
  AdminEmails,  \* those of them listed in ADMIN_EMAILS
  Threads,      \* request threads and operator commands
  NoUser,       \* the user of an idle thread
  MaxAccounts,  \* bound on the accounts that ever exist
  MaxSessions   \* bound on the sessions ever created

ASSUME UsersAssumption   == AdminEmails \subseteq Users /\ NoUser \notin Users
ASSUME BoundAssumption   == MaxAccounts \in Nat /\ MaxSessions \in Nat
ASSUME ThreadsAssumption == IsFiniteSet(Threads)

VARIABLES
  status,     \* users.status, "absent" before the row exists
  role,       \* users.role
  spaces,     \* number of personal spaces the user owns
  made,       \* sessions 1..made exist
  owner,      \* user_sessions.user_id
  revoked,    \* user_sessions.is_revoked
  next,       \* user_sessions.replaced_by, 0 when NULL
  lapsed,     \* sessions 1..lapsed have passed expires_at
  delivered,  \* sessions whose cookies a client has received
  pc, user, old, new, body,  \* the threads and their locals
  parent,     \* history: the session a rotation started from, 0 for a login
  ended,      \* history: the sessions logged out with no rotation of them under way
  stale,      \* history: the updates whose account a login promoted since they read it
  cut         \* history: what was in flight at the user's last forced logout

accounts == <<status, role, spaces>>
rows     == <<made, owner, revoked, next, lapsed, parent, ended>>
locals   == <<pc, user, old, new, body, stale>>
vars     == <<accounts, rows, delivered, locals, cut>>

Ids == 1..MaxSessions
AssignableRoles == {"user"}            \* for all of rbac.ASSIGNABLE_ROLES: only the
                                       \* owner's role is told from the others here
Roles == {"human", "owner"} \cup AssignableRoles
Keep == "keep"                         \* a field absent from the PATCH body

Bodies == [role : AssignableRoles \cup {Keep}, status : {"active", "disabled", Keep}]
NoBody == [role |-> Keep, status |-> Keep]
Enable == [role |-> Keep, status |-> "active"]

LoginPCs   == {"find_space", "create_space", "create_session"}
CreatedPCs == {"rotate_link", "rotate_check"}
RotatePCs  == {"rotate_create"} \cup CreatedPCs
UpdatePCs  == {"set_role", "set_status", "revoke"}
PCs == {"idle", "promote", "check_status"} \cup UpdatePCs \cup LoginPCs \cup RotatePCs

\* A local is set where the pc says it is used.
LocalsSet(t) ==
  /\ pc[t] = "set_role" => body[t].role # Keep
  /\ pc[t] = "set_status" => body[t].status # Keep
  /\ pc[t] \in RotatePCs => old[t] # 0
  /\ pc[t] \in CreatedPCs => new[t] # 0

Typed ==
  /\ status \in [Users -> {"absent", "active", "disabled"}]
  /\ role \in [Users -> Roles]
  /\ spaces \in [Users -> Nat]
  /\ made \in 0..MaxSessions
  /\ lapsed \in 0..made
  /\ owner \in [Ids -> Users \cup {NoUser}]
  /\ \A s \in 1..made : owner[s] \in Users
  /\ revoked \in [Ids -> BOOLEAN]
  /\ next \in [Ids -> 0..made]
  /\ parent \in [Ids -> 0..made]
  /\ delivered \subseteq 1..made
  /\ ended \subseteq 1..made
  /\ pc \in [Threads -> PCs]
  /\ user \in [Threads -> Users \cup {NoUser}]
  /\ \A t \in Threads : pc[t] # "idle" => user[t] \in Users
  /\ old \in [Threads -> 0..made]
  /\ new \in [Threads -> 0..made]
  /\ body \in [Threads -> Bodies]
  /\ stale \subseteq Threads
  /\ \A t \in Threads : LocalsSet(t)
  /\ cut \in [Users -> {"none", "clean", "rotation", "login"}]

\* Two first logins of an account may each create its personal space, but a login
\* that finds one creates none: an account never has more than there are threads.
SpacesBounded == \A u \in Users : spaces[u] <= Cardinality(Threads)

(***************************************************************************)
(* The state is what the tables and the handlers' locals can hold, with no *)
(* more personal spaces than racing first logins can make.                 *)
(***************************************************************************)
TypeOK == Typed /\ SpacesBounded

Init ==
  /\ status = [u \in Users |-> "absent"]
  /\ role = [u \in Users |-> "human"]
  /\ spaces = [u \in Users |-> 0]
  /\ made = 0 /\ lapsed = 0
  /\ owner = [s \in Ids |-> NoUser]
  /\ revoked = [s \in Ids |-> FALSE]
  /\ next = [s \in Ids |-> 0]
  /\ parent = [s \in Ids |-> 0]
  /\ delivered = {} /\ ended = {}
  /\ pc = [t \in Threads |-> "idle"]
  /\ user = [t \in Threads |-> NoUser]
  /\ old = [t \in Threads |-> 0]
  /\ new = [t \in Threads |-> 0]
  /\ body = [t \in Threads |-> NoBody]
  /\ stale = {}
  /\ cut = [u \in Users |-> "none"]

-----------------------------------------------------------------------------
(***************************************************************************)
(* Sessions.                                                               *)
(***************************************************************************)
\* get_session_by_refresh and session_active: not revoked, not expired.
Live(s) == s \in 1..made /\ ~revoked[s] /\ s > lapsed

\* What current_user accepts: a live session of an active account.
Usable(s) == Live(s) /\ status[owner[s]] = "active"

Active(u) == status[u] = "active"

\* Faulty variant: the row is written without its user.
CreateOwnerless(u, p) ==
  /\ made < MaxSessions
  /\ made' = made + 1
  /\ parent' = [parent EXCEPT ![made + 1] = p]
  /\ UNCHANGED <<owner, revoked, next, lapsed, ended>>

\* create_session for user u, by a rotation of session p or a login (p = 0).
CreateSession(u, p) ==
  /\ made < MaxSessions
  /\ made' = made + 1
  /\ owner' = [owner EXCEPT ![made + 1] = u]
  /\ parent' = [parent EXCEPT ![made + 1] = p]
  /\ UNCHANGED <<revoked, next, lapsed, ended>>

\* revoke_user_sessions.
AllRevoked(u) == [s \in Ids |-> revoked[s] \/ (s \in 1..made /\ owner[s] = u)]

At(t, at) == pc[t] = at

GoTo(t, to) == pc' = [pc EXCEPT ![t] = to]

\* The reply: the thread forgets its locals.
Done(t) ==
  /\ pc' = [pc EXCEPT ![t] = "idle"]
  /\ user' = [user EXCEPT ![t] = NoUser]
  /\ old' = [old EXCEPT ![t] = 0]
  /\ new' = [new EXCEPT ![t] = 0]
  /\ body' = [body EXCEPT ![t] = NoBody]
  /\ stale' = stale \ {t}

KeepLocals == UNCHANGED <<user, old, new, body, stale>>

\* Within the bound: u has an account or may get one.
HasRow(u) ==
  status[u] # "absent"
    \/ Cardinality({v \in Users : status[v] # "absent"}) < MaxAccounts

-----------------------------------------------------------------------------
(***************************************************************************)
(* POST /api/auth/exchange, for a verified email.                          *)
(***************************************************************************)
\* add_user: INSERT OR IGNORE, role 'human'.
ExchangeAddUser(t, u) ==
  /\ At(t, "idle") /\ HasRow(u)
  /\ GoTo(t, IF u \in AdminEmails THEN "promote" ELSE "check_status")
  /\ user' = [user EXCEPT ![t] = u]
  /\ status' = [status EXCEPT ![u] = IF @ = "absent" THEN "active" ELSE @]
  /\ UNCHANGED <<role, spaces, rows, delivered, old, new, body, stale, cut>>

\* set_user_role(email, "owner") for an ADMIN_EMAILS match.
ExchangePromote(t) ==
  /\ At(t, "promote")
  /\ GoTo(t, "check_status")
  /\ role' = [role EXCEPT ![user[t]] = "owner"]
  /\ stale' = stale \cup {r \in Threads : pc[r] \in UpdatePCs /\ user[r] = user[t]}
  /\ UNCHANGED <<status, spaces, rows, delivered, user, old, new, body, cut>>

\* get_user and the status check.  A disabled account gets a 403.
ExchangeDeny(t) ==
  /\ At(t, "check_status") /\ ~Active(user[t])
  /\ Done(t)
  /\ UNCHANGED <<accounts, rows, delivered, cut>>

ExchangeAllow(t) ==
  /\ At(t, "check_status") /\ Active(user[t])
  /\ GoTo(t, "find_space")
  /\ cut' = [cut EXCEPT ![user[t]] = "none"]
  /\ UNCHANGED <<accounts, rows, delivered>> /\ KeepLocals

\* Faulty variant: every login creates a space.
ExchangeMakeSpace(t) ==
  /\ At(t, "find_space")
  /\ GoTo(t, "create_space")
  /\ UNCHANGED <<accounts, rows, delivered, cut>> /\ KeepLocals

\* ensure_personal_space: SELECT, and only if nothing was found INSERT.
ExchangeFindSpace(t) ==
  /\ At(t, "find_space")
  /\ GoTo(t, IF spaces[user[t]] = 0 THEN "create_space" ELSE "create_session")
  /\ UNCHANGED <<accounts, rows, delivered, cut>> /\ KeepLocals

ExchangeCreateSpace(t) ==
  /\ At(t, "create_space")
  /\ GoTo(t, "create_session")
  /\ spaces' = [spaces EXCEPT ![user[t]] = @ + 1]
  /\ UNCHANGED <<status, role, rows, delivered, cut>> /\ KeepLocals

\* create_session and the reply with both cookies.
ExchangeCreateSession(t) ==
  /\ At(t, "create_session")
  /\ CreateSession(user[t], 0)
  /\ delivered' = delivered \cup {made + 1}
  /\ Done(t)
  /\ UNCHANGED <<accounts, cut>>

-----------------------------------------------------------------------------
(***************************************************************************)
(* GET /api/auth/session, the refresh.  A refresh token that is not live   *)
(* gets a 401 and changes nothing.                                         *)
(***************************************************************************)
\* Faulty variant: any known refresh token will do.
RotateReadAny(t, s) ==
  /\ At(t, "idle")
  /\ s \in delivered
  /\ GoTo(t, "rotate_create")
  /\ user' = [user EXCEPT ![t] = owner[s]]
  /\ old' = [old EXCEPT ![t] = s]
  /\ UNCHANGED <<accounts, rows, delivered, new, body, stale, cut>>

\* rotate_session reads the old session.
RotateRead(t, s) ==
  /\ At(t, "idle")
  /\ s \in delivered /\ Live(s)
  /\ GoTo(t, "rotate_create")
  /\ user' = [user EXCEPT ![t] = owner[s]]
  /\ old' = [old EXCEPT ![t] = s]
  /\ UNCHANGED <<accounts, rows, delivered, new, body, stale, cut>>

\* It creates the new one ...
RotateCreate(t) ==
  /\ At(t, "rotate_create")
  /\ CreateSession(user[t], old[t])
  /\ GoTo(t, "rotate_link")
  /\ new' = [new EXCEPT ![t] = made + 1]
  /\ UNCHANGED <<accounts, delivered, user, old, body, stale, cut>>

\* Faulty variant: the link is written to the new row.
RotateLinkSwapped(t) ==
  /\ At(t, "rotate_link")
  /\ GoTo(t, "rotate_check")
  /\ revoked' = [revoked EXCEPT ![old[t]] = TRUE]
  /\ next' = [next EXCEPT ![new[t]] = old[t]]
  /\ UNCHANGED <<accounts, made, owner, lapsed, parent, ended, delivered, cut>> /\ KeepLocals

\* ... and revokes the old one, linking it to the new.
RotateLink(t) ==
  /\ At(t, "rotate_link")
  /\ GoTo(t, "rotate_check")
  /\ revoked' = [revoked EXCEPT ![old[t]] = TRUE]
  /\ next' = [next EXCEPT ![old[t]] = new[t]]
  /\ UNCHANGED <<accounts, made, owner, lapsed, parent, ended, delivered, cut>> /\ KeepLocals

\* Faulty variant: the account's status is not read again.
RefreshDeliverUnchecked(t) ==
  /\ At(t, "rotate_check")
  /\ delivered' = delivered \cup {new[t]}
  /\ Done(t)
  /\ UNCHANGED <<accounts, rows, cut>>

\* get_user_by_id: an active account gets the new cookies ...
RefreshDeliver(t) ==
  /\ At(t, "rotate_check") /\ Active(user[t])
  /\ delivered' = delivered \cup {new[t]}
  /\ Done(t)
  /\ UNCHANGED <<accounts, rows, cut>>

\* ... any other has the new session revoked and its cookies cleared.
RefreshReject(t) ==
  /\ At(t, "rotate_check") /\ ~Active(user[t])
  /\ revoked' = [revoked EXCEPT ![new[t]] = TRUE]
  /\ Done(t)
  /\ UNCHANGED <<accounts, made, owner, next, lapsed, parent, ended, delivered, cut>>

\* POST /api/auth/logout: one UPDATE.
RotationOf(s) == \E t \in Threads : pc[t] \in RotatePCs /\ old[t] = s

Logout(s) ==
  /\ s \in delivered /\ ~revoked[s]
  /\ revoked' = [revoked EXCEPT ![s] = TRUE]
  /\ ended' = IF RotationOf(s) THEN ended ELSE ended \cup {s}
  /\ UNCHANGED <<accounts, made, owner, next, lapsed, parent, delivered, locals, cut>>

-----------------------------------------------------------------------------
(***************************************************************************)
(* Administration: PATCH /api/auth/admin/users/{id} and the `user` and     *)
(* `session` commands of the CLI, which make the same Store calls.  A      *)
(* thread carries the fields of the body it has still to apply.            *)
(***************************************************************************)
\* `user add`: add_user with a role of the operator's choice.
AddUser(u, r) ==
  /\ status[u] = "absent" /\ HasRow(u)
  /\ status' = [status EXCEPT ![u] = "active"]
  /\ role' = [role EXCEPT ![u] = r]
  /\ UNCHANGED <<spaces, rows, delivered, locals, cut>>

\* Faulty variant: the role of the row is not looked at.
UpdateReadAny(t, u, b) ==
  /\ At(t, "idle")
  /\ status[u] # "absent"
  /\ b # NoBody
  /\ GoTo(t, IF b.role = Keep THEN "set_status" ELSE "set_role")
  /\ user' = [user EXCEPT ![t] = u]
  /\ body' = [body EXCEPT ![t] = b]
  /\ UNCHANGED <<accounts, rows, delivered, old, new, stale, cut>>

\* Read the row and check it: the owner's role and status are refused, save
\* that `user enable` does not look at the role.
UpdateRead(t, u, b) ==
  /\ At(t, "idle")
  /\ status[u] # "absent"
  /\ role[u] # "owner" \/ b = Enable
  /\ b # NoBody
  /\ GoTo(t, IF b.role = Keep THEN "set_status" ELSE "set_role")
  /\ user' = [user EXCEPT ![t] = u]
  /\ body' = [body EXCEPT ![t] = b]
  /\ UNCHANGED <<accounts, rows, delivered, old, new, stale, cut>>

UpdateRole(t) ==
  /\ At(t, "set_role")
  /\ role' = [role EXCEPT ![user[t]] = body[t].role]
  /\ IF body[t].status = Keep THEN Done(t) ELSE GoTo(t, "set_status") /\ KeepLocals
  /\ UNCHANGED <<status, spaces, rows, delivered, cut>>

\* set_user_status; disabling goes on to the sessions.  What a forced logout
\* left in flight was in flight under the old status.
UpdateStatus(t) ==
  /\ At(t, "set_status")
  /\ status' = [status EXCEPT ![user[t]] = body[t].status]
  /\ cut' = [cut EXCEPT ![user[t]] = IF @ = "clean" THEN @ ELSE "none"]
  /\ IF body[t].status = "disabled"
       THEN GoTo(t, "revoke") /\ KeepLocals
       ELSE Done(t)
  /\ UNCHANGED <<role, spaces, rows, delivered>>

(***************************************************************************)
(* The bookkeeping of a forced logout: a login of u that has passed its    *)
(* status check, or a rotation that has read a session of u but not yet    *)
(* created the next one, will create a session this UPDATE cannot see.     *)
(***************************************************************************)
LoginInFlight(u)    == \E t \in Threads : pc[t] \in LoginPCs /\ user[t] = u
RotationInFlight(u) == \E t \in Threads : pc[t] = "rotate_create" /\ user[t] = u

Cut(u) ==
  cut' = [cut EXCEPT ![u] = IF LoginInFlight(u) THEN "login"
                            ELSE IF RotationInFlight(u) THEN "rotation"
                            ELSE "clean"]

\* revoke_user_sessions, the last step of disabling an account.
UpdateRevoke(t) ==
  /\ At(t, "revoke")
  /\ revoked' = AllRevoked(user[t])
  /\ Cut(user[t])
  /\ Done(t)
  /\ UNCHANGED <<accounts, made, owner, next, lapsed, parent, ended, delivered>>

\* POST .../revoke-sessions and `bbv2 session revoke`.
RevokeSessions(u) ==
  /\ status[u] # "absent"
  /\ revoked' = AllRevoked(u)
  /\ Cut(u)
  /\ UNCHANGED <<accounts, made, owner, next, lapsed, parent, ended, delivered, locals>>

-----------------------------------------------------------------------------
\* expires_at of the oldest live session passes.
Expire ==
  /\ lapsed < made
  /\ lapsed' = lapsed + 1
  /\ UNCHANGED <<accounts, made, owner, revoked, next, parent, ended, delivered, locals,
                 cut>>

\* The thread's process dies between two Store calls.
Crash(t) ==
  /\ pc[t] # "idle"
  /\ Done(t)
  /\ UNCHANGED <<accounts, rows, delivered, cut>>

Exchange(t) ==
  \/ \E u \in Users : ExchangeAddUser(t, u)
  \/ ExchangePromote(t) \/ ExchangeDeny(t) \/ ExchangeAllow(t)
  \/ ExchangeFindSpace(t) \/ ExchangeCreateSpace(t) \/ ExchangeCreateSession(t)

Refresh(t) ==
  \/ \E s \in Ids : RotateRead(t, s)
  \/ RotateCreate(t) \/ RotateLink(t) \/ RefreshDeliver(t) \/ RefreshReject(t)

UpdateUser(t) ==
  \/ \E u \in Users, b \in Bodies : UpdateRead(t, u, b)
  \/ UpdateRole(t) \/ UpdateStatus(t) \/ UpdateRevoke(t)

Next ==
  \/ \E t \in Threads : Exchange(t) \/ Refresh(t) \/ UpdateUser(t) \/ Crash(t)
  \/ \E s \in Ids : Logout(s)
  \/ \E u \in Users : RevokeSessions(u) \/ \E r \in {"human", "user"} : AddUser(u, r)
  \/ Expire

Spec == Init /\ [][Next]_vars

-----------------------------------------------------------------------------
(***************************************************************************)
(* A forced logout that caught no login and no rotation half-way is final: *)
(* until the user logs in again no session of theirs is live, whatever     *)
(* refreshes, logouts, status changes and crashes follow.                  *)
(***************************************************************************)
SessionsOf(u) == {s \in 1..made : owner[s] = u}

CleanCutIsFinal ==
  \A u \in Users : cut[u] = "clean" => \A s \in SessionsOf(u) : ~Live(s)

(***************************************************************************)
(* Disabling an account may race a refresh: refresh_session reads the      *)
(* status AFTER it created the new session, so no client of a disabled     *)
(* account ends up holding a live session, even if the server dies before  *)
(* it could revoke the new one.                                            *)
(***************************************************************************)
RotationCannotLeak ==
  \A u \in Users : cut[u] = "rotation" /\ status[u] = "disabled" =>
    \A s \in SessionsOf(u) \cap delivered : ~Live(s)

(***************************************************************************)
(* A forced logout (revoke-sessions, or the PATCH that disables an         *)
(* account) is final as far as no handler in flight could miss it.         *)
(***************************************************************************)
ForcedLogoutIsFinal == CleanCutIsFinal /\ RotationCannotLeak

(***************************************************************************)
(* The rotation chain.  Once a client has the cookies of a rotated session *)
(* the session it was rotated from is dead, for no reply is sent between   *)
(* the two; and replaced_by leads to a younger session of the same user    *)
(* that a rotation of this one made, and a replaced session is revoked.    *)
(***************************************************************************)
ChainSound ==
  /\ \A s \in delivered :
       parent[s] # 0 => revoked[parent[s]] /\ owner[parent[s]] = owner[s]
  /\ \A s \in 1..made : next[s] # 0 =>
       revoked[s] /\ next[s] > s /\ owner[next[s]] = owner[s] /\ parent[next[s]] = s

(***************************************************************************)
(* A logout that no refresh of the session was racing is final: the cookie *)
(* stays dead and no client is ever given a session rotated from it.  (One *)
(* that overtakes a refresh revokes the old session only: the new cookies  *)
(* are delivered all the same.)                                            *)
(***************************************************************************)
LogoutIsFinal ==
  \A s \in ended : ~Live(s) /\ \A c \in delivered : parent[c] # s

(***************************************************************************)
(* The owner is out of reach of an update: one that takes the role away,   *)
(* or disables the account, read the row before a login promoted it.       *)
(***************************************************************************)
OwnerOutOfReach ==
  [][\A u \in Users :
       role[u] = "owner" /\ (role'[u] # "owner" \/ (Active(u) /\ ~Active(u)')) =>
         \E t \in stale : user[t] = u /\ (UpdateRole(t) \/ UpdateStatus(t))]_vars

=============================================================================
