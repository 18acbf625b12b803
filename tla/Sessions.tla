------------------------------ MODULE Sessions ------------------------------
(***************************************************************************)
(* Signing in, staying signed in and signing out:                          *)
(* backend/src/auth/auth.service.ts and the JWT guard.                     *)
(*                                                                         *)
(* A sign-in yields a pair of tokens, named here by one t: a refresh token *)
(* with a row in the database, and an access token, a signed statement of  *)
(* the user's refreshTokenVersion that has no row.  refresh() revokes the  *)
(* row and issues the next pair of the same sign-in.  As in the other      *)
(* services, what a handler has read may be out of date when it writes;    *)
(* request[r] holds what request r has read.                               *)
(***************************************************************************)
EXTENDS Integers, FiniteSets

CONSTANTS
  Users,
  Tokens,       \* the pairs that can be issued, numbered in that order
  Requests,     \* the requests the API can be serving at the same time
  Endpoints,    \* the endpoints in use, a subset of AllEndpoints
  Statuses,     \* the statuses an administrator gives a user
  MaxVersion,   \* bound on refreshTokenVersion (a counter)
  None

AllEndpoints == {"login", "verify-otp", "refresh", "logout", "logout-all",
                 "reset-password"}
USER_STATUSES == {"PENDING", "ACTIVE", "SUSPENDED", "BANNED", "DELETED"}

ASSUME TokensAssumption == Tokens \subseteq Nat /\ IsFiniteSet(Tokens)
ASSUME RequestsAssumption == IsFiniteSet(Requests)
ASSUME EndpointsAssumption == Endpoints \subseteq AllEndpoints
ASSUME StatusesAssumption == Statuses \subseteq USER_STATUSES
ASSUME VersionAssumption == MaxVersion \in Nat
ASSUME NoneAssumption == None \notin Users \cup Tokens

VARIABLES
  status,    \* User.status
  version,   \* User.refreshTokenVersion
  owner,     \* whose pair it is, None before it is issued
  revoked,   \* whether the row of the refresh token has revokedAt
  rtv,       \* the version its access token states
  age,       \* what has expired: nothing, the access token, or both
  root,      \* history: the first pair of the sign-in it belongs to
  swept,     \* history: roots of the sign-ins a logout-all was to end
  voided,    \* history: roots of the sign-ins a password reset was to end
  strays,    \* history: how many rotations of a sign-in others overtook
  request    \* what each request in flight has read, and where it stands

userRows == <<status, version>>
pairs == <<owner, revoked, rtv, age, root>>
history == <<swept, voided, strays>>
vars == <<userRows, pairs, history, request>>

-----------------------------------------------------------------------------
Ages == {"fresh", "stale", "expired"}
Working == {"activating", "reading", "revoking", "issuing", "removing",
            "sweeping", "resetting"}
Stages == Working \cup {"idle", "answered", "refused"}

Request ==
  [at    : Stages,
   user  : Users \cup {None},
   token : Tokens \cup {None},    \* the pair presented, or in the answer
   rtv   : Nat,
   root  : Tokens \cup {None}]

Waiting(at, u, t, v, first) ==
  [at |-> at, user |-> u, token |-> t, rtv |-> v, root |-> first]
Idle == Waiting("idle", None, None, 0, None)
Refusal == Waiting("refused", None, None, 0, None)

Becomes(r, next) == request' = [request EXCEPT ![r] = next]
Starts(r, endpoint) == request[r] = Idle /\ endpoint \in Endpoints

Issued(t) == owner[t] # None
Live(t) == Issued(t) /\ ~revoked[t]
SignIns(u) == {root[t] : t \in {s \in Tokens : owner[s] = u}}

(* The refresh tokens of a sign-in that work, and the rotations of it that *)
(* have revoked the old token and not yet issued the next.                 *)
LiveOf(first) == {t \in Tokens : Live(t) /\ root[t] = first}
RotationsOf(first) ==
  {r \in Requests : request[r].at = "issuing" /\ request[r].root = first}

(* verifyAccessToken(), which the guard asks about every request.          *)
Accepts(t) ==
  /\ Issued(t) /\ age[t] = "fresh"
  /\ status[owner[t]] \notin {"SUSPENDED", "BANNED", "DELETED"}
  /\ version[owner[t]] = rtv[t]

Init ==
  /\ status = [u \in Users |-> "PENDING"]
  /\ version = [u \in Users |-> 0]
  /\ owner = [t \in Tokens |-> None]
  /\ revoked = [t \in Tokens |-> FALSE]
  /\ rtv = [t \in Tokens |-> 0]
  /\ age = [t \in Tokens |-> "fresh"]
  /\ root = [t \in Tokens |-> None]
  /\ swept = {}
  /\ voided = {}
  /\ strays = [t \in Tokens |-> 0]
  /\ request = [r \in Requests |-> Idle]

-----------------------------------------------------------------------------
(* POST /auth/login, with the right password.                              *)
LoginCheck(r, u) ==
  /\ Starts(r, "login")
  /\ status[u] \notin {"SUSPENDED", "BANNED", "PENDING"}
  /\ Becomes(r, Waiting("issuing", u, None, version[u], None))
  /\ UNCHANGED <<userRows, pairs, history>>

(***************************************************************************)
(* POST /auth/verify-otp, once the code of that purpose is consumed: a     *)
(* REGISTER code activates the user, whoever comes back is read again, and *)
(* no status is checked.                                                   *)
(***************************************************************************)
OtpAccept(r, u, purpose) ==
  /\ Starts(r, "verify-otp")
  /\ Becomes(r, Waiting(IF purpose = "REGISTER" THEN "activating" ELSE "reading",
                        u, None, 0, None))
  /\ UNCHANGED <<userRows, pairs, history>>

OtpActivate(r) ==
  LET u == request[r].user IN
  /\ request[r].at = "activating"
  /\ status' = [status EXCEPT ![u] = "ACTIVE"]
  /\ Becomes(r, Waiting("reading", u, None, 0, None))
  /\ UNCHANGED <<version, pairs, history>>

OtpRead(r) ==
  LET u == request[r].user IN
  /\ request[r].at = "reading"
  /\ Becomes(r, Waiting("issuing", u, None, version[u], None))
  /\ UNCHANGED <<userRows, pairs, history>>

(***************************************************************************)
(* POST /auth/refresh: check, revoke, and issue the next pair, stating the *)
(* version that was read with the check.                                   *)
(***************************************************************************)
MayRefresh(t) ==
  /\ Live(t) /\ age[t] # "expired"
  /\ status[owner[t]] \notin {"SUSPENDED", "BANNED"}

RefreshCheck(r, t) ==
  /\ Starts(r, "refresh")
  /\ MayRefresh(t)
  /\ Becomes(r, Waiting("revoking", owner[t], t, version[owner[t]], root[t]))
  /\ UNCHANGED <<userRows, pairs, history>>

RefreshRefuse(r, t) ==
  /\ Starts(r, "refresh")
  /\ Issued(t) /\ ~MayRefresh(t)
  /\ Becomes(r, Refusal)
  /\ UNCHANGED <<userRows, pairs, history>>

RevokedByRefreshNot(t) == revoked           \* a mutant: the old row stays live
RevokedByRefresh(t) == [revoked EXCEPT ![t] = TRUE]

(* The row is revoked by its id: one that another request has revoked in   *)
(* the meantime is revoked again, and the rotation goes on.                *)
RefreshRevoke(r) ==
  LET q == request[r] IN
  /\ q.at = "revoking"
  /\ revoked' = RevokedByRefresh(q.token)
  /\ strays' = [strays EXCEPT ![q.root] = IF revoked[q.token] THEN @ + 1 ELSE @]
  /\ Becomes(r, Waiting("issuing", q.user, None, q.rtv, q.root))
  /\ UNCHANGED <<userRows, owner, rtv, age, root, swept, voided>>

(* issueTokens(): randomBytes() never repeats itself.                      *)
Fresh(t) == ~Issued(t) /\ \A s \in Tokens : ~Issued(s) => t <= s

Stated(q) == q.rtv

Issue(r) ==
  LET q == request[r] IN
  /\ q.at = "issuing"
  /\ \E t \in Tokens :
       /\ Fresh(t)
       /\ owner' = [owner EXCEPT ![t] = q.user]
       /\ rtv' = [rtv EXCEPT ![t] = Stated(q)]
       /\ root' = [root EXCEPT ![t] = IF q.root = None THEN t ELSE q.root]
       /\ Becomes(r, Waiting("answered", q.user, t, 0, None))
  /\ UNCHANGED <<userRows, revoked, age, history>>

(***************************************************************************)
(* POST /auth/logout behind the guard (with access token `a`), for the     *)
(* refresh token in the body; without one it does nothing.                 *)
(***************************************************************************)
LogoutCheck(r, a, t) ==
  /\ Starts(r, "logout")
  /\ Accepts(a) /\ Issued(t)
  /\ Becomes(r, Waiting("removing", owner[a], t, 0, None))
  /\ UNCHANGED <<userRows, pairs, history>>

LogoutWrite(r) ==
  LET t == request[r].token IN
  /\ request[r].at = "removing"
  /\ revoked' = [revoked EXCEPT ![t] = TRUE]
  /\ Becomes(r, Waiting("answered", None, None, 0, None))
  /\ UNCHANGED <<userRows, owner, rtv, age, root, history>>

(* POST /auth/logout-all: rows and version change in one transaction; the  *)
(* rotations that have yet to issue go on.                                 *)
LogoutAllCheck(r, a) ==
  /\ Starts(r, "logout-all")
  /\ Accepts(a)
  /\ Becomes(r, Waiting("sweeping", owner[a], None, 0, None))
  /\ UNCHANGED <<userRows, pairs, history>>

RevokedByFreshOnly(u) ==      \* a mutant: only those whose access token works
  [t \in Tokens |-> revoked[t] \/ (owner[t] = u /\ Accepts(t))]
RevokedBy(u) == [t \in Tokens |-> revoked[t] \/ owner[t] = u]

LogoutAllWrite(r) ==
  LET u == request[r].user IN
  /\ request[r].at = "sweeping"
  /\ version[u] < MaxVersion
  /\ revoked' = RevokedBy(u)
  /\ version' = [version EXCEPT ![u] = @ + 1]
  /\ swept' = swept \cup SignIns(u)
  /\ strays' = [t \in Tokens |-> IF t \in SignIns(u) THEN Cardinality(RotationsOf(t))
                                 ELSE strays[t]]
  /\ Becomes(r, Waiting("answered", None, None, 0, None))
  /\ UNCHANGED <<status, owner, rtv, age, root, voided>>

(***************************************************************************)
(* POST /auth/reset-password, once its code is accepted: the user is       *)
(* activated and the version moves on, but no row is revoked.              *)
(***************************************************************************)
ResetAccept(r, u) ==
  /\ Starts(r, "reset-password")
  /\ Becomes(r, Waiting("resetting", u, None, 0, None))
  /\ UNCHANGED <<userRows, pairs, history>>

ResetVersionZero(v) == 0      \* a mutant: the version starts anew
ResetVersion(v) == v + 1

ResetWrite(r) ==
  LET u == request[r].user IN
  /\ request[r].at = "resetting"
  /\ version[u] < MaxVersion
  /\ status' = [status EXCEPT ![u] = "ACTIVE"]
  /\ version' = [version EXCEPT ![u] = ResetVersion(@)]
  /\ voided' = voided \cup SignIns(u)
  /\ Becomes(r, Waiting("answered", None, None, 0, None))
  /\ UNCHANGED <<pairs, swept, strays>>

(* The answer leaves; or, before it, a statement fails or the process dies.*)
Respond(r) ==
  /\ request[r].at \in {"answered", "refused"}
  /\ Becomes(r, Idle)
  /\ UNCHANGED <<userRows, pairs, history>>

RequestFails(r) ==
  /\ request[r].at \in Working
  /\ Becomes(r, Refusal)
  /\ UNCHANGED <<userRows, pairs, history>>

(* PATCH /admin/users/:id/status, and the clock.                           *)
SetUserStatus(u, s) ==
  /\ status' = [status EXCEPT ![u] = s]
  /\ UNCHANGED <<version, pairs, history, request>>

Older(a) == IF a = "fresh" THEN "stale" ELSE "expired"
Lapse(t) ==
  /\ Issued(t) /\ age[t] # "expired"
  /\ age' = [age EXCEPT ![t] = Older(@)]
  /\ UNCHANGED <<userRows, owner, revoked, rtv, root, history, request>>

-----------------------------------------------------------------------------
SignIn(r) ==
  \/ \E u \in Users :
       \/ LoginCheck(r, u)
       \/ \E purpose \in {"LOGIN", "REGISTER"} : OtpAccept(r, u, purpose)
  \/ OtpActivate(r) \/ OtpRead(r) \/ Issue(r)

Refresh(r) ==
  \/ \E t \in Tokens : RefreshCheck(r, t) \/ RefreshRefuse(r, t)
  \/ RefreshRevoke(r)

SignOut(r) ==
  \/ \E a, t \in Tokens : LogoutCheck(r, a, t)
  \/ \E a \in Tokens : LogoutAllCheck(r, a)
  \/ LogoutWrite(r) \/ LogoutAllWrite(r)

Reset(r) == (\E u \in Users : ResetAccept(r, u)) \/ ResetWrite(r)

Next ==
  \/ \E r \in Requests :
       SignIn(r) \/ Refresh(r) \/ SignOut(r) \/ Reset(r) \/ Respond(r) \/ RequestFails(r)
  \/ \E u \in Users, s \in Statuses : SetUserStatus(u, s)
  \/ \E t \in Tokens : Lapse(t)

Spec == Init /\ [][Next]_vars

(* The requests for one user's sessions come one after the other.          *)
Busy(r) == request[r].at \in Working
OnePerUser ==
  \A r, s \in Requests :
    r # s /\ Busy(r) /\ Busy(s) => request[r].user # request[s].user

SerialNext == Next /\ OnePerUser'
SerialSpec == Init /\ [][SerialNext]_vars

-----------------------------------------------------------------------------
(***************************************************************************)
(* Properties                                                              *)
(***************************************************************************)

(* Rows, tokens and requests have the shape the code gives them; a request *)
(* at work is about a user, one that revokes is about an issued pair, and  *)
(* every issued pair belongs to a sign-in.                                 *)
TypeOK ==
  /\ status \in [Users -> USER_STATUSES]
  /\ version \in [Users -> Nat]
  /\ owner \in [Tokens -> Users \cup {None}]
  /\ revoked \in [Tokens -> BOOLEAN]
  /\ rtv \in [Tokens -> Nat]
  /\ age \in [Tokens -> Ages]
  /\ root \in [Tokens -> Tokens \cup {None}]
  /\ swept \subseteq Tokens
  /\ voided \subseteq Tokens
  /\ strays \in [Tokens -> Nat]
  /\ request \in [Requests -> Request]
  /\ \A r \in Requests :
       /\ request[r].at \in Working => request[r].user \in Users
       /\ request[r].at \in {"revoking", "removing"} =>
            request[r].token \in Tokens /\ Issued(request[r].token)
  /\ \A t \in Tokens : Issued(t) => root[t] \in Tokens

(* However requests overlap, an access token that a sign-out-all or a      *)
(* password reset has put out of date is never in date again, also when it *)
(* was issued afterwards by a request that had read the old version.       *)
OutOfDate(t) == Issued(t) /\ rtv[t] # version[owner[t]]
StaleAccessStaysDead ==
  [][\A t \in Tokens : OutOfDate(t) => OutOfDate(t)']_vars

(* Rotation replaces, it never multiplies: however requests overlap, the   *)
(* refresh tokens of a sign-in that work are one, and one more for each    *)
(* rotation that another request overtook between its check and its writes *)
(* (refresh(), which revokes whatever row it has checked).                 *)
RotationReplaces ==
  \A first \in Tokens : Cardinality(LiveOf(first)) <= 1 + strays[first]

(* A sign-out-all ends every sign-in of the user but for the rotations it  *)
(* overtook: however requests overlap, as many refresh tokens work         *)
(* afterwards as there were such rotations, and without one none           *)
(* (logoutAll() against refresh()).                                        *)
SignOutAllEnds ==
  \A first \in swept : Cardinality(LiveOf(first)) <= strays[first]

-----------------------------------------------------------------------------
(***************************************************************************)
(* The inductive invariants of the proofs in SessionsProofs.               *)
(***************************************************************************)

(* Under any overlap: no token and no request is ahead of its user.        *)
NotAhead ==
  /\ \A t \in Tokens : Issued(t) => rtv[t] <= version[owner[t]]
  /\ \A r \in Requests :
       request[r].at \in {"revoking", "issuing"} =>
         request[r].rtv <= version[request[r].user]

(* Every pair belongs to a sign-in of its user, and so does every pair     *)
(* that a request rotates.                                                 *)
Rooted ==
  /\ \A t \in Tokens : Issued(t) => Issued(root[t]) /\ owner[root[t]] = owner[t]
  /\ \A t \in swept : Issued(t)
  /\ \A r \in Requests :
       LET q == request[r] IN
       /\ q.at = "revoking" => q.root = root[q.token] /\ q.root # None
       /\ q.at \in {"revoking", "issuing"} /\ q.root # None =>
            Issued(q.root) /\ owner[q.root] = q.user

(* The tokens of a sign-in that work and those yet to come are one, none   *)
(* after a sign-out-all, and one more for each rotation overtaken.         *)
Within(first) ==
  Cardinality(LiveOf(first)) + Cardinality(RotationsOf(first))
    <= (IF first \in swept THEN 0 ELSE 1) + strays[first]

RotationInv == Rooted /\ \A first \in Tokens : Within(first)

=============================================================================
