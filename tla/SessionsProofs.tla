--------------------------- MODULE SessionsProofs ---------------------------
(***************************************************************************)
(* Theorems about Sessions, for every set of users, for any finite number  *)
(* of requests and of tokens, and for every choice of endpoints and bounds.     *)
(***************************************************************************)
EXTENDS Sessions, FiniteSetTheorems, TLAPS

(***************************************************************************)
(* Rows and requests keep their shape.                                     *)
(***************************************************************************)
Shaped(q) ==
  /\ q.at \in Working => q.user \in Users
  /\ q.at \in {"revoking", "removing"} => q.token \in Tokens /\ Issued(q.token)

LEMMA StageNames ==
  /\ Working = {"activating", "reading", "revoking", "issuing", "removing",
                "sweeping", "resetting"}
  /\ Stages = Working \cup {"idle", "answered", "refused"}
BY DEF Working, Stages

LEMMA NoneApart == None \notin Users /\ None \notin Tokens
BY NoneAssumption

(* A record that a handler builds has the parts it was built from.         *)
LEMMA WaitingParts ==
  ASSUME NEW at, NEW u, NEW t, NEW v, NEW first
  PROVE  LET q == Waiting(at, u, t, v, first) IN
         q.at = at /\ q.user = u /\ q.token = t /\ q.rtv = v /\ q.root = first
BY DEF Waiting

LEMMA WaitingTyped ==
  ASSUME NEW at \in Stages, NEW u \in Users \cup {None}, NEW t \in Tokens \cup {None},
         NEW v \in Nat, NEW first \in Tokens \cup {None}
  PROVE  Waiting(at, u, t, v, first) \in Request
BY DEF Waiting, Request

(* What a step of request r does to the record of each request.            *)
LEMMA RequestStep ==
  ASSUME TypeOK, NEW r \in Requests, NEW q \in Request, Becomes(r, q)
  PROVE  /\ request' \in [Requests -> Request]
         /\ request'[r] = q
         /\ \A s \in Requests \ {r} : request'[s] = request[s]
BY DEF TypeOK, Becomes

(* Request r goes on to a record that is in shape; no pair is unissued.    *)
LEMMA TypeStep ==
  ASSUME TypeOK, NEW r \in Requests, NEW q \in Request, Becomes(r, q),
         q.at \in Working => q.user \in Users,
         q.at \in {"revoking", "removing"} =>
            q.token \in Tokens /\ owner[q.token] # None,
         \A t \in Tokens : owner[t] # None => owner'[t] # None,
         \A t \in Tokens : owner'[t] # None => root'[t] \in Tokens,
         status' \in [Users -> USER_STATUSES],
         version' \in [Users -> Nat],
         owner' \in [Tokens -> Users \cup {None}],
         revoked' \in [Tokens -> BOOLEAN],
         rtv' \in [Tokens -> Nat],
         age' \in [Tokens -> Ages],
         root' \in [Tokens -> Tokens \cup {None}],
         swept' \subseteq Tokens, voided' \subseteq Tokens,
         strays' \in [Tokens -> Nat]
  PROVE  TypeOK'
<1>1. /\ request' \in [Requests -> Request]
      /\ request'[r] = q
      /\ \A s \in Requests \ {r} : request'[s] = request[s]
  BY RequestStep
<1>2. ASSUME NEW s \in Requests
      PROVE  /\ request'[s].at \in Working => request'[s].user \in Users
             /\ request'[s].at \in {"revoking", "removing"} =>
                  request'[s].token \in Tokens /\ owner'[request'[s].token] # None
  <2>1. CASE s = r
    BY <1>1, <2>1
  <2>2. CASE s # r
    <3>1. request'[s] = request[s]
      BY <1>1, <2>2
    <3>. QED
      BY <3>1 DEF TypeOK, Issued
  <2>. QED
    BY <2>1, <2>2
<1>. QED
  BY <1>1, <1>2 DEF TypeOK, Issued

(* Request r goes on, and nothing else changes.                            *)
LEMMA TypeReadStep ==
  ASSUME TypeOK, NEW r \in Requests,
         NEW at \in Stages, NEW u \in Users \cup {None}, NEW t \in Tokens \cup {None},
         NEW v \in Nat, NEW first \in Tokens \cup {None},
         Becomes(r, Waiting(at, u, t, v, first)),
         at \in Working => u \in Users,
         at \in {"revoking", "removing"} => t \in Tokens /\ owner[t] # None,
         UNCHANGED <<userRows, pairs, history>>
  PROVE  TypeOK'
<1> DEFINE q == Waiting(at, u, t, v, first)
<1>1. q \in Request
  BY WaitingTyped
<1>2. q.at = at /\ q.user = u /\ q.token = t
  BY WaitingParts
<1>3. Becomes(r, q)
  OBVIOUS
<1> HIDE DEF q
<1>4. UNCHANGED <<status, version, owner, revoked, rtv, age, root, swept, voided, strays>>
  BY DEF userRows, pairs, history
<1>. QED
  BY <1>1, <1>2, <1>3, <1>4, TypeStep DEF TypeOK, Issued

LEMMA IdleTyped == Idle \in Request /\ Idle.at = "idle"
BY DEF Idle, Waiting, Request, Stages

LEMMA SignInTyped ==
  ASSUME TypeOK, NEW r \in Requests, SignIn(r)
  PROVE  TypeOK'
<1> DEFINE q == request[r]
<1>0. q \in Request /\ (q.at \in Working => q.user \in Users)
  BY DEF TypeOK
<1>1. ASSUME NEW u \in Users, LoginCheck(r, u)
      PROVE  TypeOK'
  <2>1. version[u] \in Nat
    BY DEF TypeOK
  <2>2. /\ Becomes(r, Waiting("issuing", u, None, version[u], None))
        /\ UNCHANGED <<userRows, pairs, history>>
    BY <1>1 DEF LoginCheck
  <2>. QED
    BY <2>1, <2>2, TypeReadStep, StageNames
<1>2. ASSUME NEW u \in Users, NEW purpose \in {"LOGIN", "REGISTER"},
             OtpAccept(r, u, purpose)
      PROVE  TypeOK'
  <2>1. PICK at \in {"activating", "reading"} :
          /\ Becomes(r, Waiting(at, u, None, 0, None))
          /\ UNCHANGED <<userRows, pairs, history>>
    BY <1>2 DEF OtpAccept
  <2>. QED
    BY <2>1, TypeReadStep, StageNames
<1>3. CASE OtpActivate(r)
  <2>1. q.user \in Users
    BY <1>0, <1>3, StageNames DEF OtpActivate
  <2> DEFINE w == Waiting("reading", q.user, None, 0, None)
  <2>2. w \in Request /\ w.at = "reading" /\ w.user = q.user
    <3>1. w \in Request
      BY <2>1, WaitingTyped, StageNames
    <3>. QED
      BY <3>1 DEF Waiting
  <2>3. Becomes(r, w)
    BY <1>3 DEF OtpActivate
  <2>4. status' \in [Users -> USER_STATUSES]
    BY <1>3, <2>1 DEF OtpActivate, TypeOK, USER_STATUSES
  <2>5. UNCHANGED <<version, owner, revoked, rtv, age, root, swept, voided, strays>>
    BY <1>3 DEF OtpActivate, pairs, history
  <2> HIDE DEF w
  <2>. QED
    BY <2>1, <2>2, <2>3, <2>4, <2>5, TypeStep DEF TypeOK, Issued
<1>4. CASE OtpRead(r)
  <2>1. q.user \in Users
    BY <1>0, <1>4, StageNames DEF OtpRead
  <2>2. version[q.user] \in Nat
    BY <2>1 DEF TypeOK
  <2>3. /\ Becomes(r, Waiting("issuing", q.user, None, version[q.user], None))
        /\ UNCHANGED <<userRows, pairs, history>>
    BY <1>4 DEF OtpRead
  <2>. QED
    BY <2>1, <2>2, <2>3, TypeReadStep, StageNames
<1>5. CASE Issue(r)
  <2>1. PICK t \in Tokens :
          /\ Fresh(t)
          /\ owner' = [owner EXCEPT ![t] = q.user]
          /\ rtv' = [rtv EXCEPT ![t] = q.rtv]
          /\ root' = [root EXCEPT ![t] = IF q.root = None THEN t ELSE q.root]
          /\ Becomes(r, Waiting("answered", q.user, t, 0, None))
    BY <1>5 DEF Issue, Stated
  <2>2. q.user \in Users /\ q.rtv \in Nat /\ q.root \in Tokens \cup {None}
    BY <1>0, <1>5, StageNames DEF Issue, Request
  <2>3. UNCHANGED <<status, version, revoked, age, swept, voided, strays>>
    BY <1>5 DEF Issue, userRows, history
  <2> DEFINE first == IF q.root = None THEN t ELSE q.root
             w == Waiting("answered", q.user, t, 0, None)
  <2>4. first \in Tokens
    BY <2>2
  <2>5. w \in Request /\ w.at = "answered"
    BY <2>2, WaitingTyped, WaitingParts, StageNames
  <2>6. Becomes(r, w) /\ root' = [root EXCEPT ![t] = first]
    BY <2>1
  <2> HIDE DEF w, first
  <2>7. /\ owner' \in [Tokens -> Users \cup {None}]
        /\ rtv' \in [Tokens -> Nat]
        /\ root' \in [Tokens -> Tokens \cup {None}]
    BY <2>1, <2>2, <2>4, <2>6 DEF TypeOK
  <2>8. \A s \in Tokens : owner[s] # None => owner'[s] # None
    BY <2>1, <2>2, NoneApart DEF TypeOK
  <2>9. \A s \in Tokens : owner'[s] # None => root'[s] \in Tokens
    BY <2>1, <2>4, <2>6 DEF TypeOK, Issued
  <2>. QED
    BY <2>3, <2>5, <2>6, <2>7, <2>8, <2>9, TypeStep, StageNames DEF TypeOK
<1>. QED
  BY <1>1, <1>2, <1>3, <1>4, <1>5 DEF SignIn

LEMMA RefreshTyped ==
  ASSUME TypeOK, NEW r \in Requests, Refresh(r)
  PROVE  TypeOK'
<1> DEFINE q == request[r]
<1>0. q \in Request /\ Shaped(q)
  BY DEF TypeOK, Shaped
<1>1. ASSUME NEW t \in Tokens, RefreshCheck(r, t)
      PROVE  TypeOK'
  <2>1. /\ Becomes(r, Waiting("revoking", owner[t], t, version[owner[t]], root[t]))
        /\ UNCHANGED <<userRows, pairs, history>>
        /\ owner[t] # None
    BY <1>1 DEF RefreshCheck, MayRefresh, Live, Issued
  <2>2. owner[t] \in Users /\ root[t] \in Tokens
    BY <2>1 DEF TypeOK, Issued
  <2>3. version[owner[t]] \in Nat
    BY <2>2 DEF TypeOK
  <2>. QED
    BY <2>1, <2>2, <2>3, TypeReadStep, StageNames
<1>2. ASSUME NEW t \in Tokens, RefreshRefuse(r, t)
      PROVE  TypeOK'
  BY <1>2, TypeReadStep, StageNames DEF RefreshRefuse, Refusal
<1>3. CASE RefreshRevoke(r)
  <2>1. q.at = "revoking" /\ revoked' = [revoked EXCEPT ![q.token] = TRUE]
    BY <1>3 DEF RefreshRevoke, RevokedByRefresh
  <2>2. q.user \in Users /\ q.token \in Tokens /\ q.rtv \in Nat /\ q.root \in Tokens \cup {None}
    BY <1>0, <2>1, StageNames DEF Shaped, Request
  <2> DEFINE w == Waiting("issuing", q.user, None, q.rtv, q.root)
  <2>3. w \in Request
    BY <2>2, WaitingTyped, StageNames
  <2>4. w.at = "issuing" /\ w.user = q.user
    BY DEF Waiting
  <2>5. Becomes(r, w)
    BY <1>3 DEF RefreshRevoke
  <2>6. UNCHANGED <<status, version, owner, rtv, age, root, swept, voided>>
    BY <1>3 DEF RefreshRevoke, userRows
  <2>8. strays' \in [Tokens -> Nat]
    <3>1. strays' = [strays EXCEPT ![q.root] = IF revoked[q.token] THEN @ + 1 ELSE @]
      BY <1>3 DEF RefreshRevoke
    <3>2. CASE q.root = None
      BY <3>1, <3>2, NoneApart DEF TypeOK
    <3>3. CASE q.root # None
      <4>1. strays[q.root] \in Nat /\ strays[q.root] + 1 \in Nat
        BY <2>2, <3>3 DEF TypeOK
      <4>2. (IF revoked[q.token] THEN strays[q.root] + 1 ELSE strays[q.root]) \in Nat
        BY <4>1
      <4>. QED
        BY <3>1, <4>2 DEF TypeOK
    <3>. QED
      BY <3>2, <3>3
  <2>7. revoked' \in [Tokens -> BOOLEAN]
    BY <2>1, <2>2 DEF TypeOK
  <2> HIDE DEF w
  <2>. QED
    BY <2>2, <2>3, <2>4, <2>5, <2>6, <2>7, <2>8, TypeStep DEF TypeOK, Issued
<1>. QED
  BY <1>1, <1>2, <1>3 DEF Refresh

(* A request that is answered after writing rows that are still rows.      *)
LEMMA TypeAnswerStep ==
  ASSUME TypeOK, NEW r \in Requests,
         Becomes(r, Waiting("answered", None, None, 0, None)),
         status' \in [Users -> USER_STATUSES],
         version' \in [Users -> Nat],
         revoked' \in [Tokens -> BOOLEAN],
         swept' \subseteq Tokens, voided' \subseteq Tokens,
         strays' \in [Tokens -> Nat],
         UNCHANGED <<owner, rtv, age, root>>
  PROVE  TypeOK'
<1> DEFINE w == Waiting("answered", None, None, 0, None)
<1>1. w \in Request
  BY WaitingTyped, StageNames
<1>2. w.at = "answered"
  BY DEF Waiting
<1>3. Becomes(r, w)
  OBVIOUS
<1> HIDE DEF w
<1>. QED
  BY <1>1, <1>2, <1>3, TypeStep, StageNames DEF TypeOK, Issued

LEMMA SignInsTyped ==
  ASSUME TypeOK, NEW u \in Users
  PROVE  SignIns(u) \subseteq Tokens
<1>1. ASSUME NEW t \in Tokens, owner[t] = u
      PROVE  root[t] \in Tokens
  BY <1>1, NoneApart DEF TypeOK, Issued
<1>. QED
  BY <1>1 DEF SignIns

(* Finitely many tokens of a sign-in work, and finitely many requests      *)
(* rotate it.                                                              *)
LEMMA Smaller ==
  ASSUME NEW S, NEW T, IsFiniteSet(T), S \subseteq T
  PROVE  /\ IsFiniteSet(S) /\ Cardinality(S) \in Nat /\ Cardinality(T) \in Nat
         /\ Cardinality(S) <= Cardinality(T)
BY FS_Subset, FS_CardinalityType

LEMMA Counted ==
  ASSUME NEW first
  PROVE  /\ IsFiniteSet(LiveOf(first)) /\ Cardinality(LiveOf(first)) \in Nat
         /\ IsFiniteSet(RotationsOf(first)) /\ Cardinality(RotationsOf(first)) \in Nat
<1>1. LiveOf(first) \subseteq Tokens /\ RotationsOf(first) \subseteq Requests
  BY DEF LiveOf, RotationsOf
<1>. QED
  BY <1>1, Smaller, TokensAssumption, RequestsAssumption

LEMMA SignOutTyped ==
  ASSUME TypeOK, NEW r \in Requests, SignOut(r) \/ Reset(r)
  PROVE  TypeOK'
<1> DEFINE q == request[r]
<1>0. q \in Request /\ Shaped(q)
  BY DEF TypeOK, Shaped
<1>1. ASSUME NEW a \in Tokens, NEW t \in Tokens, LogoutCheck(r, a, t)
      PROVE  TypeOK'
  <2>1. owner[a] \in Users /\ owner[t] # None
    BY <1>1 DEF LogoutCheck, Accepts, Issued, TypeOK
  <2>. QED
    BY <1>1, <2>1, TypeReadStep, StageNames DEF LogoutCheck
<1>2. ASSUME NEW a \in Tokens, LogoutAllCheck(r, a)
      PROVE  TypeOK'
  <2>1. owner[a] \in Users
    BY <1>2 DEF LogoutAllCheck, Accepts, Issued, TypeOK
  <2>. QED
    BY <1>2, <2>1, TypeReadStep, StageNames DEF LogoutAllCheck
<1>3. ASSUME NEW u \in Users, ResetAccept(r, u)
      PROVE  TypeOK'
  BY <1>3, TypeReadStep, StageNames DEF ResetAccept
<1>4. CASE LogoutWrite(r)
  <2>1. revoked' \in [Tokens -> BOOLEAN]
    BY <1>4 DEF LogoutWrite, TypeOK
  <2>. QED
    BY <1>4, <2>1, TypeAnswerStep DEF LogoutWrite, TypeOK, userRows, history
<1>5. CASE LogoutAllWrite(r)
  <2>1. q.user \in Users
    BY <1>0, <1>5, StageNames DEF LogoutAllWrite, Shaped
  <2>2. version' \in [Users -> Nat]
    BY <1>5, <2>1 DEF LogoutAllWrite, TypeOK
  <2>3. revoked' \in [Tokens -> BOOLEAN]
    BY <1>5 DEF LogoutAllWrite, RevokedBy, TypeOK
  <2>4. swept' \subseteq Tokens
    BY <1>5, <2>1, SignInsTyped DEF LogoutAllWrite, TypeOK
  <2>5. strays' \in [Tokens -> Nat]
    BY <1>5, Counted DEF LogoutAllWrite, TypeOK
  <2>. QED
    BY <1>5, <2>2, <2>3, <2>4, <2>5, TypeAnswerStep DEF LogoutAllWrite, TypeOK
<1>6. CASE ResetWrite(r)
  <2>1. q.user \in Users
    BY <1>0, <1>6, StageNames DEF ResetWrite, Shaped
  <2>2. /\ status' \in [Users -> USER_STATUSES]
        /\ version' \in [Users -> Nat]
    BY <1>6, <2>1 DEF ResetWrite, ResetVersion, TypeOK, USER_STATUSES
  <2>3. voided' \subseteq Tokens
    BY <1>6, <2>1, SignInsTyped DEF ResetWrite, TypeOK
  <2>. QED
    BY <1>6, <2>2, <2>3, TypeAnswerStep DEF ResetWrite, TypeOK, pairs
<1>. QED
  BY <1>1, <1>2, <1>3, <1>4, <1>5, <1>6 DEF SignOut, Reset

LEMMA StepTyped ==
  ASSUME TypeOK, Next
  PROVE  TypeOK'
<1>1. ASSUME NEW r \in Requests, Respond(r) \/ RequestFails(r)
      PROVE  TypeOK'
  BY <1>1, TypeReadStep, StageNames DEF Respond, RequestFails, Idle, Refusal
<1>2. ASSUME NEW u \in Users, NEW s \in Statuses, SetUserStatus(u, s)
      PROVE  TypeOK'
  BY <1>2, StatusesAssumption DEF SetUserStatus, TypeOK, Issued, pairs, history
<1>3. ASSUME NEW t \in Tokens, Lapse(t)
      PROVE  TypeOK'
  <2>1. age' \in [Tokens -> Ages]
    BY <1>3 DEF Lapse, Older, TypeOK, Ages
  <2>. QED
    BY <1>3, <2>1 DEF Lapse, TypeOK, Issued, userRows, history
<1>. QED
  BY <1>1, <1>2, <1>3, SignInTyped, RefreshTyped, SignOutTyped DEF Next

LEMMA InitTyped == Init => TypeOK
BY IdleTyped, StageNames DEF Init, TypeOK, Issued, USER_STATUSES, Ages

LEMMA StutterTyped ==
  ASSUME TypeOK, UNCHANGED vars
  PROVE  TypeOK'
BY DEF TypeOK, Issued, vars, userRows, pairs, history

(* Every row and every request keeps the shape the code gives it, whatever *)
(* requests overlap (auth.service.ts, all handlers).                       *)
THEOREM Typing == Spec => []TypeOK
<1>1. TypeOK /\ [Next]_vars => TypeOK'
  BY StepTyped, StutterTyped
<1>. QED
  BY <1>1, InitTyped, PTL DEF Spec

-----------------------------------------------------------------------------
(***************************************************************************)
(* No token and no request is ahead of its user, whatever overlaps.        *)
(***************************************************************************)

(* A step in which versions only grow, and pairs keep what they state.     *)
Forward ==
  /\ \A u \in Users : version[u] <= version'[u]
  /\ \A t \in Tokens : Issued(t) => owner'[t] = owner[t] /\ rtv'[t] = rtv[t]

(* A step of request r after which what it holds is not ahead.             *)
LEMMA AheadStep ==
  ASSUME TypeOK, NotAhead, TypeOK', NEW r \in Requests,
         \A s \in Requests \ {r} : request'[s] = request[s],
         request'[r].at \in {"revoking", "issuing"} =>
            request'[r].rtv <= version'[request'[r].user],
         \A u \in Users : version[u] <= version'[u],
         UNCHANGED <<owner, rtv>>
  PROVE  NotAhead' /\ Forward
<1>1. ASSUME NEW t \in Tokens, owner'[t] # None
      PROVE  rtv'[t] <= version'[owner'[t]]
  <2>1. owner[t] \in Users /\ rtv[t] \in Nat /\ rtv[t] <= version[owner[t]]
    BY <1>1 DEF NotAhead, TypeOK, Issued
  <2>2. version[owner[t]] \in Nat /\ version'[owner[t]] \in Nat
    BY <2>1 DEF TypeOK
  <2>. QED
    BY <2>1, <2>2
<1>2. ASSUME NEW s \in Requests, request'[s].at \in {"revoking", "issuing"}
      PROVE  request'[s].rtv <= version'[request'[s].user]
  <2>1. CASE s = r
    BY <1>2, <2>1
  <2>2. CASE s # r
    <3> DEFINE q == request[s]
    <3>1. request'[s] = q
      BY <2>2
    <3>2. q.user \in Users /\ q.rtv \in Nat
      BY <1>2, <3>1, StageNames DEF TypeOK, Request
    <3>3. q.rtv <= version[q.user]
      BY <1>2, <3>1 DEF NotAhead
    <3>4. version[q.user] \in Nat /\ version'[q.user] \in Nat
      BY <3>2 DEF TypeOK
    <3>. QED
      BY <3>1, <3>2, <3>3, <3>4
  <2>. QED
    BY <2>1, <2>2
<1>. QED
  BY <1>1, <1>2 DEF NotAhead, Forward, Issued

(* A step of request r that changes neither rows nor pairs.                *)
LEMMA AheadReadStep ==
  ASSUME TypeOK, NotAhead, TypeOK', NEW r \in Requests,
         NEW at, NEW u, NEW t, NEW v, NEW first,
         Becomes(r, Waiting(at, u, t, v, first)),
         at \in {"revoking", "issuing"} => u \in Users /\ v = version[u],
         UNCHANGED <<version, owner, rtv>>
  PROVE  NotAhead' /\ Forward
<1>1. /\ request'[r] = Waiting(at, u, t, v, first)
      /\ \A s \in Requests \ {r} : request'[s] = request[s]
  BY DEF TypeOK, Becomes
<1>2. request'[r].at = at /\ request'[r].user = u /\ request'[r].rtv = v
  BY <1>1 DEF Waiting
<1>3. \A x \in Users : version[x] \in Nat
  BY DEF TypeOK
<1>. QED
  BY <1>1, <1>2, <1>3, AheadStep

LEMMA AheadSignIn ==
  ASSUME TypeOK, NotAhead, TypeOK', NEW r \in Requests, SignIn(r)
  PROVE  NotAhead' /\ Forward
<1> DEFINE q == request[r]
<1>1. ASSUME NEW u \in Users, LoginCheck(r, u)
      PROVE  NotAhead' /\ Forward
  BY <1>1, AheadReadStep DEF LoginCheck, userRows, pairs
<1>2. ASSUME NEW u \in Users, NEW purpose \in {"LOGIN", "REGISTER"},
             OtpAccept(r, u, purpose)
      PROVE  NotAhead' /\ Forward
  <2>1. PICK at \in {"activating", "reading"} :
          Becomes(r, Waiting(at, u, None, 0, None))
    BY <1>2 DEF OtpAccept
  <2>2. UNCHANGED <<version, owner, rtv>>
    BY <1>2 DEF OtpAccept, userRows, pairs
  <2>. QED
    BY <2>1, <2>2, AheadReadStep
<1>3. CASE OtpActivate(r)
  BY <1>3, AheadReadStep DEF OtpActivate, pairs
<1>4. CASE OtpRead(r)
  <2>1. q.user \in Users
    BY <1>4, StageNames DEF OtpRead, TypeOK
  <2>. QED
    BY <1>4, <2>1, AheadReadStep DEF OtpRead, userRows, pairs
<1>5. CASE Issue(r)
  <2>1. PICK t \in Tokens :
          /\ ~Issued(t)
          /\ owner' = [owner EXCEPT ![t] = q.user]
          /\ rtv' = [rtv EXCEPT ![t] = q.rtv]
          /\ Becomes(r, Waiting("answered", q.user, t, 0, None))
    BY <1>5 DEF Issue, Stated, Fresh
  <2>2. q.user \in Users /\ q.rtv <= version[q.user] /\ version' = version
    BY <1>5, StageNames DEF Issue, TypeOK, NotAhead, userRows
  <2>3. request'[r].at = "answered"
    BY <2>1 DEF Becomes, TypeOK, Waiting
  <2>4. \A s \in Requests \ {r} : request'[s] = request[s]
    BY <2>1 DEF Becomes, TypeOK
  <2>5. \A s \in Tokens : owner'[s] # None => rtv'[s] <= version'[owner'[s]]
    BY <2>1, <2>2 DEF NotAhead, TypeOK, Issued
  <2>6. ASSUME NEW s \in Requests, request'[s].at \in {"revoking", "issuing"}
        PROVE  request'[s].rtv <= version'[request'[s].user]
    <3>1. s # r
      BY <2>3, <2>6
    <3>. QED
      BY <2>2, <2>4, <2>6, <3>1 DEF NotAhead
  <2>7. Forward
    BY <2>1, <2>2 DEF Forward, TypeOK
  <2>. QED
    BY <2>5, <2>6, <2>7 DEF NotAhead, Issued
<1>. QED
  BY <1>1, <1>2, <1>3, <1>4, <1>5 DEF SignIn

LEMMA AheadRefresh ==
  ASSUME TypeOK, NotAhead, TypeOK', NEW r \in Requests, Refresh(r)
  PROVE  NotAhead' /\ Forward
<1> DEFINE q == request[r]
<1>1. ASSUME NEW t \in Tokens, RefreshCheck(r, t)
      PROVE  NotAhead' /\ Forward
  <2>1. owner[t] \in Users
    BY <1>1 DEF RefreshCheck, MayRefresh, Live, Issued, TypeOK
  <2>. QED
    BY <1>1, <2>1, AheadReadStep DEF RefreshCheck, userRows, pairs
<1>2. ASSUME NEW t \in Tokens, RefreshRefuse(r, t)
      PROVE  NotAhead' /\ Forward
  BY <1>2, AheadReadStep DEF RefreshRefuse, Refusal, userRows, pairs
<1>3. CASE RefreshRevoke(r)
  <2>1. Becomes(r, Waiting("issuing", q.user, None, q.rtv, q.root))
    BY <1>3 DEF RefreshRevoke
  <2>2. /\ request'[r].rtv = q.rtv /\ request'[r].user = q.user
        /\ \A s \in Requests \ {r} : request'[s] = request[s]
    BY <2>1 DEF Becomes, TypeOK, Waiting
  <2>3. q.rtv <= version[q.user] /\ UNCHANGED <<version, owner, rtv>>
    BY <1>3 DEF RefreshRevoke, NotAhead, userRows
  <2>4. \A u \in Users : version[u] \in Nat
    BY DEF TypeOK
  <2>. QED
    BY <2>2, <2>3, <2>4, AheadStep
<1>. QED
  BY <1>1, <1>2, <1>3 DEF Refresh

LEMMA AheadSignOut ==
  ASSUME TypeOK, NotAhead, TypeOK', NEW r \in Requests, SignOut(r) \/ Reset(r)
  PROVE  NotAhead' /\ Forward
<1> DEFINE q == request[r]
<1>1. ASSUME NEW a \in Tokens, NEW t \in Tokens,
             LogoutCheck(r, a, t) \/ LogoutAllCheck(r, a)
      PROVE  NotAhead' /\ Forward
  BY <1>1, AheadReadStep DEF LogoutCheck, LogoutAllCheck, userRows, pairs
<1>2. ASSUME NEW u \in Users, ResetAccept(r, u)
      PROVE  NotAhead' /\ Forward
  BY <1>2, AheadReadStep DEF ResetAccept, userRows, pairs
<1>3. CASE LogoutWrite(r)
  BY <1>3, AheadReadStep DEF LogoutWrite, userRows
<1>4. CASE LogoutAllWrite(r) \/ ResetWrite(r)
  <2>1. /\ Becomes(r, Waiting("answered", None, None, 0, None))
        /\ version' = [version EXCEPT ![q.user] = @ + 1]
        /\ UNCHANGED <<owner, rtv>>
    BY <1>4 DEF LogoutAllWrite, ResetWrite, ResetVersion, pairs
  <2>2. /\ request'[r].at = "answered"
        /\ \A s \in Requests \ {r} : request'[s] = request[s]
    BY <2>1 DEF Becomes, TypeOK, Waiting
  <2>3. \A u \in Users : version[u] <= version'[u]
    BY <2>1 DEF TypeOK
  <2>. QED
    BY <2>1, <2>2, <2>3, AheadStep
<1>. QED
  BY <1>1, <1>2, <1>3, <1>4 DEF SignOut, Reset

LEMMA AheadNext ==
  ASSUME TypeOK, NotAhead, TypeOK', Next
  PROVE  NotAhead' /\ Forward
<1>1. ASSUME NEW r \in Requests, Respond(r) \/ RequestFails(r)
      PROVE  NotAhead' /\ Forward
  BY <1>1, AheadReadStep
     DEF Respond, RequestFails, Idle, Refusal, userRows, pairs
<1>2. CASE UNCHANGED <<version, owner, rtv, request>>
  BY <1>2 DEF NotAhead, Forward, Issued, TypeOK
<1>3. ASSUME NEW u \in Users, NEW s \in Statuses, SetUserStatus(u, s)
      PROVE  UNCHANGED <<version, owner, rtv, request>>
  BY <1>3 DEF SetUserStatus, pairs
<1>4. ASSUME NEW t \in Tokens, Lapse(t)
      PROVE  UNCHANGED <<version, owner, rtv, request>>
  BY <1>4 DEF Lapse, userRows
<1>. QED
  BY <1>1, <1>2, <1>3, <1>4, AheadSignIn, AheadRefresh, AheadSignOut DEF Next

LEMMA AheadBoxNext ==
  ASSUME TypeOK, NotAhead, TypeOK', [Next]_vars
  PROVE  NotAhead' /\ Forward
<1>1. CASE UNCHANGED vars
  BY <1>1 DEF vars, userRows, pairs, NotAhead, Forward, Issued, TypeOK
<1>. QED
  BY <1>1, AheadNext

(* No pair and no request ever states a version its user has not reached.  *)
THEOREM NeverAhead == Spec => []NotAhead
<1>1. Init => NotAhead
  BY DEF Init, NotAhead, Issued, Idle, Waiting
<1>2. TypeOK /\ TypeOK' /\ NotAhead /\ [Next]_vars => NotAhead'
  BY AheadBoxNext
<1>. QED
  BY <1>1, <1>2, Typing, PTL DEF Spec

(* However requests overlap, an access token that a sign-out-all or a      *)
(* reset has put out of date is never in date again (verifyAccessToken()). *)
THEOREM StaleStaysDead == Spec => StaleAccessStaysDead
<1>1. ASSUME TypeOK, TypeOK', NotAhead, [Next]_vars, NEW t \in Tokens, OutOfDate(t)
      PROVE  OutOfDate(t)'
  <2>1. Forward
    BY <1>1, AheadBoxNext
  <2>2. /\ owner[t] \in Users /\ rtv[t] <= version[owner[t]]
        /\ rtv[t] # version[owner[t]]
    BY <1>1 DEF OutOfDate, NotAhead, Issued, TypeOK
  <2>3. owner'[t] = owner[t] /\ rtv'[t] = rtv[t]
    BY <1>1, <2>1 DEF Forward, OutOfDate
  <2>4. /\ version[owner[t]] \in Nat /\ version'[owner[t]] \in Nat
        /\ rtv[t] \in Nat /\ version[owner[t]] <= version'[owner[t]]
    BY <1>1, <2>1, <2>2 DEF Forward, TypeOK
  <2>5. rtv[t] # version'[owner[t]]
    BY <2>2, <2>4
  <2>. QED
    BY <2>2, <2>3, <2>5, NoneApart DEF OutOfDate, Issued
<1>2. TypeOK /\ TypeOK' /\ NotAhead /\ [Next]_vars
        => [\A t \in Tokens : OutOfDate(t) => OutOfDate(t)']_vars
  BY <1>1
<1>. QED
  BY <1>2, Typing, NeverAhead, PTL DEF Spec, StaleAccessStaysDead

-----------------------------------------------------------------------------
(***************************************************************************)
(* The refresh tokens of a sign-in are one, and one more for each rotation *)
(* that another request overtook.                                          *)
(***************************************************************************)

(* A sign-in keeps to its count when it has no more tokens that work and   *)
(* rotations than before, and nothing else about it changes.               *)
LEMMA NoMore ==
  ASSUME TypeOK, NEW first \in Tokens, Within(first),
         LiveOf(first)' \subseteq LiveOf(first),
         RotationsOf(first)' \subseteq RotationsOf(first),
         first \in swept' => first \in swept,
         strays'[first] = strays[first]
  PROVE  Within(first)'
<1>1. /\ Cardinality(LiveOf(first)') <= Cardinality(LiveOf(first))
      /\ Cardinality(LiveOf(first)') \in Nat /\ Cardinality(LiveOf(first)) \in Nat
  BY Counted, Smaller
<1>2. /\ Cardinality(RotationsOf(first)') <= Cardinality(RotationsOf(first))
      /\ Cardinality(RotationsOf(first)') \in Nat /\ Cardinality(RotationsOf(first)) \in Nat
  BY Counted, Smaller
<1>3. strays[first] \in Nat
  BY DEF TypeOK
<1>. QED
  BY <1>1, <1>2, <1>3 DEF Within

(* A step of request r that begins no rotation, issues and sweeps nothing. *)
LEMMA RotationStep ==
  ASSUME TypeOK, RotationInv, NEW r \in Requests, NEW q, request'[r] = q,
         q.at # "issuing" \/ q.root = None,
         q.at = "revoking" =>
           /\ q.root = root[q.token] /\ q.root # None
           /\ owner[q.root] # None /\ owner[q.root] = q.user,
         \A s \in Requests \ {r} : request'[s] = request[s],
         \A t \in Tokens : revoked[t] => revoked'[t],
         UNCHANGED <<owner, root, swept, strays>>
  PROVE  RotationInv'
<1>1. Rooted'
  <2>1. ASSUME NEW s \in Requests
        PROVE  LET p == request'[s] IN
               /\ p.at = "revoking" => p.root = root[p.token] /\ p.root # None
               /\ p.at \in {"revoking", "issuing"} /\ p.root # None =>
                    owner[p.root] # None /\ owner[p.root] = p.user
    <3>1. CASE s = r
      BY <3>1
    <3>2. CASE s # r
      BY <3>2 DEF RotationInv, Rooted, Issued
    <3>. QED
      BY <3>1, <3>2
  <2>. QED
    BY <2>1 DEF RotationInv, Rooted, Issued
<1>2. ASSUME NEW first \in Tokens
      PROVE  Within(first)'
  <2>1. LiveOf(first)' \subseteq LiveOf(first)
    BY DEF LiveOf, Live, Issued
  <2>2. RotationsOf(first)' \subseteq RotationsOf(first)
    <3>1. ASSUME NEW s \in Requests, request'[s].at = "issuing", request'[s].root = first
          PROVE  s # r
      BY <3>1, NoneApart
    <3>. QED
      BY <3>1 DEF RotationsOf
  <2>. QED
    BY <2>1, <2>2, NoMore DEF RotationInv
<1>. QED
  BY <1>1, <1>2 DEF RotationInv

(* Nothing that the invariant speaks of changes, requests aside.           *)
LEMMA RotationReadStep ==
  ASSUME TypeOK, RotationInv, NEW r \in Requests,
         NEW at, NEW u, NEW t, NEW v,
         Becomes(r, Waiting(at, u, t, v, None)),
         at # "revoking",
         UNCHANGED <<owner, revoked, root, swept, strays>>
  PROVE  RotationInv'
<1> DEFINE q == Waiting(at, u, t, v, None)
<1>1. request'[r] = q /\ \A s \in Requests \ {r} : request'[s] = request[s]
  BY DEF TypeOK, Becomes
<1>2. q.at = at /\ q.root = None
  BY WaitingParts
<1> HIDE DEF q
<1>. QED
  BY <1>1, <1>2, RotationStep

(* refresh() checks a pair of the sign-in it goes on to rotate.            *)
LEMMA RotationCheck ==
  ASSUME TypeOK, RotationInv, NEW r \in Requests, NEW t \in Tokens, RefreshCheck(r, t)
  PROVE  RotationInv'
<1> DEFINE q == Waiting("revoking", owner[t], t, version[owner[t]], root[t])
<1>1. /\ Issued(t) /\ Becomes(r, q)
      /\ UNCHANGED <<owner, revoked, root, swept, strays>>
  BY DEF RefreshCheck, MayRefresh, Live, pairs, history
<1>2. request'[r] = q /\ \A s \in Requests \ {r} : request'[s] = request[s]
  BY <1>1 DEF TypeOK, Becomes
<1>3. q.at = "revoking" /\ q.user = owner[t] /\ q.token = t /\ q.root = root[t]
  BY WaitingParts
<1>4. root[t] # None /\ owner[root[t]] # None /\ owner[root[t]] = owner[t]
  BY <1>1, NoneApart DEF TypeOK, RotationInv, Rooted, Issued
<1> HIDE DEF q
<1>. QED
  BY <1>1, <1>2, <1>3, <1>4, RotationStep

(* ... and revokes it: one token less that works, or a rotation overtaken. *)
LEMMA RotationRevoke ==
  ASSUME TypeOK, RotationInv, NEW r \in Requests, RefreshRevoke(r)
  PROVE  RotationInv'
<1> DEFINE q == request[r]
           x == q.token
           w == Waiting("issuing", q.user, None, q.rtv, q.root)
<1>1. /\ q.at = "revoking" /\ revoked' = [revoked EXCEPT ![x] = TRUE]
      /\ strays' = [strays EXCEPT ![q.root] = IF revoked[x] THEN @ + 1 ELSE @]
      /\ Becomes(r, w)
      /\ UNCHANGED <<owner, root, swept>>
  BY DEF RefreshRevoke, RevokedByRefresh
<1>2. /\ x \in Tokens /\ Issued(x) /\ q.root \in Tokens /\ q.root = root[x]
      /\ Issued(q.root) /\ owner[q.root] = q.user
  BY <1>1, NoneApart DEF TypeOK, RotationInv, Rooted, Issued, Request
<1>3. request'[r] = w /\ \A s \in Requests \ {r} : request'[s] = request[s]
  BY <1>1 DEF TypeOK, Becomes
<1>4. w.at = "issuing" /\ w.root = q.root /\ w.user = q.user
  BY WaitingParts
<1> HIDE DEF w
<1>5. Rooted'
  <2>1. ASSUME NEW s \in Requests
        PROVE  LET p == request'[s] IN
               /\ p.at = "revoking" => p.root = root[p.token] /\ p.root # None
               /\ p.at \in {"revoking", "issuing"} /\ p.root # None =>
                    owner[p.root] # None /\ owner[p.root] = p.user
    <3>1. CASE s = r
      BY <1>2, <1>3, <1>4, <3>1 DEF Issued
    <3>2. CASE s # r
      BY <1>3, <3>2 DEF RotationInv, Rooted, Issued
    <3>. QED
      BY <3>1, <3>2
  <2>. QED
    BY <1>1, <2>1 DEF RotationInv, Rooted, Issued
<1>8. PICK f \in Tokens : f = q.root
  BY <1>2
<1>6. ASSUME NEW first \in Tokens, first # f
      PROVE  Within(first)'
  <2>1. LiveOf(first)' \subseteq LiveOf(first)
    BY <1>1 DEF LiveOf, Live, Issued, TypeOK
  <2>2. RotationsOf(first)' \subseteq RotationsOf(first)
    BY <1>3, <1>4, <1>6, <1>8 DEF RotationsOf
  <2>3. strays'[first] = strays[first]
    BY <1>1, <1>6, <1>8 DEF TypeOK
  <2>. QED
    BY <1>1, <2>1, <2>2, <2>3, NoMore DEF RotationInv
<1>7. Within(f)'
  <2> DEFINE L == LiveOf(f)
             R == RotationsOf(f)
  <2>1. RotationsOf(f)' = R \cup {r} /\ r \notin R
    BY <1>1, <1>3, <1>4, <1>8 DEF RotationsOf
  <2>2. /\ IsFiniteSet(L) /\ Cardinality(L) \in Nat /\ IsFiniteSet(R) /\ Cardinality(R) \in Nat
        /\ strays[f] \in Nat
    BY <1>2, <1>8, Counted DEF TypeOK
  <2>3. Cardinality(RotationsOf(f)') = Cardinality(R) + 1
    BY <2>1, <2>2, FS_AddElement
  <2>4. CASE ~revoked[x]
    <3>1. x \in L /\ LiveOf(f)' = L \ {x}
      BY <1>1, <1>2, <1>8, <2>4 DEF LiveOf, Live, Issued, TypeOK
    <3>2. Cardinality(LiveOf(f)') = Cardinality(L) - 1
      BY <2>2, <3>1, FS_RemoveElement
    <3>3. strays'[f] = strays[f]
      BY <1>1, <1>2, <1>8, <2>4 DEF TypeOK
    <3>4. Within(f)
      BY DEF RotationInv
    <3> HIDE DEF L, R
    <3>5. Cardinality(L) + Cardinality(R) <= (IF f \in swept THEN 0 ELSE 1) + strays[f]
      BY <3>4 DEF Within, L, R
    <3>. QED
      BY <1>1, <2>2, <2>3, <3>2, <3>3, <3>5 DEF Within
  <2>5. CASE revoked[x]
    <3>1. LiveOf(f)' \subseteq L
      BY <1>1 DEF LiveOf, Live, Issued, TypeOK
    <3>2. Cardinality(LiveOf(f)') <= Cardinality(L) /\ Cardinality(LiveOf(f)') \in Nat
      BY <2>2, <3>1, Smaller
    <3>3. strays'[f] = strays[f] + 1
      BY <1>1, <1>2, <1>8, <2>5 DEF TypeOK
    <3>4. Within(f)
      BY DEF RotationInv
    <3> HIDE DEF L, R
    <3>5. Cardinality(L) + Cardinality(R) <= (IF f \in swept THEN 0 ELSE 1) + strays[f]
      BY <3>4 DEF Within, L, R
    <3>. QED
      BY <1>1, <2>2, <2>3, <3>2, <3>3, <3>5 DEF Within
  <2>. QED
    BY <2>4, <2>5
<1>. QED
  BY <1>5, <1>6, <1>7, <1>8 DEF RotationInv

(* issueTokens() of a rotation: the new token is the one that was to come. *)
LEMMA RotationContinue ==
  ASSUME TypeOK, RotationInv, NEW r \in Requests, NEW t \in Tokens,
         request[r].at = "issuing", request[r].root # None,
         ~Issued(t), request'[r].at = "answered",
         owner'[t] # None, root'[t] = request[r].root,
         \A s \in Requests \ {r} : request'[s] = request[s],
         \A s \in Tokens \ {t} : owner'[s] = owner[s] /\ root'[s] = root[s],
         UNCHANGED <<revoked, swept, strays>>,
         NEW first \in Tokens
  PROVE  Within(first)'
<1> DEFINE q == request[r]
           L == LiveOf(first)
           R == RotationsOf(first)
<1>1. CASE first # q.root
  <2>1. LiveOf(first)' \subseteq L /\ RotationsOf(first)' \subseteq R
    BY <1>1 DEF LiveOf, RotationsOf, Live, Issued
  <2>. QED
    BY <2>1, NoMore DEF RotationInv
<1>2. CASE first = q.root
  <2>1. r \in R /\ RotationsOf(first)' = R \ {r}
    BY <1>2 DEF RotationsOf
  <2>2. /\ IsFiniteSet(L) /\ Cardinality(L) \in Nat /\ IsFiniteSet(R) /\ Cardinality(R) \in Nat
        /\ strays[first] \in Nat
    BY Counted DEF TypeOK
  <2>3. Cardinality(RotationsOf(first)') = Cardinality(R) - 1
    BY <2>1, <2>2, FS_RemoveElement
  <2>4. LiveOf(first)' \subseteq L \cup {t} /\ t \notin L
    BY DEF LiveOf, Live, Issued
  <2>5. IsFiniteSet(L \cup {t}) /\ Cardinality(L \cup {t}) = Cardinality(L) + 1
    BY <2>2, <2>4, FS_AddElement
  <2>6. /\ Cardinality(LiveOf(first)') \in Nat
        /\ Cardinality(LiveOf(first)') <= Cardinality(L) + 1
    BY <2>4, <2>5, Smaller
  <2>7. Within(first)
    BY DEF RotationInv
  <2> HIDE DEF L, R
  <2>8. Cardinality(L) + Cardinality(R) <= (IF first \in swept THEN 0 ELSE 1) + strays[first]
    BY <2>7 DEF Within, L, R
  <2>. QED
    BY <2>2, <2>3, <2>6, <2>8 DEF Within
<1>. QED
  BY <1>1, <1>2

(* ... or of a sign-in: it is the only token of a sign-in that is new.     *)
LEMMA RotationBegin ==
  ASSUME TypeOK, RotationInv, NEW r \in Requests, NEW t \in Tokens,
         request[r].root = None,
         ~Issued(t), request'[r].at = "answered",
         owner'[t] # None, root'[t] = t,
         \A s \in Requests \ {r} : request'[s] = request[s],
         \A s \in Tokens \ {t} : owner'[s] = owner[s] /\ root'[s] = root[s],
         UNCHANGED <<revoked, swept, strays>>,
         NEW first \in Tokens
  PROVE  Within(first)'
<1>1. CASE first # t
  <2>1. LiveOf(first)' \subseteq LiveOf(first) /\ RotationsOf(first)' \subseteq RotationsOf(first)
    BY <1>1 DEF LiveOf, RotationsOf, Live, Issued
  <2>. QED
    BY <2>1, NoMore DEF RotationInv
<1>2. CASE first = t
  <2>1. LiveOf(t)' \subseteq {t}
    <3>1. ASSUME NEW s \in Tokens, s # t, owner'[s] # None
          PROVE  root'[s] # t
      BY <3>1 DEF RotationInv, Rooted, Issued
    <3>. QED
      BY <3>1 DEF LiveOf, Live, Issued
  <2>2. RotationsOf(t)' = {}
    <3>1. ASSUME NEW s \in Requests, request'[s].at = "issuing"
          PROVE  request'[s].root # t
      BY <3>1, NoneApart DEF RotationInv, Rooted
    <3>. QED
      BY <3>1 DEF RotationsOf
  <2>3. t \notin swept
    BY DEF RotationInv, Rooted
  <2>4. Cardinality(LiveOf(t)') <= 1 /\ Cardinality(LiveOf(t)') \in Nat
    <3>1. IsFiniteSet({t}) /\ Cardinality({t}) = 1
      BY FS_Singleton
    <3>. QED
      BY <2>1, <3>1, Smaller
  <2>5. Cardinality(RotationsOf(t)') = 0
    BY <2>2, FS_EmptySet
  <2>6. strays[t] \in Nat
    BY DEF TypeOK
  <2>. QED
    BY <1>2, <2>3, <2>4, <2>5, <2>6 DEF Within
<1>. QED
  BY <1>1, <1>2

LEMMA RotationIssue ==
  ASSUME TypeOK, RotationInv, NEW r \in Requests, Issue(r)
  PROVE  RotationInv'
<1> DEFINE q == request[r]
<1>1. PICK t \in Tokens :
        /\ ~Issued(t)
        /\ owner' = [owner EXCEPT ![t] = q.user]
        /\ root' = [root EXCEPT ![t] = IF q.root = None THEN t ELSE q.root]
        /\ Becomes(r, Waiting("answered", q.user, t, 0, None))
  BY DEF Issue, Fresh
<1>2. /\ q.at = "issuing" /\ q.user \in Users /\ q.root \in Tokens \cup {None}
      /\ UNCHANGED <<revoked, swept, strays>>
  BY StageNames DEF Issue, TypeOK, Request, history
<1>3. /\ owner'[t] = q.user /\ owner'[t] # None
      /\ root'[t] = IF q.root = None THEN t ELSE q.root
      /\ \A s \in Tokens \ {t} : owner'[s] = owner[s] /\ root'[s] = root[s]
  BY <1>1, <1>2, NoneApart DEF TypeOK
<1>4. /\ request'[r].at = "answered"
      /\ \A s \in Requests \ {r} : request'[s] = request[s]
  BY <1>1 DEF TypeOK, Becomes, Waiting
<1>5. /\ q.root # None => Issued(q.root) /\ owner[q.root] = q.user
      /\ \A s \in Tokens : Issued(s) =>
           root[s] \in Tokens /\ Issued(root[s]) /\ owner[root[s]] = owner[s]
  BY <1>2 DEF RotationInv, Rooted, TypeOK
<1>6. ASSUME NEW s \in Tokens, owner'[s] # None
      PROVE  owner'[root'[s]] # None /\ owner'[root'[s]] = owner'[s]
  <2>1. CASE s = t
    BY <1>1, <1>2, <1>3, <1>5, <2>1 DEF Issued
  <2>2. CASE s # t
    <3>1. Issued(s) /\ root'[s] = root[s] /\ owner'[s] = owner[s]
      BY <1>3, <1>6, <2>2 DEF Issued
    <3>2. root[s] \in Tokens \ {t} /\ owner[root[s]] = owner[s]
      BY <1>1, <1>5, <3>1
    <3>. QED
      BY <1>3, <1>6, <3>1, <3>2
  <2>. QED
    BY <2>1, <2>2
<1>7. ASSUME NEW s \in Requests
      PROVE  LET p == request'[s] IN
             /\ p.at = "revoking" => p.root = root'[p.token] /\ p.root # None
             /\ p.at \in {"revoking", "issuing"} /\ p.root # None =>
                  owner'[p.root] # None /\ owner'[p.root] = p.user
  <2>1. CASE s = r
    BY <1>4, <2>1
  <2>2. CASE s # r
    <3> DEFINE p == request[s]
    <3>1. request'[s] = p
      BY <1>4, <2>2
    <3>2. /\ p.at = "revoking" =>
               /\ p.token \in Tokens /\ Issued(p.token)
               /\ p.root = root[p.token] /\ p.root # None
          /\ p.at \in {"revoking", "issuing"} /\ p.root # None =>
               p.root \in Tokens /\ Issued(p.root) /\ owner[p.root] = p.user
      BY DEF RotationInv, Rooted, TypeOK, Request
    <3>. QED
      BY <1>1, <1>3, <3>1, <3>2 DEF Issued
  <2>. QED
    BY <2>1, <2>2
<1>8. \A s \in swept' : Issued(s)'
  BY <1>2, <1>3 DEF RotationInv, Rooted, Issued, TypeOK
<1>9. Rooted'
  BY <1>6, <1>7, <1>8 DEF Rooted, Issued
<1>10. ASSUME NEW first \in Tokens
       PROVE  Within(first)'
  <2>1. CASE q.root = None
    BY <1>1, <1>2, <1>3, <1>4, <2>1, RotationBegin
  <2>2. CASE q.root # None
    BY <1>1, <1>2, <1>3, <1>4, <2>2, RotationContinue
  <2>. QED
    BY <2>1, <2>2
<1>. QED
  BY <1>9, <1>10 DEF RotationInv

(* logoutAll(): no token of the user is live afterwards; the rotations of  *)
(* the user's sign-ins that have yet to issue are the ones it overtook.    *)
LEMMA RotationSweep ==
  ASSUME TypeOK, RotationInv, NEW r \in Requests, LogoutAllWrite(r)
  PROVE  RotationInv'
<1> DEFINE q == request[r]
<1>1. /\ q.at = "sweeping"
      /\ revoked' = [t \in Tokens |-> revoked[t] \/ owner[t] = q.user]
      /\ swept' = swept \cup SignIns(q.user)
      /\ strays' = [t \in Tokens |-> IF t \in SignIns(q.user)
                                     THEN Cardinality(RotationsOf(t)) ELSE strays[t]]
      /\ Becomes(r, Waiting("answered", None, None, 0, None))
      /\ UNCHANGED <<owner, root>>
  BY DEF LogoutAllWrite, RevokedBy
<1>2. q.user \in Users
  BY <1>1, StageNames DEF TypeOK
<1>3. /\ request'[r].at = "answered"
      /\ \A s \in Requests \ {r} : request'[s] = request[s]
  BY <1>1 DEF TypeOK, Becomes, Waiting
<1>4. \A t \in SignIns(q.user) : t \in Tokens /\ owner[t] = q.user
  <2>1. ASSUME NEW s \in Tokens, owner[s] = q.user
        PROVE  root[s] \in Tokens /\ owner[root[s]] = q.user
    BY <1>2, <2>1, NoneApart DEF RotationInv, Rooted, TypeOK, Issued
  <2>. QED
    BY <2>1 DEF SignIns
<1>5. Rooted'
  <2>1. ASSUME NEW s \in Requests
        PROVE  LET p == request'[s] IN
               /\ p.at = "revoking" => p.root = root[p.token] /\ p.root # None
               /\ p.at \in {"revoking", "issuing"} /\ p.root # None =>
                    owner[p.root] # None /\ owner[p.root] = p.user
    <3>1. CASE s = r
      BY <1>3, <3>1
    <3>2. CASE s # r
      BY <1>3, <3>2 DEF RotationInv, Rooted, Issued
    <3>. QED
      BY <3>1, <3>2
  <2>2. \A t \in swept' : owner[t] # None
    BY <1>1, <1>2, <1>4, NoneApart DEF RotationInv, Rooted, Issued
  <2>. QED
    BY <1>1, <2>1, <2>2 DEF RotationInv, Rooted, Issued
<1>6. ASSUME NEW first \in Tokens
      PROVE  RotationsOf(first)' = RotationsOf(first)
  BY <1>1, <1>3 DEF RotationsOf
<1>7. ASSUME NEW first \in Tokens, first \in SignIns(q.user)
      PROVE  Within(first)'
  <2>1. LiveOf(first)' = {}
    <3>1. ASSUME NEW t \in Tokens, owner[t] # None, root[t] = first
          PROVE  revoked'[t]
      <4>1. owner[t] = q.user
        BY <1>4, <1>7, <3>1 DEF RotationInv, Rooted, Issued
      <4>. QED
        BY <1>1, <4>1
    <3>. QED
      BY <1>1, <3>1 DEF LiveOf, Live, Issued
  <2>2. Cardinality(LiveOf(first)') = 0
    BY <2>1, FS_EmptySet
  <2>3. strays'[first] = Cardinality(RotationsOf(first)') /\ first \in swept'
    BY <1>1, <1>6, <1>7
  <2>4. Cardinality(RotationsOf(first)') \in Nat
    BY <1>6, Counted
  <2>. QED
    BY <2>2, <2>3, <2>4 DEF Within
<1>8. ASSUME NEW first \in Tokens, first \notin SignIns(q.user)
      PROVE  Within(first)'
  <2>1. LiveOf(first)' \subseteq LiveOf(first)
    BY <1>1 DEF LiveOf, Live, Issued
  <2>2. strays'[first] = strays[first] /\ (first \in swept' => first \in swept)
    BY <1>1, <1>8
  <2>. QED
    BY <1>6, <2>1, <2>2, NoMore DEF RotationInv
<1>. QED
  BY <1>5, <1>7, <1>8 DEF RotationInv

LEMMA RotationNext ==
  ASSUME TypeOK, RotationInv, Next
  PROVE  RotationInv'
<1>1. ASSUME NEW r \in Requests, SignIn(r)
      PROVE  RotationInv'
  <2>1. ASSUME NEW u \in Users, LoginCheck(r, u)
        PROVE  RotationInv'
    BY <2>1, RotationReadStep DEF LoginCheck, pairs, history
  <2>2. ASSUME NEW u \in Users, NEW purpose \in {"LOGIN", "REGISTER"},
               OtpAccept(r, u, purpose)
        PROVE  RotationInv'
    <3>1. PICK at \in {"activating", "reading"} :
            Becomes(r, Waiting(at, u, None, 0, None))
      BY <2>2 DEF OtpAccept
    <3>. QED
      BY <2>2, <3>1, RotationReadStep DEF OtpAccept, pairs, history
  <2>3. CASE OtpActivate(r)
    BY <2>3, RotationReadStep DEF OtpActivate, pairs, history
  <2>4. CASE OtpRead(r)
    BY <2>4, RotationReadStep DEF OtpRead, pairs, history
  <2>. QED
    BY <1>1, <2>1, <2>2, <2>3, <2>4, RotationIssue DEF SignIn
<1>2. ASSUME NEW r \in Requests, Refresh(r)
      PROVE  RotationInv'
  <2>1. ASSUME NEW t \in Tokens, RefreshRefuse(r, t)
        PROVE  RotationInv'
    BY <2>1, RotationReadStep DEF RefreshRefuse, Refusal, pairs, history
  <2>. QED
    BY <1>2, <2>1, RotationCheck, RotationRevoke DEF Refresh
<1>3. ASSUME NEW r \in Requests, SignOut(r)
      PROVE  RotationInv'
  <2>1. ASSUME NEW a \in Tokens, NEW t \in Tokens, LogoutCheck(r, a, t)
        PROVE  RotationInv'
    BY <2>1, RotationReadStep DEF LogoutCheck, pairs, history
  <2>2. ASSUME NEW a \in Tokens, LogoutAllCheck(r, a)
        PROVE  RotationInv'
    BY <2>2, RotationReadStep DEF LogoutAllCheck, pairs, history
  <2>3. CASE LogoutWrite(r)
    <3> DEFINE q == Waiting("answered", None, None, 0, None)
    <3>1. /\ Becomes(r, q)
          /\ \A t \in Tokens : revoked[t] => revoked'[t]
          /\ UNCHANGED <<owner, root, swept, strays>>
      BY <2>3 DEF LogoutWrite, TypeOK, history
    <3>2. q.at = "answered"
      BY WaitingParts
    <3>3. request'[r] = q /\ \A s \in Requests \ {r} : request'[s] = request[s]
      BY <3>1 DEF TypeOK, Becomes
    <3> HIDE DEF q
    <3>. QED
      BY <3>1, <3>2, <3>3, RotationStep
  <2>. QED
    BY <1>3, <2>1, <2>2, <2>3, RotationSweep DEF SignOut
<1>4. ASSUME NEW r \in Requests, Reset(r)
      PROVE  RotationInv'
  BY <1>4, RotationReadStep DEF Reset, ResetAccept, ResetWrite, pairs, history
<1>5. ASSUME NEW r \in Requests, Respond(r) \/ RequestFails(r)
      PROVE  RotationInv'
  BY <1>5, RotationReadStep
     DEF Respond, RequestFails, Idle, Refusal, pairs, history
<1>6. CASE UNCHANGED <<owner, revoked, root, swept, strays, request>>
  BY <1>6 DEF RotationInv, Rooted, Within, LiveOf, RotationsOf, Live, Issued
<1>7. ASSUME NEW u \in Users, NEW s \in Statuses, SetUserStatus(u, s)
      PROVE  UNCHANGED <<owner, revoked, root, swept, strays, request>>
  BY <1>7 DEF SetUserStatus, pairs, history
<1>8. ASSUME NEW t \in Tokens, Lapse(t)
      PROVE  UNCHANGED <<owner, revoked, root, swept, strays, request>>
  BY <1>8 DEF Lapse, history
<1>. QED
  BY <1>1, <1>2, <1>3, <1>4, <1>5, <1>6, <1>7, <1>8 DEF Next

(* However requests overlap, a sign-in keeps to its count.                 *)
THEOREM Rotation == Spec => []RotationInv
<1>1. Init => RotationInv
  <2>1. ASSUME Init, NEW first \in Tokens
        PROVE  LiveOf(first) = {} /\ RotationsOf(first) = {}
    BY <2>1 DEF Init, LiveOf, RotationsOf, Live, Issued, Idle, Waiting
  <2>2. ASSUME Init
        PROVE  Rooted
    BY <2>2 DEF Init, Rooted, Issued, Idle, Waiting
  <2>3. ASSUME Init, NEW first \in Tokens
        PROVE  Within(first)
    BY <2>1, <2>3, FS_EmptySet DEF Init, Within
  <2>. QED
    BY <2>2, <2>3 DEF RotationInv
<1>2. TypeOK /\ RotationInv /\ [Next]_vars => RotationInv'
  <2>1. ASSUME RotationInv, UNCHANGED vars
        PROVE  RotationInv'
    BY <2>1 DEF vars, userRows, pairs, history, RotationInv, Rooted, Within, LiveOf,
         RotationsOf, Live, Issued
  <2>. QED
    BY <2>1, RotationNext
<1>. QED
  BY <1>1, <1>2, Typing, PTL DEF Spec

(* However requests overlap, a sign-in has one refresh token that works,   *)
(* and one more for each rotation that was overtaken (refresh()).          *)
THEOREM OneLive == Spec => []RotationReplaces
<1>1. TypeOK /\ RotationInv => RotationReplaces
  <2>1. ASSUME TypeOK, RotationInv, NEW first \in Tokens
        PROVE  Cardinality(LiveOf(first)) <= 1 + strays[first]
    <3>1. Within(first) /\ strays[first] \in Nat
      BY <2>1 DEF RotationInv, TypeOK
    <3>. QED
      BY <3>1, Counted DEF Within
  <2>. QED
    BY <2>1 DEF RotationReplaces
<1>. QED
  BY <1>1, Typing, Rotation, PTL

(* However requests overlap, logoutAll() leaves no refresh token of the    *)
(* user's sign-ins but those of the rotations it overtook.                 *)
THEOREM SignedOut == Spec => []SignOutAllEnds
<1>1. TypeOK /\ RotationInv => SignOutAllEnds
  <2>1. ASSUME TypeOK, RotationInv, NEW first \in swept
        PROVE  Cardinality(LiveOf(first)) <= strays[first]
    <3>1. Within(first) /\ strays[first] \in Nat
      BY <2>1 DEF RotationInv, TypeOK
    <3>. QED
      BY <2>1, <3>1, Counted DEF Within
  <2>. QED
    BY <2>1 DEF SignOutAllEnds
<1>. QED
  BY <1>1, Typing, Rotation, PTL

=============================================================================
