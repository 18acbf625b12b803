---------------------------- MODULE ClientProofs ----------------------------
(***************************************************************************)
(* Theorems about a browser tab, for every number of its calls in flight,  *)
(* of users and of token pairs; and, last, about the messages page.        *)
(***************************************************************************)
EXTENDS MCBrowser, SessionsProofs

(***************************************************************************)
(* What a step does to the records of one call and one request.            *)
(***************************************************************************)
LEMMA CallStep ==
  ASSUME InShape, NEW r \in Requests, NEW next, CallBecomes(r, next)
  PROVE  /\ call'[r] = next
         /\ \A s \in Requests \ {r} : call'[s] = call[s]
         /\ next \in CallRecords => call' \in [Requests -> CallRecords]
BY DEF InShape, CallBecomes

LEMMA CallTyped ==
  ASSUME NEW at \in {"none", "signing in", "sent", "accepted", "unauthorised", "refreshing"},
         NEW purpose \in Purposes, NEW t \in Tokens \cup {None}
  PROVE  /\ Call(at, purpose, t) \in CallRecords
         /\ Call(at, purpose, t).at = at
         /\ Call(at, purpose, t).purpose = purpose
         /\ Call(at, purpose, t).token = t
BY DEF Call, CallRecords

LEMMA NoCallTyped == NoCall \in CallRecords /\ NoCall.at = "none" /\ NoCall.purpose = "page"
BY DEF NoCall, Call, CallRecords, Purposes

(* A request and its record, when what it becomes is put together.         *)
LEMMA BecomesParts ==
  ASSUME TypeOK, NEW r \in Requests, NEW at, NEW u, NEW t, NEW v, NEW first,
         Becomes(r, Waiting(at, u, t, v, first))
  PROVE  /\ request'[r].at = at /\ request'[r].user = u /\ request'[r].token = t
         /\ request'[r].rtv = v /\ request'[r].root = first
         /\ \A s \in Requests \ {r} : request'[s] = request[s]
BY DEF TypeOK, Becomes, Waiting

(* What the stage of a call says.                                          *)
LEMMA StageSays ==
  ASSUME InShape, NEW r \in Requests
  PROVE  /\ call[r] \in CallRecords /\ request[r] \in Request
         /\ call[r].at = "none" => call[r] = NoCall
         /\ call[r].at = "sent" => call[r].token \in Pairs /\ request[r] = Idle
         /\ Refreshing(r) => call[r].token \in Tokens /\ Issued(call[r].token)
         /\ call[r].at \in {"accepted", "unauthorised"} => request[r] = Idle
         /\ call[r].at = "signing in" =>
              request[r].at \in {"issuing", "answered", "refused"}
<1>1. InStep(r) /\ call[r] \in CallRecords /\ request[r] \in Request
  BY DEF InShape, ClientTypeOK, TypeOK
<1>. QED
  BY <1>1, NoCallTyped DEF InStep, Pairs, Refreshing

(* The steps of a client are steps of the sessions, or leave them alone.   *)
LEMMA ClientIsNext ==
  ASSUME InShape, ClientNext
  PROVE  Next \/ UNCHANGED vars
<1>1. ASSUME NEW r \in Requests, NEW purpose \in Purposes, Send(r, purpose)
      PROVE  UNCHANGED vars
  BY <1>1 DEF Send
<1>2. ASSUME NEW r \in Requests, NEW u \in Users, NEW purpose, SignInSend(r, u, purpose)
      PROVE  Next
  BY <1>2 DEF SignInSend, Next, SignIn
<1>3. ASSUME NEW r \in Requests, RefreshArrive(r)
      PROVE  Next
  <2>1. call[r].token \in Tokens
    BY <1>3, StageSays DEF RefreshArrive, Refreshing
  <2>. QED
    BY <1>3, <2>1 DEF RefreshArrive, Next, Refresh
<1>4. ASSUME NEW r \in Requests, Proceed(r)
      PROVE  Next \/ UNCHANGED vars
  BY <1>3, <1>4 DEF Proceed, Arrive, Receive, SignInReceive, SignInRefused, RefreshSend,
     RefreshReceive, RefreshRefused, Drop, Serve, Next, Refresh, SignIn
<1>5. ASSUME NEW r \in Requests, ServeFails(r)
      PROVE  Next
  BY <1>5 DEF ServeFails, Next
<1>6. CASE Elsewhere
  BY <1>6 DEF Elsewhere, Next
<1>7. CASE Mount \/ Reload
  BY <1>7 DEF Mount, Reload
<1>. QED
  BY <1>1, <1>2, <1>4, <1>5, <1>6, <1>7 DEF ClientNext, Start

LEMMA SessionsTyped ==
  ASSUME InShape, ClientNext
  PROVE  TypeOK'
BY ClientIsNext, StepTyped, StutterTyped DEF InShape, ClientTypeOK

(* A pair that is issued stays with its owner and its sign-in.             *)
LEMMA PairsStay ==
  ASSUME InShape, ClientNext, NEW t \in Tokens, Issued(t)
  PROVE  Issued(t)' /\ owner'[t] = owner[t] /\ root'[t] = root[t]
<1>0. TypeOK
  BY DEF InShape, ClientTypeOK
<1>1. ASSUME NEW r \in Requests, Issue(r)
      PROVE  owner'[t] = owner[t] /\ root'[t] = root[t]
  BY <1>0, <1>1 DEF Issue, Fresh, TypeOK
<1>2. ASSUME NEW r \in Requests,
             \/ \E u \in Users : LoginCheck(r, u)
             \/ \E u \in Users, purpose \in {"LOGIN", "REGISTER"} : OtpAccept(r, u, purpose)
             \/ OtpActivate(r) \/ OtpRead(r) \/ Refresh(r) \/ SignOut(r) \/ Reset(r)
             \/ Respond(r) \/ RequestFails(r)
      PROVE  owner' = owner /\ root' = root
  BY <1>2 DEF LoginCheck, OtpAccept, OtpActivate, OtpRead, Refresh, RefreshCheck,
     RefreshRefuse, RefreshRevoke, SignOut, LogoutCheck, LogoutAllCheck, LogoutWrite,
     LogoutAllWrite, Reset, ResetAccept, ResetWrite, Respond, RequestFails, pairs
<1>3. ASSUME \/ \E u \in Users, s \in Statuses : SetUserStatus(u, s)
             \/ \E x \in Tokens : Lapse(x)
      PROVE  owner' = owner /\ root' = root
  BY <1>3 DEF SetUserStatus, Lapse, pairs
<1>4. CASE UNCHANGED vars
  BY <1>4 DEF vars, pairs, Issued
<1>. QED
  BY <1>1, <1>2, <1>3, <1>4, ClientIsNext DEF Next, SignIn, Issued

-----------------------------------------------------------------------------
(***************************************************************************)
(* The tab and its calls keep their shape.                                 *)
(***************************************************************************)
TabShaped ==
  /\ page \in {"login", "portal"}
  /\ held \in Pairs \cup {None} /\ memory \in Pairs \cup {None}
  /\ storage \in [Places -> [pair : Pairs \cup {None}, named : BOOLEAN]]
  /\ \A s \in Places : storage[s].named => storage[s].pair # None
  /\ page = "portal" => held # None
  /\ latest \in Tokens \cup {None}
  /\ raced \in BOOLEAN /\ cut \in BOOLEAN /\ mixed \in BOOLEAN
CallsShaped ==
  call \in [Requests -> CallRecords] /\ \A r \in Requests : InStep(r)

LEMMA ShapeParts == InShape <=> TypeOK /\ RevokedAreIssued /\ TabShaped /\ CallsShaped
BY DEF InShape, ClientTypeOK, TabShaped, CallsShaped

LEMMA ShapeAfter ==
  ASSUME TypeOK', RevokedAreIssued', TabShaped', CallsShaped'
  PROVE  InShape'
BY DEF InShape, ClientTypeOK, TabShaped, CallsShaped

(* No row is revoked that has not been inserted.                           *)
LEMMA RevokedStay ==
  ASSUME InShape, ClientNext
  PROVE  RevokedAreIssued'
<1>0. TypeOK /\ RevokedAreIssued
  BY ShapeParts
<1>1. ASSUME NEW r \in Requests, RefreshRevoke(r)
      PROVE  /\ Issued(request[r].token) /\ owner' = owner
             /\ revoked' = [revoked EXCEPT ![request[r].token] = TRUE]
  BY <1>0, <1>1 DEF RefreshRevoke, RevokedByRefresh, TypeOK
<1>2. ASSUME revoked' = revoked
      PROVE  RevokedAreIssued'
  BY <1>0, <1>2, PairsStay DEF RevokedAreIssued
<1>3. ASSUME NEW r \in Requests, RefreshRevoke(r)
      PROVE  RevokedAreIssued'
  BY <1>0, <1>1, <1>3 DEF RevokedAreIssued, TypeOK, Issued
<1>4. ASSUME NEW r \in Requests,
             Arrive(r) \/ Receive(r) \/ SignInReceive(r) \/ SignInRefused(r)
              \/ RefreshSend(r) \/ RefreshArrive(r) \/ RefreshReceive(r)
              \/ RefreshRefused(r) \/ Drop(r) \/ ServeFails(r) \/ Issue(r)
              \/ \E p \in Purposes : Send(r, p) \/ \E u \in Users : SignInSend(r, u, p)
      PROVE  revoked' = revoked
  BY <1>4 DEF Arrive, Receive, SignInReceive, SignInRefused, RefreshSend, RefreshArrive,
     RefreshReceive, RefreshRefused, Drop, ServeFails, Issue, Send, SignInSend, Respond,
     RefreshCheck, RefreshRefuse, LoginCheck, RequestFails, vars, pairs
<1>5. Mount \/ Reload \/ Elsewhere => revoked' = revoked
  BY DEF Mount, Reload, Elsewhere, SetUserStatus, Lapse, vars, pairs
<1>. QED
  BY <1>2, <1>3, <1>4, <1>5 DEF ClientNext, Start, Proceed, Serve

LEMMA TabKept ==
  ASSUME TabShaped, \A t \in Tokens : Issued(t) => Issued(t)',
         UNCHANGED <<page, held, memory, storage>>,
         latest' \in Tokens \cup {None},
         raced' \in BOOLEAN, cut' \in BOOLEAN, mixed' \in BOOLEAN
  PROVE  TabShaped'
<1>1. Pairs \subseteq Pairs'
  BY DEF Pairs
<1>2. \A s \in Places : storage'[s] \in [pair : Pairs' \cup {None}, named : BOOLEAN]
  BY <1>1 DEF TabShaped
<1>. QED
  BY <1>1, <1>2 DEF TabShaped

LEMMA CallsKept ==
  ASSUME InShape, CallsShaped, \A t \in Tokens : Issued(t) => Issued(t)',
         NEW r \in Requests, InStep(r)',
         \A s \in Requests \ {r} : call'[s] = call[s] /\ request'[s] = request[s],
         call' \in [Requests -> CallRecords]
  PROVE  CallsShaped'
BY DEF CallsShaped, InStep, Pairs

(* What is found in storage is nothing or a pair with its user.            *)
LEMMA FoundTyped ==
  ASSUME TabShaped
  PROVE  /\ Found(storage).pair \in Pairs \cup {None}
         /\ Found(storage).named \in BOOLEAN
         /\ Complete(Found(storage)) => Found(storage).pair \in Pairs
BY DEF TabShaped, Found, Complete, Places

LEMMA LoadsTyped ==
  ASSUME TabShaped, \A t \in Tokens : Issued(t) => Issued(t)', Loads(storage),
         UNCHANGED <<storage, latest, raced, mixed>>, cut' \in BOOLEAN
  PROVE  TabShaped'
<1>1. Pairs \subseteq Pairs'
  BY DEF Pairs
<1>2. storage' \in [Places -> [pair : Pairs' \cup {None}, named : BOOLEAN]]
  BY <1>1 DEF TabShaped
<1>3. /\ page' \in {"login", "portal"}
      /\ held' \in Pairs' \cup {None} /\ memory' \in Pairs' \cup {None}
      /\ page' = "portal" => held' # None
  BY <1>1, FoundTyped DEF Loads, TabShaped, Complete
<1>. QED
  BY <1>2, <1>3 DEF TabShaped

LEMMA SignInShaped ==
  ASSUME InShape, \A t \in Tokens : Issued(t) => Issued(t)', AnswersAreNew,
         NEW r \in Requests,
         SignInReceive(r) \/ SignInRefused(r) \/ \E u \in Users, p \in Purposes : SignInSend(r, u, p)
  PROVE  TabShaped' /\ CallsShaped'
<1>0. TypeOK /\ TabShaped /\ CallsShaped
  BY ShapeParts
<1>1. ASSUME NEW u \in Users, NEW p \in Purposes, SignInSend(r, u, p)
      PROVE  TabShaped' /\ CallsShaped'
  <2>1. TabShaped'
    BY <1>0, <1>1, TabKept DEF SignInSend, past, TabShaped
  <2> DEFINE next == Call("signing in", p, None)
  <2>2. next \in CallRecords /\ next.at = "signing in" /\ CallBecomes(r, next)
    BY <1>1, CallTyped DEF SignInSend, Call
  <2> HIDE DEF next
  <2>3. /\ call'[r] = next
        /\ \A s \in Requests \ {r} : call'[s] = call[s]
        /\ call' \in [Requests -> CallRecords]
    BY <2>2, CallStep
  <2>4. request'[r].at = "issuing" /\ \A s \in Requests \ {r} : request'[s] = request[s]
    BY <1>0, <1>1, BecomesParts DEF SignInSend, LoginCheck
  <2>5. InStep(r)'
    BY <2>2, <2>3, <2>4 DEF InStep
  <2>. QED
    BY <1>0, <2>1, <2>3, <2>4, <2>5, CallsKept
<1>2. ASSUME SignInReceive(r) \/ SignInRefused(r)
      PROVE  CallsShaped'
  <2>1. /\ call'[r] = NoCall
        /\ \A s \in Requests \ {r} : call'[s] = call[s]
        /\ call' \in [Requests -> CallRecords]
    BY <1>2, CallStep, NoCallTyped DEF SignInReceive, SignInRefused
  <2>2. \A s \in Requests \ {r} : request'[s] = request[s]
    BY <1>0, <1>2, BecomesParts DEF SignInReceive, SignInRefused, Respond, Idle
  <2>. QED
    BY <1>0, <2>1, <2>2, CallsKept DEF InStep
<1>3. CASE SignInRefused(r)
  BY <1>0, <1>2, <1>3, TabKept DEF SignInRefused, past, TabShaped
<1>4. CASE SignInReceive(r)
  <2> DEFINE t == request[r].token
             place == Place(call[r].purpose)
  <2>1. t \in Tokens /\ Issued(t) /\ root[t] \in Tokens
    BY <1>0, <1>4 DEF SignInReceive, AnswersAreNew, Answers, UnknownYet, Live, Issued, TypeOK
  <2>2. Kept(t, TRUE).pair = t /\ Kept(t, TRUE).named = TRUE
        /\ Kept(t, TRUE) = [pair |-> t, named |-> TRUE]
    BY DEF Kept
  <2>3. storage' = [storage EXCEPT ![place] = Kept(t, TRUE)] /\ place \in Places
    BY <1>4 DEF SignInReceive, Place, Places
  <2>4. Pairs \subseteq Pairs' /\ t \in Pairs'
    BY <2>1 DEF Pairs
  <2> HIDE DEF t, place
  <2>5. storage' \in [Places -> [pair : Pairs' \cup {None}, named : BOOLEAN]]
    BY <1>0, <2>2, <2>3, <2>4 DEF TabShaped
  <2>6. \A s \in Places : storage'[s].named => storage'[s].pair # None
    BY <1>0, <2>1, <2>2, <2>3, NoneApart DEF TabShaped
  <2>7. Found(storage').pair \in Pairs' \cup {None}
    BY <2>5 DEF Found, Places
  <2>8. /\ page' \in {"login", "portal"}
        /\ held' \in Pairs' \cup {None} /\ memory' \in Pairs' \cup {None}
        /\ page' = "portal" => held' # None
    BY <1>0, <1>4, <2>4, <2>7 DEF SignInReceive, Loads, TabShaped, Complete
  <2>9. /\ latest' \in Tokens
        /\ raced' \in BOOLEAN /\ cut' \in BOOLEAN /\ mixed' \in BOOLEAN
    BY <1>4, <2>1 DEF SignInReceive, t
  <2>10. TabShaped'
    BY <2>5, <2>6, <2>8, <2>9 DEF TabShaped
  <2>. QED
    BY <1>2, <1>4, <2>10
<1>. QED
  BY <1>1, <1>2, <1>3, <1>4

LEMMA CallsShapedStep ==
  ASSUME InShape, \A t \in Tokens : Issued(t) => Issued(t)',
         NEW r \in Requests,
         (\E p \in Purposes : Send(r, p)) \/ Arrive(r) \/ Receive(r) \/ RefreshSend(r)
  PROVE  TabShaped' /\ CallsShaped'
<1>0. TypeOK /\ TabShaped /\ CallsShaped
  BY ShapeParts
<1>1. \A t \in Tokens \cup {None} : t \in Pairs => t \in Pairs'
  BY DEF Pairs
<1>2. ASSUME NEW p \in Purposes, Send(r, p)
      PROVE  TabShaped' /\ CallsShaped'
  <2>1. TabShaped'
    BY <1>0, <1>2, TabKept DEF Send, past, TabShaped
  <2>2. held \in Pairs /\ held \in Tokens \cup {None} /\ request'[r] = Idle
    BY <1>0, <1>2 DEF Send, TabShaped, Pairs, vars
  <2>3. Call("sent", p, held) \in CallRecords
    BY <2>2, CallTyped
  <2>4. /\ call'[r] = Call("sent", p, held)
        /\ \A s \in Requests \ {r} : call'[s] = call[s]
        /\ call' \in [Requests -> CallRecords]
    BY <1>2, <2>3, CallStep DEF Send
  <2>5. call'[r].at = "sent" /\ call'[r].token = held /\ held \in Pairs'
    BY <1>1, <2>2, <2>4 DEF Call
  <2>6. InStep(r)'
    BY <2>2, <2>5 DEF InStep
  <2>. QED
    BY <1>0, <1>2, <2>1, <2>4, <2>6, CallsKept DEF Send, vars
<1>3. CASE Arrive(r)
  <2> DEFINE at == IF Accepts(call[r].token) THEN "accepted" ELSE "unauthorised"
             next == Call(at, call[r].purpose, None)
  <2>1. TabShaped'
    BY <1>0, <1>3, TabKept DEF Arrive, past, TabShaped
  <2>2. call[r].purpose \in Purposes /\ request[r] = Idle /\ request' = request
    BY <1>3, StageSays DEF Arrive, vars, CallRecords
  <2>3. next \in CallRecords /\ next.at \in {"accepted", "unauthorised"}
    BY <2>2, CallTyped DEF Call
  <2>4. CallBecomes(r, next)
    BY <1>3 DEF Arrive
  <2> HIDE DEF next
  <2>5. /\ call'[r] = next
        /\ \A s \in Requests \ {r} : call'[s] = call[s]
        /\ call' \in [Requests -> CallRecords]
    BY <2>3, <2>4, CallStep
  <2>6. InStep(r)'
    BY <2>2, <2>3, <2>5 DEF InStep
  <2>. QED
    BY <1>0, <2>1, <2>2, <2>5, <2>6, CallsKept
<1>4. CASE Receive(r)
  <2>1. /\ page' \in {"login", "portal"} /\ (page' = "portal" => page = "portal")
        /\ memory' \in {memory, None} /\ latest' \in {latest, None}
        /\ \/ storage' = storage
           \/ storage' = [s \in Places |-> Nothing]
        /\ UNCHANGED <<held, raced, cut, mixed>> /\ request' = request
    BY <1>0, <1>4 DEF Receive, Cleared, TabShaped, vars
  <2>2. Nothing \in [pair : Pairs' \cup {None}, named : BOOLEAN] /\ Nothing.named = FALSE
    BY DEF Nothing, Kept
  <2>3. Pairs \subseteq Pairs'
    BY DEF Pairs
  <2>4. storage' \in [Places -> [pair : Pairs' \cup {None}, named : BOOLEAN]]
    BY <1>0, <2>1, <2>2, <2>3 DEF TabShaped
  <2>5. \A s \in Places : storage'[s].named => storage'[s].pair # None
    BY <1>0, <2>1, <2>2 DEF TabShaped
  <2>6. TabShaped'
    BY <1>0, <2>1, <2>3, <2>4, <2>5 DEF TabShaped
  <2>7. /\ call'[r] = NoCall
        /\ \A s \in Requests \ {r} : call'[s] = call[s]
        /\ call' \in [Requests -> CallRecords]
    BY <1>4, CallStep, NoCallTyped DEF Receive
  <2>. QED
    BY <1>0, <2>1, <2>6, <2>7, CallsKept DEF InStep
<1>5. CASE RefreshSend(r)
  <2> DEFINE next == Call("refreshing", call[r].purpose, memory)
  <2>1. TabShaped'
    BY <1>0, <1>5, TabKept DEF RefreshSend, TabShaped
  <2>2. call[r].purpose \in Purposes /\ memory \in Pairs /\ request' = request
    BY <1>0, <1>5, StageSays DEF RefreshSend, vars, CallRecords, TabShaped
  <2>3. next \in CallRecords
    BY <2>2, CallTyped DEF Pairs
  <2>4. CallBecomes(r, next) /\ next.at = "refreshing" /\ next.token = memory
    BY <1>5 DEF RefreshSend, Call
  <2> HIDE DEF next
  <2>5. /\ call'[r] = next
        /\ \A s \in Requests \ {r} : call'[s] = call[s]
        /\ call' \in [Requests -> CallRecords]
    BY <2>3, <2>4, CallStep
  <2>6. InStep(r)'
    BY <1>1, <2>2, <2>4, <2>5 DEF InStep, Pairs
  <2>. QED
    BY <1>0, <2>1, <2>2, <2>5, <2>6, CallsKept
<1>. QED
  BY <1>2, <1>3, <1>4, <1>5

(* A step of the server for request r that leaves the tab as it is.        *)
LEMMA ServerShaped ==
  ASSUME InShape, \A t \in Tokens : Issued(t) => Issued(t)', NEW r \in Requests,
         UNCHANGED <<tab, latest, raced, mixed>>, cut' \in BOOLEAN,
         \A s \in Requests \ {r} : request'[s] = request[s],
         \/ Refreshing(r) \/ call[r] = NoCall
         \/ call[r].at = "signing in" /\ request'[r].at \in {"issuing", "answered", "refused"}
  PROVE  TabShaped' /\ CallsShaped'
<1>0. TypeOK /\ TabShaped /\ CallsShaped
  BY ShapeParts
<1>1. TabShaped'
  BY <1>0, TabKept DEF tab, TabShaped
<1>2. call' = call
  BY DEF tab
<1>3. InStep(r)'
  BY <1>2, StageSays DEF InStep, Pairs, Refreshing
<1>. QED
  BY <1>0, <1>1, <1>2, <1>3, CallsKept DEF CallsShaped

(* A request at work is one of a call that refreshes or signs in, or of    *)
(* one that has been given up.                                             *)
LEMMA WorksFor ==
  ASSUME InShape, NEW r \in Requests, request[r].at # "idle"
  PROVE  \/ Refreshing(r) \/ call[r] = NoCall
         \/ call[r].at = "signing in" /\ request[r].at \in {"issuing", "answered", "refused"}
<1>1. InStep(r)
  BY DEF InShape, ClientTypeOK
<1>2. request[r] # Idle
  BY IdleTyped
<1>. QED
  BY <1>1, <1>2 DEF InStep, Refreshing

LEMMA ServerStepShaped ==
  ASSUME InShape, \A t \in Tokens : Issued(t) => Issued(t)', NEW r \in Requests,
         RefreshArrive(r) \/ Serve(r) \/ ServeFails(r) \/ Drop(r)
  PROVE  TabShaped' /\ CallsShaped'
<1>0. TypeOK /\ raced \in BOOLEAN /\ cut \in BOOLEAN /\ mixed \in BOOLEAN
  BY ShapeParts DEF TabShaped
<1>1. CASE RefreshArrive(r)
  <2>1. \A s \in Requests \ {r} : request'[s] = request[s]
    BY <1>0, <1>1, BecomesParts DEF RefreshArrive, RefreshCheck, RefreshRefuse, Refusal
  <2>. QED
    BY <1>0, <1>1, <2>1, ServerShaped DEF RefreshArrive, past, Refreshing
<1>2. CASE Drop(r)
  <2>1. \A s \in Requests \ {r} : request'[s] = request[s]
    BY <1>0, <1>2, BecomesParts DEF Drop, Respond, Idle
  <2>. QED
    BY <1>0, <1>2, <2>1, ServerShaped DEF Drop, past
<1>3. CASE Serve(r)
  <2>1. CASE RefreshRevoke(r)
    <3>1. /\ \A s \in Requests \ {r} : request'[s] = request[s]
          /\ request'[r].at = "issuing" /\ request[r].at = "revoking"
      BY <1>0, <2>1, BecomesParts DEF RefreshRevoke
    <3>. QED
      BY <1>0, <1>3, <3>1, WorksFor, ServerShaped DEF Serve, past
  <2>2. CASE Issue(r)
    <3>1. /\ \A s \in Requests \ {r} : request'[s] = request[s]
          /\ request'[r].at = "answered" /\ request[r].at = "issuing"
      BY <1>0, <2>2, BecomesParts DEF Issue
    <3>. QED
      BY <1>0, <1>3, <3>1, WorksFor, ServerShaped DEF Serve, past
  <2>. QED
    BY <1>3, <2>1, <2>2 DEF Serve
<1>4. CASE ServeFails(r)
  <2>1. /\ \A s \in Requests \ {r} : request'[s] = request[s]
        /\ request'[r].at = "refused" /\ request[r].at # "idle"
    BY <1>0, <1>4, BecomesParts, StageNames DEF ServeFails, RequestFails, Refusal
  <2>. QED
    BY <1>0, <1>4, <2>1, WorksFor, ServerShaped DEF ServeFails
<1>. QED
  BY <1>1, <1>2, <1>3, <1>4

LEMMA RefreshAnswerShaped ==
  ASSUME InShape, \A t \in Tokens : Issued(t) => Issued(t)', AnswersAreNew,
         NEW r \in Requests, RefreshReceive(r)
  PROVE  TabShaped' /\ CallsShaped'
<1>0. TypeOK /\ TabShaped /\ CallsShaped
  BY ShapeParts
<1> DEFINE t == request[r].token
           place == RefreshPlace
           next == Call("sent", call[r].purpose, t)
<1>1. t \in Tokens /\ Issued(t)
  BY DEF RefreshReceive, AnswersAreNew, Answers, UnknownYet, Live
<1>2. Pairs \subseteq Pairs' /\ t \in Pairs' /\ t # None
  BY <1>1, NoneApart DEF Pairs
<1>3. /\ place \in Places
      /\ storage' = [storage EXCEPT ![place] = [@ EXCEPT !.pair = t]]
      /\ memory' = t /\ UNCHANGED <<page, held, latest, raced, cut, mixed>>
  BY DEF RefreshReceive, Stored, KeptNew, RefreshPlace, Places, past
<1>4. request'[r] = Idle /\ \A s \in Requests \ {r} : request'[s] = request[s]
  BY <1>0 DEF RefreshReceive, Respond, Becomes, TypeOK
<1>5. next \in CallRecords /\ CallBecomes(r, next) /\ next.at = "sent" /\ next.token = t
  BY <1>1, StageSays, CallTyped DEF RefreshReceive, Retried, CallRecords, Call
<1> HIDE DEF t, place, next
<1>6. storage' \in [Places -> [pair : Pairs' \cup {None}, named : BOOLEAN]]
  BY <1>0, <1>2, <1>3 DEF TabShaped
<1>7. \A s \in Places : storage'[s].named => storage'[s].pair # None
  BY <1>0, <1>2, <1>3 DEF TabShaped
<1>8. TabShaped'
  BY <1>0, <1>2, <1>3, <1>6, <1>7 DEF TabShaped
<1>9. /\ call'[r] = next
      /\ \A s \in Requests \ {r} : call'[s] = call[s]
      /\ call' \in [Requests -> CallRecords]
  BY <1>5, CallStep
<1>10. InStep(r)'
  BY <1>2, <1>4, <1>5, <1>9 DEF InStep
<1>. QED
  BY <1>0, <1>4, <1>8, <1>9, <1>10, CallsKept

LEMMA LeavesShaped ==
  ASSUME InShape, Leaves
  PROVE  /\ CallsShaped'
         /\ \A r \in Requests : call'[r] = NoCall /\ ~Refreshing(r)'
         /\ cut' \in BOOLEAN
<1>1. \A r \in Requests : call'[r] = NoCall
  BY DEF Leaves
<1>. QED
  BY <1>1, NoCallTyped, ShapeParts DEF Leaves, CallsShaped, InStep, Refreshing, TabShaped

LEMMA ClearedStep ==
  ASSUME NEW r \in Requests, Cleared(r)
  PROVE  /\ \/ storage' = storage /\ latest' = latest
            \/ latest' = None /\ \A s \in Places : storage'[s] = Nothing
         /\ \A s \in Places : storage'[s].pair \in {storage[s].pair, None}
<1>1. \/ storage' = storage /\ latest' = latest
      \/ latest' = None /\ \A s \in Places : storage'[s] = Nothing
  BY DEF Cleared
<1>2. Nothing.pair = None
  BY DEF Nothing, Kept
<1>. QED
  BY <1>1, <1>2

LEMMA ClearedTyped ==
  ASSUME TabShaped, \A t \in Tokens : Issued(t) => Issued(t)', NEW r \in Requests, Cleared(r)
  PROVE  /\ storage' \in [Places -> [pair : Pairs' \cup {None}, named : BOOLEAN]]
         /\ \A s \in Places : storage'[s].named => storage'[s].pair # None
         /\ latest' \in Tokens \cup {None}
<1>1. Nothing \in [pair : Pairs' \cup {None}, named : BOOLEAN] /\ Nothing.named = FALSE
  BY DEF Nothing, Kept
<1>2. Pairs \subseteq Pairs'
  BY DEF Pairs
<1>. QED
  BY <1>1, <1>2 DEF Cleared, TabShaped

LEMMA ShapeNext ==
  ASSUME InShape, AnswersAreNew, ClientNext
  PROVE  InShape'
<1>0. TypeOK /\ TabShaped /\ CallsShaped /\ TypeOK' /\ RevokedAreIssued'
  BY ShapeParts, SessionsTyped, RevokedStay
<1>1. \A t \in Tokens : Issued(t) => Issued(t)'
  BY PairsStay
<1>2. CASE Mount
  <2>1. TabShaped'
    BY <1>0, <1>1, <1>2, LoadsTyped DEF Mount, past, TabShaped
  <2>2. call' = call /\ request' = request
    BY <1>2 DEF Mount, vars
  <2>. QED
    BY <1>0, <1>1, <2>1, <2>2, ShapeAfter DEF CallsShaped, InStep, Pairs
<1>3. CASE Reload
  <2>1. CallsShaped' /\ cut' \in BOOLEAN
    BY <1>3, LeavesShaped DEF Reload
  <2>2. TabShaped'
    BY <1>0, <1>1, <1>3, <2>1, LoadsTyped DEF Reload
  <2>. QED
    BY <1>0, <2>1, <2>2, ShapeAfter
<1>4. ASSUME NEW r \in Requests, RefreshRefused(r)
      PROVE  InShape'
  <2>1. CallsShaped' /\ cut' \in BOOLEAN
    BY <1>4, LeavesShaped DEF RefreshRefused
  <2>2. /\ storage' \in [Places -> [pair : Pairs' \cup {None}, named : BOOLEAN]]
        /\ \A s \in Places : storage'[s].named => storage'[s].pair # None
        /\ latest' \in Tokens \cup {None}
    BY <1>0, <1>1, <1>4, ClearedTyped DEF RefreshRefused
  <2>3. TabShaped'
    BY <1>0, <1>1, <1>4, <2>1, <2>2 DEF RefreshRefused, TabShaped, Pairs
  <2>. QED
    BY <1>0, <2>1, <2>3, ShapeAfter
<1>5. CASE Elsewhere
  <2>1. UNCHANGED <<request, tab, past>>
    BY <1>5 DEF Elsewhere, SetUserStatus, Lapse
  <2>2. TabShaped'
    BY <1>0, <1>1, <2>1, TabKept DEF tab, past, TabShaped
  <2>. QED
    BY <1>0, <1>1, <2>1, <2>2, ShapeAfter DEF CallsShaped, InStep, Pairs, tab
<1>6. ASSUME NEW r \in Requests, Start(r) \/ Proceed(r) \/ ServeFails(r)
      PROVE  InShape'
  BY <1>0, <1>1, <1>4, <1>6, SignInShaped, CallsShapedStep, ServerStepShaped,
     RefreshAnswerShaped, ShapeAfter DEF Start, Proceed
<1>. QED
  BY <1>2, <1>3, <1>5, <1>6 DEF ClientNext

-----------------------------------------------------------------------------
(***************************************************************************)
(* The pair in an answer is new to everybody.                              *)
(***************************************************************************)
LEMMA NewStep ==
  ASSUME AnswersAreNew,
         \A r \in Requests : request'[r].at = "answered" =>
            request[r].at = "answered" /\ request'[r].token = request[r].token,
         \A t \in Tokens : HasPair(t)' =>
            HasPair(t) \/ \E r \in Requests : Answers(r, t) /\ ~Answers(r, t)',
         \A t \in Tokens : Live(t) /\ ~HasPair(t) => Live(t)'
  PROVE  AnswersAreNew'
<1>1. ASSUME NEW r \in Requests, request'[r].at = "answered",
             NEW t \in Tokens, Answers(r, t), UnknownYet(r, t)
      PROVE  Answers(r, t)' /\ UnknownYet(r, t)'
  <2>1. Answers(r, t)' /\ Live(t)'
    BY <1>1 DEF Answers, UnknownYet
  <2>2. ~HasPair(t)'
    BY <1>1, <2>1 DEF UnknownYet
  <2>3. \A s \in Requests \ {r} : ~Answers(s, t)'
    BY <1>1 DEF UnknownYet, Answers
  <2>. QED
    BY <2>1, <2>2, <2>3 DEF UnknownYet
<1>. QED
  BY <1>1 DEF AnswersAreNew

(* The answer to r goes to the tab, or is dropped.                         *)
LEMMA RespondStep ==
  ASSUME TypeOK, NEW r \in Requests, Respond(r)
  PROVE  /\ request'[r] = Idle /\ request'[r].at = "idle"
         /\ \A s \in Requests \ {r} : request'[s] = request[s]
         /\ \A t \in Tokens : ~Answers(r, t)' /\ ~Revoking(r, t)'
         /\ UNCHANGED <<owner, revoked, root>>
<1>1. request'[r] = Idle /\ \A s \in Requests \ {r} : request'[s] = request[s]
  BY DEF Respond, Becomes, TypeOK
<1>. QED
  BY <1>1, IdleTyped DEF Respond, pairs, Answers, Revoking

LEMMA NewReceives ==
  ASSUME InShape, AnswersAreNew, NEW r \in Requests,
         SignInReceive(r) \/ SignInRefused(r) \/ RefreshReceive(r) \/ RefreshRefused(r)
           \/ Drop(r)
  PROVE  AnswersAreNew'
<1>0. TypeOK /\ TabShaped /\ CallsShaped
  BY ShapeParts
<1>1. /\ request'[r].at = "idle"
      /\ \A s \in Requests \ {r} : request'[s] = request[s]
      /\ \A t \in Tokens : ~Answers(r, t)' /\ ~Revoking(r, t)'
      /\ UNCHANGED <<owner, revoked>>
  BY <1>0, RespondStep
     DEF SignInReceive, SignInRefused, RefreshReceive, RefreshRefused, Drop
<1>2. \A t \in Tokens : Live(t) => Live(t)'
  BY <1>1 DEF Live, Issued
<1>3. \A s \in Requests, t \in Tokens : Revoking(s, t)' => Revoking(s, t)
  BY <1>1 DEF Revoking
<1>4. \A s \in Requests : Refreshing(s)' => Refreshing(s) /\ call'[s] = call[s]
  <2>1. CASE Drop(r)
    BY <2>1 DEF Drop, tab, Refreshing
  <2>2. CASE RefreshRefused(r)
    BY <2>2, LeavesShaped DEF RefreshRefused
  <2>3. CASE SignInReceive(r) \/ SignInRefused(r)
    BY <2>3, CallStep, NoCallTyped DEF SignInReceive, SignInRefused, Refreshing
  <2>4. CASE RefreshReceive(r)
    <3> DEFINE next == Call("sent", call[r].purpose, Retried(request[r].token))
    <3>1. CallBecomes(r, next) /\ next.at = "sent"
      BY <2>4 DEF RefreshReceive, Call
    <3> HIDE DEF next
    <3>. QED
      BY <3>1, CallStep DEF Refreshing
  <2>. QED
    BY <2>1, <2>2, <2>3, <2>4
<1>5. ASSUME NEW t \in Tokens,
             memory' = t \/ \E s \in Places : storage'[s].pair = t
      PROVE  HasPair(t) \/ Answers(r, t)
  <2>1. t # None
    BY NoneApart
  <2>2. CASE Drop(r) \/ SignInRefused(r)
    BY <1>5, <2>2 DEF Drop, SignInRefused, tab, HasPair
  <2>3. CASE RefreshRefused(r)
    <3>1. memory' = None
      BY <2>3 DEF RefreshRefused
    <3>2. \A s \in Places : storage'[s].pair \in {storage[s].pair, None}
      BY <2>3, ClearedStep DEF RefreshRefused
    <3>. QED
      BY <1>5, <2>1, <3>1, <3>2 DEF HasPair
  <2>4. CASE RefreshReceive(r)
    <3>1. \A s \in Places : storage'[s].pair \in {storage[s].pair, request[r].token}
      BY <1>0, <2>4 DEF RefreshReceive, Stored, TabShaped
    <3>. QED
      BY <1>5, <2>4, <3>1 DEF RefreshReceive, KeptNew, Answers, HasPair
  <2>5. CASE SignInReceive(r)
    <3>1. /\ \A s \in Places : storage'[s].pair \in {storage[s].pair, request[r].token}
          /\ storage' \in [Places -> [pair : Pairs \cup {None, request[r].token}, named : BOOLEAN]]
      BY <1>0, <2>5 DEF SignInReceive, Kept, TabShaped
    <3>2. Found(storage').pair \in {storage'[s].pair : s \in Places}
      BY <3>1 DEF Found, Places
    <3>3. memory' \in {memory, Found(storage').pair}
      BY <2>5 DEF SignInReceive, Loads
    <3>4. request[r].at = "answered"
      BY <2>5 DEF SignInReceive
    <3>. QED
      BY <1>5, <3>1, <3>2, <3>3, <3>4 DEF Answers, HasPair
  <2>. QED
    BY <2>2, <2>3, <2>4, <2>5
<1>6. \A t \in Tokens : HasPair(t)' =>
        HasPair(t) \/ \E s \in Requests : Answers(s, t) /\ ~Answers(s, t)'
  BY <1>1, <1>3, <1>4, <1>5 DEF HasPair
<1>. QED
  BY <1>1, <1>2, <1>6, NewStep

(* Steps that neither answer a request nor hand out a pair.                *)
LEMMA NewQuietStep ==
  ASSUME InShape, AnswersAreNew, UNCHANGED <<request, owner, revoked>>,
         \A s \in Requests : Refreshing(s)' =>
            \/ Refreshing(s) /\ call'[s].token = call[s].token
            \/ call'[s].token = memory,
         \A s \in Places : storage'[s].pair \in {storage[s].pair, None},
         \/ memory' \in {memory, None}
         \/ \E s \in Places : memory' = storage[s].pair
  PROVE  AnswersAreNew'
<1>1. \A t \in Tokens : Live(t) => Live(t)'
  BY DEF Live, Issued
<1>2. \A s \in Requests, t \in Tokens : Revoking(s, t)' => Revoking(s, t)
  BY DEF Revoking
<1>3. \A t \in Tokens : HasPair(t)' => HasPair(t)
  BY <1>2, NoneApart DEF HasPair
<1>. QED
  BY <1>1, <1>3, NewStep

LEMMA FoundSomewhere == \E s \in Places : Found(storage) = storage[s]
BY DEF Found, Places

(* What a call that is sent, answered or about to refresh becomes.         *)
LEMMA CallAfter ==
  ASSUME InShape, NEW r \in Requests,
         (\E p \in Purposes : Send(r, p)) \/ Arrive(r) \/ Receive(r) \/ RefreshSend(r)
  PROVE  /\ \A s \in Requests \ {r} : call'[s] = call[s]
         /\ \/ call'[r].at \in {"none", "sent", "accepted", "unauthorised"}
            \/ RefreshSend(r) /\ call'[r].at = "refreshing" /\ call'[r].token = memory
<1>1. ASSUME NEW at, NEW p, NEW t, CallBecomes(r, Call(at, p, t))
      PROVE  /\ \A s \in Requests \ {r} : call'[s] = call[s]
             /\ call'[r].at = at /\ call'[r].token = t
  BY <1>1, CallStep DEF Call
<1>2. ASSUME NEW p \in Purposes, Send(r, p)
      PROVE  CallBecomes(r, Call("sent", p, held))
  BY <1>2 DEF Send
<1>3. CASE Arrive(r)
  <2>1. PICK at \in {"accepted", "unauthorised"} :
          CallBecomes(r, Call(at, call[r].purpose, None))
    BY <1>3 DEF Arrive
  <2>. QED
    BY <1>1, <2>1
<1>4. CASE Receive(r)
  BY <1>4, CallStep, NoCallTyped DEF Receive
<1>5. CASE RefreshSend(r)
  <2>1. CallBecomes(r, Call("refreshing", call[r].purpose, memory))
    BY <1>5 DEF RefreshSend
  <2>. QED
    BY <1>1, <1>5, <2>1
<1>. QED
  BY <1>1, <1>2, <1>3, <1>4, <1>5

LEMMA NewTabSteps ==
  ASSUME InShape, AnswersAreNew,
         \/ Mount \/ Reload \/ Elsewhere
         \/ \E r \in Requests :
              (\E p \in Purposes : Send(r, p)) \/ Arrive(r) \/ Receive(r) \/ RefreshSend(r)
  PROVE  AnswersAreNew'
<1>1. CASE Mount
  BY <1>1, FoundSomewhere, NewQuietStep
     DEF Mount, Loads, vars, pairs, Refreshing
<1>2. CASE Reload
  <2>1. \A s \in Requests : ~Refreshing(s)'
    BY <1>2, LeavesShaped DEF Reload
  <2>. QED
    BY <1>2, <2>1, FoundSomewhere, NewQuietStep DEF Reload, Loads, vars, pairs
<1>3. CASE Elsewhere
  BY <1>3, NewQuietStep DEF Elsewhere, SetUserStatus, Lapse, pairs, tab, Refreshing
<1>4. ASSUME NEW r \in Requests,
             (\E p \in Purposes : Send(r, p)) \/ Arrive(r) \/ Receive(r) \/ RefreshSend(r)
      PROVE  AnswersAreNew'
  <2>1. UNCHANGED <<request, owner, revoked>>
    BY <1>4 DEF Send, Arrive, Receive, RefreshSend, vars, pairs
  <2>2. /\ memory' \in {memory, None}
        /\ \A s \in Places : storage'[s].pair \in {storage[s].pair, None}
    BY <1>4, ClearedStep DEF Send, Arrive, Receive, RefreshSend
  <2>3. /\ \A s \in Requests \ {r} : call'[s] = call[s]
        /\ Refreshing(r)' => call'[r].token = memory
    BY <1>4, CallAfter DEF Refreshing
  <2>. QED
    BY <2>1, <2>2, <2>3, NewQuietStep DEF Refreshing
<1>. QED
  BY <1>1, <1>2, <1>3, <1>4

LEMMA SignInSent ==
  ASSUME InShape, NEW r \in Requests, NEW u \in Users, NEW p \in Purposes,
         SignInSend(r, u, p)
  PROVE  /\ request[r] = Idle /\ request'[r].at = "issuing" /\ call'[r].at = "signing in"
         /\ \A s \in Requests \ {r} : call'[s] = call[s] /\ request'[s] = request[s]
         /\ ~Refreshing(r)'
<1> DEFINE next == Call("signing in", p, None)
<1>1. next.at = "signing in" /\ CallBecomes(r, next)
  BY DEF SignInSend, Call
<1> HIDE DEF next
<1>2. call'[r] = next /\ \A s \in Requests \ {r} : call'[s] = call[s]
  BY <1>1, CallStep
<1>3. TypeOK
  BY ShapeParts
<1>4. /\ request[r] = Idle /\ request'[r].at = "issuing"
      /\ \A s \in Requests \ {r} : request'[s] = request[s]
  BY <1>3, BecomesParts DEF SignInSend, LoginCheck, Starts
<1>. QED
  BY <1>1, <1>2, <1>4 DEF Refreshing

LEMMA NewSignInSend ==
  ASSUME InShape, AnswersAreNew, NEW r \in Requests, NEW u \in Users, NEW p \in Purposes,
         SignInSend(r, u, p)
  PROVE  AnswersAreNew'
<1>0. TypeOK
  BY ShapeParts
<1>1. /\ request'[r].at = "issuing"
      /\ \A s \in Requests \ {r} : request'[s] = request[s]
      /\ UNCHANGED <<owner, revoked, memory, storage>>
  BY <1>0, BecomesParts DEF SignInSend, LoginCheck, pairs
<1>2. ~Refreshing(r)' /\ \A s \in Requests \ {r} : call'[s] = call[s]
  BY SignInSent
<1>3. \A t \in Tokens : (HasPair(t)' => HasPair(t)) /\ (Live(t) => Live(t)')
  BY <1>1, <1>2 DEF HasPair, Revoking, Refreshing, Live, Issued
<1>. QED
  BY <1>1, <1>3, NewStep

LEMMA NewServerSteps ==
  ASSUME InShape, AnswersAreNew, NEW r \in Requests,
         RefreshArrive(r) \/ RefreshRevoke(r) \/ RequestFails(r), UNCHANGED tab
  PROVE  AnswersAreNew'
<1>0. TypeOK
  BY ShapeParts
<1>1. UNCHANGED <<memory, storage, call, owner>>
  BY DEF tab, RefreshArrive, RefreshRevoke, RequestFails, RefreshCheck, RefreshRefuse, pairs
<1>2. /\ \A s \in Requests \ {r} : request'[s] = request[s]
      /\ request'[r].at # "answered"
  BY <1>0, BecomesParts
     DEF RefreshArrive, RefreshCheck, RefreshRefuse, RefreshRevoke, RequestFails, Refusal
<1>3. \A t \in Tokens : Revoking(r, t)' => HasPair(t)
  <2>1. CASE RefreshArrive(r)
    <3>1. \A t \in Tokens : Revoking(r, t)' => call[r].token = t
      BY <1>0, <2>1, BecomesParts
         DEF RefreshArrive, RefreshCheck, RefreshRefuse, Refusal, Revoking
    <3>. QED
      BY <2>1, <3>1 DEF RefreshArrive, HasPair, Refreshing
  <2>2. CASE RefreshRevoke(r) \/ RequestFails(r)
    BY <1>0, <2>2, BecomesParts DEF RefreshRevoke, RequestFails, Refusal, Revoking
  <2>. QED
    BY <2>1, <2>2
<1>4. \A t \in Tokens : Live(t) /\ ~HasPair(t) => Live(t)'
  <2>1. CASE RefreshRevoke(r)
    <3>1. /\ request[r].at = "revoking"
          /\ revoked' = [revoked EXCEPT ![request[r].token] = TRUE]
      BY <2>1 DEF RefreshRevoke, RevokedByRefresh
    <3>2. \A t \in Tokens : ~HasPair(t) => t # request[r].token
      BY <3>1 DEF HasPair, Revoking
    <3>. QED
      BY <1>0, <1>1, <3>1, <3>2 DEF Live, Issued, TypeOK
  <2>2. CASE RefreshArrive(r) \/ RequestFails(r)
    BY <2>2 DEF RefreshArrive, RequestFails, RefreshCheck, RefreshRefuse, pairs, Live, Issued
  <2>. QED
    BY <2>1, <2>2
<1>5. \A t \in Tokens : HasPair(t)' => HasPair(t)
  BY <1>1, <1>2, <1>3 DEF HasPair, Refreshing, Revoking
<1>. QED
  BY <1>2, <1>4, <1>5, NewStep

(* issueTokens() answers with a pair that nobody had.                      *)
LEMMA NewIssue ==
  ASSUME InShape, AnswersAreNew, NEW r \in Requests, Issue(r), UNCHANGED tab
  PROVE  AnswersAreNew'
<1>0. TypeOK /\ TabShaped /\ RevokedAreIssued
  BY ShapeParts
<1>1. PICK t \in Tokens :
        /\ ~Issued(t)
        /\ owner' = [owner EXCEPT ![t] = request[r].user]
        /\ Becomes(r, Waiting("answered", request[r].user, t, 0, None))
  BY DEF Issue, Fresh
<1>2. /\ request'[r].at = "answered" /\ request'[r].token = t
      /\ \A s \in Requests \ {r} : request'[s] = request[s]
  BY <1>0, <1>1, BecomesParts
<1>3. request[r].at = "issuing" /\ request[r].user \in Users /\ revoked' = revoked
  BY <1>0, StageNames DEF Issue, TypeOK
<1>4. \A x \in Tokens : (Live(x) => Live(x)' /\ x # t) /\ (Issued(x)' => Issued(x) \/ x = t)
  BY <1>0, <1>1, <1>3, NoneApart DEF Live, Issued, TypeOK
<1>5. UNCHANGED <<memory, storage, call>>
  BY DEF tab
<1>6. \A x \in Tokens : HasPair(x)' => HasPair(x)
  BY <1>2, <1>5 DEF HasPair, Refreshing, Revoking
<1>7. ~HasPair(t)
  <2>1. memory # t /\ \A s \in Places : storage[s].pair # t
    BY <1>0, <1>1, NoneApart DEF TabShaped, Pairs
  <2>2. \A s \in Requests : ~Revoking(s, t) /\ ~(Refreshing(s) /\ call[s].token = t)
    BY <1>0, <1>1, StageSays DEF Revoking, TypeOK
  <2>. QED
    BY <2>1, <2>2 DEF HasPair
<1>8. \A s \in Requests \ {r} : ~Answers(s, t)'
  <2>1. ASSUME NEW s \in Requests, Answers(s, t)
        PROVE  Live(t)
    BY <2>1 DEF AnswersAreNew, UnknownYet, Answers
  <2>. QED
    BY <1>2, <1>4, <2>1 DEF Answers
<1>9. Answers(r, t)' /\ UnknownYet(r, t)'
  <2>1. Live(t)'
    BY <1>0, <1>1, <1>3, NoneApart DEF Live, Issued, RevokedAreIssued, TypeOK
  <2>. QED
    BY <1>2, <1>6, <1>7, <1>8, <2>1 DEF UnknownYet, Answers
<1>10. ASSUME NEW s \in Requests \ {r}, request'[s].at = "answered"
       PROVE  \E x \in Tokens : Answers(s, x)' /\ UnknownYet(s, x)'
  <2>1. PICK x \in Tokens : Answers(s, x) /\ UnknownYet(s, x)
    BY <1>2, <1>10 DEF AnswersAreNew
  <2>2. Live(x)' /\ x # t /\ ~HasPair(x)' /\ Answers(s, x)'
    BY <1>2, <1>4, <1>6, <2>1 DEF UnknownYet, Answers
  <2>3. \A q \in Requests \ {s} : ~Answers(q, x)'
    BY <1>2, <2>1, <2>2 DEF UnknownYet, Answers
  <2>. QED
    BY <2>2, <2>3 DEF UnknownYet
<1>. QED
  BY <1>9, <1>10 DEF AnswersAreNew

LEMMA NewNext ==
  ASSUME InShape, AnswersAreNew, ClientNext
  PROVE  AnswersAreNew'
BY NewReceives, NewTabSteps, NewSignInSend, NewServerSteps, NewIssue
   DEF ClientNext, Start, Proceed, Serve, ServeFails, RefreshArrive, tab

-----------------------------------------------------------------------------
(***************************************************************************)
(* Who sees the portal is signed in.                                       *)
(***************************************************************************)

(* Where nothing is stored there is no pair, and the other way round.      *)
LEMMA NothingStored ==
  ASSUME TabShaped, NEW s \in Places
  PROVE  /\ Nothing.pair = None /\ Nothing.named = FALSE
         /\ storage[s].pair = None => storage[s] = Nothing
         /\ Complete(storage[s]) <=> storage[s].named
<1>1. storage[s] \in [pair : Pairs \cup {None}, named : BOOLEAN]
  BY DEF TabShaped
<1>2. storage[s] = [pair |-> storage[s].pair, named |-> storage[s].named]
  BY <1>1
<1>3. storage[s].named => storage[s].pair # None
  BY DEF TabShaped
<1>. QED
  BY <1>1, <1>2, <1>3 DEF Nothing, Kept, Complete

(* refreshTokens() puts the new pair where the portal looks for it.        *)
LEMMA RefreshStores ==
  ASSUME TabShaped, NEW r \in Requests, RefreshReceive(r), request[r].token # None
  PROVE  /\ Complete(Found(storage)) =>
              Complete(Found(storage')) /\ Found(storage').pair = request[r].token
         /\ ~Complete(Found(storage)) => ~Complete(Found(storage'))
<1> DEFINE t == request[r].token
<1>1. storage' = [storage EXCEPT ![RefreshPlace] = [@ EXCEPT !.pair = t]]
  BY DEF RefreshReceive, Stored
<1>2. /\ storage["local"].pair = None => storage["local"] = Nothing
      /\ storage["local"] = Nothing => storage["local"].pair = None
      /\ Nothing.pair = None
      /\ \A s \in Places : Complete(storage[s]) <=> storage[s].named
  BY NothingStored DEF Places
<1>3. \A s \in Places : storage[s] \in [pair : Pairs \cup {None}, named : BOOLEAN]
  BY DEF TabShaped
<1>4. CASE storage["local"] = Nothing
  <2>1. RefreshPlace = "session" /\ Found(storage) = storage["session"]
    BY <1>2, <1>4 DEF RefreshPlace, Found
  <2>2. /\ storage'["local"] = Nothing
        /\ storage'["session"].pair = t
        /\ storage'["session"].named = storage["session"].named
    BY <1>1, <1>3, <1>4, <2>1 DEF TabShaped, Places
  <2>. QED
    BY <1>2, <2>1, <2>2 DEF Found, Complete, Places
<1>5. CASE storage["local"] # Nothing
  <2>1. RefreshPlace = "local" /\ Found(storage) = storage["local"]
    BY <1>2, <1>5 DEF RefreshPlace, Found
  <2>2. storage'["local"].pair = t /\ storage'["local"].named = storage["local"].named
    BY <1>1, <1>3, <2>1 DEF TabShaped, Places
  <2>3. storage'["local"] # Nothing
    BY <1>2, <2>2
  <2>. QED
    BY <1>2, <2>1, <2>2, <2>3 DEF Found, Complete, Places
<1>. QED
  BY <1>4, <1>5

LEMMA PortalNext ==
  ASSUME InShape, AnswersAreNew, PortalIsForUsers, ClientNext
  PROVE  PortalIsForUsers'
<1>0. TypeOK /\ TabShaped
  BY ShapeParts
<1> USE DEF PortalIsForUsers, SignedOutStaysOut
<1>1. ASSUME UNCHANGED <<page, latest, storage>>
      PROVE  PortalIsForUsers'
  BY <1>1
<1>2. ASSUME Loads(storage), UNCHANGED <<latest, storage>>
      PROVE  PortalIsForUsers'
  BY <1>2 DEF Loads
<1>3. ASSUME NEW r \in Requests, Receive(r)
      PROVE  PortalIsForUsers'
  <2>1. CASE call[r].purpose = "sign out"
    <3>1. page' = "login" /\ Cleared(r)
      BY <1>3, <2>1 DEF Receive
    <3>. QED
      BY <3>1, ClearedStep DEF Found, Places, Complete, Nothing, Kept
  <2>2. CASE call[r].purpose # "sign out"
    BY <1>1, <1>3, <2>2 DEF Receive, Cleared
  <2>. QED
    BY <2>1, <2>2
<1>4. ASSUME NEW r \in Requests, RefreshRefused(r)
      PROVE  PortalIsForUsers'
  BY <1>4, ClearedStep DEF RefreshRefused, Found, Places, Complete, Nothing, Kept
<1>5. ASSUME NEW r \in Requests, RefreshReceive(r)
      PROVE  PortalIsForUsers'
  <2>1. request[r].token # None
    BY <1>5, NoneApart DEF RefreshReceive, AnswersAreNew, Answers
  <2>. QED
    BY <1>0, <1>5, <2>1, RefreshStores DEF RefreshReceive, past
<1>6. ASSUME NEW r \in Requests, SignInReceive(r)
      PROVE  PortalIsForUsers'
  <2>1. latest' \in Tokens
    BY <1>0, <1>6 DEF SignInReceive, AnswersAreNew, Answers, UnknownYet, Live, TypeOK
  <2>. QED
    BY <2>1, NoneApart
<1>7. ASSUME NEW r \in Requests,
             \/ Arrive(r) \/ SignInRefused(r) \/ RefreshSend(r) \/ RefreshArrive(r)
             \/ Drop(r) \/ Serve(r) \/ ServeFails(r)
             \/ \E p \in Purposes : Send(r, p) \/ \E u \in Users : SignInSend(r, u, p)
      PROVE  UNCHANGED <<page, latest, storage>>
  BY <1>7 DEF Arrive, SignInRefused, RefreshSend, RefreshArrive, Drop, Serve, ServeFails,
     Send, SignInSend, tab, past
<1>8. Mount \/ Reload => Loads(storage) /\ UNCHANGED <<latest, storage>>
  BY DEF Mount, Reload, past
<1>9. Elsewhere => UNCHANGED <<page, latest, storage>>
  BY DEF Elsewhere, tab, past
<1>. QED
  BY <1>1, <1>2, <1>3, <1>4, <1>5, <1>6, <1>7, <1>8, <1>9 DEF ClientNext, Start, Proceed

-----------------------------------------------------------------------------
(***************************************************************************)
(* Whatever the tab has or waits for belongs to the sign-in made last.     *)
(***************************************************************************)

LEMMA AnsweredIssued ==
  ASSUME AnswersAreNew, NEW s \in Requests, request[s].at = "answered"
  PROVE  request[s].token \in Tokens /\ Issued(request[s].token) /\ Live(request[s].token)
BY DEF AnswersAreNew, UnknownYet, Answers, Live

(* A step of the tab alone: calls that refresh go on, or take what is in   *)
(* memory.                                                                 *)
LEMMA SignInTabStep ==
  ASSUME TabShaped, OneSignIn, UNCHANGED <<storage, latest, mixed, root>>,
         \/ memory' \in {memory, None}
         \/ Complete(Found(storage)) /\ memory' = Found(storage).pair,
         \A s \in Requests : Refreshing(s)' =>
            \/ Refreshing(s) /\ call'[s] = call[s] /\ request'[s] = request[s]
            \/ call'[s].token = memory /\ memory # None /\ request'[s].at = "idle"
  PROVE  OneSignIn'
BY DEF OneSignIn, OfLatest

(* A step of the server for one call.                                      *)
LEMMA SignInServerStep ==
  ASSUME InShape, AnswersAreNew, OneSignIn, ClientNext,
         UNCHANGED <<storage, memory, call, latest, mixed>>, NEW r \in Requests,
         \A s \in Requests \ {r} : request'[s] = request[s],
         latest # None /\ Refreshing(r) /\ OfLatest(r) =>
           /\ request'[r].at \in {"revoking", "issuing"} => request'[r].root = latest
           /\ request'[r].at = "answered" => root'[request'[r].token] = latest
  PROVE  OneSignIn'
<1>0. TypeOK /\ TabShaped
  BY ShapeParts
<1>1. SUFFICES ASSUME latest # None, ~mixed
               PROVE  OneSignIn'
  BY DEF OneSignIn
<1>2. \A t \in Tokens : Issued(t) => root'[t] = root[t]
  BY PairsStay
<1>3. Found(storage).pair \in Pairs /\ (memory # None => memory \in Pairs)
  BY <1>0, <1>1, FoundTyped DEF OneSignIn, TabShaped
<1>4. ASSUME NEW s \in Requests, Refreshing(s)
      PROVE  OfLatest(s)'
  <2>1. OfLatest(s) /\ call[s].token \in Tokens /\ Issued(call[s].token)
    BY <1>1, <1>4, StageSays DEF OneSignIn
  <2>2. root'[call'[s].token] = latest'
    BY <1>2, <2>1 DEF OfLatest
  <2>3. CASE s = r
    BY <1>1, <1>4, <2>1, <2>2, <2>3 DEF OfLatest
  <2>4. CASE s # r
    <3>1. request'[s] = request[s]
      BY <2>4
    <3>2. request[s].at = "answered" =>
            request[s].token \in Tokens /\ Issued(request[s].token)
      BY AnsweredIssued
    <3>. QED
      BY <1>2, <2>1, <2>2, <3>1, <3>2 DEF OfLatest
  <2>. QED
    BY <2>3, <2>4
<1>. QED
  BY <1>1, <1>2, <1>3, <1>4 DEF OneSignIn, Refreshing, Pairs

LEMMA SignInServes ==
  ASSUME InShape, AnswersAreNew, OneSignIn, ClientNext, NEW r \in Requests,
         RefreshArrive(r) \/ Serve(r) \/ ServeFails(r)
  PROVE  OneSignIn'
<1>0. TypeOK /\ TabShaped
  BY ShapeParts
<1>1. UNCHANGED <<storage, memory, call, latest, mixed>>
  BY DEF RefreshArrive, Serve, ServeFails, tab, past
<1>2. CASE RefreshArrive(r)
  <2>1. \A s \in Requests \ {r} : request'[s] = request[s]
    BY <1>0, <1>2, BecomesParts DEF RefreshArrive, RefreshCheck, RefreshRefuse, Refusal
  <2>2. /\ request'[r].at \in {"revoking", "refused"}
        /\ request'[r].at = "revoking" => request'[r].root = root[call[r].token]
    BY <1>0, <1>2, BecomesParts DEF RefreshArrive, RefreshCheck, RefreshRefuse, Refusal
  <2>. QED
    BY <1>1, <2>1, <2>2, SignInServerStep DEF OfLatest
<1>3. CASE RefreshRevoke(r)
  <2>1. /\ \A s \in Requests \ {r} : request'[s] = request[s]
        /\ request'[r].at = "issuing" /\ request[r].at = "revoking"
        /\ request'[r].root = request[r].root
    BY <1>0, <1>3, BecomesParts DEF RefreshRevoke
  <2>. QED
    BY <1>1, <2>1, SignInServerStep DEF OfLatest
<1>4. CASE Issue(r)
  <2>1. PICK t \in Tokens :
          /\ root' = [root EXCEPT ![t] = IF request[r].root = None THEN t ELSE request[r].root]
          /\ Becomes(r, Waiting("answered", request[r].user, t, 0, None))
    BY <1>4 DEF Issue
  <2>2. /\ \A s \in Requests \ {r} : request'[s] = request[s]
        /\ request'[r].at = "answered" /\ request'[r].token = t /\ request[r].at = "issuing"
    BY <1>0, <1>4, <2>1, BecomesParts DEF Issue
  <2>3. request[r].root # None => root'[t] = request[r].root
    BY <1>0, <2>1 DEF TypeOK
  <2>. QED
    BY <1>1, <2>2, <2>3, SignInServerStep DEF OfLatest
<1>5. CASE ServeFails(r)
  <2>1. /\ \A s \in Requests \ {r} : request'[s] = request[s]
        /\ request'[r].at = "refused"
    BY <1>0, <1>5, BecomesParts DEF ServeFails, RequestFails, Refusal
  <2>. QED
    BY <1>1, <2>1, SignInServerStep
<1>. QED
  BY <1>2, <1>3, <1>4, <1>5 DEF Serve

LEMMA SignInTabs ==
  ASSUME InShape, AnswersAreNew, OneSignIn,
         \/ Mount \/ Reload \/ Elsewhere
         \/ \E r \in Requests :
              \/ (\E p \in Purposes : Send(r, p)) \/ Arrive(r) \/ Receive(r) \/ RefreshSend(r)
              \/ SignInRefused(r) \/ Drop(r) \/ RefreshRefused(r)
              \/ \E p \in Purposes, u \in Users : SignInSend(r, u, p)
  PROVE  OneSignIn'
<1>0. TypeOK /\ TabShaped
  BY ShapeParts
<1>1. CASE Mount
  BY <1>0, <1>1, SignInTabStep DEF Mount, Loads, vars, pairs, past, Refreshing
<1>2. CASE Reload
  <2>1. \A s \in Requests : ~Refreshing(s)'
    BY <1>2, LeavesShaped DEF Reload
  <2>. QED
    BY <1>0, <1>2, <2>1, SignInTabStep DEF Reload, Loads, vars, pairs
<1>3. CASE Elsewhere
  BY <1>0, <1>3, SignInTabStep
     DEF Elsewhere, SetUserStatus, Lapse, tab, past, pairs, Refreshing
<1>4. ASSUME latest' = None
      PROVE  OneSignIn'
  BY <1>4 DEF OneSignIn
<1>5. ASSUME NEW r \in Requests,
             (\E p \in Purposes : Send(r, p)) \/ Arrive(r) \/ Receive(r) \/ RefreshSend(r),
             latest' # None
      PROVE  OneSignIn'
  <2>1. /\ UNCHANGED <<storage, latest, mixed, root, request>>
        /\ memory' \in {memory, None}
    BY <1>5 DEF Send, Arrive, Receive, Cleared, RefreshSend, vars, pairs, past
  <2>2. \A s \in Requests : Refreshing(s)' =>
          \/ Refreshing(s) /\ call'[s] = call[s]
          \/ call'[s].token = memory /\ memory # None /\ request[s].at = "idle"
    BY <1>5, CallAfter, StageSays, IdleTyped DEF Refreshing, RefreshSend
  <2>. QED
    BY <1>0, <2>1, <2>2, SignInTabStep
<1>6. ASSUME NEW r \in Requests, RefreshRefused(r), latest' # None
      PROVE  OneSignIn'
  <2>1. /\ UNCHANGED <<storage, latest, mixed, root>> /\ memory' = None
        /\ \A s \in Requests : ~Refreshing(s)'
    BY <1>0, <1>6, ClearedStep, LeavesShaped, RespondStep DEF RefreshRefused
  <2>. QED
    BY <1>0, <2>1, SignInTabStep
<1>7. ASSUME NEW r \in Requests,
             \/ SignInRefused(r) \/ Drop(r)
             \/ \E p \in Purposes, u \in Users : SignInSend(r, u, p)
      PROVE  OneSignIn'
  <2>1. UNCHANGED <<storage, memory, latest, mixed, root>>
    BY <1>7 DEF SignInRefused, Drop, SignInSend, LoginCheck, Respond, tab, past, pairs
  <2>2. /\ \A s \in Requests \ {r} : call'[s] = call[s] /\ request'[s] = request[s]
        /\ ~Refreshing(r)'
    <3>1. CASE SignInRefused(r)
      BY <1>0, <3>1, CallStep, RespondStep, NoCallTyped DEF SignInRefused, Refreshing
    <3>2. CASE Drop(r)
      BY <1>0, <3>2, RespondStep, NoCallTyped DEF Drop, tab, Refreshing
    <3>3. ASSUME NEW p \in Purposes, NEW u \in Users, SignInSend(r, u, p)
          PROVE  /\ \A s \in Requests \ {r} : call'[s] = call[s] /\ request'[s] = request[s]
                 /\ ~Refreshing(r)'
      BY <1>0, <3>3, SignInSent
    <3>. QED
      BY <1>7, <3>1, <3>2, <3>3
  <2>. QED
    BY <1>0, <2>1, <2>2, SignInTabStep DEF Refreshing
<1>. QED
  BY <1>1, <1>2, <1>3, <1>4, <1>5, <1>6, <1>7

(* refreshTokens() gets its answer.                                        *)
LEMMA RefreshReceived ==
  ASSUME InShape, AnswersAreNew, NEW r \in Requests, RefreshReceive(r)
  PROVE  /\ request[r].token \in Tokens /\ memory' = request[r].token
         /\ request'[r] = Idle /\ ~Refreshing(r)' /\ Refreshing(r)
         /\ \A s \in Requests \ {r} : call'[s] = call[s] /\ request'[s] = request[s]
         /\ UNCHANGED <<owner, revoked, root, page, past>>
<1>0. TypeOK
  BY ShapeParts
<1> DEFINE next == Call("sent", call[r].purpose, Retried(request[r].token))
<1>1. CallBecomes(r, next) /\ next.at = "sent"
  BY DEF RefreshReceive, Call
<1> HIDE DEF next
<1>2. ~Refreshing(r)' /\ \A s \in Requests \ {r} : call'[s] = call[s]
  BY <1>1, CallStep DEF Refreshing
<1>. QED
  BY <1>0, <1>2, AnsweredIssued, RespondStep DEF RefreshReceive, KeptNew, Refreshing

(* apiLogin() gets its answer, and nothing of another session is in the way.*)
LEMMA SignInReceived ==
  ASSUME InShape, AnswersAreNew, NEW r \in Requests, SignInReceive(r)
  PROVE  LET t == request[r].token IN
         /\ t \in Tokens /\ Live(t) /\ latest' = root[t]
         /\ UNCHANGED <<owner, revoked, root>>
         /\ request'[r] = Idle /\ call'[r] = NoCall
         /\ \A s \in Requests \ {r} : call'[s] = call[s] /\ request'[s] = request[s]
         /\ ~mixed' =>
              /\ \A s \in Requests : call'[s] = NoCall /\ ~Refreshing(s)'
              /\ Complete(Found(storage')) /\ Found(storage').pair = t
              /\ memory' = t /\ page' = "portal"
<1> DEFINE t == request[r].token
           place == Place(call[r].purpose)
<1>0. TypeOK /\ TabShaped
  BY ShapeParts
<1>1. t \in Tokens /\ Live(t) /\ t # None
  BY AnsweredIssued, NoneApart DEF SignInReceive
<1>2. /\ UNCHANGED <<owner, revoked, root>> /\ request'[r] = Idle /\ call'[r] = NoCall
      /\ \A s \in Requests \ {r} : call'[s] = call[s] /\ request'[s] = request[s]
  BY <1>0, CallStep, RespondStep DEF SignInReceive
<1>3. ASSUME ~mixed'
      PROVE  /\ \A s \in Requests : call'[s] = NoCall /\ ~Refreshing(s)'
             /\ Complete(Found(storage')) /\ Found(storage').pair = t
  <2>1. /\ place = "session" => storage["local"] = Nothing
        /\ \A s \in Requests \ {r} : call[s] = NoCall
    BY <1>3 DEF SignInReceive
  <2>2. \A s \in Requests : call'[s] = NoCall /\ ~Refreshing(s)'
    BY <1>2, <2>1, NoCallTyped DEF Refreshing
  <2>3. storage' = [storage EXCEPT ![place] = Kept(t, TRUE)] /\ place \in Places
    BY DEF SignInReceive, Place, Places
  <2>4. Kept(t, TRUE).pair = t /\ Complete(Kept(t, TRUE)) /\ Kept(t, TRUE) # Nothing
    BY <1>1 DEF Kept, Complete, Nothing
  <2>5. Found(storage') = Kept(t, TRUE)
    BY <1>0, <2>1, <2>3, <2>4 DEF Found, Places, TabShaped
  <2>. QED
    BY <2>2, <2>4, <2>5
<1>. QED
  BY <1>1, <1>2, <1>3 DEF SignInReceive, Loads

LEMMA OneSignInNext ==
  ASSUME InShape, AnswersAreNew, OneSignIn, ClientNext
  PROVE  OneSignIn'
<1>0. TypeOK /\ TabShaped
  BY ShapeParts
<1>1. ASSUME NEW r \in Requests, SignInReceive(r)
      PROVE  OneSignIn'
  BY <1>1, SignInReceived DEF OneSignIn
<1>2. ASSUME NEW r \in Requests, RefreshReceive(r)
      PROVE  OneSignIn'
  <2>1. SUFFICES ASSUME latest' # None, ~mixed'
                 PROVE  OneSignIn'
    BY DEF OneSignIn
  <2>2. latest' = latest /\ mixed' = mixed /\ root' = root /\ OfLatest(r)
    BY <1>2, <2>1, RefreshReceived DEF OneSignIn, past
  <2>3. root[request[r].token] = latest /\ request[r].token # None
    BY <1>2, <2>2, RefreshReceived, NoneApart DEF OfLatest, RefreshReceive
  <2>4. /\ Complete(Found(storage')) /\ root'[Found(storage').pair] = latest'
        /\ root'[memory'] = latest'
    BY <1>0, <1>2, <2>1, <2>2, <2>3, RefreshStores, RefreshReceived DEF OneSignIn
  <2>5. \A s \in Requests : Refreshing(s)' => OfLatest(s)'
    BY <1>2, <2>1, <2>2, RefreshReceived DEF OneSignIn, OfLatest, Refreshing
  <2>. QED
    BY <2>4, <2>5 DEF OneSignIn
<1>. QED
  BY <1>1, <1>2, SignInServes, SignInTabs DEF ClientNext, Start, Proceed

-----------------------------------------------------------------------------
(***************************************************************************)
(* One call at most refreshes, with the pair that is in memory.            *)
(***************************************************************************)
Undisturbed == latest # None /\ ~raced /\ ~cut /\ ~mixed

LEMMA RefreshServes ==
  ASSUME InShape, AnswersAreNew, OneRefresh, ClientNext, NEW r \in Requests,
         RefreshArrive(r) \/ Serve(r) \/ ServeFails(r)
  PROVE  OneRefresh'
<1>0. TypeOK /\ TabShaped
  BY ShapeParts
<1>1. UNCHANGED <<page, storage, memory, call, latest, raced, mixed>>
  BY DEF RefreshArrive, Serve, ServeFails, tab, past
<1>2. SUFFICES ASSUME Undisturbed'
               PROVE  OneRefresh'
  BY DEF OneRefresh, Undisturbed
<1>3. Undisturbed
  BY <1>1, <1>2 DEF Undisturbed, RefreshArrive, Serve, ServeFails, past
<1>4. ~ServeFails(r)
  BY <1>2 DEF Undisturbed, ServeFails
<1>5. memory \in Tokens /\ Issued(memory)
  BY <1>0, <1>3 DEF OneRefresh, Undisturbed, TabShaped, Pairs
<1>6. /\ \A s \in Requests \ {r} : request'[s] = request[s]
      /\ Revoking(r, memory)' => Refreshing(r)
  <2>1. CASE RefreshArrive(r)
    BY <1>0, <2>1, BecomesParts
       DEF RefreshArrive, RefreshCheck, RefreshRefuse, Refusal, Refreshing
  <2>2. CASE RefreshRevoke(r)
    BY <1>0, <2>2, BecomesParts DEF RefreshRevoke, Revoking
  <2>3. CASE Issue(r)
    BY <1>0, <2>3, BecomesParts DEF Issue, Revoking
  <2>. QED
    BY <1>4, <2>1, <2>2, <2>3 DEF Serve
<1>7. Live(memory) /\ (\A s \in Requests : ~Refreshing(s)) => Live(memory)'
  <2>1. CASE RefreshArrive(r)
    BY <1>1, <2>1 DEF RefreshArrive, RefreshCheck, RefreshRefuse, pairs, Live, Issued
  <2>2. CASE RefreshRevoke(r)
    <3>1. ASSUME \A s \in Requests : ~Refreshing(s)
          PROVE  request[r].token # memory
      BY <1>3, <2>2, <3>1 DEF OneRefresh, Undisturbed, RefreshRevoke, Revoking
    <3>. QED
      BY <1>0, <1>1, <1>5, <2>2, <3>1
         DEF RefreshRevoke, RevokedByRefresh, Live, Issued, TypeOK
  <2>3. CASE Issue(r)
    <3>1. Issued(memory)' /\ revoked' = revoked
      BY <1>1, <1>5, <2>3, PairsStay DEF Issue, Issued
    <3>. QED
      BY <1>1, <3>1 DEF Live
  <2>. QED
    BY <1>4, <2>1, <2>2, <2>3 DEF Serve
<1>8. \A s \in Requests : Revoking(s, memory)' => Refreshing(s)
  BY <1>1, <1>3, <1>6 DEF OneRefresh, Undisturbed, Revoking
<1>. QED
  BY <1>1, <1>3, <1>7, <1>8 DEF OneRefresh, Undisturbed, Refreshing, Revoking

(* A step after which the same calls refresh with what is in memory.       *)
LEMMA RefreshTabStep ==
  ASSUME OneRefresh, Undisturbed, page' = "portal",
         UNCHANGED <<storage, memory, owner, revoked>>,
         \A s \in Requests : Refreshing(s)' <=> Refreshing(s),
         \A s \in Requests : Refreshing(s) => call'[s] = call[s],
         \A s \in Requests : Revoking(s, memory)' => Revoking(s, memory)
  PROVE  OneRefresh'
BY DEF OneRefresh, Undisturbed, Live, Issued

(* A call that is sent, or answered by anything but a 401 to refresh on.    *)
LEMMA PlainStep ==
  ASSUME InShape, NEW r \in Requests, NEW p \in Purposes,
         Send(r, p) \/ Arrive(r) \/ Receive(r)
  PROVE  /\ UNCHANGED <<owner, revoked, request, raced, cut, mixed>>
         /\ latest' = None \/ (latest' = latest /\ UNCHANGED <<page, memory, storage>>)
         /\ ~Refreshing(r) /\ ~Refreshing(r)'
         /\ \A s \in Requests \ {r} : call'[s] = call[s]
<1>1. ~Refreshing(r) /\ ~RefreshSend(r)
  BY NoCallTyped DEF Send, Arrive, Receive, RefreshSend, Refreshing
<1>2. /\ UNCHANGED <<owner, revoked, request, raced, cut, mixed>>
      /\ latest' = None \/ (latest' = latest /\ UNCHANGED <<page, memory, storage>>)
  BY DEF Send, Arrive, Receive, Cleared, vars, pairs, past
<1>. QED
  BY <1>1, <1>2, CallAfter DEF Refreshing

LEMMA RefreshTabs ==
  ASSUME InShape, OneRefresh,
         \/ Mount \/ Reload \/ Elsewhere
         \/ \E r \in Requests :
              (\E p \in Purposes : Send(r, p)) \/ Arrive(r) \/ Receive(r) \/ RefreshSend(r)
  PROVE  OneRefresh'
<1>0. TypeOK /\ TabShaped
  BY ShapeParts
<1>1. SUFFICES ASSUME Undisturbed'
               PROVE  OneRefresh'
  BY DEF OneRefresh, Undisturbed
<1>2. CASE Mount
  <2>1. UNCHANGED <<owner, revoked, request, storage, call, past>>
    BY <1>2 DEF Mount, vars, pairs
  <2>2. Undisturbed
    BY <1>1, <2>1 DEF Undisturbed, past
  <2>3. page' = "portal" /\ memory' = memory
    BY <1>2, <2>2 DEF Mount, Loads, OneRefresh, Undisturbed
  <2>. QED
    BY <2>1, <2>2, <2>3, RefreshTabStep DEF Refreshing, Revoking
<1>3. CASE Reload
  <2>1. UNCHANGED <<owner, revoked, request, storage, latest, raced, mixed>> /\ Leaves
    BY <1>3 DEF Reload, vars, pairs
  <2>2. Undisturbed /\ \A s \in Requests : ~Refreshing(s)
    BY <1>1, <2>1 DEF Undisturbed, Leaves, Refreshing
  <2>3. page' = "portal" /\ memory' = memory
    BY <1>3, <2>2 DEF Reload, Loads, OneRefresh, Undisturbed
  <2>4. \A s \in Requests : ~Refreshing(s)'
    BY <2>1, LeavesShaped
  <2>. QED
    BY <2>1, <2>2, <2>3, <2>4, RefreshTabStep DEF Revoking
<1>4. CASE Elsewhere
  <2>1. UNCHANGED <<owner, revoked, request, tab, past>>
    BY <1>4 DEF Elsewhere, SetUserStatus, Lapse, pairs
  <2>2. Undisturbed
    BY <1>1, <2>1 DEF Undisturbed, past
  <2>3. page = "portal"
    BY <2>2 DEF OneRefresh, Undisturbed
  <2>. QED
    BY <2>1, <2>2, <2>3, RefreshTabStep DEF Refreshing, Revoking, tab
<1>5. ASSUME NEW r \in Requests, RefreshSend(r)
      PROVE  OneRefresh'
  <2>1. /\ UNCHANGED <<owner, revoked, request, page, memory, storage>>
        /\ Undisturbed /\ memory # None
    BY <1>1, <1>5 DEF RefreshSend, vars, pairs, Undisturbed
  <2>2. \A s \in Requests \ {r} : ~Refreshing(s)
    BY <1>1, <1>5, <2>1 DEF RefreshSend, Undisturbed, OneRefresh, Refreshing
  <2>3. /\ \A s \in Requests \ {r} : call'[s] = call[s]
        /\ Refreshing(r)' => call'[r].token = memory
    BY <1>5, CallAfter DEF Refreshing
  <2>4. Refreshing(r)'
    <3> DEFINE next == Call("refreshing", call[r].purpose, memory)
    <3>1. CallBecomes(r, next) /\ next.at = "refreshing"
      BY <1>5 DEF RefreshSend, Call
    <3> HIDE DEF next
    <3>. QED
      BY <3>1, CallStep DEF Refreshing
  <2>5. \A s \in Requests : Refreshing(s)' => s = r
    BY <2>2, <2>3 DEF Refreshing
  <2>6. \A s \in Requests : Revoking(s, memory)' => s = r
    BY <2>1, <2>2 DEF Revoking, OneRefresh, Undisturbed
  <2>. QED
    BY <2>1, <2>3, <2>4, <2>5, <2>6 DEF OneRefresh, Undisturbed
<1>6. ASSUME NEW r \in Requests, NEW p \in Purposes, Send(r, p) \/ Arrive(r) \/ Receive(r)
      PROVE  OneRefresh'
  <2>1. /\ UNCHANGED <<owner, revoked, request, page, memory, storage>>
        /\ ~Refreshing(r) /\ ~Refreshing(r)' /\ Undisturbed
        /\ \A s \in Requests \ {r} : call'[s] = call[s]
    BY <1>1, <1>6, PlainStep DEF Undisturbed
  <2>2. /\ page' = "portal"
        /\ \A s \in Requests : Refreshing(s)' <=> Refreshing(s)
        /\ \A s \in Requests : Refreshing(s) => call'[s] = call[s]
        /\ \A s \in Requests : Revoking(s, memory)' => Revoking(s, memory)
    BY <2>1 DEF OneRefresh, Undisturbed, Refreshing, Revoking
  <2>. QED
    BY <2>1, <2>2, RefreshTabStep
<1>7. "page" \in Purposes
  BY DEF Purposes
<1>. QED
  BY <1>2, <1>3, <1>4, <1>5, <1>6, <1>7

LEMMA RefreshAnswers ==
  ASSUME InShape, AnswersAreNew, OneRefresh, NEW r \in Requests,
         RefreshReceive(r) \/ RefreshRefused(r) \/ SignInReceive(r)
  PROVE  OneRefresh'
<1>0. TypeOK /\ TabShaped
  BY ShapeParts
<1>1. SUFFICES ASSUME Undisturbed'
               PROVE  OneRefresh'
  BY DEF OneRefresh, Undisturbed
<1>2. ~RefreshRefused(r)
  BY <1>1 DEF RefreshRefused, Leaves, Undisturbed
<1>3. PICK t \in Tokens : Answers(r, t) /\ UnknownYet(r, t)
  BY <1>2 DEF AnswersAreNew, RefreshReceive, SignInReceive
<1>4. t # None /\ Live(t) /\ request[r].token = t /\ \A s \in Requests : ~Revoking(s, t)
  BY <1>3, NoneApart DEF Answers, UnknownYet, HasPair
<1>5. CASE RefreshReceive(r)
  <2>1. /\ memory' = t /\ ~Refreshing(r)' /\ Refreshing(r)
        /\ request'[r] = Idle
        /\ \A s \in Requests \ {r} : call'[s] = call[s] /\ request'[s] = request[s]
        /\ UNCHANGED <<owner, revoked, page, past>>
    BY <1>4, <1>5, RefreshReceived
  <2>2. Undisturbed /\ page' = "portal"
    BY <1>1, <2>1 DEF Undisturbed, past, OneRefresh
  <2>3. Complete(Found(storage')) /\ Found(storage').pair = t
    BY <1>0, <1>4, <1>5, <2>2, RefreshStores DEF OneRefresh, Undisturbed
  <2>4. \A s \in Requests : ~Refreshing(s)'
    BY <2>1, <2>2 DEF OneRefresh, Undisturbed, Refreshing
  <2>5. \A s \in Requests : ~(request'[s].at = "revoking" /\ request'[s].token = t)
    BY <1>4, <2>1, IdleTyped DEF Revoking
  <2>6. Live(t)'
    BY <1>4, <2>1 DEF Live, Issued
  <2>7. Live(memory)'
    BY <2>1, <2>6 DEF Live, Issued
  <2>. QED
    BY <1>4, <2>1, <2>2, <2>3, <2>4, <2>5, <2>7 DEF OneRefresh, Revoking
<1>6. CASE SignInReceive(r)
  <2>1. /\ \A s \in Requests : ~Refreshing(s)'
        /\ Complete(Found(storage')) /\ Found(storage').pair = t
        /\ memory' = t /\ page' = "portal"
        /\ UNCHANGED <<owner, revoked>> /\ request'[r] = Idle
        /\ \A s \in Requests \ {r} : request'[s] = request[s]
    BY <1>1, <1>4, <1>6, SignInReceived DEF Undisturbed
  <2>2. \A s \in Requests : ~(request'[s].at = "revoking" /\ request'[s].token = t)
    BY <1>4, <2>1, IdleTyped DEF Revoking
  <2>3. Live(memory)'
    BY <1>4, <2>1 DEF Live, Issued
  <2>. QED
    BY <1>4, <2>1, <2>2, <2>3 DEF OneRefresh, Revoking
<1>. QED
  BY <1>2, <1>5, <1>6

LEMMA RefreshSignIns ==
  ASSUME InShape, OneRefresh, NEW r \in Requests,
         \/ SignInRefused(r) \/ Drop(r)
         \/ \E p \in Purposes, u \in Users : SignInSend(r, u, p)
  PROVE  OneRefresh'
<1>0. TypeOK
  BY ShapeParts
<1>1. SUFFICES ASSUME Undisturbed'
               PROVE  OneRefresh'
  BY DEF OneRefresh, Undisturbed
<1>2. UNCHANGED <<page, memory, storage, past, owner, revoked>>
  BY DEF SignInRefused, Drop, SignInSend, LoginCheck, Respond, tab, pairs
<1>3. Undisturbed /\ page = "portal"
  BY <1>1, <1>2 DEF Undisturbed, past, OneRefresh
<1>4. SignInRefused(r) \/ Drop(r)
  BY <1>3 DEF SignInSend
<1>5. /\ \A s \in Requests \ {r} : request'[s] = request[s] /\ call'[s] = call[s]
      /\ \A t \in Tokens : ~Revoking(r, t)'
      /\ ~Refreshing(r) /\ ~Refreshing(r)' /\ request'[r].at = "idle"
  <2>1. CASE SignInRefused(r)
    BY <1>0, <2>1, CallStep, RespondStep, NoCallTyped DEF SignInRefused, Refreshing
  <2>2. CASE Drop(r)
    BY <1>0, <2>2, RespondStep, NoCallTyped DEF Drop, tab, Refreshing
  <2>. QED
    BY <1>4, <2>1, <2>2
<1>6. /\ page' = "portal"
      /\ \A s \in Requests : Refreshing(s)' <=> Refreshing(s)
      /\ \A s \in Requests : Refreshing(s) => call'[s] = call[s]
      /\ \A s \in Requests : Revoking(s, memory)' => Revoking(s, memory)
  BY <1>2, <1>3, <1>5 DEF Refreshing, Revoking
<1>. QED
  BY <1>2, <1>3, <1>6, RefreshTabStep

LEMMA OneRefreshNext ==
  ASSUME InShape, AnswersAreNew, OneRefresh, ClientNext
  PROVE  OneRefresh'
BY RefreshServes, RefreshTabs, RefreshAnswers, RefreshSignIns DEF ClientNext, Start, Proceed

-----------------------------------------------------------------------------
(***************************************************************************)
(* The invariant, and what the runs check.                                 *)
(***************************************************************************)
LEMMA ClientInitHolds ==
  ASSUME ClientInit
  PROVE  ClientInv
<1>0. TypeOK
  BY InitTyped DEF ClientInit
<1>1. /\ page = "login" /\ held = None /\ memory = None /\ latest = None
      /\ \A s \in Places : storage[s] = Nothing
      /\ \A r \in Requests : call[r] = NoCall /\ ~Refreshing(r)
      /\ raced = FALSE /\ cut = FALSE /\ mixed = FALSE
  BY NoCallTyped DEF ClientInit, TabInit, Refreshing
<1>2. Nothing \in [pair : Pairs \cup {None}, named : BOOLEAN] /\ ~Nothing.named
  BY DEF Nothing, Kept
<1>3. TabShaped
  BY <1>1, <1>2 DEF ClientInit, TabInit, TabShaped
<1>4. CallsShaped
  BY <1>1, NoCallTyped DEF ClientInit, TabInit, CallsShaped, InStep
<1>5. RevokedAreIssued /\ AnswersAreNew
  BY IdleTyped DEF ClientInit, Init, RevokedAreIssued, AnswersAreNew
<1>6. InShape
  BY <1>0, <1>3, <1>4, <1>5, ShapeParts
<1>7. PortalIsForUsers
  BY <1>1, <1>2 DEF PortalIsForUsers, SignedOutStaysOut, Complete, Found, Places
<1>. QED
  BY <1>1, <1>5, <1>6, <1>7 DEF ClientInv, OneSignIn, OneRefresh

LEMMA ClientInvStep ==
  ASSUME ClientInv, [ClientNext]_all
  PROVE  ClientInv'
<1>1. CASE ClientNext
  BY <1>1, ShapeNext, NewNext, PortalNext, OneSignInNext, OneRefreshNext DEF ClientInv
<1>2. CASE UNCHANGED all
  <2>1. UNCHANGED <<vars, page, held, memory, storage, call, latest, raced, cut, mixed>>
    BY <1>2 DEF all, tab, past
  <2>2. UNCHANGED <<owner, revoked, root, request>>
    BY <2>1 DEF vars, pairs, history
  <2>3. TypeOK' /\ RevokedAreIssued' /\ TabShaped' /\ CallsShaped'
    BY <2>1, <2>2, StutterTyped, ShapeParts
       DEF ClientInv, RevokedAreIssued, TabShaped, CallsShaped, InStep, Pairs, Issued
  <2>4. AnswersAreNew'
    BY <2>1, <2>2 DEF ClientInv, AnswersAreNew, Answers, UnknownYet, HasPair, Live, Issued,
       Refreshing, Revoking
  <2>5. PortalIsForUsers' /\ OneSignIn'
    BY <2>1, <2>2 DEF ClientInv, PortalIsForUsers, SignedOutStaysOut, OneSignIn, OfLatest,
       Refreshing
  <2>6. OneRefresh'
    BY <2>1, <2>2 DEF ClientInv, OneRefresh, Refreshing, Revoking, Live, Issued
  <2>. QED
    BY <2>3, <2>4, <2>5, <2>6, ShapeAfter DEF ClientInv
<1>. QED
  BY <1>1, <1>2

(* However long a tab is used: what it holds was issued, its calls and the *)
(* server keep in step, and an answer in flight is news to everybody.      *)
THEOREM ClientInvariant == ClientSpec => []ClientInv
<1>1. ClientInit => ClientInv
  BY ClientInitHolds
<1>2. ClientInv /\ [ClientNext]_all => ClientInv'
  BY ClientInvStep
<1>. QED
  BY <1>1, <1>2, PTL DEF ClientSpec

(* apiRequest() and refreshTokens() keep the user signed in: the token in  *)
(* memory is the one the server takes next, or a call is refreshing it,    *)
(* unless calls raced, a refresh was cut off, or sessions got mixed.       *)
THEOREM WorkingTokenKept == ClientSpec => []KeepsAWorkingToken
<1>1. ClientInv => KeepsAWorkingToken
  BY DEF ClientInv, OneRefresh, PortalIsForUsers, KeepsAWorkingToken, Refreshing
<1>. QED
  BY <1>1, ClientInvariant, PTL

(* saveSession() and clearSession() do what they are for: from a sign-in   *)
(* on the portal loads that sign-in's session, and after signing out none. *)
THEOREM SignInsTake == ClientSpec => []SignInsAndOutsTake
<1>1. ClientInv => SignInsAndOutsTake
  BY DEF ClientInv, InShape, OneSignIn, PortalIsForUsers, SignInsAndOutsTake, SignInTakes
<1>. QED
  BY <1>1, ClientInvariant, PTL


(***************************************************************************)
(* The messages page.  Unless calls overlapped there is one call at most,  *)
(* for the conversation that is open, and what it answers continues what   *)
(* is shown.                                                               *)
(***************************************************************************)
Threads == Seq(Convs \X Nat)
PageRecords ==
  [kind : {"none", "get", "post"}, conv : Convs \cup {None}, rows : Threads \cup {None}]

PageShaped ==
  /\ {linked, opened, active, choice} \subseteq Convs \cup {None}
  /\ list \in {"loading", "shown", "failed"}
  /\ {loading, loadError, text, sending, skewed} \subseteq BOOLEAN
  /\ messages \in Threads \cup {None}
  /\ stored \in [Convs -> Threads]
  /\ flight \in [Calls -> PageRecords]
  /\ \A x \in Calls : flight[x].kind = "none" => flight[x] = Messages!NoCall
  /\ \A x \in Calls : flight[x].kind # "none" => flight[x].conv \in Convs

Members(s) == {s[i] : i \in DOMAIN s}
AnswersStored ==
  /\ \A x \in Calls : flight[x].rows # None =>
       Members(flight[x].rows) \subseteq Members(stored[flight[x].conv])
  /\ messages # None =>
       \A m \in Members(messages) : \E c \in Convs : m \in Members(stored[c])

OnePost ==
  /\ sending <=> \E x \in Calls : flight[x].kind = "post"
  /\ \A x, y \in Calls : flight[x].kind = "post" /\ flight[y].kind = "post" => x = y

OneCall ==
  ~skewed => \A x, y \in Calls : flight[x].kind # "none" /\ flight[y].kind # "none" => x = y

Told == active # None /\ ~loading /\ ~loadError => messages # None

(* What the call in flight means for the thread that is open.              *)
Fetches(x) ==
  /\ flight[x].conv = active /\ loading /\ messages = None
  /\ flight[x].rows # None => flight[x].rows = stored[active]
Sends(x) ==
  /\ flight[x].conv = active /\ messages # None
  /\ IF flight[x].rows = None THEN messages = stored[active]
     ELSE Len(flight[x].rows) = 1 /\ stored[active] = messages \o flight[x].rows
ThreadFollows ==
  ~skewed /\ active # None /\ ~loadError =>
    /\ \A x \in Calls : /\ flight[x].kind = "get" => Fetches(x)
                        /\ flight[x].kind = "post" => Sends(x)
    /\ loading => \E x \in Calls : flight[x].kind = "get"
    /\ (\A x \in Calls : flight[x].kind = "none") => messages = stored[active]

PageInv == PageShaped /\ AnswersStored /\ OnePost /\ OneCall /\ Told /\ ThreadFollows

LEMMA JoinedThreads ==
  ASSUME NEW s \in Threads, NEW r \in Threads
  PROVE  /\ s \o r \in Threads
         /\ Len(s \o r) = Len(s) + Len(r)
         /\ \A i \in 1 .. Len(s) : (s \o r)[i] = s[i]
         /\ Members(s \o r) = Members(s) \cup Members(r)
<1>1. s \o r \in Threads /\ Len(s \o r) = Len(s) + Len(r)
  BY DEF Threads
<1>2. DOMAIN s = 1 .. Len(s) /\ DOMAIN r = 1 .. Len(r) /\ Len(s) \in Nat /\ Len(r) \in Nat
      /\ DOMAIN (s \o r) = 1 .. (Len(s) + Len(r))
  BY <1>1 DEF Threads
<1>3. /\ \A i \in 1 .. Len(s) : (s \o r)[i] = s[i]
      /\ \A i \in 1 .. Len(r) : (s \o r)[Len(s) + i] = r[i]
  BY DEF Threads
<1>4. ASSUME NEW i \in DOMAIN (s \o r)
      PROVE  (s \o r)[i] \in Members(s) \cup Members(r)
  <2>1. CASE i \in 1 .. Len(s)
    BY <1>2, <1>3, <2>1 DEF Members
  <2>2. CASE i \notin 1 .. Len(s)
    <3>1. PICK j \in 1 .. Len(r) : i = Len(s) + j
      <4>1. i - Len(s) \in 1 .. Len(r) /\ i = Len(s) + (i - Len(s))
        BY <1>2, <2>2
      <4>. QED
        BY <4>1
    <3>. QED
      BY <1>2, <1>3, <3>1 DEF Members
  <2>. QED
    BY <2>1, <2>2
<1>5. Members(s) \subseteq Members(s \o r)
  BY <1>2, <1>3 DEF Members
<1>6. Members(r) \subseteq Members(s \o r)
  <2>1. \A j \in 1 .. Len(r) : Len(s) + j \in DOMAIN (s \o r)
    BY <1>2
  <2>. QED
    BY <1>2, <1>3, <2>1 DEF Members
<1>7. Members(s \o r) \subseteq Members(s) \cup Members(r)
  BY <1>4 DEF Members
<1>. QED
  BY <1>1, <1>3, <1>5, <1>6, <1>7

LEMMA OneMoreMessage ==
  ASSUME NEW s \in Threads, NEW m \in Convs \X Nat
  PROVE  /\ <<m>> \in Threads /\ Len(<<m>>) = 1 /\ Members(<<m>>) = {m}
         /\ Append(s, m) = s \o <<m>>
<1>1. <<m>> \in Threads /\ Len(<<m>>) = 1
  BY DEF Threads
<1>2. Members(<<m>>) = {m}
  BY DEF Members
<1>3. Append(s, m) = s \o <<m>>
  BY DEF Threads
<1>. QED
  BY <1>1, <1>2, <1>3

LEMMA IsContinued ==
  ASSUME NEW s \in Threads, NEW r \in Threads
  PROVE  Messages!IsPrefix(s, s \o r) /\ Messages!IsPrefix(s, s)
<1>1. Len(s) \in Nat /\ Len(s) <= Len(s \o r)
  BY JoinedThreads DEF Threads
<1>2. SubSeq(s \o r, 1, Len(s)) = SubSeq(s, 1, Len(s))
  BY <1>1, JoinedThreads DEF Threads
<1>. QED
  BY <1>1, <1>2 DEF Messages!IsPrefix

LEMMA EmptyThread == <<>> \in Threads /\ Members(<<>>) = {}
BY DEF Threads, Members

LEMMA NoneIsNoThread == None \notin Convs /\ None \notin Threads
BY MessagesAssumption DEF Threads

LEMMA FlightStep ==
  ASSUME PageShaped, NEW x \in Calls, NEW next, Messages!FlightBecomes(x, next)
  PROVE  /\ flight'[x] = next
         /\ \A y \in Calls \ {x} : flight'[y] = flight[y]
         /\ next \in PageRecords => flight' \in [Calls -> PageRecords]
BY DEF PageShaped, Messages!FlightBecomes

LEMMA NoCallIs ==
  /\ Messages!NoCall \in PageRecords
  /\ Messages!NoCall.kind = "none" /\ Messages!NoCall.rows = None /\ Messages!NoCall.conv = None
BY DEF Messages!NoCall, PageRecords

LEMMA BusyIs ==
  ASSUME PageShaped, NEW x \in Calls
  PROVE  Messages!Busy(x) <=> flight[x].kind # "none"
BY NoCallIs DEF PageShaped, Messages!Busy

(***************************************************************************)
(* The page's steps keep it.                                               *)
(***************************************************************************)

LEMMA OpensKeep ==
  ASSUME PageInv, NEW x \in Calls, NEW c \in Convs, Messages!open(x, c),
         UNCHANGED <<linked, text, sending, stored>>,
         list' \in {"loading", "shown", "failed"}, choice' \in Convs \cup {None}
  PROVE  PageInv'
<1>. PageShaped /\ AnswersStored /\ OnePost /\ OneCall
  BY DEF PageInv
<1>1. PICK get : get = Messages!Call("get", c, None)
  OBVIOUS
<1>2. /\ get \in PageRecords /\ get.kind = "get" /\ get.conv = c /\ get.rows = None
      /\ get # Messages!NoCall
  BY <1>1, NoCallIs DEF Messages!Call, PageRecords
<1>3. /\ flight[x].kind = "none" /\ flight'[x] = get
      /\ \A y \in Calls \ {x} : flight'[y] = flight[y]
      /\ flight' \in [Calls -> PageRecords]
  BY <1>1, <1>2, BusyIs, FlightStep DEF Messages!open
<1>4. /\ opened' = c /\ active' = c /\ messages' = None /\ loading' = TRUE /\ loadError' = FALSE
      /\ skewed' \in BOOLEAN
      /\ ~skewed' => \A y \in Calls : flight[y].kind = "none"
  BY BusyIs DEF Messages!open, Messages!Quiet
<1>5. PageShaped'
  <2>1. \A y \in Calls : /\ flight'[y].kind = "none" => flight'[y] = Messages!NoCall
                         /\ flight'[y].kind # "none" => flight'[y].conv \in Convs
    BY <1>2, <1>3 DEF PageShaped
  <2>2. Messages!NoCall' = Messages!NoCall
    BY DEF Messages!NoCall
  <2>. QED
    BY <1>3, <1>4, <2>1, <2>2 DEF PageShaped
<1>6. AnswersStored'
  BY <1>2, <1>3, <1>4 DEF AnswersStored
<1>7. OnePost'
  <2>1. \A y \in Calls : flight'[y].kind = "post" <=> flight[y].kind = "post"
    BY <1>2, <1>3
  <2>. QED
    BY <2>1 DEF OnePost
<1>8. OneCall'
  <2>1. ~skewed' => \A y \in Calls : flight'[y].kind # "none" => y = x
    BY <1>3, <1>4
  <2>. QED
    BY <2>1 DEF OneCall
<1>9. Told'
  BY <1>4 DEF Told
<1>10. ThreadFollows'
  <2>1. Fetches(x)'
    BY <1>2, <1>3, <1>4 DEF Fetches
  <2>2. ~skewed' => \A y \in Calls \ {x} : flight'[y].kind = "none"
    BY <1>3, <1>4
  <2>. QED
    BY <1>2, <1>3, <2>1, <2>2 DEF ThreadFollows
<1>. QED
  BY <1>5, <1>6, <1>7, <1>8, <1>9, <1>10 DEF PageInv

LEMMA ListsKeep ==
  ASSUME PageInv,
         \/ Messages!ListArrives \/ Messages!ListFails
         \/ \E x \in Calls, c \in Convs : Messages!Click(x, c)
  PROVE  PageInv'
<1>1. ASSUME UNCHANGED <<linked, opened, active, messages, loading, loadError, text, sending,
                         flight, stored, choice, skewed>>,
             list' \in {"loading", "shown", "failed"}
      PROVE  PageInv'
  <2>1. PageShaped'
    BY <1>1 DEF PageInv, PageShaped, Messages!NoCall
  <2>2. AnswersStored' /\ OnePost' /\ OneCall' /\ Told'
    BY <1>1 DEF PageInv, AnswersStored, OnePost, OneCall, Told
  <2>3. ThreadFollows'
    BY <1>1 DEF PageInv, ThreadFollows, Fetches, Sends
  <2>. QED
    BY <2>1, <2>2, <2>3 DEF PageInv
<1>2. CASE Messages!ListFails
  BY <1>1, <1>2 DEF Messages!ListFails, Messages!thread, Messages!composer
<1>3. CASE Messages!ListArrives /\ Messages!LinkDue
  <2>1. PICK x \in Calls : Messages!open(x, linked)
    BY <1>3 DEF Messages!ListArrives
  <2>2. linked \in Convs
    BY <1>3 DEF Messages!LinkDue, PageInv, PageShaped
  <2>3. /\ UNCHANGED <<linked, text, sending, stored>>
        /\ list' = "shown" /\ choice' \in Convs \cup {None}
    BY <1>3 DEF Messages!ListArrives, Messages!composer, PageInv, PageShaped
  <2>. QED
    BY <2>1, <2>2, <2>3, OpensKeep
<1>4. CASE Messages!ListArrives /\ ~Messages!LinkDue
  BY <1>1, <1>4 DEF Messages!ListArrives, Messages!thread, Messages!composer
<1>5. ASSUME NEW x \in Calls, NEW c \in Convs, Messages!Click(x, c)
      PROVE  PageInv'
  <2>1. /\ Messages!open(x, c) /\ UNCHANGED <<linked, text, sending, stored>>
        /\ list' \in {"loading", "shown", "failed"} /\ choice' \in Convs \cup {None}
    BY <1>5 DEF Messages!Click, Messages!composer, PageInv, PageShaped
  <2>. QED
    BY <2>1, OpensKeep
<1>. QED
  BY <1>2, <1>3, <1>4, <1>5

LEMMA BackKeeps ==
  ASSUME PageInv, Messages!Back
  PROVE  PageInv'
<1>1. /\ active' = None /\ messages' = None /\ loadError' = FALSE
      /\ UNCHANGED <<linked, loading, opened, list, text, sending, flight, stored, choice, skewed>>
  BY DEF Messages!Back, Messages!lists, Messages!composer
<1>2. PageShaped'
  BY <1>1 DEF PageInv, PageShaped, Messages!NoCall
<1>3. AnswersStored' /\ OnePost' /\ OneCall' /\ Told'
  BY <1>1 DEF PageInv, AnswersStored, OnePost, OneCall, Told
<1>4. ThreadFollows'
  BY <1>1 DEF ThreadFollows
<1>. QED
  BY <1>2, <1>3, <1>4 DEF PageInv

LEMMA TypeKeeps ==
  ASSUME PageInv, Messages!Type
  PROVE  PageInv'
<1>1. /\ text' \in BOOLEAN
      /\ UNCHANGED <<linked, opened, list, active, messages, loading, loadError, sending,
                     flight, stored, choice, skewed>>
  BY DEF Messages!Type, Messages!lists, Messages!thread
<1>2. PageShaped'
  BY <1>1 DEF PageInv, PageShaped, Messages!NoCall
<1>3. AnswersStored' /\ OnePost' /\ OneCall' /\ Told'
  BY <1>1 DEF PageInv, AnswersStored, OnePost, OneCall, Told
<1>4. ThreadFollows'
  BY <1>1 DEF PageInv, ThreadFollows, Fetches, Sends
<1>. QED
  BY <1>2, <1>3, <1>4 DEF PageInv

LEMMA ThreadReadKeeps ==
  ASSUME PageInv, NEW x \in Calls, Messages!Read(x)
  PROVE  PageInv'
<1>. PageShaped /\ AnswersStored /\ OnePost /\ OneCall /\ Told /\ ThreadFollows
  BY DEF PageInv
<1>1. /\ flight[x].kind = "get" /\ flight[x].rows = None
      /\ UNCHANGED <<linked, opened, list, active, messages, loading, loadError, text, sending,
                     stored, choice, skewed>>
  BY DEF Messages!Read, Messages!lists, Messages!thread, Messages!composer
<1>2. PICK next : next = [flight[x] EXCEPT !.rows = stored[flight[x].conv]]
  OBVIOUS
<1>3. flight[x].conv \in Convs /\ flight[x] \in PageRecords
  BY <1>1 DEF PageShaped
<1>4. /\ next.kind = "get" /\ next.conv = flight[x].conv /\ next.rows = stored[flight[x].conv]
      /\ next \in PageRecords
  BY <1>1, <1>2, <1>3 DEF PageShaped, PageRecords
<1>5. /\ flight'[x] = next /\ flight' \in [Calls -> PageRecords]
      /\ \A y \in Calls \ {x} : flight'[y] = flight[y]
  BY <1>2, <1>4, FlightStep DEF Messages!Read
<1>6. \A y \in Calls : flight'[y].kind = flight[y].kind /\ flight'[y].conv = flight[y].conv
  BY <1>1, <1>4, <1>5
<1>7. PageShaped'
  <2>1. Messages!NoCall' = Messages!NoCall
    BY DEF Messages!NoCall
  <2>. QED
    BY <1>1, <1>4, <1>5, <2>1 DEF PageShaped
<1>8. AnswersStored'
  BY <1>1, <1>4, <1>5 DEF AnswersStored
<1>9. OnePost' /\ OneCall' /\ Told'
  BY <1>1, <1>6 DEF OnePost, OneCall, Told
<1>10. ThreadFollows'
  BY <1>1, <1>4, <1>5, <1>6 DEF ThreadFollows, Fetches, Sends
<1>. QED
  BY <1>7, <1>8, <1>9, <1>10 DEF PageInv

(* A call that ends is no longer there.                                    *)
LEMMA CallEnds ==
  ASSUME PageInv, NEW x \in Calls, flight[x].kind # "none",
         Messages!FlightBecomes(x, Messages!NoCall)
  PROVE  /\ flight'[x] = Messages!NoCall /\ flight' \in [Calls -> PageRecords]
         /\ \A y \in Calls \ {x} : flight'[y] = flight[y]
         /\ \A y \in Calls : /\ flight'[y].kind = "none" => flight'[y] = Messages!NoCall'
                             /\ flight'[y].kind # "none" => flight'[y].conv \in Convs
         /\ ~skewed => \A y \in Calls : flight'[y].kind = "none"
         /\ \A y, z \in Calls : flight'[y].kind = "post" /\ flight'[z].kind = "post" => y = z
<1>. PageShaped /\ OneCall /\ OnePost
  BY DEF PageInv
<1>1. /\ flight'[x] = Messages!NoCall /\ flight' \in [Calls -> PageRecords]
      /\ \A y \in Calls \ {x} : flight'[y] = flight[y]
  BY NoCallIs, FlightStep
<1>2. \A y \in Calls : /\ flight'[y].kind = "none" => flight'[y] = Messages!NoCall
                       /\ flight'[y].kind # "none" => flight'[y].conv \in Convs
  BY <1>1, NoCallIs DEF PageShaped
<1>3. ~skewed => \A y \in Calls \ {x} : flight[y].kind = "none"
  BY DEF OneCall
<1>4. Messages!NoCall' = Messages!NoCall
  BY DEF Messages!NoCall
<1>5. \A y, z \in Calls : flight'[y].kind = "post" /\ flight'[z].kind = "post" => y = z
  BY <1>1, NoCallIs DEF OnePost
<1>. QED
  BY <1>1, <1>2, <1>3, <1>4, <1>5, NoCallIs

LEMMA ThreadArrivesKeeps ==
  ASSUME PageInv, NEW x \in Calls, Messages!ThreadArrives(x)
  PROVE  PageInv'
<1>. PageShaped /\ AnswersStored /\ OnePost /\ OneCall /\ Told /\ ThreadFollows
  BY DEF PageInv
<1>1. /\ flight[x].kind = "get" /\ flight[x].rows # None /\ messages' = flight[x].rows
      /\ loading' = FALSE /\ list' = "loading"
      /\ UNCHANGED <<linked, opened, active, loadError, text, sending, stored, choice, skewed>>
  BY DEF Messages!ThreadArrives, Messages!composer
<1>2. /\ flight'[x] = Messages!NoCall /\ flight' \in [Calls -> PageRecords]
      /\ \A y \in Calls \ {x} : flight'[y] = flight[y]
      /\ \A y \in Calls : /\ flight'[y].kind = "none" => flight'[y] = Messages!NoCall'
                          /\ flight'[y].kind # "none" => flight'[y].conv \in Convs
      /\ ~skewed => \A y \in Calls : flight'[y].kind = "none"
      /\ \A y, z \in Calls : flight'[y].kind = "post" /\ flight'[z].kind = "post" => y = z
  BY <1>1, CallEnds DEF Messages!ThreadArrives
<1>3. flight[x].rows \in Threads /\ flight[x].conv \in Convs
  BY <1>1 DEF PageShaped, PageRecords
<1>4. PageShaped'
  BY <1>1, <1>2, <1>3 DEF PageShaped
<1>5. AnswersStored'
  <2>1. \A m \in Members(messages') : \E c \in Convs : m \in Members(stored[c])
    BY <1>1, <1>3 DEF AnswersStored
  <2>2. \A y \in Calls : flight'[y].rows # None => flight'[y] = flight[y]
    BY <1>2, NoCallIs
  <2>. QED
    BY <1>1, <2>1, <2>2 DEF AnswersStored
<1>6. OnePost'
  <2>1. \A y \in Calls : flight'[y].kind = "post" <=> flight[y].kind = "post"
    BY <1>1, <1>2, NoCallIs
  <2>. QED
    BY <1>1, <2>1 DEF OnePost
<1>7. OneCall' /\ Told'
  BY <1>1, <1>2 DEF OneCall, Told
<1>8. ThreadFollows'
  BY <1>1, <1>2 DEF ThreadFollows, Fetches
<1>. QED
  BY <1>4, <1>5, <1>6, <1>7, <1>8 DEF PageInv

LEMMA ThreadFailsKeeps ==
  ASSUME PageInv, NEW x \in Calls, Messages!ThreadFails(x)
  PROVE  PageInv'
<1>. PageShaped /\ AnswersStored /\ OnePost /\ OneCall /\ Told /\ ThreadFollows
  BY DEF PageInv
<1>1. /\ flight[x].kind = "get" /\ loadError' = TRUE /\ loading' = FALSE
      /\ UNCHANGED <<linked, opened, list, active, messages, text, sending, stored, choice,
                     skewed>>
  BY DEF Messages!ThreadFails, Messages!FailedLoudly, Messages!composer, Messages!lists
<1>2. /\ flight'[x] = Messages!NoCall /\ flight' \in [Calls -> PageRecords]
      /\ \A y \in Calls \ {x} : flight'[y] = flight[y]
      /\ \A y \in Calls : /\ flight'[y].kind = "none" => flight'[y] = Messages!NoCall'
                          /\ flight'[y].kind # "none" => flight'[y].conv \in Convs
      /\ ~skewed => \A y \in Calls : flight'[y].kind = "none"
      /\ \A y, z \in Calls : flight'[y].kind = "post" /\ flight'[z].kind = "post" => y = z
  BY <1>1, CallEnds DEF Messages!ThreadFails
<1>3. PageShaped'
  BY <1>1, <1>2 DEF PageShaped
<1>4. AnswersStored'
  <2>1. \A y \in Calls : flight'[y].rows # None => flight'[y] = flight[y]
    BY <1>2, NoCallIs
  <2>. QED
    BY <1>1, <2>1 DEF AnswersStored
<1>5. OnePost'
  <2>1. \A y \in Calls : flight'[y].kind = "post" <=> flight[y].kind = "post"
    BY <1>1, <1>2, NoCallIs
  <2>. QED
    BY <1>1, <2>1 DEF OnePost
<1>6. OneCall' /\ Told' /\ ThreadFollows'
  BY <1>1, <1>2 DEF OneCall, Told, ThreadFollows
<1>. QED
  BY <1>3, <1>4, <1>5, <1>6 DEF PageInv

LEMMA SendKeeps ==
  ASSUME PageInv, NEW x \in Calls, Messages!send(x)
  PROVE  PageInv'
<1>. PageShaped /\ AnswersStored /\ OnePost /\ OneCall /\ Told /\ ThreadFollows
  BY DEF PageInv
<1>1. PICK post : post = Messages!Call("post", active, None)
  OBVIOUS
<1>2. /\ active # None /\ sending = FALSE /\ sending' = TRUE
      /\ UNCHANGED <<linked, opened, list, active, messages, loading, loadError, text, stored,
                     choice>>
  BY DEF Messages!send, Messages!SendOnce, Messages!lists, Messages!thread, PageShaped
<1>3. /\ post \in PageRecords /\ post.kind = "post" /\ post.conv = active /\ post.rows = None
      /\ active \in Convs
  BY <1>1, <1>2 DEF Messages!Call, PageRecords, PageShaped
<1>4. /\ flight[x].kind = "none" /\ flight'[x] = post
      /\ \A y \in Calls \ {x} : flight'[y] = flight[y]
      /\ flight' \in [Calls -> PageRecords]
  BY <1>1, <1>3, BusyIs, FlightStep DEF Messages!send
<1>5. /\ skewed' \in BOOLEAN
      /\ ~skewed' => ~skewed /\ \A y \in Calls : flight[y].kind = "none"
  BY BusyIs DEF Messages!send, Messages!Quiet, PageShaped
<1>6. PageShaped'
  <2>1. \A y \in Calls : /\ flight'[y].kind = "none" => flight'[y] = Messages!NoCall
                         /\ flight'[y].kind # "none" => flight'[y].conv \in Convs
    BY <1>3, <1>4 DEF PageShaped
  <2>2. Messages!NoCall' = Messages!NoCall
    BY DEF Messages!NoCall
  <2>. QED
    BY <1>2, <1>4, <1>5, <2>1, <2>2 DEF PageShaped
<1>7. AnswersStored'
  BY <1>2, <1>3, <1>4 DEF AnswersStored
<1>8. OnePost'
  <2>1. \A y \in Calls : flight[y].kind # "post"
    BY <1>2 DEF OnePost
  <2>2. \A y \in Calls : flight'[y].kind = "post" <=> y = x
    BY <1>3, <1>4, <2>1
  <2>. QED
    BY <1>2, <2>2 DEF OnePost
<1>9. OneCall'
  <2>1. ~skewed' => \A y \in Calls : flight'[y].kind # "none" => y = x
    BY <1>4, <1>5
  <2>. QED
    BY <2>1 DEF OneCall
<1>10. Told'
  BY <1>2 DEF Told
<1>11. ThreadFollows'
  <2> SUFFICES ASSUME ~skewed', active' # None, ~loadError'
               PROVE  /\ \A y \in Calls : /\ flight'[y].kind = "get" => Fetches(y)'
                                          /\ flight'[y].kind = "post" => Sends(y)'
                      /\ loading' => \E y \in Calls : flight'[y].kind = "get"
                      /\ (\A y \in Calls : flight'[y].kind = "none")
                           => messages' = stored'[active']
    BY DEF ThreadFollows
  <2>1. \A y \in Calls : flight[y].kind = "none"
    BY <1>5
  <2>2. messages = stored[active] /\ ~loading
    BY <1>2, <1>5, <2>1 DEF ThreadFollows
  <2>3. messages # None
    BY <1>2, <2>2 DEF Told
  <2>4. Sends(x)'
    BY <1>2, <1>3, <1>4, <2>2, <2>3 DEF Sends
  <2>. QED
    BY <1>2, <1>3, <1>4, <2>1, <2>2, <2>4
<1>. QED
  BY <1>6, <1>7, <1>8, <1>9, <1>10, <1>11 DEF PageInv

LEMMA StoreKeeps ==
  ASSUME PageInv, NEW x \in Calls, Messages!Store(x)
  PROVE  PageInv'
<1>. PageShaped /\ AnswersStored /\ OnePost /\ OneCall /\ Told /\ ThreadFollows
  BY DEF PageInv
<1>1. PICK c \in Convs : c = flight[x].conv
  BY DEF PageShaped, Messages!Store
<1>2. PICK m \in Convs \X Nat : m = Messages!NextOf(c)
  <2>1. stored[c] \in Threads
    BY DEF PageShaped
  <2>2. PICK n \in Nat : n = Len(stored[c]) + 1
    BY <2>1 DEF Threads
  <2>. QED
    BY <2>2 DEF Messages!NextOf
<1>3. PICK more : more = Append(stored[c], m)
  OBVIOUS
<1>4. /\ flight[x].kind = "post" /\ flight[x].rows = None
      /\ stored' = [stored EXCEPT ![c] = more]
      /\ Messages!FlightBecomes(x, [flight[x] EXCEPT !.rows = <<m>>])
      /\ UNCHANGED <<linked, opened, list, active, messages, loading, loadError, text, sending,
                     choice, skewed>>
  BY <1>1, <1>2, <1>3
  DEF Messages!Store, Messages!lists, Messages!thread, Messages!composer
<1>5. /\ <<m>> \in Threads /\ Len(<<m>>) = 1 /\ Members(<<m>>) = {m}
      /\ more = stored[c] \o <<m>> /\ more \in Threads
      /\ Members(more) = Members(stored[c]) \cup {m}
  <2>1. stored[c] \in Threads
    BY DEF PageShaped
  <2>. QED
    BY <1>3, <2>1, OneMoreMessage, JoinedThreads
<1>6. PICK next : next = [flight[x] EXCEPT !.rows = <<m>>]
  OBVIOUS
<1>7. /\ next.kind = "post" /\ next.conv = c /\ next.rows = <<m>> /\ next \in PageRecords
  BY <1>1, <1>4, <1>5, <1>6 DEF PageShaped, PageRecords
<1>8. /\ flight'[x] = next /\ flight' \in [Calls -> PageRecords]
      /\ \A y \in Calls \ {x} : flight'[y] = flight[y]
  BY <1>4, <1>6, <1>7, FlightStep
<1>9. \A y \in Calls : flight'[y].kind = flight[y].kind /\ flight'[y].conv = flight[y].conv
  BY <1>1, <1>4, <1>7, <1>8
<1>10. /\ stored' \in [Convs -> Threads] /\ stored'[c] = more
       /\ \A d \in Convs : Members(stored[d]) \subseteq Members(stored'[d])
  BY <1>4, <1>5 DEF PageShaped
<1>11. PageShaped'
  <2>1. Messages!NoCall' = Messages!NoCall
    BY DEF Messages!NoCall
  <2>. QED
    BY <1>4, <1>7, <1>8, <1>10, <2>1 DEF PageShaped
<1>12. AnswersStored'
  <2>1. ASSUME NEW y \in Calls, flight'[y].rows # None
        PROVE  Members(flight'[y].rows) \subseteq Members(stored'[flight'[y].conv])
    <3>1. CASE y = x
      BY <1>5, <1>7, <1>8, <1>10, <3>1
    <3>2. CASE y # x
      <4>1. flight'[y] = flight[y] /\ flight[y].kind # "none"
        BY <1>8, <2>1, <3>2, NoCallIs DEF PageShaped
      <4>2. flight[y].conv \in Convs
        BY <4>1 DEF PageShaped
      <4>. QED
        BY <1>10, <2>1, <4>1, <4>2 DEF AnswersStored
    <3>. QED
      BY <3>1, <3>2
  <2>2. messages # None =>
          \A n \in Members(messages) : \E d \in Convs : n \in Members(stored'[d])
    BY <1>10 DEF AnswersStored
  <2>. QED
    BY <1>4, <2>1, <2>2 DEF AnswersStored
<1>13. OnePost' /\ OneCall' /\ Told'
  BY <1>4, <1>9 DEF OnePost, OneCall, Told
<1>14. ThreadFollows'
  <2> SUFFICES ASSUME ~skewed', active' # None, ~loadError'
               PROVE  /\ \A y \in Calls : /\ flight'[y].kind = "get" => Fetches(y)'
                                          /\ flight'[y].kind = "post" => Sends(y)'
                      /\ loading' => \E y \in Calls : flight'[y].kind = "get"
                      /\ (\A y \in Calls : flight'[y].kind = "none")
                           => messages' = stored'[active']
    BY DEF ThreadFollows
  <2>1. \A y \in Calls \ {x} : flight'[y].kind = "none"
    BY <1>4, <1>8 DEF OneCall
  <2>2. Sends(x) /\ (loading => \E y \in Calls : flight[y].kind = "get")
    BY <1>4 DEF ThreadFollows
  <2>3. <<m>> # None
    BY <1>5, NoneIsNoThread
  <2>4. Sends(x)'
    BY <1>1, <1>4, <1>5, <1>7, <1>8, <1>10, <2>2, <2>3 DEF Sends
  <2>. QED
    BY <1>4, <1>7, <1>8, <1>9, <2>1, <2>2, <2>4
<1>. QED
  BY <1>11, <1>12, <1>13, <1>14 DEF PageInv

LEMMA MessageArrivesKeeps ==
  ASSUME PageInv, NEW x \in Calls, Messages!MessageArrives(x)
  PROVE  PageInv'
<1>. PageShaped /\ AnswersStored /\ OnePost /\ OneCall /\ Told /\ ThreadFollows
  BY DEF PageInv
<1>1. /\ flight[x].kind = "post" /\ flight[x].rows # None
      /\ messages' = Messages!Appended(flight[x].rows)
      /\ text' = FALSE /\ sending' = FALSE /\ list' = "loading"
      /\ UNCHANGED <<linked, opened, active, loading, loadError, stored, choice, skewed>>
  BY DEF Messages!MessageArrives
<1>2. /\ flight'[x] = Messages!NoCall /\ flight' \in [Calls -> PageRecords]
      /\ \A y \in Calls \ {x} : flight'[y] = flight[y]
      /\ \A y \in Calls : /\ flight'[y].kind = "none" => flight'[y] = Messages!NoCall'
                          /\ flight'[y].kind # "none" => flight'[y].conv \in Convs
      /\ ~skewed => \A y \in Calls : flight'[y].kind = "none"
      /\ \A y, z \in Calls : flight'[y].kind = "post" /\ flight'[z].kind = "post" => y = z
  BY <1>1, CallEnds DEF Messages!MessageArrives
<1>3. PICK rows \in Threads : rows = flight[x].rows /\ flight[x].conv \in Convs
  BY <1>1 DEF PageShaped, PageRecords
<1>4. PICK shown \in Threads :
        /\ shown = Messages!Shown /\ messages' = shown \o rows
        /\ messages # None => shown = messages
        /\ messages = None => shown = <<>>
  BY <1>1, <1>3, EmptyThread DEF Messages!Shown, Messages!Appended, PageShaped
<1>5. messages' \in Threads /\ Members(messages') = Members(shown) \cup Members(rows)
  BY <1>4, JoinedThreads
<1>6. PageShaped'
  BY <1>1, <1>2, <1>5 DEF PageShaped
<1>7. AnswersStored'
  <2>1. \A m \in Members(messages') : \E c \in Convs : m \in Members(stored[c])
    BY <1>1, <1>3, <1>4, <1>5, EmptyThread DEF AnswersStored
  <2>2. \A y \in Calls : flight'[y].rows # None => flight'[y] = flight[y]
    BY <1>2, NoCallIs
  <2>. QED
    BY <1>1, <2>1, <2>2 DEF AnswersStored
<1>8. OnePost'
  <2>1. \A y \in Calls : flight'[y].kind # "post"
    BY <1>1, <1>2, NoCallIs DEF OnePost
  <2>. QED
    BY <1>1, <2>1 DEF OnePost
<1>9. OneCall' /\ Told'
  BY <1>1, <1>2, <1>5, NoneIsNoThread DEF OneCall, Told
<1>10. ThreadFollows'
  <2> SUFFICES ASSUME ~skewed, active # None, ~loadError
               PROVE  ThreadFollows'
    BY <1>1 DEF ThreadFollows
  <2>1. Sends(x) /\ (loading => \E y \in Calls : flight[y].kind = "get")
    BY <1>1 DEF ThreadFollows
  <2>2. messages' = stored[active]
    BY <1>1, <1>3, <1>4, <2>1 DEF Sends
  <2>3. ~loading
    BY <1>1, <2>1 DEF OneCall
  <2>. QED
    BY <1>1, <1>2, <2>2, <2>3 DEF ThreadFollows
<1>. QED
  BY <1>6, <1>7, <1>8, <1>9, <1>10 DEF PageInv

LEMMA MessageFailsKeeps ==
  ASSUME PageInv, NEW x \in Calls, Messages!MessageFails(x)
  PROVE  PageInv'
<1>. PageShaped /\ AnswersStored /\ OnePost /\ OneCall /\ Told /\ ThreadFollows
  BY DEF PageInv
<1>1. /\ flight[x].kind = "post" /\ sending' = FALSE
      /\ skewed' \in BOOLEAN /\ (~skewed' => ~skewed /\ flight[x].rows = None)
      /\ UNCHANGED <<linked, opened, list, active, messages, loading, loadError, text, stored,
                     choice>>
  BY DEF Messages!MessageFails, Messages!lists, Messages!thread, PageShaped
<1>2. /\ flight'[x] = Messages!NoCall /\ flight' \in [Calls -> PageRecords]
      /\ \A y \in Calls \ {x} : flight'[y] = flight[y]
      /\ \A y \in Calls : /\ flight'[y].kind = "none" => flight'[y] = Messages!NoCall'
                          /\ flight'[y].kind # "none" => flight'[y].conv \in Convs
      /\ ~skewed => \A y \in Calls : flight'[y].kind = "none"
      /\ \A y, z \in Calls : flight'[y].kind = "post" /\ flight'[z].kind = "post" => y = z
  BY <1>1, CallEnds DEF Messages!MessageFails
<1>3. PageShaped'
  BY <1>1, <1>2 DEF PageShaped
<1>4. AnswersStored'
  <2>1. \A y \in Calls : flight'[y].rows # None => flight'[y] = flight[y]
    BY <1>2, NoCallIs
  <2>. QED
    BY <1>1, <2>1 DEF AnswersStored
<1>5. OnePost'
  <2>1. \A y \in Calls : flight'[y].kind # "post"
    BY <1>1, <1>2, NoCallIs DEF OnePost
  <2>. QED
    BY <1>1, <2>1 DEF OnePost
<1>6. OneCall' /\ Told'
  BY <1>1, <1>2 DEF OneCall, Told
<1>7. ThreadFollows'
  <2> SUFFICES ASSUME ~skewed', active # None, ~loadError
               PROVE  ThreadFollows'
    BY <1>1 DEF ThreadFollows
  <2>1. Sends(x) /\ (loading => \E y \in Calls : flight[y].kind = "get")
    BY <1>1 DEF ThreadFollows
  <2>2. messages = stored[active] /\ ~loading
    BY <1>1, <2>1 DEF OneCall, Sends
  <2>. QED
    BY <1>1, <1>2, <2>2 DEF ThreadFollows
<1>. QED
  BY <1>3, <1>4, <1>5, <1>6, <1>7 DEF PageInv

(***************************************************************************)
(* What it tells of the thread that is shown.                              *)
(***************************************************************************)

LEMMA PageStarts == Messages!PageInit => PageInv
<1> SUFFICES ASSUME Messages!PageInit PROVE PageInv
  OBVIOUS
<1>1. PageShaped
  BY EmptyThread, NoCallIs DEF Messages!PageInit, PageShaped
<1>2. \A x \in Calls : flight[x].kind = "none" /\ flight[x].rows = None
  BY NoCallIs DEF Messages!PageInit
<1>3. AnswersStored /\ OnePost /\ OneCall /\ Told /\ ThreadFollows
  BY <1>2 DEF Messages!PageInit, AnswersStored, OnePost, OneCall, Told, ThreadFollows
<1>. QED
  BY <1>1, <1>3 DEF PageInv

LEMMA PageKeeps ==
  ASSUME PageInv, Messages!PageNext \/ UNCHANGED ofMessages
  PROVE  PageInv'
<1>1. CASE UNCHANGED ofMessages
  <2>1. PageShaped'
    BY <1>1 DEF PageInv, PageShaped, Messages!NoCall, ofMessages
  <2>2. AnswersStored' /\ OnePost' /\ OneCall' /\ Told'
    BY <1>1 DEF PageInv, AnswersStored, OnePost, OneCall, Told, ofMessages
  <2>3. ThreadFollows'
    BY <1>1 DEF PageInv, ThreadFollows, Fetches, Sends, ofMessages
  <2>. QED
    BY <2>1, <2>2, <2>3 DEF PageInv
<1>2. CASE Messages!PageNext
  BY <1>2, ListsKeep, BackKeeps, TypeKeeps, SendKeeps, ThreadReadKeeps, ThreadArrivesKeeps,
     ThreadFailsKeeps, StoreKeeps, MessageArrivesKeeps, MessageFailsKeeps
  DEF Messages!PageNext, Messages!Answered
<1>. QED
  BY <1>1, <1>2

LEMMA PageTells ==
  ASSUME PageInv
  PROVE  ShowsTheThread
<1>. PageShaped /\ AnswersStored /\ OnePost /\ OneCall /\ Told /\ ThreadFollows
  BY DEF PageInv
<1>1. \A s : Messages!ToSet(s) = Members(s)
  BY DEF Messages!ToSet, Members
<1>2. Messages!PageTypeOK
  <2>1. \A x \in Calls : Messages!Busy(x) =>
          /\ flight[x].kind \in {"get", "post"} /\ flight[x].conv \in Convs
          /\ flight[x].rows # None =>
               Messages!ToSet(flight[x].rows) \subseteq Messages!ToSet(stored[flight[x].conv])
    BY <1>1, BusyIs DEF PageShaped, PageRecords, AnswersStored
  <2>2. messages # None => Messages!ToSet(messages) \subseteq Messages!AllStored
    BY <1>1 DEF AnswersStored, Messages!AllStored
  <2>. QED
    BY <2>1, <2>2 DEF Messages!PageTypeOK, PageShaped, OnePost
<1>3. Messages!NothingUnfetched
  BY DEF Messages!NothingUnfetched, Told
<1>4. Messages!ShowsTheThread
  <2> SUFFICES ASSUME active # None, messages # None, ~skewed, ~loadError
               PROVE  /\ Messages!Quiet => messages = stored[active]
                      /\ Messages!IsPrefix(messages, stored[active])
    BY DEF Messages!ShowsTheThread
  <2>0. messages \in Threads /\ stored[active] \in Threads
    BY DEF PageShaped
  <2>1. CASE \A x \in Calls : flight[x].kind = "none"
    <3>1. messages = stored[active]
      BY <2>1 DEF ThreadFollows
    <3>. QED
      BY <2>0, <3>1, IsContinued
  <2>2. ASSUME NEW x \in Calls, flight[x].kind # "none"
        PROVE  /\ Messages!Quiet => messages = stored[active]
               /\ Messages!IsPrefix(messages, stored[active])
    <3>1. ~Messages!Quiet
      BY <2>2, BusyIs DEF Messages!Quiet
    <3>2. Sends(x) /\ flight[x] \in PageRecords
      BY <2>2 DEF ThreadFollows, Fetches, PageShaped, PageRecords
    <3>3. CASE flight[x].rows = None
      BY <2>0, <3>1, <3>2, <3>3, IsContinued DEF Sends
    <3>4. CASE flight[x].rows # None
      <4>1. PICK rows \in Threads : rows = flight[x].rows
        BY <3>2, <3>4 DEF PageRecords
      <4>2. stored[active] = messages \o rows
        BY <3>2, <3>4, <4>1 DEF Sends
      <4>. QED
        BY <2>0, <3>1, <4>1, <4>2, IsContinued
    <3>. QED
      BY <3>3, <3>4
  <2>. QED
    BY <2>1, <2>2
<1>. QED
  BY <1>2, <1>3, <1>4 DEF ShowsTheThread

(* The messages page keeps this whatever else the browser does, and so     *)
(* shows the thread that is named (ShowsTheThread): for any conversations  *)
(* and any number of its calls in flight, in whatever order answers come.  *)
THEOREM ThreadShown == CheckSpec => []ShowsTheThread
<1>1. CheckInit => PageInv
  BY PageStarts DEF CheckInit
<1>2. PageInv /\ [CheckNext]_everything => PageInv'
  BY PageKeeps DEF CheckNext, MessagesCheck, everything
<1>3. PageInv => ShowsTheThread
  BY PageTells
<1>. QED
  BY <1>1, <1>2, <1>3, PTL DEF CheckSpec
=============================================================================
