----------------------------- MODULE ApiClient -----------------------------
(***************************************************************************)
(* A browser tab over the sessions of the API: apiRequest() and            *)
(* refreshTokens() of frontend/src/lib/api.ts, the storage of session.ts,  *)
(* the guard components/require-auth.tsx, signing in and signing out.      *)
(*                                                                         *)
(* The calls a tab has in flight share one refresh token in memory and two *)
(* places to keep a session.  Call r and what the server does for it are   *)
(* call[r] and request[r]; an answer to a call the tab has given up is     *)
(* dropped.                                                                *)
(***************************************************************************)
EXTENDS Sessions

VARIABLES
  page,      \* "login" or "portal"
  held,      \* the pair whose access token the portal's pages pass on
  memory,    \* refreshTokenStore, the pair whose refresh token is in it
  storage,   \* what localStorage and sessionStorage keep
  call,      \* what each call of the tab is for and where it stands
  latest,    \* history: first pair of the sign-in made last, None once left
  raced,     \* history: whether two calls were refreshing with one token
  cut,       \* history: whether a refresh died, or its answer was not awaited
  mixed      \* history: whether the sign-in made last found another session
             \* in localStorage, or a call of an earlier one in flight

tab == <<page, held, memory, storage, call>>
past == <<latest, raced, cut, mixed>>
all == <<vars, tab, past>>

Places == {"local", "session"}
Kept(t, named) == [pair |-> t, named |-> named]   \* named: the user's key
Nothing == Kept(None, FALSE)

Purposes == {"page", "sign out", "sign in", "sign in here"}
Call(at, purpose, t) == [at |-> at, purpose |-> purpose, token |-> t]
NoCall == Call("none", "page", None)
CallBecomes(r, next) == call' = [call EXCEPT ![r] = next]

TabInit ==
  /\ page = "login"
  /\ held = None
  /\ memory = None
  /\ storage = [s \in Places |-> Nothing]
  /\ call = [r \in Requests |-> NoCall]
  /\ latest = None /\ raced = FALSE /\ cut = FALSE /\ mixed = FALSE

-----------------------------------------------------------------------------
(* loadSession(): localStorage comes first; a session needs all its keys.  *)
Found(kept) == IF kept["local"] # Nothing THEN kept["local"] ELSE kept["session"]
Complete(kept) == kept.pair # None /\ kept.named

Loads(kept) ==
  IF Complete(Found(kept))
  THEN /\ page' = "portal"
       /\ held' = Found(kept).pair /\ memory' = Found(kept).pair
  ELSE page' = "login" /\ UNCHANGED <<held, memory>>

(* RequireAuth mounts: a link to another page of the portal, or to it.     *)
Mount ==
  /\ Loads(storage)
  /\ UNCHANGED <<vars, storage, call, past>>

(***************************************************************************)
(* apiLogin() and saveSession(): the pair, once it comes, is put in the    *)
(* one place or the other, and the portal loads what it finds.             *)
(***************************************************************************)
Place(purpose) == IF purpose = "sign in here" THEN "session" ELSE "local"

SignInSend(r, u, purpose) ==
  /\ page = "login" /\ call[r] = NoCall
  /\ \A s \in Requests : call[s].at # "signing in"
  /\ purpose \in {"sign in", "sign in here"}
  /\ LoginCheck(r, u)
  /\ CallBecomes(r, Call("signing in", purpose, None))
  /\ UNCHANGED <<page, held, memory, storage, past>>

SignInReceive(r) ==
  LET t == request[r].token
      place == Place(call[r].purpose)
  IN
  /\ call[r].at = "signing in" /\ request[r].at = "answered"
  /\ storage' = [storage EXCEPT ![place] = Kept(t, TRUE)]
  /\ Loads(storage')
  /\ CallBecomes(r, NoCall)
  /\ latest' = root[t]
  /\ mixed' = \/ place = "session" /\ storage["local"] # Nothing
              \/ \E s \in Requests \ {r} : call[s] # NoCall
  /\ raced' = FALSE /\ cut' = FALSE
  /\ Respond(r)

SignInRefused(r) ==
  /\ call[r].at = "signing in" /\ request[r].at = "refused"
  /\ CallBecomes(r, NoCall)
  /\ Respond(r)
  /\ UNCHANGED <<page, held, memory, storage, past>>

-----------------------------------------------------------------------------
(* apiRequest(): the guard answers; signing out is a call like any other.  *)
Send(r, purpose) ==
  /\ page = "portal" /\ call[r] = NoCall /\ request[r] = Idle
  /\ \/ purpose = "page"
     \/ purpose = "sign out" /\ \A s \in Requests : call[s].purpose # "sign out"
  /\ CallBecomes(r, Call("sent", purpose, held))
  /\ UNCHANGED <<vars, page, held, memory, storage, past>>

Arrive(r) ==
  /\ call[r].at = "sent"
  /\ CallBecomes(r, Call(IF Accepts(call[r].token) THEN "accepted" ELSE "unauthorised",
                         call[r].purpose, None))
  /\ UNCHANGED <<vars, page, held, memory, storage, past>>

(* clearSession() follows a sign-out however its call ended.               *)
Cleared(r) ==
  IF call[r].purpose = "sign out"
  THEN storage' = [s \in Places |-> Nothing] /\ latest' = None
  ELSE UNCHANGED <<storage, latest>>

Receive(r) ==
  /\ \/ call[r].at = "accepted"
     \/ call[r].at = "unauthorised" /\ memory = None
  /\ CallBecomes(r, NoCall)
  /\ Cleared(r)
  /\ IF call[r].purpose = "sign out" THEN memory' = None /\ page' = "login"
                                     ELSE UNCHANGED <<memory, page>>
  /\ UNCHANGED <<vars, held, raced, cut, mixed>>

(***************************************************************************)
(* refreshTokens(), which every call that meets a 401 does on its own, and *)
(* the call again.  The new pair goes to the place that has a refresh key. *)
(***************************************************************************)
RefreshSend(r) ==
  /\ call[r].at = "unauthorised" /\ memory # None
  /\ CallBecomes(r, Call("refreshing", call[r].purpose, memory))
  /\ raced' = (raced \/ \E s \in Requests \ {r} :
                 call[s].at = "refreshing" /\ call[s].token = memory)
  /\ UNCHANGED <<vars, page, held, memory, storage, latest, cut, mixed>>

RefreshArrive(r) ==
  /\ call[r].at = "refreshing"
  /\ RefreshCheck(r, call[r].token) \/ RefreshRefuse(r, call[r].token)
  /\ UNCHANGED <<tab, past>>

KeptOld(t) == memory                   \* a mutant: the old token stays
KeptNew(t) == t
RetriedAsBefore(t) == held             \* a mutant: the call as it was
Retried(t) == t
StoredWhole(kept, t) == Kept(t, TRUE)  \* a mutant: the user's key again
Stored(kept, t) == [kept EXCEPT !.pair = t]
InLocal == "local"                     \* a mutant: wherever the session is
RefreshPlace == IF storage["local"].pair # None THEN "local" ELSE "session"

RefreshReceive(r) ==
  LET t == request[r].token IN
  /\ call[r].at = "refreshing" /\ request[r].at = "answered"
  /\ memory' = KeptNew(t)
  /\ storage' = [storage EXCEPT ![RefreshPlace] = Stored(@, t)]
  /\ CallBecomes(r, Call("sent", call[r].purpose, Retried(t)))
  /\ Respond(r)
  /\ UNCHANGED <<page, held, past>>

(* A full page load gives up every call.                                   *)
Leaves ==
  /\ call' = [s \in Requests |-> NoCall]
  /\ cut' = (cut \/ \E s \in Requests : call[s].at = "refreshing")

Reload ==
  /\ Loads(storage)
  /\ Leaves
  /\ UNCHANGED <<vars, storage, latest, raced, mixed>>

(* A refusal forgets the token and leaves for /login, with every other     *)
(* call of the page; storage is not cleared.                               *)
RefreshRefused(r) ==
  /\ call[r].at = "refreshing" /\ request[r].at = "refused"
  /\ memory' = None /\ page' = "login"
  /\ Leaves
  /\ Cleared(r)
  /\ Respond(r)
  /\ UNCHANGED <<held, raced, mixed>>

(* The answer to a call that is no more.                                   *)
Drop(r) ==
  /\ call[r] = NoCall
  /\ Respond(r)
  /\ UNCHANGED <<tab, past>>

-----------------------------------------------------------------------------
(* What the server does next for a call, and what may go wrong.            *)
Serve(r) ==
  /\ RefreshRevoke(r) \/ Issue(r)
  /\ UNCHANGED <<tab, past>>

ServeFails(r) ==
  /\ RequestFails(r)
  /\ cut' = TRUE
  /\ UNCHANGED <<tab, latest, raced, mixed>>

Elsewhere ==
  /\ \/ \E u \in Users, s \in Statuses : SetUserStatus(u, s)
     \/ \E t \in Tokens : Lapse(t)
  /\ UNCHANGED <<tab, past>>

Proceed(r) ==
  \/ Arrive(r) \/ Receive(r) \/ SignInReceive(r) \/ SignInRefused(r)
  \/ RefreshSend(r) \/ RefreshArrive(r) \/ RefreshReceive(r) \/ RefreshRefused(r)
  \/ Drop(r) \/ Serve(r)

Start(r) ==
  \E purpose \in Purposes :
    Send(r, purpose) \/ \E u \in Users : SignInSend(r, u, purpose)

ClientNext ==
  \/ Mount \/ Reload
  \/ \E r \in Requests : Start(r) \/ Proceed(r) \/ ServeFails(r)
  \/ Elsewhere

ClientInit == Init /\ TabInit
ClientSpec == ClientInit /\ [][ClientNext]_all /\ \A r \in Requests : WF_all(Proceed(r))

-----------------------------------------------------------------------------
(***************************************************************************)
(* Properties                                                              *)
(***************************************************************************)

(* What the tab holds are pairs that have been issued, and a call that     *)
(* waits for the server is one the server works on.                        *)
Pairs == {t \in Tokens : Issued(t)}
InStep(r) ==
  LET c == call[r] IN
  \/ c = NoCall
  \/ c.at = "signing in" /\ request[r].at \in {"issuing", "answered", "refused"}
  \/ c.at \in {"sent", "refreshing"} /\ c.token \in Pairs
     /\ (c.at = "sent" => request[r] = Idle)
  \/ c.at \in {"accepted", "unauthorised"} /\ request[r] = Idle

ClientTypeOK ==
  /\ TypeOK
  /\ page \in {"login", "portal"}
  /\ held \in Pairs \cup {None} /\ memory \in Pairs \cup {None}
  /\ storage \in [Places -> [pair : Pairs \cup {None}, named : BOOLEAN]]
  /\ page = "portal" => held # None
  /\ latest \in Tokens \cup {None}
  /\ {raced, cut, mixed} \subseteq BOOLEAN
  /\ \A r \in Requests : InStep(r)

(* While nobody ends it, a sign-in goes on: the refresh token in memory is *)
(* the one the server takes next, or the next is under way.  This fails    *)
(* when two calls refresh at once, when a refresh dies or its answer is    *)
(* not awaited, and when sessions get mixed.                               *)
KeepsAWorkingToken ==
  page = "portal" =>
    \/ memory # None /\ Live(memory)
    \/ \E r \in Requests : call[r].at = "refreshing" /\ call[r].token = memory
    \/ raced \/ cut \/ mixed

(* From a sign-in until signing out, the session the portal loads is that  *)
(* sign-in's, however calls refresh; unless sessions got mixed.            *)
SignInTakes ==
  latest # None =>
    \/ Complete(Found(storage)) /\ root[Found(storage).pair] = latest
    \/ mixed

(* Once signed out, nobody is signed in, whatever answers come late.       *)
SignedOutStaysOut == latest = None => ~Complete(Found(storage))

(* Signing in and signing out take effect, of a tab in its shape.          *)
SignInsAndOutsTake == ClientTypeOK /\ SignInTakes /\ SignedOutStaysOut

(* Every call is settled: answered, or given up for the sign-in page.      *)
EveryCallSettles == \A r \in Requests : call[r] # NoCall ~> call[r] = NoCall

-----------------------------------------------------------------------------
(***************************************************************************)
(* The inductive invariant of the proofs in ClientProofs.                  *)
(***************************************************************************)
CallRecords ==
  [at : {"none", "signing in", "sent", "accepted", "unauthorised", "refreshing"},
   purpose : Purposes, token : Tokens \cup {None}]

RevokedAreIssued == \A t \in Tokens : revoked[t] => Issued(t)

InShape ==
  /\ ClientTypeOK /\ RevokedAreIssued
  /\ call \in [Requests -> CallRecords]
  /\ \A s \in Places : storage[s].named => storage[s].pair # None

Refreshing(r) == call[r].at = "refreshing"
Revoking(r, t) == request[r].at = "revoking" /\ request[r].token = t
Answers(r, t) == request[r].at = "answered" /\ request[r].token = t

(* The pair in an answer works, and nothing but the answer has it yet.     *)
HasPair(t) ==
  \/ memory = t
  \/ \E s \in Places : storage[s].pair = t
  \/ \E s \in Requests : Revoking(s, t) \/ (Refreshing(s) /\ call[s].token = t)
UnknownYet(r, t) ==
  Live(t) /\ ~HasPair(t) /\ \A s \in Requests \ {r} : ~Answers(s, t)
AnswersAreNew ==
  \A r \in Requests : request[r].at = "answered" =>
    \E t \in Tokens : Answers(r, t) /\ UnknownYet(r, t)

(* Whoever sees the portal is signed in, and stays in unless cut off.      *)
PortalIsForUsers ==
  /\ page = "portal" => latest # None
  /\ SignedOutStaysOut

(* Whatever the tab has or waits for belongs to the sign-in made last.     *)
OfLatest(r) ==
  /\ root[call[r].token] = latest
  /\ request[r].at \in {"revoking", "issuing"} => request[r].root = latest
  /\ request[r].at = "answered" => root[request[r].token] = latest
OneSignIn ==
  latest # None /\ ~mixed =>
    /\ Complete(Found(storage)) /\ root[Found(storage).pair] = latest
    /\ memory # None => root[memory] = latest
    /\ \A r \in Requests : Refreshing(r) => OfLatest(r)

(* One call at most refreshes, with the pair that is in memory and stored, *)
(* and nobody else revokes it.                                             *)
OneRefresh ==
  latest # None /\ ~raced /\ ~cut /\ ~mixed =>
    /\ page = "portal" /\ memory # None
    /\ Complete(Found(storage)) /\ Found(storage).pair = memory
    /\ \A r, s \in Requests : Refreshing(r) /\ Refreshing(s) => r = s
    /\ \A r \in Requests :
         /\ Refreshing(r) => call[r].token = memory
         /\ Revoking(r, memory) => Refreshing(r)
    /\ Live(memory) \/ \E r \in Requests : Refreshing(r)

ClientInv ==
  InShape /\ AnswersAreNew /\ PortalIsForUsers /\ OneSignIn /\ OneRefresh

=============================================================================
