------------------------------- MODULE Codes -------------------------------
(***************************************************************************)
(* Opening an account and proving an address with one-time codes:          *)
(* register, requestOtp, verifyOtp and resetPassword of                    *)
(* backend/src/auth/auth.service.ts.                                       *)
(*                                                                         *)
(* An account and its codes are found by e-mail address; codes are numbered*)
(* in the order of their rows.  Every await separates a read from the write*)
(* that relies on it; request[r] holds what request r has read.  Tokens    *)
(* that a verified code is exchanged for are the matter of Sessions.       *)
(***************************************************************************)
EXTENDS Serving

CONSTANTS
  AttemptLimit,  \* wrong answers a code survives, 5 in the code
  Purposes,      \* the purposes in use, a subset of OTP_PURPOSES
  Statuses       \* the statuses an administrator gives a user

USER_STATUSES == {"PENDING", "ACTIVE", "SUSPENDED", "BANNED", "DELETED"}
OTP_PURPOSES == {"REGISTER", "LOGIN", "PASSWORD_RESET"}

ASSUME LimitAssumption == AttemptLimit \in Nat \ {0}
ASSUME PurposesAssumption == Purposes \subseteq OTP_PURPOSES
ASSUME StatusesAssumption == Statuses \subseteq USER_STATUSES

Emails == Users
Codes == Rows

VARIABLES
  account,   \* User.status, "NONE" where there is no row
  verified,  \* User.emailVerified
  profiled,  \* whether the user's CreatorProfile or Brand row exists
  holder,    \* whose code it is, None before its row is inserted
  purpose,   \* what it was asked for
  attempts,  \* how many wrong answers it has had
  consumed,  \* whether it has consumedAt
  mailed,    \* whether the e-mail with the code itself went out
  age,       \* "recent" for a minute, then "valid", then "expired"
  uses,      \* history: how often the code was accepted
  raced,     \* history: codes that two requests were accepting at once
  hurried,   \* history: <<e, p>> that two requests were sending to at once
  cut        \* history: accounts whose opening was cut short

users == <<account, verified, profiled>>
labels == <<holder, purpose>>
codes == <<labels, attempts, consumed, mailed, age, uses>>
history == <<raced, hurried, cut>>
vars == <<users, codes, history, request>>

-----------------------------------------------------------------------------
Sent(c) == holder[c] # None
Of(c, e, p) == holder[c] = e /\ purpose[c] = p
Accepting(r, c) ==
  request[r].at \in {"consuming", "resetting"} /\ request[r].val = c

Init ==
  /\ account = [e \in Emails |-> "NONE"]
  /\ verified = [e \in Emails |-> FALSE]
  /\ profiled = [e \in Emails |-> FALSE]
  /\ holder = [c \in Codes |-> None]
  /\ purpose = [c \in Codes |-> "LOGIN"]
  /\ attempts = [c \in Codes |-> 0]
  /\ consumed = [c \in Codes |-> FALSE]
  /\ mailed = [c \in Codes |-> FALSE]
  /\ age = [c \in Codes |-> "recent"]
  /\ uses = [c \in Codes |-> 0]
  /\ raced = {} /\ hurried = {} /\ cut = {}
  /\ NoneServed

-----------------------------------------------------------------------------
(* POST /auth/register, or /auth/request-otp for REGISTER: no such user.   *)
OpenCheck(r, e) ==
  /\ Starts(r)
  /\ account[e] = "NONE"
  /\ Becomes(r, Waiting("opening", e, "REGISTER", None))
  /\ UNCHANGED <<users, codes, history>>

(* The address is unique: the second of two inserts is refused.            *)
OpenWrite(r) ==
  LET e == request[r].who IN
  /\ request[r].at = "opening"
  /\ IF account[e] = "NONE"
     THEN /\ account' = [account EXCEPT ![e] = "PENDING"]
          /\ Becomes(r, Waiting("profiling", e, "REGISTER", None))
     ELSE Ends(r) /\ UNCHANGED account
  /\ UNCHANGED <<verified, profiled, codes, history>>

ProfileWriteNot(r) ==         \* a mutant: only creators get a profile row
  LET e == request[r].who IN
  /\ request[r].at = "profiling"
  /\ Becomes(r, Waiting("throttling", e, "REGISTER", None))
  /\ UNCHANGED <<users, codes, history>>
ProfileWrite(r) ==
  LET e == request[r].who IN
  /\ request[r].at = "profiling"
  /\ profiled' = [profiled EXCEPT ![e] = TRUE]
  /\ Becomes(r, Waiting("throttling", e, "REGISTER", None))
  /\ UNCHANGED <<account, verified, codes, history>>

(* POST /auth/request-otp for a user there is; a request that sends nothing*)
(* is answered as if it did.                                               *)
MayBeSent(s, p) ==
  CASE p = "REGISTER"       -> s \notin {"NONE", "ACTIVE"}
    [] p = "LOGIN"          -> s = "ACTIVE"
    [] p = "PASSWORD_RESET" -> s \notin {"NONE", "BANNED"}

RequestOtp(r, e, p) ==
  /\ Starts(r)
  /\ MayBeSent(account[e], p)
  /\ Becomes(r, Waiting("throttling", e, p, None))
  /\ UNCHANGED <<users, codes, history>>

(***************************************************************************)
(* sendOtp(): one code a minute unless the last was used, a row, a note    *)
(* that never holds the code, and the e-mail that does.                    *)
(***************************************************************************)
ThrottledNever(e, p) == FALSE          \* a mutant: no look at recent codes
Throttled(e, p) ==
  \E c \in Codes :
    /\ IsLatest(c, {d \in Codes : Of(d, e, p) /\ age[d] = "recent"})
    /\ ~consumed[c]

SendCheck(r) ==
  LET q == request[r]
      others == \E s \in Requests \ {r} :
                  /\ request[s].at = "inserting"
                  /\ request[s].who = q.who /\ request[s].on = q.on
  IN
  /\ q.at = "throttling"
  /\ IF Throttled(q.who, q.on)
     THEN Ends(r) /\ UNCHANGED hurried
     ELSE /\ Becomes(r, Waiting("inserting", q.who, q.on, None))
          /\ hurried' = IF others THEN hurried \cup {<<q.who, q.on>>}
                                  ELSE hurried
  /\ UNCHANGED <<users, codes, raced, cut>>

Inserted(c, e, p) ==
  /\ holder' = [holder EXCEPT ![c] = e]
  /\ purpose' = [purpose EXCEPT ![c] = p]

SendInsert(r) ==
  LET q == request[r] IN
  /\ q.at = "inserting"
  /\ \E c \in Codes :
       /\ IsNext(c, {d \in Codes : Sent(d)})
       /\ Inserted(c, q.who, q.on)
       /\ Becomes(r, Waiting("mailing", q.who, q.on, c))
  /\ UNCHANGED <<users, attempts, consumed, mailed, age, uses, history>>

SendMail(r) ==
  /\ request[r].at = "mailing"
  /\ mailed' = [mailed EXCEPT ![request[r].val] = TRUE]
  /\ Ends(r)
  /\ UNCHANGED <<users, labels, attempts, consumed, age, uses, history>>

(***************************************************************************)
(* POST /auth/verify-otp and /auth/reset-password look at the latest code  *)
(* that is not consumed.  The right answer takes the e-mail.               *)
(***************************************************************************)
LatestUsedToo(c, e, p) ==     \* a mutant: consumed codes count
  IsLatest(c, {d \in Codes : Of(d, e, p)})
Latest(c, e, p) == IsLatest(c, {d \in Codes : Of(d, e, p) /\ ~consumed[d]})

MayTryPast(c) == age[c] # "expired" /\ attempts[c] <= AttemptLimit  \* mutant
MayTry(c) == age[c] # "expired" /\ attempts[c] < AttemptLimit

AnswerWrong(r, e, p) ==
  /\ Starts(r)
  /\ \E c \in Codes :
       /\ Latest(c, e, p) /\ MayTry(c)
       /\ Becomes(r, Waiting("counting", e, p, c))
  /\ UNCHANGED <<users, codes, history>>

AnswerRight(r, e, p) ==
  /\ Starts(r)
  /\ \E c \in Codes, at \in {"consuming", "resetting"} :
       /\ at = "resetting" => p = "PASSWORD_RESET"
       /\ Latest(c, e, p) /\ MayTry(c) /\ mailed[c]
       /\ raced' = IF \E s \in Requests : Accepting(s, c) THEN raced \cup {c}
                                                          ELSE raced
       /\ Becomes(r, Waiting(at, e, p, c))
  /\ UNCHANGED <<users, codes, hurried, cut>>

AttemptCount(r) ==
  /\ request[r].at = "counting"
  /\ attempts' = [attempts EXCEPT ![request[r].val] = @ + 1]
  /\ Ends(r)
  /\ UNCHANGED <<users, labels, consumed, mailed, age, uses, history>>

ConsumedNot(c) == consumed             \* a mutant: the code is left as it is
Consumed(c) == [consumed EXCEPT ![c] = TRUE]

Accept(c) ==
  /\ consumed' = Consumed(c)
  /\ uses' = [uses EXCEPT ![c] = @ + 1]
  /\ UNCHANGED <<labels, attempts, mailed, age>>

(* verifyOtp(): only a REGISTER code changes the user, one await later.    *)
VerifyConsume(r) ==
  LET q == request[r] IN
  /\ q.at = "consuming"
  /\ Accept(q.val)
  /\ IF q.on = "REGISTER"
     THEN Becomes(r, Waiting("activating", q.who, q.on, q.val))
     ELSE Ends(r)
  /\ UNCHANGED <<users, history>>

Activated(e) ==
  /\ account' = [account EXCEPT ![e] = "ACTIVE"]
  /\ verified' = [verified EXCEPT ![e] = TRUE]
  /\ UNCHANGED profiled

VerifyActivate(r) ==
  /\ request[r].at = "activating"
  /\ Activated(request[r].who)
  /\ Ends(r)
  /\ UNCHANGED <<codes, history>>

(* resetPassword(): code and user change in one transaction.               *)
ResetWrite(r) ==
  /\ request[r].at = "resetting"
  /\ Accept(request[r].val)
  /\ Activated(request[r].who)
  /\ Ends(r)
  /\ UNCHANGED history

(* A statement or the e-mail fails, or the process dies.                   *)
RequestFails(r) ==
  /\ request[r] # Idle
  /\ cut' = IF request[r].at = "profiling" THEN cut \cup {request[r].who} ELSE cut
  /\ Ends(r)
  /\ UNCHANGED <<users, codes, raced, hurried>>

(* PATCH /admin/users/:id/status, and the clock: older codes age first.    *)
SetUserStatus(e, s) ==
  /\ account[e] # "NONE"
  /\ account' = [account EXCEPT ![e] = s]
  /\ UNCHANGED <<verified, profiled, codes, history, request>>

Lapse(c) ==
  /\ Sent(c) /\ age[c] # "expired"
  /\ \A d \in Codes : d < c => age[d] \in {"expired", "valid"} \ {age[c]}
  /\ age' = [age EXCEPT ![c] = IF @ = "recent" THEN "valid" ELSE "expired"]
  /\ UNCHANGED <<users, labels, attempts, consumed, mailed, uses, history, request>>

-----------------------------------------------------------------------------
Asking(r) ==
  \E e \in Emails :
    \/ OpenCheck(r, e)
    \/ \E p \in Purposes :
         RequestOtp(r, e, p) \/ AnswerWrong(r, e, p) \/ AnswerRight(r, e, p)

Sending(r) ==
  OpenWrite(r) \/ ProfileWrite(r) \/ SendCheck(r) \/ SendInsert(r) \/ SendMail(r)

Answering(r) ==
  AttemptCount(r) \/ VerifyConsume(r) \/ VerifyActivate(r) \/ ResetWrite(r)

Next ==
  \/ \E r \in Requests : Asking(r) \/ Sending(r) \/ Answering(r) \/ RequestFails(r)
  \/ \E e \in Emails, s \in Statuses : SetUserStatus(e, s)
  \/ \E c \in Codes : Lapse(c)

Spec == Init /\ [][Next]_vars

-----------------------------------------------------------------------------
(***************************************************************************)
(* Properties                                                              *)
(***************************************************************************)

(* Users, codes and requests have the shape the schema gives them, and a   *)
(* request that works on a code works on one of its own address and        *)
(* purpose.                                                                *)
Stages == {"idle", "opening", "profiling", "throttling", "inserting", "mailing",
           "counting", "consuming", "activating", "resetting"}
Request == [at  : Stages,
            who : Emails \cup {None},
            on  : OTP_PURPOSES \cup {None},
            val : Codes \cup {None}]
AboutACode == {"mailing", "counting", "consuming", "activating", "resetting"}
TypeOK ==
  /\ account \in [Emails -> USER_STATUSES \cup {"NONE"}]
  /\ verified \in [Emails -> BOOLEAN]
  /\ profiled \in [Emails -> BOOLEAN]
  /\ holder \in [Codes -> Emails \cup {None}]
  /\ purpose \in [Codes -> OTP_PURPOSES]
  /\ attempts \in [Codes -> Nat]
  /\ consumed \in [Codes -> BOOLEAN]
  /\ mailed \in [Codes -> BOOLEAN]
  /\ age \in [Codes -> {"recent", "valid", "expired"}]
  /\ uses \in [Codes -> Nat]
  /\ raced \subseteq Codes
  /\ hurried \subseteq Emails \X OTP_PURPOSES
  /\ cut \subseteq Emails
  /\ request \in [Requests -> Request]
  /\ \A r \in Requests :
       LET q == request[r] IN
       /\ q # Idle => q.who \in Emails /\ q.on \in OTP_PURPOSES
       /\ q.at \in AboutACode => q.val \in Codes /\ Of(q.val, q.who, q.on)

(* However wrong answers overlap, a code never takes more of them than the *)
(* limit and the other requests that were being served meanwhile.          *)
AttemptsBounded ==
  \A c \in Codes : attempts[c] < AttemptLimit + Cardinality(Requests)

(* A code is accepted once, unless requests with the right answer overlap; *)
(* then by each of these at most, and by nobody after them.                *)
AcceptedOnce ==
  \A c \in Codes : uses[c] <= IF c \in raced THEN Cardinality(Requests) ELSE 1

(* Nobody has two usable codes for one purpose that are both less than a   *)
(* minute old, unless two requests were sending at the same time.          *)
OneAMinute ==
  \A c, d \in Codes :
    /\ c # d /\ Sent(c) /\ Of(d, holder[c], purpose[c])
    /\ age[c] = "recent" /\ age[d] = "recent" /\ ~consumed[c] /\ ~consumed[d]
    => <<holder[c], purpose[c]>> \in hurried

(* The rules of use of a code and an address: one acceptance, and as many  *)
(* as overlap where they do; one e-mail a minute, of requests in turns.    *)
TurnsAreKept == AcceptedOnce /\ OneAMinute

(* An address counts as verified only after a code was mailed to it, for   *)
(* REGISTER or PASSWORD_RESET, and came back.                              *)
VerifiedByMail ==
  \A e \in Emails : verified[e] =>
    \E c \in Codes :
      /\ holder[c] = e /\ mailed[c] /\ consumed[c]
      /\ purpose[c] \in {"REGISTER", "PASSWORD_RESET"}

(* An account without a profile is one that is being opened, or whose      *)
(* opening was cut short between its two inserts.                          *)
ProfiledUnlessCut ==
  \A e \in Emails : account[e] # "NONE" =>
    \/ profiled[e]
    \/ e \in cut
    \/ \E r \in Requests : request[r].at = "profiling" /\ request[r].who = e

(* What an account says of itself is true: its address was proved by mail, *)
(* and its profile is there unless its opening was cut short.              *)
AccountsAreWhole == VerifiedByMail /\ ProfiledUnlessCut

=============================================================================
