---------------------------- MODULE CodesProofs ----------------------------
(***************************************************************************)
(* Theorems about Codes, for every set of addresses and requests, for any  *)
(* number of codes and every limit of attempts.                            *)
(***************************************************************************)
EXTENDS Codes, FiniteSetTheorems, TLAPS

(***************************************************************************)
(* Requests and what they carry.                                           *)
(***************************************************************************)
LEMMA NoneApart == None \notin Emails /\ None \notin Codes
BY NoneAssumption DEF Emails, Codes

LEMMA Numbers == \A c \in Codes : c \in Nat
BY RowsAssumption DEF Codes

LEMMA IdleIs == Idle.at = "idle" /\ Idle \in Request
BY DEF Idle, Waiting, Request, Stages

(* Request r carries these parts now, and the others what they did.        *)
Moved(r, at, who, on, val) ==
  /\ request'[r].at = at /\ request'[r].who = who
  /\ request'[r].on = on /\ request'[r].val = val
  /\ \A s \in Requests \ {r} : request'[s] = request[s]

LEMMA MovedOn ==
  ASSUME request \in [Requests -> Request], NEW r \in Requests,
         NEW at, NEW who, NEW on, NEW val, Becomes(r, Waiting(at, who, on, val))
  PROVE  Moved(r, at, who, on, val)
BY DEF Moved, Becomes, Waiting

LEMMA Ended ==
  ASSUME request \in [Requests -> Request], NEW r \in Requests, Ends(r)
  PROVE  Moved(r, "idle", None, None, None) /\ request'[r] = Idle
BY DEF Moved, Ends, Becomes, Idle, Waiting

(* A request whose record is in shape and, about a code, of its owner.     *)
Shaped(q) ==
  /\ q # Idle => q.who \in Emails /\ q.on \in OTP_PURPOSES
  /\ q.at \in AboutACode => q.val \in Codes /\ Of(q.val, q.who, q.on)

LEMMA InShape ==
  ASSUME TypeOK, NEW r \in Requests
  PROVE  request[r] \in Request /\ Shaped(request[r])
BY DEF TypeOK, Shaped

LEMMA StageIs ==
  ASSUME TypeOK, NEW r \in Requests
  PROVE  /\ request[r].at # "idle" =>
              request[r].who \in Emails /\ request[r].on \in OTP_PURPOSES
         /\ request[r].at \in AboutACode =>
              /\ request[r].val \in Codes
              /\ holder[request[r].val] = request[r].who
              /\ purpose[request[r].val] = request[r].on
BY IdleIs DEF TypeOK, Of

(* The labels of a code that is sent stay on it.                           *)
LabelsStay ==
  /\ \A c \in Codes : holder[c] # None => holder'[c] = holder[c] /\ purpose'[c] = purpose[c]

LEMMA TypeStep ==
  ASSUME TypeOK, NEW r \in Requests,
         NEW at \in Stages, NEW who \in Emails, NEW on \in OTP_PURPOSES,
         NEW val \in Codes \cup {None},
         Becomes(r, Waiting(at, who, on, val)) \/ Ends(r),
         at \in AboutACode => val \in Codes /\ holder'[val] = who /\ purpose'[val] = on,
         LabelsStay,
         account' \in [Emails -> USER_STATUSES \cup {"NONE"}],
         verified' \in [Emails -> BOOLEAN],
         profiled' \in [Emails -> BOOLEAN],
         holder' \in [Codes -> Emails \cup {None}],
         purpose' \in [Codes -> OTP_PURPOSES],
         attempts' \in [Codes -> Nat],
         consumed' \in [Codes -> BOOLEAN],
         mailed' \in [Codes -> BOOLEAN],
         age' \in [Codes -> {"recent", "valid", "expired"}],
         uses' \in [Codes -> Nat],
         raced' \subseteq Codes,
         hurried' \subseteq Emails \X OTP_PURPOSES,
         cut' \subseteq Emails
  PROVE  TypeOK'
<1> DEFINE w == Waiting(at, who, on, val)
<1>0. w \in Request /\ w.at = at /\ w.who = who /\ w.on = on /\ w.val = val
  BY DEF Waiting, Request
<1> HIDE DEF w
<1>1. PICK q \in {w, Idle} : request' = [request EXCEPT ![r] = q]
  BY DEF Ends, Becomes, w
<1>2. request' \in [Requests -> Request]
  BY <1>0, <1>1, IdleIs DEF TypeOK
<1>3. ASSUME NEW s \in Requests
      PROVE  LET p == request'[s] IN
             /\ p # Idle => p.who \in Emails /\ p.on \in OTP_PURPOSES
             /\ p.at \in AboutACode =>
                  p.val \in Codes /\ holder'[p.val] = p.who /\ purpose'[p.val] = p.on
  <2>1. CASE s = r
    <3>1. request'[s] = q
      BY <1>1, <2>1 DEF TypeOK
    <3>. QED
      BY <3>1, <1>0, IdleIs DEF AboutACode
  <2>2. CASE s # r
    <3>1. request'[s] = request[s]
      BY <1>1, <2>2 DEF TypeOK
    <3>. QED
      <4>1. request[s] # Idle => request[s].who \in Emails /\ request[s].on \in OTP_PURPOSES
        BY DEF TypeOK
      <4>2. request[s].at \in AboutACode =>
              /\ request[s].val \in Codes
              /\ holder[request[s].val] = request[s].who
              /\ purpose[request[s].val] = request[s].on
              /\ request[s].who \in Emails
        BY StageIs DEF AboutACode
      <4>. QED
        BY <3>1, <4>1, <4>2, NoneApart DEF LabelsStay
  <2>. QED
    BY <2>1, <2>2
<1>. QED
  BY <1>2, <1>3 DEF TypeOK, Of

LEMMA TypeInit == Init => TypeOK
BY IdleIs, NoneApart DEF Init, TypeOK, NoneServed, AboutACode, OTP_PURPOSES, USER_STATUSES, Request

LEMMA TypeNext ==
  ASSUME TypeOK, Next
  PROVE  TypeOK'
<1>1. ASSUME NEW r \in Requests, Asking(r)
      PROVE  TypeOK'
  <2>0. PICK e \in Emails :
          \/ OpenCheck(r, e)
          \/ \E p \in Purposes :
               RequestOtp(r, e, p) \/ AnswerWrong(r, e, p) \/ AnswerRight(r, e, p)
    BY <1>1 DEF Asking
  <2>1. CASE OpenCheck(r, e)
    <3>. QED
      BY <2>1, TypeStep DEF OpenCheck, users, codes, labels, history, TypeOK, LabelsStay,
         Stages, OTP_PURPOSES, AboutACode
  <2>2. ASSUME NEW p \in Purposes, RequestOtp(r, e, p)
        PROVE  TypeOK'
    <3>1. p \in OTP_PURPOSES
      BY PurposesAssumption
    <3>. QED
      BY <2>2, <3>1, TypeStep DEF RequestOtp, users, codes, labels, history, TypeOK,
         LabelsStay, Stages, AboutACode
  <2>3. ASSUME NEW p \in Purposes, AnswerWrong(r, e, p)
        PROVE  TypeOK'
    <3>1. p \in OTP_PURPOSES
      BY PurposesAssumption
    <3>2. PICK c \in Codes : Of(c, e, p) /\ Becomes(r, Waiting("counting", e, p, c))
      BY <2>3 DEF AnswerWrong, Latest, IsLatest
    <3>3. UNCHANGED <<account, verified, profiled, holder, purpose, attempts, consumed,
                      mailed, age, uses, raced, hurried, cut>>
      BY <2>3 DEF AnswerWrong, users, codes, labels, history
    <3>. QED
      BY <3>1, <3>2, <3>3, TypeStep DEF TypeOK, LabelsStay, Stages, Of
  <2>4. ASSUME NEW p \in Purposes, AnswerRight(r, e, p)
        PROVE  TypeOK'
    <3>1. p \in OTP_PURPOSES
      BY PurposesAssumption
    <3>2. PICK c \in Codes, at \in {"consuming", "resetting"} :
            /\ Of(c, e, p) /\ Becomes(r, Waiting(at, e, p, c))
            /\ raced' \in {raced, raced \cup {c}}
      BY <2>4 DEF AnswerRight, Latest, IsLatest
    <3>3. UNCHANGED <<account, verified, profiled, holder, purpose, attempts, consumed,
                      mailed, age, uses, hurried, cut>>
      BY <2>4 DEF AnswerRight, users, codes, labels
    <3>4. raced' \subseteq Codes
      BY <3>2 DEF TypeOK
    <3>. QED
      BY <3>1, <3>2, <3>3, <3>4, TypeStep DEF TypeOK, LabelsStay, Stages, Of
  <2>. QED
    BY <2>0, <2>1, <2>2, <2>3, <2>4
<1>2. ASSUME NEW r \in Requests, Sending(r)
      PROVE  TypeOK'
  <2> DEFINE q == request[r]
  <2>0. /\ q.at # "idle" => q.who \in Emails /\ q.on \in OTP_PURPOSES
        /\ q.at \in AboutACode =>
             q.val \in Codes /\ holder[q.val] = q.who /\ purpose[q.val] = q.on
    BY StageIs
  <2>1. CASE OpenWrite(r)
    <3>1. q.who \in Emails
      BY <2>0, <2>1 DEF OpenWrite
    <3>2. /\ Becomes(r, Waiting("profiling", q.who, "REGISTER", None)) \/ Ends(r)
          /\ account' \in {account, [account EXCEPT ![q.who] = "PENDING"]}
          /\ UNCHANGED <<verified, profiled, holder, purpose, attempts, consumed,
                         mailed, age, uses, raced, hurried, cut>>
      BY <2>1 DEF OpenWrite, codes, labels, history
    <3>3. account' \in [Emails -> USER_STATUSES \cup {"NONE"}]
      BY <3>1, <3>2 DEF TypeOK, USER_STATUSES
    <3>4. "profiling" \in Stages /\ "profiling" \notin AboutACode /\ "REGISTER" \in OTP_PURPOSES
      BY DEF Stages, AboutACode, OTP_PURPOSES
    <3>. QED
      BY <3>1, <3>2, <3>3, <3>4, TypeStep DEF TypeOK, LabelsStay
  <2>2. CASE ProfileWrite(r)
    <3>1. q.who \in Emails
      BY <2>0, <2>2 DEF ProfileWrite
    <3>2. /\ Becomes(r, Waiting("throttling", q.who, "REGISTER", None))
          /\ profiled' = [profiled EXCEPT ![q.who] = TRUE]
          /\ UNCHANGED <<account, verified, holder, purpose, attempts, consumed,
                         mailed, age, uses, raced, hurried, cut>>
      BY <2>2 DEF ProfileWrite, codes, labels, history
    <3>3. profiled' \in [Emails -> BOOLEAN]
      BY <3>2 DEF TypeOK
    <3>4. "throttling" \in Stages /\ "throttling" \notin AboutACode /\ "REGISTER" \in OTP_PURPOSES
      BY DEF Stages, AboutACode, OTP_PURPOSES
    <3>. QED
      BY <3>1, <3>2, <3>3, <3>4, TypeStep DEF TypeOK, LabelsStay
  <2>3. CASE SendCheck(r)
    <3>1. q.who \in Emails /\ q.on \in OTP_PURPOSES
      BY <2>0, <2>3 DEF SendCheck
    <3>2. /\ Becomes(r, Waiting("inserting", q.who, q.on, None)) \/ Ends(r)
          /\ hurried' \in {hurried, hurried \cup {<<q.who, q.on>>}}
          /\ UNCHANGED <<account, verified, profiled, holder, purpose, attempts, consumed,
                         mailed, age, uses, raced, cut>>
      BY <2>3 DEF SendCheck, users, codes, labels
    <3>3. hurried' \subseteq Emails \X OTP_PURPOSES
      BY <3>1, <3>2 DEF TypeOK
    <3>. QED
      BY <3>1, <3>2, <3>3, TypeStep DEF TypeOK, LabelsStay, Stages, AboutACode
  <2>4. CASE SendInsert(r)
    <3>1. q.who \in Emails /\ q.on \in OTP_PURPOSES
      BY <2>0, <2>4 DEF SendInsert
    <3>2. PICK c \in Codes :
            /\ holder[c] = None
            /\ holder' = [holder EXCEPT ![c] = q.who]
            /\ purpose' = [purpose EXCEPT ![c] = q.on]
            /\ Becomes(r, Waiting("mailing", q.who, q.on, c))
      BY <2>4 DEF SendInsert, IsNext, Sent, Inserted
    <3>3. UNCHANGED <<account, verified, profiled, attempts, consumed,
                      mailed, age, uses, raced, hurried, cut>>
      BY <2>4 DEF SendInsert, users, history
    <3>. QED
      BY <3>1, <3>2, <3>3, TypeStep DEF TypeOK, LabelsStay, Stages
  <2>5. CASE SendMail(r)
    <3>1. q.who \in Emails /\ q.on \in OTP_PURPOSES /\ q.val \in Codes
      BY <2>0, <2>5 DEF SendMail, AboutACode
    <3>2. /\ Ends(r)
          /\ mailed' = [mailed EXCEPT ![q.val] = TRUE]
          /\ UNCHANGED <<account, verified, profiled, holder, purpose, attempts, consumed,
                         age, uses, raced, hurried, cut>>
      BY <2>5 DEF SendMail, users, labels, history
    <3>. QED
      BY <3>1, <3>2, TypeStep DEF TypeOK, LabelsStay, Stages, AboutACode
  <2>. QED
    BY <1>2, <2>1, <2>2, <2>3, <2>4, <2>5 DEF Sending
<1>3. ASSUME NEW r \in Requests, Answering(r)
      PROVE  TypeOK'
  <2> DEFINE q == request[r]
  <2>0. q.at \in {"counting", "consuming", "activating", "resetting"}
    BY <1>3 DEF Answering, AttemptCount, VerifyConsume, VerifyActivate, ResetWrite
  <2>1. /\ q.who \in Emails /\ q.on \in OTP_PURPOSES
        /\ q.val \in Codes /\ holder[q.val] = q.who /\ purpose[q.val] = q.on
    BY <2>0, StageIs DEF AboutACode
  <2>2. /\ Ends(r) \/ Becomes(r, Waiting("activating", q.who, q.on, q.val))
        /\ account' \in {account, [account EXCEPT ![q.who] = "ACTIVE"]}
        /\ verified' \in {verified, [verified EXCEPT ![q.who] = TRUE]}
        /\ attempts' \in {attempts, [attempts EXCEPT ![q.val] = attempts[q.val] + 1]}
        /\ consumed' \in {consumed, [consumed EXCEPT ![q.val] = TRUE]}
        /\ uses' \in {uses, [uses EXCEPT ![q.val] = uses[q.val] + 1]}
        /\ UNCHANGED <<profiled, holder, purpose, mailed, age, raced, hurried, cut>>
    BY <1>3 DEF Answering, AttemptCount, VerifyConsume, VerifyActivate, ResetWrite,
       Accept, Consumed, Activated, users, codes, labels, history
  <2>3. /\ account' \in [Emails -> USER_STATUSES \cup {"NONE"}]
        /\ verified' \in [Emails -> BOOLEAN]
        /\ attempts' \in [Codes -> Nat]
        /\ consumed' \in [Codes -> BOOLEAN]
        /\ uses' \in [Codes -> Nat]
    <3>1. account' \in [Emails -> USER_STATUSES \cup {"NONE"}]
      BY <2>1, <2>2 DEF TypeOK, USER_STATUSES
    <3>2. verified' \in [Emails -> BOOLEAN] /\ consumed' \in [Codes -> BOOLEAN]
      BY <2>2 DEF TypeOK
    <3>3. attempts' \in [Codes -> Nat] /\ uses' \in [Codes -> Nat]
      <4>1. attempts[q.val] + 1 \in Nat /\ uses[q.val] + 1 \in Nat
        BY <2>1 DEF TypeOK
      <4>. QED
        BY <2>2, <4>1 DEF TypeOK
    <3>. QED
      BY <3>1, <3>2, <3>3
  <2>4. "activating" \in Stages /\ q.val \in Codes \cup {None}
    BY <2>1 DEF Stages
  <2> HIDE DEF q
  <2>5. Becomes(r, Waiting("activating", q.who, q.on, q.val)) \/ Ends(r)
    BY <2>2
  <2>6. /\ LabelsStay
        /\ holder'[q.val] = q.who /\ purpose'[q.val] = q.on
    BY <2>1, <2>2 DEF LabelsStay
  <2>7. /\ profiled' \in [Emails -> BOOLEAN] /\ mailed' \in [Codes -> BOOLEAN]
        /\ holder' \in [Codes -> Emails \cup {None}]
        /\ purpose' \in [Codes -> OTP_PURPOSES]
        /\ age' \in [Codes -> {"recent", "valid", "expired"}]
        /\ raced' \subseteq Codes /\ cut' \subseteq Emails
        /\ hurried' \subseteq Emails \X OTP_PURPOSES
    BY <2>2 DEF TypeOK
  <2>. QED
    BY <2>1, <2>3, <2>4, <2>5, <2>6, <2>7, TypeStep
<1>4. ASSUME NEW r \in Requests, RequestFails(r)
      PROVE  TypeOK'
  <2>1. request[r].who \in Emails /\ request[r].on \in OTP_PURPOSES
    BY <1>4 DEF RequestFails, TypeOK
  <2>2. /\ Ends(r)
        /\ cut' \in {cut, cut \cup {request[r].who}}
        /\ UNCHANGED <<account, verified, profiled, holder, purpose, attempts, consumed,
                       mailed, age, uses, raced, hurried>>
    BY <1>4 DEF RequestFails, users, codes, labels
  <2>3. cut' \subseteq Emails
    BY <2>1, <2>2 DEF TypeOK
  <2>. QED
    BY <2>1, <2>2, <2>3, TypeStep DEF TypeOK, LabelsStay, Stages, AboutACode
<1>5. ASSUME NEW e \in Emails, NEW s \in Statuses, SetUserStatus(e, s)
      PROVE  TypeOK'
  BY <1>5, StatusesAssumption DEF SetUserStatus, TypeOK, codes, labels, history, Of
<1>6. ASSUME NEW c \in Codes, Lapse(c)
      PROVE  TypeOK'
  BY <1>6 DEF Lapse, TypeOK, users, labels, history, Of
<1>. QED
  BY <1>1, <1>2, <1>3, <1>4, <1>5, <1>6 DEF Next

LEMMA TypeStutter == TypeOK /\ UNCHANGED vars => TypeOK'
BY DEF TypeOK, vars, users, codes, labels, history, Of

(* Rows and requests keep their shape, and a request works on a code of    *)
(* its own address and purpose, whatever overlaps.                         *)
THEOREM Typing == Spec => []TypeOK
<1>1. TypeOK /\ [Next]_vars => TypeOK'
  BY TypeNext, TypeStutter
<1>. QED
  BY <1>1, TypeInit, PTL DEF Spec

-----------------------------------------------------------------------------
(***************************************************************************)
(* What every step has in common: where a request may go, and what is      *)
(* never taken back.                                                       *)
(***************************************************************************)
Same(r) == request'[r].who = request[r].who /\ request'[r].on = request[r].on

(* Where request r goes when it goes on, and what it has found by then.    *)
Goes(r) ==
  \/ request'[r] = Idle
  \/ request[r] = Idle /\ request'[r].at = "opening"
  \/ /\ request[r].at = "opening" /\ request'[r].at = "profiling"
     /\ request'[r].who = request[r].who /\ account'[request[r].who] = "PENDING"
  \/ /\ request[r].at = "profiling" /\ request'[r].at = "throttling"
     /\ request'[r].who = request[r].who /\ profiled'[request[r].who]
  \/ /\ request[r] = Idle /\ request'[r].at = "throttling"
     /\ account[request'[r].who] # "NONE"
  \/ /\ request[r].at = "throttling" /\ request'[r].at = "inserting"
     /\ Same(r)
  \/ /\ request[r].at = "inserting" /\ request'[r].at = "mailing"
     /\ Same(r)
  \/ /\ request[r] = Idle
     /\ request'[r].at \in {"counting", "consuming", "resetting"}
     /\ Latest(request'[r].val, request'[r].who, request'[r].on)
     /\ MayTry(request'[r].val)
     /\ request'[r].at # "counting" => mailed[request'[r].val]
     /\ request'[r].at = "resetting" => request'[r].on = "PASSWORD_RESET"
  \/ /\ request[r].at = "consuming" /\ request'[r].at = "activating"
     /\ Same(r) /\ request'[r].val = request[r].val
     /\ request[r].on = "REGISTER" /\ consumed'[request[r].val]

LEMMA OneGoes ==
  ASSUME TypeOK, Next
  PROVE  \/ request' = request
         \/ \E r \in Requests :
              Goes(r) /\ \A s \in Requests \ {r} : request'[s] = request[s]
<1>0. request \in [Requests -> Request]
  BY DEF TypeOK
<1>1. ASSUME NEW r \in Requests, Asking(r)
      PROVE  Goes(r) /\ \A s \in Requests \ {r} : request'[s] = request[s]
  <2>0. PICK e \in Emails :
          \/ OpenCheck(r, e)
          \/ \E p \in Purposes :
               RequestOtp(r, e, p) \/ AnswerWrong(r, e, p) \/ AnswerRight(r, e, p)
    BY <1>1 DEF Asking
  <2>1. CASE OpenCheck(r, e)
    BY <1>0, <2>1, MovedOn DEF OpenCheck, Starts, Moved, Goes
  <2>2. ASSUME NEW p \in Purposes, RequestOtp(r, e, p)
        PROVE  Goes(r) /\ \A s \in Requests \ {r} : request'[s] = request[s]
    <3>1. /\ request[r] = Idle /\ account[e] # "NONE"
          /\ Becomes(r, Waiting("throttling", e, p, None))
      BY <2>2, PurposesAssumption DEF RequestOtp, Starts, MayBeSent, OTP_PURPOSES
    <3>2. Moved(r, "throttling", e, p, None)
      BY <1>0, <3>1, MovedOn
    <3>. QED
      BY <3>1, <3>2 DEF Moved, Goes
  <2>3. ASSUME NEW p \in Purposes, AnswerWrong(r, e, p)
        PROVE  Goes(r) /\ \A s \in Requests \ {r} : request'[s] = request[s]
    <3>1. PICK c \in Codes :
            /\ Latest(c, e, p) /\ MayTry(c)
            /\ request[r] = Idle
            /\ Becomes(r, Waiting("counting", e, p, c))
      BY <2>3 DEF AnswerWrong, Starts
    <3>2. Moved(r, "counting", e, p, c)
      BY <1>0, <3>1, MovedOn
    <3>. QED
      BY <3>1, <3>2 DEF Moved, Goes
  <2>4. ASSUME NEW p \in Purposes, AnswerRight(r, e, p)
        PROVE  Goes(r) /\ \A s \in Requests \ {r} : request'[s] = request[s]
    <3>1. PICK c \in Codes, at \in {"consuming", "resetting"} :
            /\ at = "resetting" => p = "PASSWORD_RESET"
            /\ Latest(c, e, p) /\ MayTry(c) /\ mailed[c]
            /\ request[r] = Idle
            /\ Becomes(r, Waiting(at, e, p, c))
      BY <2>4 DEF AnswerRight, Starts
    <3>2. Moved(r, at, e, p, c)
      BY <1>0, <3>1, MovedOn
    <3>. QED
      BY <3>1, <3>2 DEF Moved, Goes
  <2>. QED
    BY <2>0, <2>1, <2>2, <2>3, <2>4
<1>2. ASSUME NEW r \in Requests, Sending(r)
      PROVE  Goes(r) /\ \A s \in Requests \ {r} : request'[s] = request[s]
  <2> DEFINE q == request[r]
  <2>1. CASE Ends(r)
    BY <1>0, <2>1, Ended DEF Moved, Goes
  <2>2. CASE OpenWrite(r) /\ ~Ends(r)
    <3>1. q.who \in Emails
      BY <2>2, StageIs DEF OpenWrite
    <3>2. /\ q.at = "opening"
          /\ account' = [account EXCEPT ![q.who] = "PENDING"]
          /\ Becomes(r, Waiting("profiling", q.who, "REGISTER", None))
      BY <2>2 DEF OpenWrite
    <3>3. account'[q.who] = "PENDING"
      BY <3>1, <3>2 DEF TypeOK
    <3>. QED
      BY <1>0, <3>2, <3>3, MovedOn DEF Moved, Goes
  <2>3. CASE ProfileWrite(r)
    <3>1. q.who \in Emails
      BY <2>3, StageIs DEF ProfileWrite
    <3>2. /\ q.at = "profiling"
          /\ profiled' = [profiled EXCEPT ![q.who] = TRUE]
          /\ Becomes(r, Waiting("throttling", q.who, "REGISTER", None))
      BY <2>3 DEF ProfileWrite
    <3>3. profiled'[q.who]
      BY <3>1, <3>2 DEF TypeOK
    <3>. QED
      BY <1>0, <3>2, <3>3, MovedOn DEF Moved, Goes
  <2>4. CASE SendCheck(r) /\ ~Ends(r)
    <3>1. q.at = "throttling" /\ Becomes(r, Waiting("inserting", q.who, q.on, None))
      BY <2>4 DEF SendCheck
    <3>. QED
      BY <1>0, <3>1, MovedOn DEF Moved, Goes, Same
  <2>5. CASE SendInsert(r)
    <3>1. PICK c \in Codes :
            q.at = "inserting" /\ Becomes(r, Waiting("mailing", q.who, q.on, c))
      BY <2>5 DEF SendInsert
    <3>. QED
      BY <1>0, <3>1, MovedOn DEF Moved, Goes, Same
  <2>. QED
    BY <1>2, <2>1, <2>2, <2>3, <2>4, <2>5 DEF Sending, SendMail
<1>3. ASSUME NEW r \in Requests, Answering(r)
      PROVE  Goes(r) /\ \A s \in Requests \ {r} : request'[s] = request[s]
  <2> DEFINE q == request[r]
  <2>1. CASE Ends(r)
    BY <1>0, <2>1, Ended DEF Moved, Goes
  <2>2. CASE VerifyConsume(r) /\ ~Ends(r)
    <3>1. /\ q.at = "consuming" /\ q.on = "REGISTER"
          /\ consumed' = [consumed EXCEPT ![q.val] = TRUE]
          /\ Becomes(r, Waiting("activating", q.who, q.on, q.val))
      BY <2>2 DEF VerifyConsume, Accept, Consumed
    <3>2. consumed'[q.val]
      BY <3>1, StageIs DEF AboutACode, TypeOK
    <3>. QED
      BY <1>0, <3>1, <3>2, MovedOn DEF Moved, Goes, Same
  <2>. QED
    BY <1>3, <2>1, <2>2 DEF Answering, AttemptCount, VerifyActivate, ResetWrite
<1>4. ASSUME NEW r \in Requests, RequestFails(r)
      PROVE  Goes(r) /\ \A s \in Requests \ {r} : request'[s] = request[s]
  BY <1>0, <1>4, Ended DEF RequestFails, Moved, Goes
<1>5. ASSUME NEW e \in Emails, NEW s \in Statuses, SetUserStatus(e, s)
      PROVE  request' = request
  BY <1>5 DEF SetUserStatus
<1>6. ASSUME NEW c \in Codes, Lapse(c)
      PROVE  request' = request
  BY <1>6 DEF Lapse
<1>. QED
  BY <1>1, <1>2, <1>3, <1>4, <1>5, <1>6 DEF Next

(* Accounts, profiles and codes stay, codes stay mailed and consumed, and  *)
(* no code gets younger.                                                   *)
Kept ==
  /\ \A e \in Emails : account[e] # "NONE" => account'[e] # "NONE"
  /\ \A e \in Emails : verified[e] => verified'[e]
  /\ \A e \in Emails : profiled[e] => profiled'[e]
  /\ \A c \in Codes : consumed[c] => consumed'[c]
  /\ \A c \in Codes : mailed[c] => mailed'[c]
  /\ \A c \in Codes : age'[c] = "recent" => age[c] = "recent"
  /\ LabelsStay
  /\ raced \subseteq raced' /\ hurried \subseteq hurried' /\ cut \subseteq cut'

LEMMA NothingTakenBack ==
  ASSUME TypeOK, Next
  PROVE  Kept
<1> USE DEF LabelsStay
<1>1. ASSUME NEW r \in Requests, Asking(r)
      PROVE  Kept
  BY <1>1 DEF Asking, OpenCheck, RequestOtp, AnswerWrong, AnswerRight,
     users, codes, labels, history, Kept
<1>2. ASSUME NEW r \in Requests, Sending(r)
      PROVE  Kept
  <2>1. CASE OpenWrite(r)
    <3>1. /\ account' \in {account, [account EXCEPT ![request[r].who] = "PENDING"]}
          /\ UNCHANGED <<verified, profiled, holder, purpose, attempts, consumed,
                         mailed, age, raced, hurried, cut>>
      BY <2>1 DEF OpenWrite, codes, labels, history
    <3>. QED
      BY <3>1 DEF TypeOK, Kept
  <2>2. CASE ProfileWrite(r)
    <3>1. /\ profiled' = [profiled EXCEPT ![request[r].who] = TRUE]
          /\ UNCHANGED <<account, verified, holder, purpose, attempts, consumed,
                         mailed, age, raced, hurried, cut>>
      BY <2>2 DEF ProfileWrite, codes, labels, history
    <3>. QED
      BY <3>1 DEF TypeOK, Kept
  <2>3. CASE SendCheck(r)
    BY <2>3 DEF SendCheck, users, codes, labels, Kept
  <2>4. CASE SendInsert(r)
    <3>1. PICK c \in Codes :
            /\ holder[c] = None
            /\ holder' = [holder EXCEPT ![c] = request[r].who]
            /\ purpose' = [purpose EXCEPT ![c] = request[r].on]
      BY <2>4 DEF SendInsert, IsNext, Sent, Inserted
    <3>2. UNCHANGED <<account, verified, profiled, consumed, mailed, age,
                      raced, hurried, cut>>
      BY <2>4 DEF SendInsert, users, history
    <3>. QED
      BY <3>1, <3>2 DEF TypeOK, Kept
  <2>5. CASE SendMail(r)
    <3>1. /\ mailed' = [mailed EXCEPT ![request[r].val] = TRUE]
          /\ UNCHANGED <<account, verified, profiled, holder, purpose, attempts,
                         consumed, age, raced, hurried, cut>>
      BY <2>5 DEF SendMail, users, labels, history
    <3>. QED
      BY <3>1 DEF TypeOK, Kept
  <2>. QED
    BY <1>2, <2>1, <2>2, <2>3, <2>4, <2>5 DEF Sending
<1>3. ASSUME NEW r \in Requests, Answering(r)
      PROVE  Kept
  <2>1. /\ account' \in {account, [account EXCEPT ![request[r].who] = "ACTIVE"]}
        /\ verified' \in {verified, [verified EXCEPT ![request[r].who] = TRUE]}
        /\ consumed' \in {consumed, [consumed EXCEPT ![request[r].val] = TRUE]}
        /\ UNCHANGED <<profiled, holder, purpose, mailed, age, raced, hurried, cut>>
    BY <1>3 DEF Answering, AttemptCount, VerifyConsume, VerifyActivate, ResetWrite,
       Accept, Consumed, Activated, users, codes, labels, history
  <2>. QED
    BY <2>1 DEF TypeOK, Kept
<1>4. ASSUME NEW r \in Requests, RequestFails(r)
      PROVE  Kept
  BY <1>4 DEF RequestFails, users, codes, labels, Kept
<1>5. ASSUME NEW e \in Emails, NEW s \in Statuses, SetUserStatus(e, s)
      PROVE  Kept
  <2>1. s # "NONE"
    BY StatusesAssumption DEF USER_STATUSES
  <2>2. /\ account' = [account EXCEPT ![e] = s]
        /\ UNCHANGED <<verified, profiled, holder, purpose, attempts, consumed,
                       mailed, age, raced, hurried, cut>>
    BY <1>5 DEF SetUserStatus, codes, labels, history
  <2>. QED
    BY <2>1, <2>2 DEF TypeOK, Kept
<1>6. ASSUME NEW c \in Codes, Lapse(c)
      PROVE  Kept
  <2>1. /\ age' = [age EXCEPT ![c] = IF age[c] = "recent" THEN "valid" ELSE "expired"]
        /\ UNCHANGED <<account, verified, profiled, holder, purpose, attempts, consumed,
                       mailed, raced, hurried, cut>>
    BY <1>6 DEF Lapse, users, labels, history
  <2>. QED
    BY <2>1 DEF TypeOK, Kept
<1>. QED
  BY <1>1, <1>2, <1>3, <1>4, <1>5, <1>6 DEF Next

(* A code gets its labels from a request that was inserting it, as the one *)
(* with the greatest number.                                               *)
LEMMA Labelled ==
  ASSUME TypeOK, Next
  PROVE  \/ UNCHANGED labels
         \/ \E r \in Requests, c \in Codes :
              /\ request[r].at = "inserting" /\ request'[r].at = "mailing"
              /\ IsNext(c, {d \in Codes : Sent(d)})
              /\ holder' = [holder EXCEPT ![c] = request[r].who]
              /\ purpose' = [purpose EXCEPT ![c] = request[r].on]
<1>1. ASSUME NEW r \in Requests, SendInsert(r)
      PROVE  \E c \in Codes :
               /\ request[r].at = "inserting" /\ request'[r].at = "mailing"
               /\ IsNext(c, {d \in Codes : Sent(d)})
               /\ holder' = [holder EXCEPT ![c] = request[r].who]
               /\ purpose' = [purpose EXCEPT ![c] = request[r].on]
  <2>1. PICK c \in Codes :
          /\ request[r].at = "inserting"
          /\ IsNext(c, {d \in Codes : Sent(d)})
          /\ holder' = [holder EXCEPT ![c] = request[r].who]
          /\ purpose' = [purpose EXCEPT ![c] = request[r].on]
          /\ Becomes(r, Waiting("mailing", request[r].who, request[r].on, c))
    BY <1>1 DEF SendInsert, Inserted
  <2>2. request'[r].at = "mailing"
    BY <2>1, MovedOn DEF Moved, TypeOK
  <2>. QED
    BY <2>1, <2>2
<1>2. ASSUME NEW r \in Requests, Sending(r), ~SendInsert(r)
      PROVE  UNCHANGED labels
  BY <1>2 DEF Sending, OpenWrite, ProfileWrite, SendCheck, SendMail, codes
<1>3. ASSUME NEW r \in Requests, Asking(r) \/ Answering(r) \/ RequestFails(r)
      PROVE  UNCHANGED labels
  BY <1>3 DEF Asking, OpenCheck, RequestOtp, AnswerWrong, AnswerRight, Answering,
     AttemptCount, VerifyConsume, VerifyActivate, ResetWrite, Accept, RequestFails, codes
<1>. QED
  BY <1>1, <1>2, <1>3 DEF Next, SetUserStatus, Lapse, codes

-----------------------------------------------------------------------------
(***************************************************************************)
(* Accounts are whole.  The invariant: a request that is past its first    *)
(* look has an account to work for, one that accepts a code has proof that *)
(* the code was mailed, and a code belongs to an account.                  *)
(***************************************************************************)
Vouched(r) ==
  /\ request[r].at \notin {"idle", "opening"} => account[request[r].who] # "NONE"
  /\ request[r].at \in {"consuming", "activating", "resetting"} => mailed[request[r].val]
  /\ request[r].at = "activating" =>
       request[r].on = "REGISTER" /\ consumed[request[r].val]
  /\ request[r].at = "resetting" => request[r].on = "PASSWORD_RESET"

WholeInv ==
  /\ \A c \in Codes : Sent(c) => account[holder[c]] # "NONE"
  /\ \A r \in Requests : Vouched(r)

LEMMA WholeStep ==
  ASSUME TypeOK, WholeInv, Next
  PROVE  WholeInv'
<1>0. TypeOK' /\ Kept
  BY TypeNext, NothingTakenBack
<1>1. ASSUME NEW r \in Requests
      PROVE  /\ request'[r].at # "idle" => request'[r].who \in Emails
             /\ request'[r].at \in {"counting", "consuming", "activating", "resetting"} =>
                  request'[r].val \in Codes
  BY <1>0, IdleIs DEF TypeOK, AboutACode
<1>2. ASSUME NEW r \in Requests, request'[r] = request[r]
      PROVE  Vouched(r)'
  <2>1. Vouched(r)
    BY DEF WholeInv
  <2>2. /\ request[r].at # "idle" => request[r].who \in Emails
        /\ request[r].at \in {"consuming", "activating", "resetting"} =>
             request[r].val \in Codes
    BY StageIs DEF AboutACode
  <2>. QED
    BY <1>0, <1>2, <2>1, <2>2 DEF Vouched, Kept
<1>3. ASSUME NEW r \in Requests, Goes(r)
      PROVE  Vouched(r)'
  <2>0. Vouched(r)
    BY DEF WholeInv
  <2>1. request[r].at # "idle" => request[r].who \in Emails
    BY StageIs
  <2>2. CASE request'[r] = Idle
    BY <2>2, IdleIs DEF Vouched
  <2>3. CASE request'[r].at \in {"opening", "profiling"}
    BY <1>3, <2>3, IdleIs DEF Vouched, Goes
  <2>4. CASE request'[r].at \in {"throttling", "inserting", "mailing"}
    BY <1>0, <1>1, <1>3, <2>0, <2>1, <2>4, IdleIs DEF Vouched, Goes, Same, Kept
  <2>5. CASE request'[r].at = "activating"
    <3>1. request[r].val \in Codes
      BY <1>3, <2>5, IdleIs, StageIs DEF Goes, AboutACode
    <3>. QED
      BY <1>0, <1>3, <2>0, <2>1, <2>5, <3>1, IdleIs DEF Vouched, Goes, Same, Kept
  <2>6. CASE request'[r].at \in {"counting", "consuming", "resetting"}
    <3> DEFINE q == request'[r]
    <3>1. /\ Latest(q.val, q.who, q.on)
          /\ q.at # "counting" => mailed[q.val]
          /\ q.at = "resetting" => q.on = "PASSWORD_RESET"
      BY <1>3, <2>6, IdleIs DEF Goes
    <3>2. q.who \in Emails /\ q.val \in Codes /\ holder[q.val] = q.who
      BY <1>1, <2>6, <3>1 DEF Latest, IsLatest, Of
    <3>3. account[q.who] # "NONE"
      BY <3>2, NoneApart DEF WholeInv, Sent
    <3>. QED
      BY <1>0, <2>6, <3>1, <3>2, <3>3 DEF Vouched, Kept
  <2>. QED
    BY <1>3, <2>2, <2>3, <2>4, <2>5, <2>6 DEF Goes
<1>4. ASSUME NEW r \in Requests
      PROVE  Vouched(r)'
  BY <1>2, <1>3, OneGoes
<1>5. ASSUME NEW c \in Codes, Sent(c)'
      PROVE  account'[holder'[c]] # "NONE"
  <2>1. CASE Sent(c)
    <3>1. holder'[c] = holder[c] /\ holder[c] \in Emails /\ account[holder[c]] # "NONE"
      BY <1>0, <2>1 DEF Kept, LabelsStay, WholeInv, Sent, TypeOK
    <3>. QED
      BY <1>0, <3>1 DEF Kept
  <2>2. CASE ~Sent(c)
    <3>1. PICK r \in Requests :
            request[r].at = "inserting" /\ holder'[c] = request[r].who
      BY <1>5, <2>2, Labelled DEF Sent, labels, TypeOK
    <3>2. request[r].who \in Emails /\ account[request[r].who] # "NONE"
      BY <3>1, StageIs DEF WholeInv, Vouched
    <3>. QED
      BY <1>0, <3>1, <3>2 DEF Kept
  <2>. QED
    BY <2>1, <2>2
<1>. QED
  BY <1>4, <1>5 DEF WholeInv

LEMMA WholeInit == Init => WholeInv
BY IdleIs DEF Init, WholeInv, Vouched, Sent, NoneServed

LEMMA WholeStutter == WholeInv /\ UNCHANGED vars => WholeInv'
BY DEF WholeInv, Vouched, Sent, vars, users, codes, labels

THEOREM Whole == Spec => []WholeInv
<1>1. TypeOK /\ WholeInv /\ [Next]_vars => WholeInv'
  BY WholeStep, WholeStutter
<1>. QED
  BY <1>1, WholeInit, Typing, PTL DEF Spec

(* An address is verified by a request that accepts a code of its own.     *)
LEMMA Verifying ==
  ASSUME TypeOK, Next, NEW e \in Emails, ~verified[e], verified'[e]
  PROVE  \E r \in Requests :
           /\ request[r].who = e
           /\ \/ request[r].at = "activating"
              \/ request[r].at = "resetting" /\ consumed'[request[r].val]
<1>1. PICK r \in Requests : Answering(r)
  BY DEF Next, Asking, OpenCheck, RequestOtp, AnswerWrong, AnswerRight, Sending, OpenWrite,
     ProfileWrite, SendCheck, SendInsert, SendMail, RequestFails, SetUserStatus, Lapse, users
<1>2. VerifyActivate(r) \/ ResetWrite(r)
  BY <1>1 DEF Answering, AttemptCount, VerifyConsume, users
<1>3. verified' = [verified EXCEPT ![request[r].who] = TRUE]
  BY <1>2 DEF VerifyActivate, ResetWrite, Activated
<1>4. request[r].who = e
  BY <1>3 DEF TypeOK
<1>5. CASE VerifyActivate(r)
  BY <1>4, <1>5 DEF VerifyActivate
<1>6. CASE ResetWrite(r)
  <2>1. request[r].at = "resetting" /\ consumed' = [consumed EXCEPT ![request[r].val] = TRUE]
    BY <1>6 DEF ResetWrite, Accept, Consumed
  <2>2. request[r].val \in Codes
    BY <2>1, StageIs DEF AboutACode
  <2>. QED
    BY <1>4, <2>1, <2>2 DEF TypeOK
<1>. QED
  BY <1>2, <1>5, <1>6

LEMMA MailStep ==
  ASSUME TypeOK, WholeInv, VerifiedByMail, Next
  PROVE  VerifiedByMail'
<1> SUFFICES ASSUME NEW e \in Emails, verified'[e]
             PROVE  \E c \in Codes :
                      /\ holder'[c] = e /\ mailed'[c] /\ consumed'[c]
                      /\ purpose'[c] \in {"REGISTER", "PASSWORD_RESET"}
  BY DEF VerifiedByMail
<1>0. Kept
  BY NothingTakenBack
<1>1. ASSUME NEW c \in Codes, holder[c] = e, mailed[c], consumed'[c],
             purpose[c] \in {"REGISTER", "PASSWORD_RESET"}
      PROVE  /\ holder'[c] = e /\ mailed'[c] /\ consumed'[c]
             /\ purpose'[c] \in {"REGISTER", "PASSWORD_RESET"}
  BY <1>0, <1>1, NoneApart DEF Kept, LabelsStay
<1>2. CASE verified[e]
  <2>1. PICK c \in Codes :
          /\ holder[c] = e /\ mailed[c] /\ consumed[c]
          /\ purpose[c] \in {"REGISTER", "PASSWORD_RESET"}
    BY <1>2 DEF VerifiedByMail
  <2>2. consumed'[c]
    BY <1>0, <2>1 DEF Kept
  <2>. QED
    BY <1>1, <2>1, <2>2
<1>3. CASE ~verified[e]
  <2>1. PICK r \in Requests :
          /\ request[r].who = e
          /\ \/ request[r].at = "activating"
             \/ request[r].at = "resetting" /\ consumed'[request[r].val]
    BY <1>3, Verifying
  <2> DEFINE c == request[r].val
  <2>2. c \in Codes /\ holder[c] = e /\ purpose[c] = request[r].on
    BY <2>1, StageIs DEF AboutACode
  <2>3. /\ mailed[c] /\ consumed'[c]
        /\ request[r].on \in {"REGISTER", "PASSWORD_RESET"}
    BY <1>0, <2>1, <2>2 DEF WholeInv, Vouched, Kept
  <2>. QED
    BY <1>1, <2>2, <2>3
<1>. QED
  BY <1>2, <1>3

(* An opening that is given up between its two inserts is cut short.       *)
LEMMA Abandoned ==
  ASSUME TypeOK, Next, NEW r \in Requests,
         request[r].at = "profiling", request'[r] = Idle
  PROVE  request[r].who \in cut'
<1>1. ASSUME NEW s \in Requests, s # r, NEW q, Becomes(s, q)
      PROVE  FALSE
  BY <1>1, IdleIs DEF Becomes, TypeOK
<1>2. request' # request
  BY IdleIs
<1>3. PICK s \in Requests : Asking(s) \/ Sending(s) \/ Answering(s) \/ RequestFails(s)
  BY <1>2 DEF Next, SetUserStatus, Lapse
<1>4. \E q : Becomes(s, q)
  BY <1>3 DEF Asking, OpenCheck, RequestOtp, AnswerWrong, AnswerRight, Sending, OpenWrite,
     ProfileWrite, SendCheck, SendInsert, SendMail, Answering, AttemptCount, VerifyConsume,
     VerifyActivate, ResetWrite, RequestFails, Ends
<1>5. s = r
  BY <1>1, <1>4
<1>6. RequestFails(r) \/ ProfileWrite(r)
  BY <1>3, <1>5, IdleIs DEF Asking, OpenCheck, RequestOtp, AnswerWrong, AnswerRight, Starts,
     Sending, OpenWrite, SendCheck, SendInsert, SendMail, Answering, AttemptCount,
     VerifyConsume, VerifyActivate, ResetWrite
<1>7. ~ProfileWrite(r)
  BY MovedOn, IdleIs DEF ProfileWrite, Moved, TypeOK
<1>. QED
  BY <1>6, <1>7 DEF RequestFails

LEMMA ProfileStep ==
  ASSUME TypeOK, WholeInv, ProfiledUnlessCut, Next
  PROVE  ProfiledUnlessCut'
<1> SUFFICES ASSUME NEW e \in Emails, account'[e] # "NONE"
             PROVE  \/ profiled'[e]
                    \/ e \in cut'
                    \/ \E r \in Requests : request'[r].at = "profiling" /\ request'[r].who = e
  BY DEF ProfiledUnlessCut
<1>0. Kept
  BY NothingTakenBack
<1>1. CASE account[e] = "NONE"
  <2>1. PICK r \in Requests : Sending(r) \/ Answering(r)
    BY <1>1 DEF Next, Asking, OpenCheck, RequestOtp, AnswerWrong, AnswerRight,
       RequestFails, SetUserStatus, Lapse, users, TypeOK
  <2>2. CASE Sending(r)
    <3>1. /\ request[r].at = "opening"
          /\ account' = [account EXCEPT ![request[r].who] = "PENDING"]
          /\ Becomes(r, Waiting("profiling", request[r].who, "REGISTER", None))
      BY <1>1, <2>2 DEF Sending, OpenWrite, ProfileWrite, SendCheck, SendInsert, SendMail,
         users
    <3>2. request[r].who = e
      BY <1>1, <3>1 DEF TypeOK
    <3>3. request'[r].at = "profiling" /\ request'[r].who = e
      BY <3>1, <3>2, MovedOn DEF Moved, TypeOK
    <3>. QED
      BY <3>3
  <2>3. CASE Answering(r)
    <3>1. /\ request[r].at \in {"activating", "resetting"}
          /\ account' = [account EXCEPT ![request[r].who] = "ACTIVE"]
      BY <1>1, <2>3 DEF Answering, AttemptCount, VerifyConsume, VerifyActivate, ResetWrite,
         Activated, users
    <3>2. account[request[r].who] # "NONE"
      BY <3>1 DEF WholeInv, Vouched
    <3>. QED
      BY <1>1, <3>1, <3>2 DEF TypeOK
  <2>. QED
    BY <2>1, <2>2, <2>3
<1>2. CASE profiled[e] \/ e \in cut
  BY <1>0, <1>2 DEF Kept
<1>3. ASSUME NEW r \in Requests, request[r].at = "profiling", request[r].who = e
      PROVE  \/ profiled'[e]
             \/ e \in cut'
             \/ request'[r].at = "profiling" /\ request'[r].who = e
  <2>1. CASE request'[r] = request[r]
    BY <1>3, <2>1
  <2>2. CASE request'[r] = Idle
    BY <1>3, <2>2, Abandoned
  <2>3. CASE Goes(r) /\ request'[r] # Idle
    BY <1>3, <2>3, IdleIs DEF Goes, Same
  <2>. QED
    BY <2>1, <2>2, <2>3, OneGoes
<1>. QED
  BY <1>1, <1>2, <1>3 DEF ProfiledUnlessCut

LEMMA WholeAtFirst == Init => VerifiedByMail /\ ProfiledUnlessCut
BY DEF Init, VerifiedByMail, ProfiledUnlessCut

LEMMA MailStutter == VerifiedByMail /\ UNCHANGED vars => VerifiedByMail'
BY DEF VerifiedByMail, vars, users, codes, labels

LEMMA ProfileStutter == ProfiledUnlessCut /\ UNCHANGED vars => ProfiledUnlessCut'
BY DEF ProfiledUnlessCut, vars, users, history

(* An account is verified only by a code that was mailed to its address,   *)
(* and has its profile unless the process that opened it was cut short     *)
(* between the two inserts.                                                *)
THEOREM AccountsWhole == Spec => []AccountsAreWhole
<1>1. TypeOK /\ WholeInv /\ VerifiedByMail /\ [Next]_vars => VerifiedByMail'
  BY MailStep, MailStutter
<1>2. TypeOK /\ WholeInv /\ ProfiledUnlessCut /\ [Next]_vars => ProfiledUnlessCut'
  BY ProfileStep, ProfileStutter
<1>3. VerifiedByMail /\ ProfiledUnlessCut => AccountsAreWhole
  BY DEF AccountsAreWhole
<1>. QED
  BY <1>1, <1>2, <1>3, WholeAtFirst, Typing, Whole, PTL DEF Spec

-----------------------------------------------------------------------------
(***************************************************************************)
(* Wrong answers.  The invariant counts with a code's attempts those that  *)
(* have passed the look at the limit and are still to be counted.          *)
(***************************************************************************)
Counting(c) == {r \in Requests : request[r].at = "counting" /\ request[r].val = c}

CountInv ==
  \A c \in Codes :
    attempts[c] + Cardinality(Counting(c)) < AttemptLimit + Cardinality(Requests)

LEMMA CountingIs ==
  ASSUME NEW c
  PROVE  /\ IsFiniteSet(Counting(c)) /\ Cardinality(Counting(c)) \in Nat
         /\ Cardinality(Requests) \in Nat
         /\ Cardinality(Counting(c)) <= Cardinality(Requests)
BY RequestsAssumption, FS_Subset, FS_CardinalityType DEF Counting

LEMMA CountingWillBe ==
  ASSUME NEW c
  PROVE  /\ IsFiniteSet(Counting(c)') /\ Cardinality(Counting(c)') \in Nat
         /\ Cardinality(Counting(c)') <= Cardinality(Requests)
BY RequestsAssumption, FS_Subset, FS_CardinalityType DEF Counting

(* An attempt is counted by a request that ends with it.                   *)
LEMMA Counted ==
  ASSUME TypeOK, Next
  PROVE  \/ attempts' = attempts
         \/ \E r \in Requests :
              /\ request[r].at = "counting"
              /\ attempts' = [attempts EXCEPT ![request[r].val] = attempts[request[r].val] + 1]
              /\ request'[r] = Idle
              /\ \A s \in Requests \ {r} : request'[s] = request[s]
<1>1. ASSUME NEW r \in Requests, AttemptCount(r)
      PROVE  /\ request[r].at = "counting"
             /\ attempts' = [attempts EXCEPT ![request[r].val] = attempts[request[r].val] + 1]
             /\ request'[r] = Idle
             /\ \A s \in Requests \ {r} : request'[s] = request[s]
  BY <1>1, Ended DEF AttemptCount, Moved, TypeOK
<1>2. ASSUME NEW r \in Requests,
             Asking(r) \/ Sending(r) \/ Answering(r) \/ RequestFails(r), ~AttemptCount(r)
      PROVE  attempts' = attempts
  BY <1>2 DEF Asking, OpenCheck, RequestOtp, AnswerWrong, AnswerRight, Sending, OpenWrite,
     ProfileWrite, SendCheck, SendInsert, SendMail, Answering, VerifyConsume, VerifyActivate,
     ResetWrite, Accept, RequestFails, codes
<1>. QED
  BY <1>1, <1>2 DEF Next, SetUserStatus, Lapse, codes

LEMMA CountStep ==
  ASSUME TypeOK, CountInv, Next
  PROVE  CountInv'
<1> SUFFICES ASSUME NEW c \in Codes
             PROVE  attempts'[c] + Cardinality(Counting(c)')
                      < AttemptLimit + Cardinality(Requests)
  BY DEF CountInv
<1>0. /\ attempts[c] \in Nat /\ AttemptLimit \in Nat
      /\ attempts[c] + Cardinality(Counting(c)) < AttemptLimit + Cardinality(Requests)
  BY LimitAssumption DEF TypeOK, CountInv
<1>1. ASSUME attempts'[c] = attempts[c], Counting(c)' \subseteq Counting(c)
      PROVE  attempts'[c] + Cardinality(Counting(c)')
               < AttemptLimit + Cardinality(Requests)
  <2>1. Cardinality(Counting(c)') <= Cardinality(Counting(c))
    BY <1>1, CountingIs, FS_Subset
  <2>. QED
    BY <1>0, <1>1, <2>1, CountingIs, CountingWillBe
<1>2. ASSUME attempts'[c] = attempts[c], attempts[c] < AttemptLimit
      PROVE  attempts'[c] + Cardinality(Counting(c)')
               < AttemptLimit + Cardinality(Requests)
  BY <1>0, <1>2, CountingIs, CountingWillBe
<1>3. CASE attempts' = attempts
  <2>1. CASE request' = request
    BY <1>1, <1>3, <2>1 DEF Counting
  <2>2. ASSUME NEW r \in Requests, Goes(r),
               \A s \in Requests \ {r} : request'[s] = request[s]
        PROVE  attempts'[c] + Cardinality(Counting(c)')
                 < AttemptLimit + Cardinality(Requests)
    <3>1. CASE request'[r].at = "counting" /\ request'[r].val = c
      <4>1. MayTry(c)
        BY <2>2, <3>1, IdleIs DEF Goes
      <4>. QED
        BY <1>2, <1>3, <4>1 DEF MayTry
    <3>2. CASE ~(request'[r].at = "counting" /\ request'[r].val = c)
      <4>1. Counting(c)' \subseteq Counting(c)
        BY <2>2, <3>2 DEF Counting
      <4>. QED
        BY <1>1, <1>3, <4>1
    <3>. QED
      BY <3>1, <3>2
  <2>. QED
    BY <2>1, <2>2, OneGoes
<1>4. ASSUME NEW r \in Requests,
             request[r].at = "counting",
             attempts' = [attempts EXCEPT ![request[r].val] = attempts[request[r].val] + 1],
             request'[r] = Idle,
             \A s \in Requests \ {r} : request'[s] = request[s]
      PROVE  attempts'[c] + Cardinality(Counting(c)')
               < AttemptLimit + Cardinality(Requests)
  <2>1. Counting(c)' = Counting(c) \ {r}
    BY <1>4, IdleIs DEF Counting
  <2>2. CASE request[r].val = c
    <3>1. r \in Counting(c)
      BY <1>4, <2>2 DEF Counting
    <3>2. Cardinality(Counting(c)') = Cardinality(Counting(c)) - 1
      BY <2>1, <3>1, CountingIs, FS_RemoveElement
    <3>3. attempts'[c] = attempts[c] + 1
      BY <1>4, <2>2 DEF TypeOK
    <3>. QED
      BY <1>0, <3>2, <3>3, CountingIs
  <2>3. CASE request[r].val # c
    <3>1. attempts'[c] = attempts[c]
      BY <1>4, <2>3 DEF TypeOK
    <3>. QED
      BY <1>1, <2>1, <3>1
  <2>. QED
    BY <2>2, <2>3
<1>. QED
  BY <1>3, <1>4, Counted

LEMMA CountInit == Init => CountInv
<1> SUFFICES ASSUME Init, NEW c \in Codes
             PROVE  attempts[c] + Cardinality(Counting(c))
                      < AttemptLimit + Cardinality(Requests)
  BY DEF CountInv
<1>1. Counting(c) = {} /\ attempts[c] = 0
  BY IdleIs DEF Init, NoneServed, Counting
<1>2. Cardinality(Counting(c)) = 0
  BY <1>1, FS_EmptySet
<1>. QED
  BY <1>1, <1>2, LimitAssumption, CountingIs

LEMMA CountStutter == CountInv /\ UNCHANGED vars => CountInv'
BY DEF CountInv, Counting, vars, codes

LEMMA CountEnough == TypeOK /\ CountInv => AttemptsBounded
<1> SUFFICES ASSUME TypeOK, CountInv, NEW c \in Codes
             PROVE  attempts[c] < AttemptLimit + Cardinality(Requests)
  BY DEF AttemptsBounded
<1>. QED
  BY CountingIs, LimitAssumption DEF CountInv, TypeOK

(* Wrong answers that overlap pass the limit by no more than the requests  *)
(* that were being served with them.                                       *)
THEOREM AttemptsStayBounded == Spec => []AttemptsBounded
<1>1. TypeOK /\ CountInv /\ [Next]_vars => CountInv'
  BY CountStep, CountStutter
<1>. QED
  BY <1>1, CountInit, CountEnough, Typing, PTL DEF Spec

-----------------------------------------------------------------------------
(***************************************************************************)
(* Acceptances.  The invariant: a code no two requests have raced for is   *)
(* unused while it is not consumed, and is being accepted by one request   *)
(* at most, by none once it is consumed.                                   *)
(***************************************************************************)
UsedOnce(c) ==
  /\ ~consumed[c] => uses[c] = 0
  /\ consumed[c] => uses[c] <= 1 /\ \A r \in Requests : ~Accepting(r, c)
  /\ \A r, s \in Requests : Accepting(r, c) /\ Accepting(s, c) => r = s

UseInv == \A c \in Codes : c \notin raced => UsedOnce(c)

(* A code is consumed and its use counted in one step, by a request that   *)
(* was accepting it.                                                       *)
LEMMA Used ==
  ASSUME TypeOK, Next
  PROVE  \/ UNCHANGED <<consumed, uses>>
         \/ \E r \in Requests :
              /\ Accepting(r, request[r].val) /\ request[r].val \in Codes
              /\ consumed' = [consumed EXCEPT ![request[r].val] = TRUE]
              /\ uses' = [uses EXCEPT ![request[r].val] = uses[request[r].val] + 1]
              /\ request'[r].at \in {"idle", "activating"}
              /\ \A s \in Requests \ {r} : request'[s] = request[s]
<1>1. ASSUME NEW r \in Requests, VerifyConsume(r) \/ ResetWrite(r)
      PROVE  /\ Accepting(r, request[r].val) /\ request[r].val \in Codes
             /\ consumed' = [consumed EXCEPT ![request[r].val] = TRUE]
             /\ uses' = [uses EXCEPT ![request[r].val] = uses[request[r].val] + 1]
             /\ request'[r].at \in {"idle", "activating"}
             /\ \A s \in Requests \ {r} : request'[s] = request[s]
  <2>1. /\ request[r].at \in {"consuming", "resetting"}
        /\ Accept(request[r].val)
        /\ \/ Ends(r)
           \/ Becomes(r, Waiting("activating", request[r].who, request[r].on, request[r].val))
    BY <1>1 DEF VerifyConsume, ResetWrite
  <2>2. request[r].val \in Codes
    BY <2>1, StageIs DEF AboutACode
  <2>3. /\ request'[r].at \in {"idle", "activating"}
        /\ \A s \in Requests \ {r} : request'[s] = request[s]
    BY <2>1, MovedOn, Ended DEF Moved, TypeOK
  <2>. QED
    BY <2>1, <2>2, <2>3 DEF Accept, Consumed, Accepting
<1>2. ASSUME NEW r \in Requests,
             Asking(r) \/ Sending(r) \/ Answering(r) \/ RequestFails(r),
             ~VerifyConsume(r), ~ResetWrite(r)
      PROVE  UNCHANGED <<consumed, uses>>
  BY <1>2 DEF Asking, OpenCheck, RequestOtp, AnswerWrong, AnswerRight, Sending, OpenWrite,
     ProfileWrite, SendCheck, SendInsert, SendMail, Answering, AttemptCount, VerifyActivate,
     RequestFails, codes
<1>. QED
  BY <1>1, <1>2 DEF Next, SetUserStatus, Lapse, codes

(* A request that comes to accept a code found it unconsumed, and where    *)
(* another was accepting it already the two have raced.                    *)
LEMMA Raced ==
  ASSUME TypeOK, Next, NEW r \in Requests, NEW c \in Codes,
         Accepting(r, c)', request'[r] # request[r]
  PROVE  /\ ~consumed[c]
         /\ (\E s \in Requests : Accepting(s, c)) => c \in raced'
<1>1. PICK s \in Requests :
        Goes(s) /\ \A t \in Requests \ {s} : request'[t] = request[t]
  BY OneGoes
<1>2. Goes(r) /\ \A t \in Requests \ {r} : request'[t] = request[t]
  BY <1>1
<1>3. request[r] = Idle /\ Latest(c, request'[r].who, request'[r].on)
  BY <1>2, IdleIs DEF Goes, Accepting
<1>4. ~consumed[c]
  BY <1>3 DEF Latest, IsLatest
<1>5. PICK t \in Requests : Asking(t) \/ Sending(t) \/ Answering(t) \/ RequestFails(t)
  BY <1>2 DEF Next, SetUserStatus, Lapse
<1>6. \E q : Becomes(t, q)
  BY <1>5 DEF Asking, OpenCheck, RequestOtp, AnswerWrong, AnswerRight, Sending, OpenWrite,
     ProfileWrite, SendCheck, SendInsert, SendMail, Answering, AttemptCount, VerifyConsume,
     VerifyActivate, ResetWrite, RequestFails, Ends
<1>7. t = r
  BY <1>6 DEF Becomes, TypeOK
<1>8. Asking(r)
  BY <1>3, <1>5, <1>7, IdleIs DEF Sending, OpenWrite, ProfileWrite, SendCheck, SendInsert,
     SendMail, Answering, AttemptCount, VerifyConsume, VerifyActivate, ResetWrite,
     RequestFails
<1>9. PICK e \in Emails, p \in Purposes :
        OpenCheck(r, e) \/ RequestOtp(r, e, p) \/ AnswerWrong(r, e, p) \/ AnswerRight(r, e, p)
  <2>1. ASSUME NEW e \in Emails, OpenCheck(r, e)
        PROVE  FALSE
    BY <2>1, MovedOn DEF OpenCheck, Moved, Accepting, TypeOK
  <2>. QED
    BY <1>8, <2>1 DEF Asking
<1>10. AnswerRight(r, e, p)
  <2>1. ASSUME NEW at, NEW d, Becomes(r, Waiting(at, e, p, d))
        PROVE  at \in {"consuming", "resetting"}
    <3>1. request'[r].at = at
      BY <2>1, MovedOn DEF Moved, TypeOK
    <3>. QED
      BY <3>1 DEF Accepting
  <2>2. ASSUME OpenCheck(r, e)
        PROVE  FALSE
    BY <2>2, MovedOn DEF OpenCheck, Moved, Accepting, TypeOK
  <2>3. ~RequestOtp(r, e, p)
    BY <2>1 DEF RequestOtp
  <2>4. ~AnswerWrong(r, e, p)
    BY <2>1 DEF AnswerWrong
  <2>. QED
    BY <1>9, <2>2, <2>3, <2>4
<1>11. PICK d \in Codes, at \in {"consuming", "resetting"} :
         /\ raced' = IF \E s2 \in Requests : Accepting(s2, d) THEN raced \cup {d} ELSE raced
         /\ Becomes(r, Waiting(at, e, p, d))
  BY <1>10 DEF AnswerRight
<1>12. d = c
  <2>1. request'[r].val = d
    BY <1>11, MovedOn DEF Moved, TypeOK
  <2>. QED
    BY <2>1 DEF Accepting
<1>. QED
  BY <1>4, <1>11, <1>12

LEMMA UseStep ==
  ASSUME TypeOK, UseInv, Next
  PROVE  UseInv'
<1> SUFFICES ASSUME NEW c \in Codes, c \notin raced'
             PROVE  UsedOnce(c)'
  BY DEF UseInv
<1>0. /\ TypeOK' /\ Kept
      /\ UsedOnce(c) /\ uses[c] \in Nat
  BY TypeNext, NothingTakenBack DEF Kept, UseInv, TypeOK
<1>1. ASSUME NEW r \in Requests, Accepting(r, c)', request'[r] # request[r]
      PROVE  ~consumed[c] /\ \A s \in Requests : ~Accepting(s, c)
  BY <1>1, Raced
<1>2. ASSUME NEW r \in Requests, NEW s \in Requests, Accepting(r, c)', Accepting(s, c)'
      PROVE  r = s
  <2>1. CASE request'[r] = request[r] /\ request'[s] = request[s]
    BY <1>0, <1>2, <2>1 DEF UsedOnce, Accepting
  <2>2. CASE request'[r] # request[r] /\ request'[s] # request[s]
    BY <2>2, OneGoes
  <2>3. CASE request'[r] = request[r] /\ request'[s] # request[s]
    BY <1>1, <1>2, <2>3 DEF Accepting
  <2>4. CASE request'[r] # request[r] /\ request'[s] = request[s]
    BY <1>1, <1>2, <2>4 DEF Accepting
  <2>. QED
    BY <2>1, <2>2, <2>3, <2>4
<1>3. CASE UNCHANGED <<consumed, uses>>
  <2>1. ASSUME consumed[c], NEW r \in Requests, Accepting(r, c)'
        PROVE  FALSE
    <3>1. request'[r] = request[r]
      BY <1>1, <2>1
    <3>. QED
      BY <1>0, <2>1, <3>1 DEF UsedOnce, Accepting
  <2>. QED
    BY <1>0, <1>2, <1>3, <2>1 DEF UsedOnce
<1>4. ASSUME NEW r \in Requests,
             Accepting(r, request[r].val), request[r].val \in Codes,
             consumed' = [consumed EXCEPT ![request[r].val] = TRUE],
             uses' = [uses EXCEPT ![request[r].val] = uses[request[r].val] + 1],
             request'[r].at \in {"idle", "activating"},
             \A s \in Requests \ {r} : request'[s] = request[s]
      PROVE  UsedOnce(c)'
  <2>0. ASSUME NEW s \in Requests, Accepting(s, c)'
        PROVE  s # r /\ Accepting(s, c)
    <3>1. s # r
      BY <1>4, <2>0 DEF Accepting
    <3>. QED
      BY <1>4, <2>0, <3>1 DEF Accepting
  <2>1. CASE request[r].val = c
    <3>1. ~consumed[c] /\ uses[c] = 0
      BY <1>0, <1>4, <2>1 DEF UsedOnce
    <3>2. consumed'[c] /\ uses'[c] = 1
      BY <1>4, <2>1, <3>1 DEF TypeOK
    <3>3. \A s \in Requests : ~Accepting(s, c)'
      BY <1>0, <1>4, <2>0, <2>1 DEF UsedOnce
    <3>. QED
      BY <3>2, <3>3 DEF UsedOnce
  <2>2. CASE request[r].val # c
    <3>1. consumed'[c] = consumed[c] /\ uses'[c] = uses[c]
      BY <1>4, <2>2 DEF TypeOK
    <3>. QED
      BY <1>0, <1>2, <2>0, <3>1 DEF UsedOnce
  <2>. QED
    BY <2>1, <2>2
<1>. QED
  BY <1>3, <1>4, Used

LEMMA UseInit == Init => UseInv
BY IdleIs DEF Init, NoneServed, UseInv, UsedOnce, Accepting

LEMMA UseStutter == UseInv /\ UNCHANGED vars => UseInv'
BY DEF UseInv, UsedOnce, Accepting, vars, codes, history

(* Where requests race for a code, each use is one of a request that found *)
(* the code unconsumed, and nobody finds it so after the first.            *)
Acceptors(c) == {r \in Requests : Accepting(r, c)}

SpendInv ==
  \A c \in Codes :
    /\ ~consumed[c] => uses[c] = 0
    /\ uses[c] + Cardinality(Acceptors(c)) <= Cardinality(Requests)

LEMMA AcceptorsAre ==
  ASSUME NEW c
  PROVE  /\ IsFiniteSet(Acceptors(c)) /\ Cardinality(Acceptors(c)) \in Nat
         /\ Cardinality(Requests) \in Nat
         /\ Cardinality(Acceptors(c)) <= Cardinality(Requests)
BY RequestsAssumption, FS_Subset, FS_CardinalityType DEF Acceptors

LEMMA AcceptorsWillBe ==
  ASSUME NEW c
  PROVE  /\ IsFiniteSet(Acceptors(c)') /\ Cardinality(Acceptors(c)') \in Nat
         /\ Cardinality(Acceptors(c)') <= Cardinality(Requests)
BY RequestsAssumption, FS_Subset, FS_CardinalityType DEF Acceptors

LEMMA SpendStep ==
  ASSUME TypeOK, SpendInv, Next
  PROVE  SpendInv'
<1> SUFFICES ASSUME NEW c \in Codes
             PROVE  /\ ~consumed'[c] => uses'[c] = 0
                    /\ uses'[c] + Cardinality(Acceptors(c)') <= Cardinality(Requests)
  BY DEF SpendInv
<1>0. /\ uses[c] \in Nat /\ (~consumed[c] => uses[c] = 0)
      /\ uses[c] + Cardinality(Acceptors(c)) <= Cardinality(Requests)
  BY DEF TypeOK, SpendInv
<1>1. ASSUME uses'[c] = uses[c], Acceptors(c)' \subseteq Acceptors(c)
      PROVE  uses'[c] + Cardinality(Acceptors(c)') <= Cardinality(Requests)
  <2>1. Cardinality(Acceptors(c)') <= Cardinality(Acceptors(c))
    BY <1>1, AcceptorsAre, FS_Subset
  <2>. QED
    BY <1>0, <1>1, <2>1, AcceptorsAre, AcceptorsWillBe
<1>2. CASE UNCHANGED <<consumed, uses>>
  <2>1. CASE \E r \in Requests : Accepting(r, c)' /\ request'[r] # request[r]
    <3>1. uses'[c] = 0
      BY <1>0, <1>2, <2>1, Raced
    <3>. QED
      BY <1>0, <1>2, <3>1, AcceptorsWillBe
  <2>2. CASE \A r \in Requests : Accepting(r, c)' => request'[r] = request[r]
    <3>1. Acceptors(c)' \subseteq Acceptors(c)
      BY <2>2 DEF Acceptors, Accepting
    <3>. QED
      BY <1>0, <1>1, <1>2, <3>1
  <2>. QED
    BY <2>1, <2>2
<1>3. ASSUME NEW r \in Requests,
             Accepting(r, request[r].val), request[r].val \in Codes,
             consumed' = [consumed EXCEPT ![request[r].val] = TRUE],
             uses' = [uses EXCEPT ![request[r].val] = uses[request[r].val] + 1],
             request'[r].at \in {"idle", "activating"},
             \A s \in Requests \ {r} : request'[s] = request[s]
      PROVE  /\ ~consumed'[c] => uses'[c] = 0
             /\ uses'[c] + Cardinality(Acceptors(c)') <= Cardinality(Requests)
  <2>1. ~Accepting(r, c)'
    BY <1>3 DEF Accepting
  <2>2. Acceptors(c)' = Acceptors(c) \ {r}
    BY <1>3, <2>1 DEF Acceptors, Accepting
  <2>3. CASE request[r].val = c
    <3>1. r \in Acceptors(c)
      BY <1>3, <2>3 DEF Acceptors
    <3>2. Cardinality(Acceptors(c)') = Cardinality(Acceptors(c)) - 1
      BY <2>2, <3>1, AcceptorsAre, FS_RemoveElement
    <3>3. consumed'[c] /\ uses'[c] = uses[c] + 1
      BY <1>3, <2>3 DEF TypeOK
    <3>. QED
      BY <1>0, <3>2, <3>3, AcceptorsAre
  <2>4. CASE request[r].val # c
    <3>1. consumed'[c] = consumed[c] /\ uses'[c] = uses[c]
      BY <1>3, <2>4 DEF TypeOK
    <3>. QED
      BY <1>0, <1>1, <2>2, <3>1
  <2>. QED
    BY <2>3, <2>4
<1>. QED
  BY <1>2, <1>3, Used

LEMMA SpendInit == Init => SpendInv
<1> SUFFICES ASSUME Init, NEW c \in Codes
             PROVE  uses[c] = 0 /\ uses[c] + Cardinality(Acceptors(c)) <= Cardinality(Requests)
  BY DEF SpendInv
<1>. QED
  BY AcceptorsAre DEF Init

LEMMA SpendStutter == SpendInv /\ UNCHANGED vars => SpendInv'
BY DEF SpendInv, Acceptors, Accepting, vars, codes

LEMMA UseEnough == TypeOK /\ UseInv /\ SpendInv => AcceptedOnce
<1> SUFFICES ASSUME TypeOK, UseInv, SpendInv, NEW c \in Codes
             PROVE  uses[c] <= IF c \in raced THEN Cardinality(Requests) ELSE 1
  BY DEF AcceptedOnce
<1>1. uses[c] <= Cardinality(Requests)
  BY AcceptorsAre DEF SpendInv, TypeOK
<1>. QED
  BY <1>1 DEF UseInv, UsedOnce, TypeOK

-----------------------------------------------------------------------------
(***************************************************************************)
(* One code a minute.  The invariant for an address and purpose no two     *)
(* requests were sending to at once: one request is past the look at       *)
(* recent codes, none while a recent code is unused, and such a code is    *)
(* the newest of them.                                                     *)
(***************************************************************************)
SendsTo(r, e, p) == request[r].at = "inserting" /\ request[r].who = e /\ request[r].on = p
Usable(c, e, p) == Of(c, e, p) /\ age[c] = "recent" /\ ~consumed[c]

Unhurried(e, p) ==
  /\ \A r, s \in Requests : SendsTo(r, e, p) /\ SendsTo(s, e, p) => r = s
  /\ \A r \in Requests, c \in Codes : SendsTo(r, e, p) => ~Usable(c, e, p)
  /\ \A c, d \in Codes : Usable(c, e, p) /\ Of(d, e, p) => d <= c

SendInv ==
  \A e \in Emails, p \in OTP_PURPOSES : <<e, p>> \notin hurried => Unhurried(e, p)

(* A request that comes to send found no code of the last minute unused,   *)
(* and where another was sending already the two have hurried.             *)
LEMMA Hurried ==
  ASSUME TypeOK, Next, NEW r \in Requests, NEW e \in Emails, NEW p \in OTP_PURPOSES,
         SendsTo(r, e, p)', request'[r] # request[r]
  PROVE  /\ ~Throttled(e, p)
         /\ (\E s \in Requests \ {r} : SendsTo(s, e, p)) => <<e, p>> \in hurried'
         /\ UNCHANGED labels
<1>1. PICK s \in Requests :
        Goes(s) /\ \A t \in Requests \ {s} : request'[t] = request[t]
  BY OneGoes
<1>2. Goes(r)
  BY <1>1
<1>3. request[r].at = "throttling" /\ Same(r)
  BY <1>2, IdleIs DEF Goes, SendsTo
<1>4. request[r].who = e /\ request[r].on = p
  BY <1>3 DEF Same, SendsTo
<1>5. PICK t \in Requests : Asking(t) \/ Sending(t) \/ Answering(t) \/ RequestFails(t)
  BY <1>2 DEF Next, SetUserStatus, Lapse
<1>6. \E q : Becomes(t, q)
  BY <1>5 DEF Asking, OpenCheck, RequestOtp, AnswerWrong, AnswerRight, Sending, OpenWrite,
     ProfileWrite, SendCheck, SendInsert, SendMail, Answering, AttemptCount, VerifyConsume,
     VerifyActivate, ResetWrite, RequestFails, Ends
<1>7. t = r
  BY <1>6 DEF Becomes, TypeOK
<1>8. ~Ends(r)
  BY Ended, IdleIs DEF SendsTo, TypeOK
<1>9. SendCheck(r)
  BY <1>3, <1>5, <1>7, <1>8, IdleIs DEF Asking, OpenCheck, RequestOtp, AnswerWrong,
     AnswerRight, Starts, Sending, OpenWrite, ProfileWrite, SendInsert, SendMail, Answering,
     AttemptCount, VerifyConsume, VerifyActivate, ResetWrite, RequestFails
<1>. QED
  BY <1>4, <1>8, <1>9 DEF SendCheck, SendsTo, codes

LEMMA SendStep ==
  ASSUME TypeOK, SendInv, Next
  PROVE  SendInv'
<1> SUFFICES ASSUME NEW e \in Emails, NEW p \in OTP_PURPOSES, <<e, p>> \notin hurried'
             PROVE  Unhurried(e, p)'
  BY DEF SendInv
<1>0. /\ Kept /\ TypeOK'
      /\ Unhurried(e, p)
  BY TypeNext, NothingTakenBack DEF Kept, SendInv
<1>1. ASSUME NEW r \in Requests, SendsTo(r, e, p)', request'[r] # request[r]
      PROVE  /\ UNCHANGED labels
             /\ \A s \in Requests \ {r} : ~SendsTo(s, e, p)
             /\ \A c \in Codes : ~Usable(c, e, p)
  <2>1. /\ UNCHANGED labels
        /\ ~Throttled(e, p)
        /\ \A s \in Requests \ {r} : ~SendsTo(s, e, p)
    BY <1>1, Hurried
  <2>2. ASSUME NEW c \in Codes, Usable(c, e, p)
        PROVE  FALSE
    <3>1. IsLatest(c, {d \in Codes : Of(d, e, p) /\ age[d] = "recent"})
      BY <1>0, <2>2 DEF Unhurried, Usable, IsLatest
    <3>. QED
      BY <2>1, <2>2, <3>1 DEF Throttled, Usable
  <2>. QED
    BY <2>1, <2>2
<1>2. ASSUME NEW c \in Codes, Usable(c, e, p)', Of(c, e, p)
      PROVE  Usable(c, e, p)
  BY <1>0, <1>2 DEF Usable, Kept
<1>3. ASSUME NEW r \in Requests, NEW s \in Requests,
             SendsTo(r, e, p)', SendsTo(s, e, p)'
      PROVE  r = s
  <2>1. CASE request'[r] = request[r] /\ request'[s] = request[s]
    BY <1>0, <1>3, <2>1 DEF Unhurried, SendsTo
  <2>2. CASE request'[r] # request[r] /\ request'[s] # request[s]
    BY <2>2, OneGoes
  <2>3. CASE request'[r] = request[r] /\ request'[s] # request[s]
    BY <1>1, <1>3, <2>3 DEF SendsTo
  <2>4. CASE request'[r] # request[r] /\ request'[s] = request[s]
    BY <1>1, <1>3, <2>4 DEF SendsTo
  <2>. QED
    BY <2>1, <2>2, <2>3, <2>4
<1>4. CASE UNCHANGED labels
  <2>1. \A c \in Codes : Of(c, e, p)' <=> Of(c, e, p)
    BY <1>4 DEF labels, Of
  <2>2. ASSUME NEW r \in Requests, NEW c \in Codes, SendsTo(r, e, p)', Usable(c, e, p)'
        PROVE  FALSE
    <3>1. Usable(c, e, p)
      BY <1>2, <2>1, <2>2 DEF Usable
    <3>2. CASE request'[r] = request[r]
      BY <1>0, <2>2, <3>1, <3>2 DEF Unhurried, SendsTo
    <3>3. CASE request'[r] # request[r]
      BY <1>1, <2>2, <3>1, <3>3
    <3>. QED
      BY <3>2, <3>3
  <2>3. ASSUME NEW c \in Codes, NEW d \in Codes, Usable(c, e, p)', Of(d, e, p)'
        PROVE  d <= c
    <3>1. Usable(c, e, p)
      BY <1>2, <2>1, <2>3 DEF Usable
    <3>2. Of(d, e, p)
      BY <2>1, <2>3
    <3>. QED
      BY <1>0, <3>1, <3>2 DEF Unhurried
  <2>. QED
    BY <1>3, <2>2, <2>3 DEF Unhurried
<1>5. ASSUME NEW r \in Requests, NEW n \in Codes,
             request[r].at = "inserting", request'[r].at = "mailing",
             IsNext(n, {d \in Codes : Sent(d)}),
             holder' = [holder EXCEPT ![n] = request[r].who],
             purpose' = [purpose EXCEPT ![n] = request[r].on]
      PROVE  Unhurried(e, p)'
  <2>1. holder[n] = None /\ \A m \in Codes : holder[m] # None => m < n
    BY <1>5 DEF IsNext, Sent, Codes
  <2>2. /\ holder'[n] = request[r].who /\ purpose'[n] = request[r].on
        /\ \A m \in Codes : m # n => holder'[m] = holder[m] /\ purpose'[m] = purpose[m]
    BY <1>5 DEF TypeOK
  <2>3. \A m \in Codes : Of(m, e, p)' => m = n \/ Of(m, e, p)
    BY <2>2 DEF Of
  <2>4. Of(n, e, p)' => SendsTo(r, e, p)
    BY <1>5, <2>2 DEF Of, SendsTo
  <2>5. ASSUME NEW s \in Requests, SendsTo(s, e, p)'
        PROVE  SendsTo(s, e, p) /\ s # r
    <3>1. s # r
      BY <1>5, <2>5 DEF SendsTo
    <3>2. request'[s] = request[s]
      BY <1>5, <3>1, OneGoes
    <3>. QED
      BY <2>5, <3>1, <3>2 DEF SendsTo
  <2>6. ASSUME NEW s \in Requests, NEW c \in Codes, SendsTo(s, e, p)', Usable(c, e, p)'
        PROVE  FALSE
    <3>1. SendsTo(s, e, p) /\ s # r
      BY <2>5, <2>6
    <3>2. ~Of(n, e, p)'
      BY <1>0, <2>4, <3>1 DEF Unhurried
    <3>3. Of(c, e, p)
      BY <2>3, <2>6, <3>2 DEF Usable
    <3>. QED
      BY <1>0, <1>2, <2>6, <3>1, <3>3 DEF Unhurried
  <2>7. ASSUME NEW c \in Codes, NEW d \in Codes, Usable(c, e, p)', Of(d, e, p)'
        PROVE  d <= c
    <3>1. CASE c = n
      <4>1. d = n \/ holder[d] # None
        BY <2>3, <2>7, NoneApart DEF Of
      <4>. QED
        BY <2>1, <3>1, <4>1, Numbers
    <3>2. CASE c # n
      <4>1. Of(c, e, p) /\ Usable(c, e, p)
        BY <1>2, <2>3, <2>7, <3>2 DEF Usable
      <4>2. ~SendsTo(r, e, p)
        BY <1>0, <4>1 DEF Unhurried
      <4>3. Of(d, e, p)
        BY <2>3, <2>4, <2>7, <4>2
      <4>. QED
        BY <1>0, <4>1, <4>3 DEF Unhurried
    <3>. QED
      BY <3>1, <3>2
  <2>. QED
    BY <1>3, <2>6, <2>7 DEF Unhurried
<1>. QED
  BY <1>4, <1>5, Labelled

LEMMA SendInit == Init => SendInv
BY IdleIs, NoneApart DEF Init, NoneServed, SendInv, Unhurried, SendsTo, Usable, Of

LEMMA SendStutter == SendInv /\ UNCHANGED vars => SendInv'
BY DEF SendInv, Unhurried, SendsTo, Usable, Of, vars, codes, labels, history

LEMMA SendEnough == TypeOK /\ SendInv => OneAMinute
<1> SUFFICES ASSUME TypeOK, SendInv, NEW c \in Codes, NEW d \in Codes,
                    c # d, Sent(c), Of(d, holder[c], purpose[c]),
                    age[c] = "recent", age[d] = "recent", ~consumed[c], ~consumed[d],
                    <<holder[c], purpose[c]>> \notin hurried
             PROVE  FALSE
  BY DEF OneAMinute
<1>1. holder[c] \in Emails /\ purpose[c] \in OTP_PURPOSES
  BY DEF TypeOK, Sent
<1>2. Unhurried(holder[c], purpose[c])
  BY <1>1 DEF SendInv
<1>3. Usable(c, holder[c], purpose[c]) /\ Usable(d, holder[c], purpose[c])
  BY DEF Usable, Of
<1>4. c <= d /\ d <= c
  BY <1>2, <1>3 DEF Unhurried, Usable
<1>. QED
  BY <1>4, Numbers

(* A code is accepted once, or by the requests that overlap with the first *)
(* of them; requests that take turns send one code in a minute.            *)
THEOREM TurnsKept == Spec => []TurnsAreKept
<1>1. TypeOK /\ UseInv /\ [Next]_vars => UseInv'
  BY UseStep, UseStutter
<1>2. TypeOK /\ SendInv /\ [Next]_vars => SendInv'
  BY SendStep, SendStutter
<1>3. TypeOK /\ SpendInv /\ [Next]_vars => SpendInv'
  BY SpendStep, SpendStutter
<1>4. TypeOK /\ UseInv /\ SendInv /\ SpendInv => TurnsAreKept
  BY UseEnough, SendEnough DEF TurnsAreKept
<1>. QED
  BY <1>1, <1>2, <1>3, <1>4, UseInit, SendInit, SpendInit, Typing, PTL DEF Spec

=============================================================================
