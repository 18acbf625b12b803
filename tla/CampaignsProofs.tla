-------------------------- MODULE CampaignsProofs --------------------------
(***************************************************************************)
(* Theorems about Campaigns, for every set of campaigns, of creators and,  *)
(* finite, of requests, for every choice of endpoints and bounds; those of *)
(* MessagingProofs carried over to the module that runs the two together.  *)
(***************************************************************************)
EXTENDS MCCampaigns, SequenceTheorems, FiniteSetTheorems, TLAPS

(***************************************************************************)
(* Requests keep their shape.                                              *)
(***************************************************************************)
LEMMA IdleTyped == Idle \in Request /\ Shaped(Idle) /\ Idle.at = "idle"
BY DEF Idle, Waiting, Request, Stages, Shaped, Writing

(* Every request a handler builds has the shape of a request.              *)
LEMMA WaitingTyped ==
  ASSUME NEW at \in Stages, NEW c \in Campaigns,
         NEW k \in Creators \cup {None}, NEW to \in Words \cup {None},
         NEW n \in Nat, NEW stamp \in BOOLEAN, NEW tell \in SUBSET People,
         at \in Writing \ {"editing", "moving"} => k \in Creators,
         at \in {"moving", "finding"} => to \in CAMPAIGN_STATUSES,
         at = "reviewing" => to \in Decisions,
         at = "judging" => to \in Verdicts,
         at = "telling" => to \in Words
  PROVE  /\ Waiting(at, c, k, to, n, stamp, tell) \in Request
         /\ Shaped(Waiting(at, c, k, to, n, stamp, tell))
<1> DEFINE w == Waiting(at, c, k, to, n, stamp, tell)
<1>1. w \in Request
  BY DEF Waiting, Request
<1>2. w.at = at /\ w.camp = c /\ w.who = k /\ w.to = to
  BY DEF Waiting
<1> HIDE DEF w
<1>3. Shaped(w)
  BY <1>2 DEF Shaped
<1>. QED
  BY <1>1, <1>3 DEF w

LEMMA StageNames ==
  /\ Stages = {"editing", "moving", "inviting", "applying", "looked",
               "withdrawing", "reviewing", "numbering", "submitting", "judging",
               "idle", "finding", "telling"}
  /\ Writing = {"editing", "moving", "inviting", "applying", "looked",
                "withdrawing", "reviewing", "numbering", "submitting", "judging"}
BY DEF Stages, Writing

(* A step of request r that writes no row.                                 *)
LEMMA TypeReadStep ==
  ASSUME TypeOK, NEW r \in Requests, NEW q \in Request, Shaped(q),
         Becomes(r, q), UNCHANGED database
  PROVE  TypeOK'
<1>1. request' \in [Requests -> Request]
  BY DEF TypeOK, Becomes
<1>2. \A s \in Requests : Shaped(request'[s])
  BY DEF TypeOK, Becomes
<1>3. UNCHANGED <<status, publishedAt, completedAt, late, invited, application,
                  submissions, notice>>
  BY DEF database, campaignRows, applicationRows
<1>. QED
  BY <1>1, <1>2, <1>3 DEF TypeOK, Shaped


(* Request r turns to waiting for something else and writes no row.        *)
LEMMA TypeWaitStep ==
  ASSUME TypeOK, NEW r \in Requests,
         NEW at \in Stages, NEW c \in Campaigns,
         NEW k \in Creators \cup {None}, NEW to \in Words \cup {None},
         NEW n \in Nat, NEW stamp \in BOOLEAN,
         at \in Writing \ {"editing", "moving"} => k \in Creators,
         at \in {"moving", "finding"} => to \in CAMPAIGN_STATUSES,
         at = "reviewing" => to \in Decisions,
         at = "judging" => to \in Verdicts,
         at = "telling" => to \in Words,
         Becomes(r, Waiting(at, c, k, to, n, stamp, {})), UNCHANGED database
  PROVE  TypeOK'
<1> DEFINE w == Waiting(at, c, k, to, n, stamp, {})
<1>1. w \in Request /\ Shaped(w)
  BY WaitingTyped
<1>2. Becomes(r, w)
  OBVIOUS
<1> HIDE DEF w
<1>. QED
  BY <1>1, <1>2, TypeReadStep

LEMMA StartingTyped ==
  ASSUME TypeOK, NEW r \in Requests, Starting(r)
  PROVE  TypeOK'
<1>1. ASSUME NEW c \in Campaigns, UpdateCheck(r, c)
      PROVE  TypeOK'
  <2>1. Becomes(r, Waiting("editing", c, None, None, 0, FALSE, {})) /\ UNCHANGED database
    BY <1>1 DEF UpdateCheck
  <2>. QED
    BY <2>1, TypeWaitStep, StageNames
<1>2. ASSUME NEW c \in Campaigns, NEW to \in Moves, TransitionCheck(r, c, to)
      PROVE  TypeOK'
  <2> DEFINE stamp == to = "RECRUITING" /\ ~publishedAt[c]
  <2>1. Becomes(r, Waiting("moving", c, None, to, 0, stamp, {})) /\ UNCHANGED database
    BY <1>2 DEF TransitionCheck
  <2>2. to \in CAMPAIGN_STATUSES /\ to \in Words /\ stamp \in BOOLEAN
    BY MovesAssumption DEF Words
  <2> HIDE DEF stamp
  <2>. QED
    BY <2>1, <2>2, TypeWaitStep, StageNames
<1>3. ASSUME NEW c \in Campaigns, NEW k \in Creators,
             NEW at \in {"inviting", "applying", "withdrawing", "numbering"},
             Becomes(r, Waiting(at, c, k, None, 0, FALSE, {})), UNCHANGED database
      PROVE  TypeOK'
  BY <1>3, TypeWaitStep, StageNames
<1>4. ASSUME NEW c \in Campaigns, NEW k \in Creators, NEW d \in Decisions,
             ReviewCheck(r, c, k, d)
      PROVE  TypeOK'
  <2>1. Becomes(r, Waiting("reviewing", c, k, d, 0, FALSE, {})) /\ UNCHANGED database
    BY <1>4 DEF ReviewCheck
  <2>2. d \in Words
    BY DEF Words
  <2>. QED
    BY <2>1, <2>2, TypeWaitStep, StageNames
<1>5. ASSUME NEW c \in Campaigns, NEW k \in Creators, NEW i \in 1..MaxSubmissions,
             NEW v \in Verdicts, FeedbackCheck(r, c, k, i, v)
      PROVE  TypeOK'
  <2>1. Becomes(r, Waiting("judging", c, k, v, i, FALSE, {})) /\ UNCHANGED database
    BY <1>5 DEF FeedbackCheck
  <2>2. v \in Words /\ i \in Nat
    BY BoundsAssumption DEF Words
  <2>. QED
    BY <2>1, <2>2, TypeWaitStep, StageNames
<1>. QED
  BY <1>1, <1>2, <1>3, <1>4, <1>5
     DEF Starting, InviteCheck, ApplyCheck, WithdrawCheck, SubmitCheck

(* Notifying someone next, or nobody.                                      *)
LEMMA TellingTyped ==
  ASSUME NEW c \in Campaigns, NEW people \in SUBSET People, NEW event \in Words
  PROVE  Telling(c, people, event) \in Request /\ Shaped(Telling(c, people, event))
BY WaitingTyped DEF Telling, Shaped, Writing, Stages

(* A step of request r after which the rows it wrote are still rows.       *)
LEMMA TypeWriteStep ==
  ASSUME TypeOK, NEW r \in Requests, NEW q \in Request, Shaped(q), Becomes(r, q),
         status' \in [Campaigns -> CAMPAIGN_STATUSES \cup {"NONE"}],
         publishedAt' \in [Campaigns -> BOOLEAN],
         completedAt' \in [Campaigns -> BOOLEAN],
         late' \in [Campaigns -> Nat],
         invited' \subseteq Pairs,
         application' \in [Pairs -> APPLICATION_STATUSES \cup {"NONE"}],
         submissions' \in [Pairs -> Seq(SubmissionRow)],
         notice' \in [Campaigns \X People -> Words \cup {None}]
  PROVE  TypeOK'
<1>1. request' \in [Requests -> Request]
  BY DEF TypeOK, Becomes
<1>2. \A s \in Requests : Shaped(request'[s])
  BY DEF TypeOK, Becomes
<1>. QED
  BY <1>1, <1>2 DEF TypeOK, Shaped

(* Judging a submission leaves the list of submissions well-formed.        *)
LEMMA JudgedTyped ==
  ASSUME NEW rows \in Seq(SubmissionRow), NEW n \in Nat, NEW v \in Verdicts
  PROVE  Judged(rows, n, v) \in Seq(SubmissionRow)
<1> DEFINE row == [rows[n] EXCEPT !.status = v]
<1>1. CASE n \in 1..Len(rows)
  <2>1. rows[n] \in SubmissionRow
    BY <1>1, ElementOfSeq
  <2>2. row \in SubmissionRow
    BY <2>1 DEF SubmissionRow
  <2> HIDE DEF row
  <2>3. [rows EXCEPT ![n] = row] \in Seq(SubmissionRow)
    BY <1>1, <2>2, ExceptSeq
  <2>. QED
    BY <2>3 DEF row, Judged
<1>2. CASE n \notin 1..Len(rows)
  <2> HIDE DEF row
  <2>1. rows \in [1..Len(rows) -> SubmissionRow]
    BY LenProperties
  <2>2. [rows EXCEPT ![n] = row] = rows
    BY <1>2, <2>1
  <2>. QED
    BY <2>2 DEF row, Judged
<1>. QED
  BY <1>1, <1>2

LEMMA ContinueTyped ==
  ASSUME TypeOK, NEW r \in Requests, Continue(r) \/ RequestEnds(r)
  PROVE  TypeOK'
<1> DEFINE q == request[r]
<1>0. /\ q \in Request /\ Shaped(q)
      /\ q.at # "idle" => q.camp \in Campaigns
  BY DEF TypeOK, Shaped
<1>1. CASE UpdateWrite(r)
  <2>1. late' \in [Campaigns -> Nat]
    BY <1>0, <1>1 DEF UpdateWrite, TypeOK
  <2>. QED
    BY <1>1, <2>1, IdleTyped, TypeWriteStep DEF UpdateWrite, Ends, TypeOK, applicationRows
<1>2. CASE TransitionWrite(r)
  <2>1. q.at = "moving" /\ q.to \in CAMPAIGN_STATUSES /\ q.stamp \in BOOLEAN
    BY <1>0, <1>2 DEF TransitionWrite, Shaped, Request
  <2>2. \E next \in Request : Shaped(next) /\ Becomes(r, next)
    <3>1. CASE q.to \in {"SHORTLISTING", "PRODUCTION"}
      <4>1. Becomes(r, Waiting("finding", q.camp, None, q.to, 0, FALSE, {}))
        BY <1>2, <3>1 DEF TransitionWrite
      <4>. QED
        BY <1>0, <2>1, <4>1, WaitingTyped DEF Shaped, Writing, Stages, Words
    <3>2. CASE q.to \notin {"SHORTLISTING", "PRODUCTION"}
      BY <1>2, <3>2, IdleTyped DEF TransitionWrite, Ends
    <3>. QED
      BY <3>1, <3>2
  <2>3. /\ status' \in [Campaigns -> CAMPAIGN_STATUSES \cup {"NONE"}]
        /\ publishedAt' \in [Campaigns -> BOOLEAN]
        /\ completedAt' \in [Campaigns -> BOOLEAN]
        /\ late' \in [Campaigns -> Nat]
        /\ UNCHANGED <<invited, application, submissions, notice>>
    BY <1>2, <2>1 DEF TransitionWrite, TypeOK, applicationRows
  <2>. QED
    BY <2>2, <2>3, TypeWriteStep DEF TypeOK
<1>3. CASE TransitionFind(r)
  <2>1. q.at = "finding" /\ q.to \in Words /\ Concerned(q.camp, q.to) \in SUBSET People
    BY <1>0, <1>3 DEF TransitionFind, Shaped, Words, Concerned, People
  <2>. QED
    BY <1>0, <1>3, <2>1, TellingTyped, TypeReadStep DEF TransitionFind
<1>4. CASE InviteWrite(r)
  <2>1. /\ q.at = "inviting" /\ q.who \in Creators /\ "INVITED" \in Words
        /\ {q.who} \in SUBSET People
    BY <1>0, <1>4 DEF InviteWrite, Shaped, Writing, Words, People
  <2>2. target(r) \in Pairs
    BY <1>0, <2>1 DEF target, Pairs
  <2>3. invited' \subseteq Pairs
    BY <1>4, <2>2 DEF InviteWrite, TypeOK
  <2>. QED
    BY <1>0, <1>4, <2>1, <2>3, TellingTyped, TypeWriteStep
       DEF InviteWrite, TypeOK, campaignRows, applicationRows
<1>5. CASE ApplyLookup(r)
  <2>1. q.at = "applying"
    BY <1>5 DEF ApplyLookup
  <2>2. [q EXCEPT !.at = "looked"] \in Request
    BY <1>0 DEF Request, Stages, Writing
  <2>3. Shaped([q EXCEPT !.at = "looked"])
    BY <1>0, <2>1 DEF Shaped, Writing, Request
  <2>. QED
    BY <1>5, <2>2, <2>3, TypeReadStep DEF ApplyLookup
<1>6. CASE ApplyWrite(r)
  <2>1. /\ q.at = "looked" /\ "APPLIED" \in Words /\ {Brand} \in SUBSET People
    BY <1>6 DEF ApplyWrite, Words, People
  <2>2. application' \in [Pairs -> APPLICATION_STATUSES \cup {"NONE"}]
    BY <1>6 DEF ApplyWrite, TypeOK, APPLICATION_STATUSES
  <2>. QED
    BY <1>0, <1>6, <2>1, <2>2, TellingTyped, TypeWriteStep
       DEF ApplyWrite, TypeOK, campaignRows
<1>7. CASE WithdrawWrite(r)
  BY <1>7, IdleTyped, TypeWriteStep
     DEF WithdrawWrite, Ends, TypeOK, campaignRows, APPLICATION_STATUSES
<1>8. CASE ReviewWrite(r)
  <2>1. /\ q.at = "reviewing" /\ q.who \in Creators /\ q.to \in Decisions
        /\ q.to \in Words /\ {q.who} \in SUBSET People
    BY <1>0, <1>8 DEF ReviewWrite, Shaped, Writing, Words, People
  <2>2. application' \in [Pairs -> APPLICATION_STATUSES \cup {"NONE"}]
    BY <1>8, <2>1 DEF ReviewWrite, TypeOK, APPLICATION_STATUSES, Decisions
  <2>. QED
    BY <1>0, <1>8, <2>1, <2>2, TellingTyped, TypeWriteStep
       DEF ReviewWrite, TypeOK, campaignRows
<1>9. CASE SubmitLookup(r)
  <2> DEFINE rows == submissions[target(r)]
             n == IF rows = <<>> THEN 1 ELSE rows[Len(rows)].version + 1
  <2>1. q.at = "numbering" /\ q.who \in Creators
    BY <1>0, <1>9 DEF SubmitLookup, Shaped, Writing
  <2>2. rows \in Seq(SubmissionRow)
    BY <1>0, <2>1 DEF target, Pairs, TypeOK
  <2>3. n \in Nat
    <3>1. CASE rows = <<>>
      BY <3>1
    <3>2. CASE rows # <<>>
      <4>1. rows[Len(rows)] \in SubmissionRow
        BY <2>2, <3>2
      <4>. QED
        BY <3>2, <4>1 DEF SubmissionRow
    <3>. QED
      BY <3>1, <3>2
  <2>4. request' = [request EXCEPT ![r] = [q EXCEPT !.at = "submitting", !.n = n]]
    BY <1>9 DEF SubmitLookup, Becomes
  <2> HIDE DEF n
  <2>5. [q EXCEPT !.at = "submitting", !.n = n] \in Request
    BY <1>0, <2>3 DEF Request, Stages, Writing
  <2>6. Shaped([q EXCEPT !.at = "submitting", !.n = n])
    BY <1>0, <2>1 DEF Shaped, Writing, Request
  <2>. QED
    BY <1>9, <2>4, <2>5, <2>6, TypeReadStep DEF SubmitLookup, Becomes
<1>10. CASE SubmitWrite(r)
  <2>1. q.at = "submitting" /\ q.who \in Creators /\ q.n \in Nat
    BY <1>0, <1>10 DEF SubmitWrite, Shaped, Writing, Request
  <2>2. target(r) \in Pairs
    BY <1>0, <2>1 DEF target, Pairs
  <2> DEFINE row == [version |-> q.n, status |-> "SUBMITTED"]
  <2>3. row \in SubmissionRow
    BY <2>1 DEF SubmissionRow
  <2>4. Append(submissions[target(r)], row) \in Seq(SubmissionRow)
    BY <2>2, <2>3 DEF TypeOK
  <2>5. submissions' \in [Pairs -> Seq(SubmissionRow)]
    BY <1>10, <2>4 DEF SubmitWrite, TypeOK
  <2>. QED
    BY <1>10, <2>5, IdleTyped, TypeWriteStep DEF SubmitWrite, Ends, TypeOK, campaignRows
<1>11. CASE FeedbackWrite(r)
  <2>1. /\ q.at = "judging" /\ q.who \in Creators /\ q.n \in Nat /\ q.to \in Verdicts
        /\ q.to \in Words /\ {q.who} \in SUBSET People
    BY <1>0, <1>11 DEF FeedbackWrite, Shaped, Writing, Request, Words, People
  <2>2. target(r) \in Pairs
    BY <1>0, <2>1 DEF target, Pairs
  <2> DEFINE rows == submissions[target(r)]
             judged == Judged(rows, q.n, q.to)
  <2>3. rows \in Seq(SubmissionRow)
    BY <2>2 DEF TypeOK
  <2>4. judged \in Seq(SubmissionRow)
    BY <2>1, <2>3, JudgedTyped
  <2>a. submissions' = [submissions EXCEPT ![target(r)] = judged]
    BY <1>11 DEF FeedbackWrite
  <2> HIDE DEF judged
  <2>5. submissions' \in [Pairs -> Seq(SubmissionRow)]
    BY <2>a, <2>4 DEF TypeOK
  <2>6. \E next \in Request : Shaped(next) /\ Becomes(r, next)
    BY <1>0, <1>11, <2>1, TellingTyped, IdleTyped DEF FeedbackWrite, Ends
  <2>. QED
    BY <1>11, <2>5, <2>6, TypeWriteStep DEF FeedbackWrite, TypeOK, campaignRows
<1>12. ASSUME NEW k \in People, Tell(r, k)
       PROVE  TypeOK'
  <2>1. q.at = "telling" /\ q.to \in Words
    BY <1>0, <1>12 DEF Tell, Shaped
  <2>2. notice' \in [Campaigns \X People -> Words \cup {None}]
    BY <1>12, <2>1 DEF Tell, TypeOK
  <2>3. [q EXCEPT !.tell = @ \ {k}] \in Request
    BY <1>0 DEF Request
  <2>4. Shaped([q EXCEPT !.tell = @ \ {k}])
    BY <1>0, <2>1 DEF Shaped, Writing, Request
  <2>. QED
    BY <1>12, <2>2, <2>3, <2>4, TypeWriteStep
       DEF Tell, TypeOK, campaignRows, applicationRows
<1>13. CASE Respond(r) \/ Refused(r) \/ RequestEnds(r)
  BY <1>13, IdleTyped, TypeReadStep DEF Respond, Refused, RequestEnds, Ends
<1>. QED
  BY <1>1, <1>2, <1>3, <1>4, <1>5, <1>6, <1>7, <1>8, <1>9, <1>10, <1>11, <1>12, <1>13
     DEF Continue

LEMMA TypeInit == Init => TypeOK
<1>1. \A p \in Pairs : <<>> \in Seq(SubmissionRow)
  OBVIOUS
<1>. QED
  BY <1>1, IdleTyped DEF Init, TypeOK

LEMMA TypeStep == TypeOK /\ [Next]_vars => TypeOK'
<1> SUFFICES ASSUME TypeOK, [Next]_vars PROVE TypeOK'
  OBVIOUS
<1>1. ASSUME NEW c \in Campaigns, create(c) PROVE TypeOK'
  BY <1>1 DEF create, TypeOK, CAMPAIGN_STATUSES, applicationRows
<1>2. CASE UNCHANGED vars
  BY <1>2 DEF TypeOK, vars, campaignRows, applicationRows, Shaped
<1>. QED
  BY <1>1, <1>2, StartingTyped, ContinueTyped DEF Next

(* Every row and every request in flight keeps the shape the schema gives  *)
(* it, in every execution of the two services.                             *)
THEOREM Typing == Spec => []TypeOK
BY TypeInit, TypeStep, PTL DEF Spec

-----------------------------------------------------------------------------
(***************************************************************************)
(* What holds however requests overlap.  A request may act on a status     *)
(* that is long gone, so these invariants rest on what only ever grows:    *)
(* publishedAt and completedAt are never cleared, applications and         *)
(* submissions are never deleted.                                          *)
(***************************************************************************)
Grows ==
  /\ \A c \in Campaigns : /\ publishedAt[c] => publishedAt'[c]
                          /\ completedAt[c] => completedAt'[c]
  /\ \A p \in Pairs : /\ application[p] # "NONE" => application'[p] # "NONE"
                      /\ Len(submissions'[p]) >= Len(submissions[p])

LEMMA RememberedIdle == ASSUME NEW r \in Requests, request[r].at = "idle"
                        PROVE  Remembered(r)
BY DEF Remembered, Writing

(* The other requests still remember rightly after a step that makes the   *)
(* rows grow.                                                              *)
LEMMA OthersRemember ==
  ASSUME TypeOK, TypeOK', RecordsInv, Grows, NEW r \in Requests,
         NEW q, Becomes(r, q), NEW s \in Requests, s # r
  PROVE  Remembered(s)'
<1>1. request'[s] = request[s] /\ Remembered(s) /\ Shaped(request[s])
      /\ request[s] \in Request
  BY DEF Becomes, TypeOK, RecordsInv
<1>2. target(s)' = target(s)
  BY <1>1 DEF target
<1>3. request[s].at \in Writing \ {"editing", "moving"} => target(s) \in Pairs
  BY <1>1 DEF Shaped, target, Pairs, Writing
<1>4. request[s].at \in {"moving", "applying", "looked"} => request[s].camp \in Campaigns
  BY <1>1 DEF Shaped
<1>5. \A p \in Pairs :
        /\ Len(submissions[p]) \in Nat /\ Len(submissions'[p]) \in Nat
        /\ Len(submissions'[p]) >= Len(submissions[p])
        /\ DOMAIN submissions[p] = 1..Len(submissions[p])
        /\ DOMAIN submissions'[p] = 1..Len(submissions'[p])
  BY DEF TypeOK, Grows
<1>. QED
  BY <1>1, <1>2, <1>3, <1>4, <1>5 DEF Remembered, Writing, Grows


LEMMA RecordsInit == Init => RecordsInv
<1> SUFFICES ASSUME Init PROVE RecordsInv
  OBVIOUS
<1>1. Dated
  BY DEF Init, Dated, Underway
<1>2. AppliedToPublished
  BY DEF Init, AppliedToPublished, Pairs
<1>3. Numbered
  BY DEF Init, Numbered
<1>4. \A r \in Requests : Remembered(r)
  BY IdleTyped, RememberedIdle DEF Init
<1>. QED
  BY <1>1, <1>2, <1>3, <1>4 DEF RecordsInv

(* A step of request r that writes no row.                                 *)
LEMMA RecordsReadStep ==
  ASSUME TypeOK, TypeOK', RecordsInv, NEW r \in Requests, NEW q, Becomes(r, q),
         Remembered(r)', UNCHANGED database
  PROVE  RecordsInv'
<1>1. UNCHANGED <<status, publishedAt, completedAt, application, submissions>>
  BY DEF database, campaignRows, applicationRows
<1>2. Grows
  BY <1>1 DEF Grows, TypeOK
<1>3. Dated' /\ AppliedToPublished' /\ Numbered'
  BY <1>1 DEF RecordsInv, Dated, AppliedToPublished, Numbered
<1>4. \A s \in Requests : Remembered(s)'
  BY <1>2, OthersRemember
<1>. QED
  BY <1>3, <1>4 DEF RecordsInv

LEMMA RecordsStarting ==
  ASSUME TypeOK, TypeOK', RecordsInv, NEW r \in Requests, Starting(r)
  PROVE  RecordsInv'
<1>0. UNCHANGED database /\ \E q : Becomes(r, q)
  BY DEF Starting, UpdateCheck, TransitionCheck, InviteCheck, ApplyCheck,
         WithdrawCheck, SubmitCheck, ReviewCheck, FeedbackCheck
<1>a. UNCHANGED <<status, publishedAt, completedAt, application, submissions>>
  BY <1>0 DEF database, campaignRows, applicationRows
<1> SUFFICES Remembered(r)'
  BY <1>0, RecordsReadStep
<1>1. ASSUME NEW c \in Campaigns, UpdateCheck(r, c)
      PROVE  Remembered(r)'
  BY <1>1 DEF UpdateCheck, Becomes, Waiting, Remembered, Writing, TypeOK
<1>2. ASSUME NEW c \in Campaigns, NEW to \in Moves, TransitionCheck(r, c, to)
      PROVE  Remembered(r)'
  <2>1. /\ request'[r].at = "moving" /\ request'[r].camp = c /\ request'[r].to = to
        /\ request'[r].stamp = (to = "RECRUITING" /\ ~publishedAt[c])
        /\ status[c] # "NONE" /\ assertTransition(status[c], to)
    BY <1>2 DEF TransitionCheck, Becomes, Waiting, TypeOK
  <2>2. to \in Underway => publishedAt[c] \/ to = "RECRUITING"
    BY <2>1 DEF assertTransition, nextCampaignStatuses, Underway, RecordsInv, Dated
  <2>. QED
    BY <1>a, <2>1, <2>2 DEF Remembered, Writing
<1>3. ASSUME NEW c \in Campaigns, NEW k \in Creators,
             InviteCheck(r, c, k) \/ ApplyCheck(r, c, k) \/ WithdrawCheck(r, c, k)
               \/ SubmitCheck(r, c, k)
      PROVE  Remembered(r)'
  <2>1. /\ request'[r].at \in {"inviting", "applying", "withdrawing", "numbering"}
        /\ request'[r].camp = c /\ request'[r].who = k
        /\ request'[r].at = "applying" => status[c] = "RECRUITING"
        /\ request'[r].at \in {"withdrawing", "numbering"} => application[<<c, k>>] # "NONE"
    BY <1>3 DEF InviteCheck, ApplyCheck, WithdrawCheck, SubmitCheck, Becomes, Waiting,
                TypeOK
  <2>2. status[c] = "RECRUITING" => publishedAt[c]
    BY DEF RecordsInv, Dated, Underway
  <2>. QED
    BY <1>a, <2>1, <2>2 DEF Remembered, Writing, target
<1>4. ASSUME NEW c \in Campaigns, NEW k \in Creators, NEW d \in Decisions,
             ReviewCheck(r, c, k, d)
      PROVE  Remembered(r)'
  BY <1>a, <1>4 DEF ReviewCheck, Becomes, Waiting, Remembered, target, TypeOK
<1>5. ASSUME NEW c \in Campaigns, NEW k \in Creators, NEW i \in 1..MaxSubmissions,
             NEW v \in Verdicts, FeedbackCheck(r, c, k, i, v)
      PROVE  Remembered(r)'
  BY <1>a, <1>5 DEF FeedbackCheck, Becomes, Waiting, Remembered, target, TypeOK
<1>. QED
  BY <1>1, <1>2, <1>3, <1>4, <1>5 DEF Starting


(* A request that only has to notify and respond relies on nothing.        *)
LEMMA RecordsWriteStep ==
  ASSUME TypeOK, TypeOK', RecordsInv, NEW r \in Requests, NEW q, Becomes(r, q),
         q.at \in {"idle", "finding", "telling"},
         Grows, Dated', AppliedToPublished', Numbered'
  PROVE  RecordsInv'
<1>1. Remembered(r)'
  BY DEF Becomes, TypeOK, Remembered, Writing
<1>2. \A s \in Requests : Remembered(s)'
  BY <1>1, OthersRemember
<1>. QED
  BY <1>2 DEF RecordsInv

LEMMA StageOfNext ==
  /\ Idle.at = "idle"
  /\ \A c, people, event : Telling(c, people, event).at = "telling"
  /\ \A c, to : Waiting("finding", c, None, to, 0, FALSE, {}).at = "finding"
BY DEF Idle, Telling, Waiting

(* Judging a submission renumbers none.                                    *)
LEMMA JudgedKeeps ==
  ASSUME NEW rows \in Seq(SubmissionRow), NEW n \in DOMAIN rows, NEW v
  PROVE  /\ Len(Judged(rows, n, v)) = Len(rows)
         /\ DOMAIN Judged(rows, n, v) = DOMAIN rows
         /\ \A i \in DOMAIN rows : Judged(rows, n, v)[i].version = rows[i].version
<1>1. \A i \in DOMAIN rows : rows[i] \in SubmissionRow
  BY LenProperties, ElementOfSeq
<1> DEFINE judged == Judged(rows, n, v)
<1>2. DOMAIN judged = DOMAIN rows
  BY DEF Judged
<1>3. \A i \in DOMAIN rows : judged[i].version = rows[i].version
  BY <1>1 DEF Judged, SubmissionRow
<1>4. Len(judged) = Len(rows)
  BY <1>2, LenProperties
<1>. QED
  BY <1>2, <1>3, <1>4

LEMMA RecordsContinue ==
  ASSUME TypeOK, TypeOK', RecordsInv, NEW r \in Requests,
         Continue(r) \/ RequestEnds(r)
  PROVE  RecordsInv'
<1> DEFINE q == request[r]
           p == target(r)
<1>0. /\ q \in Request /\ Shaped(q) /\ Remembered(r)
      /\ Dated /\ AppliedToPublished /\ Numbered
  BY DEF TypeOK, RecordsInv
<1>a. /\ q.at # "idle" => q.camp \in Campaigns
      /\ q.at \in Writing \ {"editing", "moving"} =>
           q.who \in Creators /\ p \in Pairs /\ p = <<q.camp, q.who>>
  BY <1>0 DEF Shaped, Writing, target, Pairs
<1>b. ASSUME NEW next, Becomes(r, next), next.at \in {"idle", "finding", "telling"},
             UNCHANGED <<status, publishedAt, completedAt, application, submissions>>
      PROVE  RecordsInv'
  <2>1. Grows
    BY <1>b DEF Grows, TypeOK
  <2>2. Dated' /\ AppliedToPublished' /\ Numbered'
    BY <1>0, <1>b DEF Dated, AppliedToPublished, Numbered
  <2>. QED
    BY <1>b, <2>1, <2>2, RecordsWriteStep
<1>1. CASE UpdateWrite(r)
  BY <1>1, <1>b, StageOfNext DEF UpdateWrite, Ends, applicationRows
<1>2. CASE TransitionWrite(r)
  <2>1. /\ q.at = "moving" /\ q.camp \in Campaigns
        /\ status' = [status EXCEPT ![q.camp] = q.to]
        /\ publishedAt' = [publishedAt EXCEPT ![q.camp] = @ \/ q.stamp]
        /\ completedAt' = [completedAt EXCEPT ![q.camp] = @ \/ q.to = "COMPLETED"]
        /\ application' = application /\ submissions' = submissions
    BY <1>a, <1>2 DEF TransitionWrite, applicationRows
  <2>2. q.to \in Underway => publishedAt[q.camp] \/ q.stamp
    BY <1>0, <2>1 DEF Remembered
  <2>3. Grows
    BY <2>1 DEF Grows, TypeOK
  <2>4. Dated'
    BY <1>0, <2>1, <2>2 DEF Dated, TypeOK
  <2>5. AppliedToPublished' /\ Numbered'
    BY <1>0, <2>1 DEF AppliedToPublished, Numbered, TypeOK
  <2>6. \E next : Becomes(r, next) /\ next.at \in {"idle", "finding"}
    BY <1>2, StageOfNext DEF TransitionWrite, Ends
  <2>. QED
    BY <2>3, <2>4, <2>5, <2>6, RecordsWriteStep
<1>3. CASE TransitionFind(r)
  BY <1>3, <1>b, StageOfNext DEF TransitionFind, database, campaignRows, applicationRows
<1>4. CASE InviteWrite(r)
  BY <1>4, <1>b, StageOfNext DEF InviteWrite, campaignRows, applicationRows
<1>5. CASE ApplyLookup(r)
  <2>1. /\ q.at = "applying" /\ UNCHANGED database
        /\ request' = [request EXCEPT ![r] = [q EXCEPT !.at = "looked"]]
    BY <1>5 DEF ApplyLookup, Becomes
  <2>2. request'[r].at = "looked" /\ request'[r].camp = q.camp
    BY <1>0, <2>1 DEF TypeOK, Request
  <2>3. publishedAt[q.camp] /\ publishedAt' = publishedAt
    BY <1>0, <2>1 DEF Remembered, database, campaignRows
  <2>4. Remembered(r)'
    BY <2>2, <2>3 DEF Remembered, Writing
  <2>. QED
    BY <2>1, <2>4, RecordsReadStep DEF Becomes
<1>6. CASE ApplyWrite(r)
  <2>1. /\ q.at = "looked" /\ p \in Pairs /\ p = <<q.camp, q.who>> /\ publishedAt[q.camp]
        /\ application' = [application EXCEPT ![p] = "PENDING"]
        /\ UNCHANGED <<status, publishedAt, completedAt, submissions>>
    BY <1>0, <1>a, <1>6 DEF ApplyWrite, campaignRows, Writing, Remembered
  <2>2. Grows
    BY <2>1 DEF Grows, TypeOK
  <2>3. Dated' /\ Numbered'
    BY <1>0, <2>1 DEF Dated, Numbered
  <2>4. AppliedToPublished'
    BY <1>0, <2>1 DEF AppliedToPublished, TypeOK, Pairs
  <2>5. Becomes(r, Telling(q.camp, {Brand}, "APPLIED"))
    BY <1>6 DEF ApplyWrite
  <2>. QED
    BY <2>2, <2>3, <2>4, <2>5, StageOfNext, RecordsWriteStep
<1>7. CASE WithdrawWrite(r) \/ ReviewWrite(r)
  <2>1. PICK d \in Decisions \cup {"WITHDRAWN"} :
          application' = [application EXCEPT ![p] = d]
    BY <1>0, <1>7 DEF WithdrawWrite, ReviewWrite, Shaped
  <2>2. /\ q.at \in {"withdrawing", "reviewing"} /\ p \in Pairs
        /\ p = <<q.camp, q.who>> /\ application[p] # "NONE"
        /\ UNCHANGED <<status, publishedAt, completedAt, submissions>>
    BY <1>0, <1>a, <1>7 DEF WithdrawWrite, ReviewWrite, campaignRows, Writing, Remembered
  <2>3. Grows
    BY <2>1, <2>2 DEF Grows, TypeOK, Decisions
  <2>4. Dated' /\ Numbered'
    BY <1>0, <2>2 DEF Dated, Numbered
  <2>5. AppliedToPublished'
    BY <1>0, <2>1, <2>2 DEF AppliedToPublished, TypeOK, Pairs, Decisions
  <2>6. \E next : Becomes(r, next) /\ next.at \in {"idle", "telling"}
    BY <1>7, StageOfNext DEF WithdrawWrite, ReviewWrite, Ends
  <2>. QED
    BY <2>3, <2>4, <2>5, <2>6, RecordsWriteStep
<1>8. CASE SubmitLookup(r)
  <2> DEFINE rows == submissions[p]
             n == IF rows = <<>> THEN 1 ELSE rows[Len(rows)].version + 1
  <2>1. /\ q.at = "numbering" /\ p \in Pairs /\ UNCHANGED database
        /\ request' = [request EXCEPT ![r] = [q EXCEPT !.at = "submitting", !.n = n]]
    BY <1>a, <1>8 DEF SubmitLookup, Becomes, Writing
  <2>2. rows \in Seq(SubmissionRow) /\ Len(rows) \in Nat
    BY <2>1 DEF TypeOK
  <2>3. n = Len(rows) + 1
    <3>1. CASE rows = <<>>
      BY <3>1
    <3>2. CASE rows # <<>>
      <4>1. Len(rows) \in DOMAIN rows
        BY <2>2, <3>2
      <4>2. rows[Len(rows)].version = Len(rows)
        BY <1>0, <2>1, <4>1 DEF Numbered
      <4>. QED
        BY <3>2, <4>2
    <3>. QED
      BY <3>1, <3>2
  <2> HIDE DEF n
  <2>4. /\ request'[r].at = "submitting" /\ request'[r].n = n
        /\ request'[r].camp = q.camp /\ request'[r].who = q.who
    BY <1>0, <2>1 DEF TypeOK, Request
  <2>5. target(r)' = p /\ UNCHANGED <<application, submissions>>
    BY <2>1, <2>4 DEF target, database, applicationRows
  <2>6. application[p] # "NONE"
    BY <1>0, <2>1 DEF Remembered
  <2>7. Remembered(r)'
    BY <2>2, <2>3, <2>4, <2>5, <2>6 DEF Remembered, Writing
  <2>. QED
    BY <2>1, <2>7, RecordsReadStep DEF Becomes
<1>9. CASE SubmitWrite(r)
  <2> DEFINE rows == submissions[p]
             row == [version |-> q.n, status |-> "SUBMITTED"]
  <2>1. /\ q.at = "submitting" /\ p \in Pairs /\ q.n \notin Versions(p)
        /\ submissions' = [submissions EXCEPT ![p] = Append(rows, row)]
        /\ UNCHANGED <<status, publishedAt, completedAt, application>>
        /\ q.n \in 1..Len(rows) + 1 /\ application[p] # "NONE"
    BY <1>0, <1>a, <1>9 DEF SubmitWrite, VersionFree, campaignRows, Writing, Remembered
  <2>2. rows \in Seq(SubmissionRow) /\ Len(rows) \in Nat /\ row \in SubmissionRow
    BY <2>1 DEF TypeOK, SubmissionRow
  <2>3. \A i \in 1..Len(rows) : rows[i].version = i
    BY <1>0, <2>1, <2>2 DEF Numbered
  <2>4. q.n \notin 1..Len(rows)
    <3>1. DOMAIN rows = 1..Len(rows)
      BY <2>2
    <3>2. \A i \in 1..Len(rows) : rows[i].version \in Versions(p)
      BY <3>1, Zenon DEF Versions
    <3>3. \A i \in 1..Len(rows) : i \in Versions(p)
      BY <3>2, <2>3, Zenon
    <3>. QED
      BY <3>3, <2>1, Zenon
  <2>5. q.n = Len(rows) + 1
    BY <2>1, <2>2, <2>4
  <2> DEFINE longer == Append(rows, row)
  <2>6. /\ Len(longer) = Len(rows) + 1
        /\ DOMAIN longer = 1..Len(rows) + 1
        /\ \A i \in 1..Len(rows) : longer[i] = rows[i]
        /\ longer[Len(rows) + 1].version = q.n
    BY <2>2
  <2> HIDE DEF longer, row
  <2>7. \A i \in DOMAIN longer : longer[i].version = i
    BY <2>2, <2>3, <2>5, <2>6
  <2>8. Numbered'
    BY <1>0, <2>1, <2>7 DEF Numbered, TypeOK, longer
  <2>9. Grows
    BY <2>1, <2>2, <2>6 DEF Grows, TypeOK, longer
  <2>10. Dated'
    BY <1>0, <2>1 DEF Dated
  <2>11. AppliedToPublished'
    BY <1>0, <2>1 DEF AppliedToPublished, TypeOK, Pairs
  <2>. QED
    BY <1>9, <2>8, <2>9, <2>10, <2>11, StageOfNext, RecordsWriteStep DEF SubmitWrite, Ends
<1>10. CASE FeedbackWrite(r)
  <2> DEFINE rows == submissions[p]
             judged == Judged(rows, q.n, q.to)
  <2>1. /\ q.at = "judging" /\ p \in Pairs
        /\ submissions' = [submissions EXCEPT ![p] = judged]
        /\ UNCHANGED <<status, publishedAt, completedAt, application>>
        /\ q.n \in DOMAIN rows
    BY <1>0, <1>a, <1>10 DEF FeedbackWrite, campaignRows, Writing, Remembered
  <2>2. rows \in Seq(SubmissionRow)
    BY <2>1 DEF TypeOK
  <2>3. /\ Len(judged) = Len(rows) /\ DOMAIN judged = DOMAIN rows
        /\ \A i \in DOMAIN rows : judged[i].version = rows[i].version
    BY <2>1, <2>2, JudgedKeeps
  <2> HIDE DEF judged
  <2>4. Numbered'
    BY <1>0, <2>1, <2>3 DEF Numbered, TypeOK
  <2>5. Grows
    BY <2>1, <2>2, <2>3 DEF Grows, TypeOK
  <2>6. Dated'
    BY <1>0, <2>1 DEF Dated
  <2>7. AppliedToPublished'
    <3>1. rows # <<>>
      BY <2>1, <2>2
    <3>. QED
      BY <1>0, <2>1, <3>1 DEF AppliedToPublished, TypeOK, Pairs
  <2>8. \E next : Becomes(r, next) /\ next.at \in {"idle", "telling"}
    BY <1>10, StageOfNext DEF FeedbackWrite, Ends
  <2>. QED
    BY <2>4, <2>5, <2>6, <2>7, <2>8, RecordsWriteStep
<1>11. ASSUME NEW k \in People, Tell(r, k)
       PROVE  RecordsInv'
  <2>1. /\ q.at = "telling" /\ Becomes(r, [q EXCEPT !.tell = @ \ {k}])
        /\ UNCHANGED <<campaignRows, applicationRows>>
    BY <1>11 DEF Tell
  <2>2. [q EXCEPT !.tell = @ \ {k}].at = "telling"
    BY <1>0, <2>1 DEF Request
  <2>. QED
    BY <2>1, <2>2, <1>b DEF campaignRows, applicationRows
<1>12. CASE Respond(r) \/ Refused(r) \/ RequestEnds(r)
  BY <1>12, <1>b, StageOfNext
     DEF Respond, Refused, RequestEnds, Ends, database, campaignRows, applicationRows
<1>. QED
  BY <1>1, <1>2, <1>3, <1>4, <1>5, <1>6, <1>7, <1>8, <1>9, <1>10, <1>11, <1>12
     DEF Continue

LEMMA RecordsStep == TypeOK /\ RecordsInv /\ [Next]_vars => RecordsInv'
<1> SUFFICES ASSUME TypeOK, RecordsInv, [Next]_vars PROVE RecordsInv'
  OBVIOUS
<1>0. TypeOK'
  BY TypeStep
<1>1. ASSUME NEW c \in Campaigns, create(c) PROVE RecordsInv'
  <2>1. /\ status' = [status EXCEPT ![c] = "DRAFT"]
        /\ UNCHANGED <<publishedAt, completedAt, application, submissions, request>>
    BY <1>1 DEF create, applicationRows
  <2>2. Dated'
    BY <2>1 DEF RecordsInv, Dated, Underway, TypeOK
  <2>. QED
    BY <2>1, <2>2 DEF RecordsInv, AppliedToPublished, Numbered, Remembered, target
<1>2. CASE UNCHANGED vars
  BY <1>2 DEF RecordsInv, Dated, AppliedToPublished, Numbered, Remembered, target,
              vars, campaignRows, applicationRows
<1>. QED
  BY <1>0, <1>1, <1>2, RecordsStarting, RecordsContinue DEF Next

(* The invariant behind the three that follow, under any overlap.          *)
THEOREM Records == Spec => []RecordsInv
BY TypeInit, TypeStep, RecordsInit, RecordsStep, PTL DEF Spec

(* A campaign that has left DRAFT for anything but CANCELLED was published,*)
(* and a COMPLETED one has its date, however stale the moves.              *)
THEOREM AlwaysDated == Spec => []Dated
BY Records, PTL DEF RecordsInv

(* Nobody has ever applied to a campaign that was not published, or        *)
(* submitted work without having applied.                                  *)
THEOREM AppliedPublished == Spec => []AppliedToPublished
BY Records, PTL DEF RecordsInv

(* The submissions of an application are numbered without gap or repeat,   *)
(* however requests race for a version.                                    *)
THEOREM SubmissionsNumbered == Spec => []Numbered
BY Records, PTL DEF RecordsInv


-----------------------------------------------------------------------------
(***************************************************************************)
(* However requests overlap, only the updates in flight when a campaign    *)
(* leaves DRAFT edit it afterwards.                                        *)
(***************************************************************************)
LEMMA Smaller ==
  ASSUME NEW S, NEW T, IsFiniteSet(T), S \subseteq T
  PROVE  /\ IsFiniteSet(S) /\ Cardinality(S) \in Nat /\ Cardinality(T) \in Nat
         /\ Cardinality(S) <= Cardinality(T)
BY FS_Subset, FS_CardinalityType

LEMMA EditsCounted ==
  ASSUME NEW c
  PROVE  IsFiniteSet(EditsOf(c)) /\ Cardinality(EditsOf(c)) \in Nat
<1>1. EditsOf(c) \subseteq Requests
  BY DEF EditsOf
<1>. QED
  BY <1>1, Smaller, RequestsAssumption

(* A campaign keeps to the count while its status and its edits stay, and  *)
(* no update of it has started.                                            *)
LEMMA NoMoreEdits ==
  ASSUME TypeOK, EditsInv, NEW c \in Campaigns,
         status'[c] = status[c], late'[c] = late[c],
         status[c] \in {"NONE", "DRAFT"} \/ EditsOf(c)' \subseteq EditsOf(c)
  PROVE  IF status'[c] \in {"NONE", "DRAFT"} THEN late'[c] = 0
         ELSE late'[c] + Cardinality(EditsOf(c)') < Cardinality(Requests)
<1>1. CASE status[c] \in {"NONE", "DRAFT"}
  BY <1>1 DEF EditsInv
<1>2. CASE status[c] \notin {"NONE", "DRAFT"}
  <2>1. /\ Cardinality(EditsOf(c)') <= Cardinality(EditsOf(c))
        /\ Cardinality(EditsOf(c)') \in Nat /\ Cardinality(EditsOf(c)) \in Nat
    BY <1>2, EditsCounted, Smaller
  <2>2. late[c] + Cardinality(EditsOf(c)) < Cardinality(Requests)
    BY <1>2 DEF EditsInv
  <2>3. late[c] \in Nat /\ Cardinality(Requests) \in Nat
    BY RequestsAssumption, FS_CardinalityType DEF TypeOK
  <2>. QED
    BY <1>2, <2>1, <2>2, <2>3
<1>. QED
  BY <1>1, <1>2

(* A step of request r that moves no campaign and is no edit.              *)
LEMMA EditsOtherStep ==
  ASSUME TypeOK, EditsInv, NEW r \in Requests, NEW q, Becomes(r, q),
         q.at = "editing" => status[q.camp] = "DRAFT",
         UNCHANGED <<status, late>>
  PROVE  EditsInv'
<1>1. request'[r] = q /\ \A x \in Requests \ {r} : request'[x] = request[x]
  BY DEF TypeOK, Becomes
<1>2. ASSUME NEW c \in Campaigns
      PROVE  IF status'[c] \in {"NONE", "DRAFT"} THEN late'[c] = 0
             ELSE late'[c] + Cardinality(EditsOf(c)') < Cardinality(Requests)
  <2>1. status[c] \in {"NONE", "DRAFT"} \/ EditsOf(c)' \subseteq EditsOf(c)
    BY <1>1 DEF EditsOf
  <2>. QED
    BY <2>1, NoMoreEdits
<1>3. ASSUME NEW x \in Requests, request'[x].at = "editing"
      PROVE  status'[request'[x].camp] # "NONE"
  BY <1>1, <1>3 DEF EditsInv
<1>. QED
  BY <1>2, <1>3 DEF EditsInv

(* update() writes: one edit more, and one update less that has to write.  *)
LEMMA EditsUpdateStep ==
  ASSUME TypeOK, EditsInv, NEW r \in Requests, UpdateWrite(r)
  PROVE  EditsInv'
<1> DEFINE q == request[r]
<1>1. /\ q.at = "editing" /\ q.camp \in Campaigns
      /\ late' = [late EXCEPT ![q.camp] = IF status[q.camp] = "DRAFT" THEN 0 ELSE @ + 1]
      /\ Becomes(r, Idle) /\ UNCHANGED status
  BY DEF UpdateWrite, Ends, TypeOK, Shaped
<1>2. request'[r] = Idle /\ \A x \in Requests \ {r} : request'[x] = request[x]
  BY <1>1 DEF TypeOK, Becomes
<1>3. ASSUME NEW c \in Campaigns
      PROVE  IF status'[c] \in {"NONE", "DRAFT"} THEN late'[c] = 0
             ELSE late'[c] + Cardinality(EditsOf(c)') < Cardinality(Requests)
  <2>1. CASE c # q.camp
    <3>1. EditsOf(c)' \subseteq EditsOf(c)
      BY <1>2, IdleTyped DEF EditsOf
    <3>2. late'[c] = late[c] /\ status'[c] = status[c]
      BY <1>1, <2>1 DEF TypeOK
    <3>. QED
      BY <3>1, <3>2, NoMoreEdits
  <2>2. CASE c = q.camp /\ status[c] \in {"NONE", "DRAFT"}
    <3>1. CASE status[c] = "DRAFT"
      BY <1>1, <2>2, <3>1 DEF TypeOK
    <3>2. status[c] # "NONE"
      BY <1>1, <2>2 DEF EditsInv
    <3>. QED
      BY <2>2, <3>1, <3>2
  <2>3. CASE c = q.camp /\ status[c] \notin {"NONE", "DRAFT"}
    <3>1. r \in EditsOf(c) /\ EditsOf(c)' = EditsOf(c) \ {r}
      BY <1>1, <1>2, <2>3, IdleTyped DEF EditsOf
    <3>2. IsFiniteSet(EditsOf(c)) /\ Cardinality(EditsOf(c)) \in Nat
      BY EditsCounted
    <3>3. Cardinality(EditsOf(c)') = Cardinality(EditsOf(c)) - 1
      BY <3>1, <3>2, FS_RemoveElement
    <3>4. late'[c] = late[c] + 1 /\ late[c] \in Nat /\ status'[c] = status[c]
      BY <1>1, <2>3 DEF TypeOK
    <3>5. late[c] + Cardinality(EditsOf(c)) < Cardinality(Requests)
      BY <2>3 DEF EditsInv
    <3>6. Cardinality(Requests) \in Nat
      BY RequestsAssumption, FS_CardinalityType
    <3>. QED
      BY <2>3, <3>2, <3>3, <3>4, <3>5, <3>6
  <2>. QED
    BY <2>1, <2>2, <2>3
<1>4. ASSUME NEW x \in Requests, request'[x].at = "editing"
      PROVE  status'[request'[x].camp] # "NONE"
  BY <1>1, <1>2, <1>4, IdleTyped DEF EditsInv
<1>. QED
  BY <1>3, <1>4 DEF EditsInv

(* transition() writes: when the campaign leaves DRAFT, every other        *)
(* request may be an update that has still to write.                       *)
LEMMA EditsMoveStep ==
  ASSUME TypeOK, EditsInv, NEW r \in Requests, TransitionWrite(r)
  PROVE  EditsInv'
<1> DEFINE q == request[r]
<1>1. /\ q.at = "moving" /\ q.camp \in Campaigns /\ q.to \in CAMPAIGN_STATUSES
      /\ status' = [status EXCEPT ![q.camp] = q.to]
      /\ late' = [late EXCEPT ![q.camp] = IF q.to = "DRAFT" THEN 0 ELSE @]
  BY DEF TransitionWrite, TypeOK, Shaped
<1>2. PICK next : Becomes(r, next) /\ next.at # "editing"
  <2>1. CASE q.to \in {"SHORTLISTING", "PRODUCTION"}
    BY <2>1 DEF TransitionWrite, Waiting
  <2>2. CASE q.to \notin {"SHORTLISTING", "PRODUCTION"}
    BY <2>2, IdleTyped DEF TransitionWrite, Ends
  <2>. QED
    BY <2>1, <2>2
<1>3. request'[r] = next /\ \A x \in Requests \ {r} : request'[x] = request[x]
  BY <1>2 DEF TypeOK, Becomes
<1>4. ASSUME NEW c \in Campaigns
      PROVE  EditsOf(c)' \subseteq EditsOf(c) /\ EditsOf(c)' \subseteq Requests \ {r}
  BY <1>2, <1>3 DEF EditsOf
<1>5. ASSUME NEW c \in Campaigns
      PROVE  IF status'[c] \in {"NONE", "DRAFT"} THEN late'[c] = 0
             ELSE late'[c] + Cardinality(EditsOf(c)') < Cardinality(Requests)
  <2>1. CASE c # q.camp
    <3>1. late'[c] = late[c] /\ status'[c] = status[c]
      BY <1>1, <2>1 DEF TypeOK
    <3>. QED
      BY <1>4, <3>1, NoMoreEdits
  <2>2. CASE c = q.camp /\ q.to = "DRAFT"
    BY <1>1, <2>2 DEF TypeOK
  <2>3. CASE c = q.camp /\ q.to # "DRAFT" /\ status[c] \in {"NONE", "DRAFT"}
    <3>1. late'[c] = 0
      BY <1>1, <2>3 DEF TypeOK, EditsInv
    <3>2. Cardinality(Requests \ {r}) = Cardinality(Requests) - 1
      BY RequestsAssumption, FS_RemoveElement
    <3>3. /\ Cardinality(Requests) \in Nat /\ Cardinality(Requests \ {r}) \in Nat
          /\ IsFiniteSet(Requests \ {r})
      BY RequestsAssumption, FS_RemoveElement, FS_CardinalityType
    <3>4. Cardinality(EditsOf(c)') <= Cardinality(Requests) - 1
      BY <1>4, <3>2, <3>3, Smaller
    <3>5. Cardinality(EditsOf(c)') \in Nat
      BY <1>4, <3>3, Smaller
    <3>. QED
      BY <3>1, <3>3, <3>4, <3>5
  <2>4. CASE c = q.camp /\ q.to # "DRAFT" /\ status[c] \notin {"NONE", "DRAFT"}
    <3>1. late'[c] = late[c] /\ status'[c] = q.to
      BY <1>1, <2>4 DEF TypeOK
    <3>2. /\ Cardinality(EditsOf(c)') <= Cardinality(EditsOf(c))
          /\ Cardinality(EditsOf(c)') \in Nat /\ Cardinality(EditsOf(c)) \in Nat
      BY <1>4, EditsCounted, Smaller
    <3>3. late[c] + Cardinality(EditsOf(c)) < Cardinality(Requests)
      BY <2>4 DEF EditsInv
    <3>4. late[c] \in Nat /\ Cardinality(Requests) \in Nat
      BY RequestsAssumption, FS_CardinalityType DEF TypeOK
    <3>. QED
      BY <1>1, <2>4, <3>1, <3>2, <3>3, <3>4 DEF CAMPAIGN_STATUSES
  <2>. QED
    BY <2>1, <2>2, <2>3, <2>4
<1>6. ASSUME NEW x \in Requests, request'[x].at = "editing"
      PROVE  status'[request'[x].camp] # "NONE"
  <2>1. /\ x # r /\ request'[x] = request[x] /\ request[x].camp \in Campaigns
        /\ status[request[x].camp] # "NONE"
    BY <1>2, <1>3, <1>6 DEF EditsInv, TypeOK, Shaped
  <2>. QED
    BY <1>1, <2>1 DEF TypeOK, CAMPAIGN_STATUSES
<1>. QED
  BY <1>5, <1>6 DEF EditsInv

LEMMA EditsStep == TypeOK /\ EditsInv /\ [Next]_vars => EditsInv'
<1> SUFFICES ASSUME TypeOK, EditsInv, [Next]_vars PROVE EditsInv'
  OBVIOUS
<1>1. ASSUME NEW r \in Requests, Starting(r)
      PROVE  EditsInv'
  <2>1. UNCHANGED <<status, late>>
    BY <1>1 DEF Starting, UpdateCheck, TransitionCheck, InviteCheck, ApplyCheck,
                WithdrawCheck, SubmitCheck, ReviewCheck, FeedbackCheck, database,
                campaignRows
  <2>2. PICK q : Becomes(r, q) /\ (q.at = "editing" => status[q.camp] = "DRAFT")
    <3>1. ASSUME NEW c \in Campaigns, UpdateCheck(r, c)
          PROVE  \E q : Becomes(r, q) /\ (q.at = "editing" => status[q.camp] = "DRAFT")
      BY <3>1 DEF UpdateCheck, Waiting
    <3>2. ASSUME NEW c \in Campaigns, NEW to \in Moves, TransitionCheck(r, c, to)
          PROVE  \E q : Becomes(r, q) /\ q.at # "editing"
      BY <3>2 DEF TransitionCheck, Waiting
    <3>3. ASSUME NEW c \in Campaigns, NEW k \in Creators,
                 InviteCheck(r, c, k) \/ ApplyCheck(r, c, k) \/ WithdrawCheck(r, c, k)
                   \/ SubmitCheck(r, c, k)
          PROVE  \E q : Becomes(r, q) /\ q.at # "editing"
      BY <3>3 DEF InviteCheck, ApplyCheck, WithdrawCheck, SubmitCheck, Waiting
    <3>4. ASSUME NEW c \in Campaigns, NEW k \in Creators, NEW d \in Decisions,
                 ReviewCheck(r, c, k, d)
          PROVE  \E q : Becomes(r, q) /\ q.at # "editing"
      BY <3>4 DEF ReviewCheck, Waiting
    <3>5. ASSUME NEW c \in Campaigns, NEW k \in Creators, NEW i \in 1..MaxSubmissions,
                 NEW v \in Verdicts, FeedbackCheck(r, c, k, i, v)
          PROVE  \E q : Becomes(r, q) /\ q.at # "editing"
      BY <3>5 DEF FeedbackCheck, Waiting
    <3>. QED
      BY <1>1, <3>1, <3>2, <3>3, <3>4, <3>5 DEF Starting
  <2>. QED
    BY <2>1, <2>2, EditsOtherStep
<1>2. ASSUME NEW r \in Requests, Continue(r) \/ RequestEnds(r),
             ~UpdateWrite(r), ~TransitionWrite(r)
      PROVE  EditsInv'
  <2>1. UNCHANGED <<status, late>>
    BY <1>2 DEF Continue, TransitionFind, InviteWrite, ApplyLookup, ApplyWrite,
                WithdrawWrite, ReviewWrite, SubmitLookup, SubmitWrite, FeedbackWrite,
                Tell, Respond, Refused, RequestEnds, database, campaignRows
  <2>2. PICK q : Becomes(r, q) /\ q.at # "editing"
    <3>1. CASE TransitionFind(r) \/ InviteWrite(r) \/ ApplyWrite(r) \/ ReviewWrite(r)
      BY <3>1 DEF TransitionFind, InviteWrite, ApplyWrite, ReviewWrite, Telling, Waiting
    <3>2. CASE WithdrawWrite(r) \/ SubmitWrite(r) \/ Respond(r) \/ Refused(r)
                 \/ RequestEnds(r)
      BY <3>2, IdleTyped
         DEF WithdrawWrite, SubmitWrite, Respond, Refused, RequestEnds, Ends
    <3>0. request[r] \in Request
      BY DEF TypeOK
    <3>5. CASE ApplyLookup(r)
      <4>1. [request[r] EXCEPT !.at = "looked"].at = "looked"
        BY <3>0 DEF Request
      <4>. QED
        BY <3>5, <4>1 DEF ApplyLookup
    <3>6. CASE SubmitLookup(r)
      <4>1. ASSUME NEW n
            PROVE  [request[r] EXCEPT !.at = "submitting", !.n = n].at = "submitting"
        BY <3>0 DEF Request
      <4>. QED
        BY <3>6, <4>1 DEF SubmitLookup
    <3>3. ASSUME NEW k \in People, Tell(r, k)
          PROVE  \E q : Becomes(r, q) /\ q.at # "editing"
      <4>1. /\ request[r].at = "telling"
            /\ Becomes(r, [request[r] EXCEPT !.tell = @ \ {k}])
        BY <3>3 DEF Tell
      <4>2. [request[r] EXCEPT !.tell = @ \ {k}].at = "telling"
        BY <3>0, <4>1 DEF Request
      <4>. QED
        BY <4>1, <4>2
    <3>4. CASE FeedbackWrite(r)
      <4>1. CASE request[r].to \in {"IN_REVISION", "APPROVED"}
        BY <3>4, <4>1 DEF FeedbackWrite, Telling, Waiting
      <4>2. CASE request[r].to \notin {"IN_REVISION", "APPROVED"}
        BY <3>4, <4>2, IdleTyped DEF FeedbackWrite, Ends
      <4>. QED
        BY <4>1, <4>2
    <3>. QED
      BY <1>2, <3>1, <3>2, <3>3, <3>4, <3>5, <3>6 DEF Continue
  <2>. QED
    BY <2>1, <2>2, EditsOtherStep
<1>3. ASSUME NEW c \in Campaigns, create(c)
      PROVE  EditsInv'
  BY <1>3 DEF create, EditsInv, EditsOf, TypeOK
<1>4. CASE UNCHANGED vars
  BY <1>4 DEF vars, campaignRows, EditsInv, EditsOf
<1>. QED
  BY <1>1, <1>2, <1>3, <1>4, EditsUpdateStep, EditsMoveStep DEF Next, Continue

(* However requests overlap, a campaign that has left DRAFT is edited by   *)
(* fewer updates than there are requests: by those in flight (update()).   *)
THEOREM LateEdits == Spec => []LateEditsWereUnderway
<1>1. Init => EditsInv
  BY IdleTyped DEF Init, EditsInv
<1>2. TypeOK /\ EditsInv => LateEditsWereUnderway
  <2>1. ASSUME TypeOK, EditsInv, NEW c \in Campaigns, status[c] \notin {"NONE", "DRAFT"}
        PROVE  late[c] < Cardinality(Requests)
    <3>1. late[c] + Cardinality(EditsOf(c)) < Cardinality(Requests)
      BY <2>1 DEF EditsInv
    <3>2. /\ late[c] \in Nat /\ Cardinality(EditsOf(c)) \in Nat
          /\ Cardinality(Requests) \in Nat
      BY <2>1, EditsCounted, RequestsAssumption, FS_CardinalityType DEF TypeOK
    <3>. QED
      BY <3>1, <3>2
  <2>. QED
    BY <2>1 DEF LateEditsWereUnderway
<1>. QED
  BY <1>1, <1>2, EditsStep, Typing, PTL DEF Spec

-----------------------------------------------------------------------------
(***************************************************************************)
(* When the requests for a campaign take turns (SerialSpec), what a        *)
(* request has checked still holds when it writes; from that, the rules.   *)
(***************************************************************************)
LEMMA TurnsInit == Init => TurnsInv
BY IdleTyped DEF Init, TurnsInv, OnePerCampaign, Busy, StillTrue, Writing

LEMMA OnlyWaitingCount ==
  ASSUME NEW r \in Requests, request[r].at \notin Writing
  PROVE  StillTrue(r)
BY DEF StillTrue, Writing

(* A step of request r that leaves the rows alone.                         *)
LEMMA TurnsReadStep ==
  ASSUME TypeOK, TurnsInv, OnePerCampaign', NEW r \in Requests, NEW q, Becomes(r, q),
         StillTrue(r)', UNCHANGED <<status, publishedAt, completedAt, application>>
  PROVE  TurnsInv'
<1>1. ASSUME NEW s \in Requests, s # r PROVE StillTrue(s)'
  <2>1. request'[s] = request[s] /\ StillTrue(s)
    BY <1>1 DEF Becomes, TypeOK, TurnsInv
  <2>. QED
    BY <2>1 DEF StillTrue, target
<1>. QED
  BY <1>1 DEF TurnsInv

(* A step of a busy request r that writes rows of its campaign only and is *)
(* busy no more.                                                           *)
LEMMA TurnsWriteStep ==
  ASSUME TypeOK, TurnsInv, OnePerCampaign', NEW r \in Requests, NEW q, Becomes(r, q),
         q.at \notin Writing, Busy(r),
         \A d \in Campaigns \ {request[r].camp} :
           status'[d] = status[d] /\ publishedAt'[d] = publishedAt[d],
         \A p \in Pairs : p[1] # request[r].camp => application'[p] = application[p],
         \A c \in Campaigns : completedAt'[c] => status'[c] = "COMPLETED"
  PROVE  TurnsInv'
<1>1. StillTrue(r)'
  BY DEF Becomes, TypeOK, StillTrue, Writing
<1>2. ASSUME NEW s \in Requests, s # r PROVE StillTrue(s)'
  <2>1. request'[s] = request[s] /\ StillTrue(s) /\ target(s)' = target(s)
    BY <1>2 DEF Becomes, TypeOK, TurnsInv, target
  <2>2. CASE ~Busy(s)
    BY <2>1, <2>2 DEF StillTrue, Busy, Writing
  <2>3. CASE Busy(s)
    <3>1. request[s].camp # request[r].camp
      BY <1>2, <2>3 DEF TurnsInv, OnePerCampaign
    <3>2. request[s].camp \in Campaigns
      BY <2>3 DEF Busy, TypeOK, Shaped, Writing
    <3>3. request[s].at \in {"withdrawing", "numbering", "submitting"} =>
            application'[target(s)] = application[target(s)]
      BY <3>1, <3>2 DEF target, Pairs, TypeOK, Shaped, Writing
    <3>. QED
      BY <2>1, <3>1, <3>2, <3>3 DEF StillTrue
  <2>. QED
    BY <2>2, <2>3
<1>. QED
  BY <1>1, <1>2 DEF TurnsInv

LEMMA TurnsStarting ==
  ASSUME TypeOK, TurnsInv, OnePerCampaign', NEW r \in Requests, Starting(r)
  PROVE  TurnsInv'
<1>0. UNCHANGED database /\ \E q : Becomes(r, q)
  BY DEF Starting, UpdateCheck, TransitionCheck, InviteCheck, ApplyCheck,
         WithdrawCheck, SubmitCheck, ReviewCheck, FeedbackCheck
<1>a. UNCHANGED <<status, publishedAt, completedAt, application>>
  BY <1>0 DEF database, campaignRows, applicationRows
<1> SUFFICES StillTrue(r)'
  BY <1>0, <1>a, TurnsReadStep
<1>1. ASSUME NEW c \in Campaigns, UpdateCheck(r, c)
      PROVE  StillTrue(r)'
  BY <1>a, <1>1 DEF UpdateCheck, Becomes, Waiting, StillTrue, TypeOK
<1>2. ASSUME NEW c \in Campaigns, NEW to \in Moves, TransitionCheck(r, c, to)
      PROVE  StillTrue(r)'
  <2>1. /\ request'[r].at = "moving" /\ request'[r].camp = c /\ request'[r].to = to
        /\ request'[r].stamp = (to = "RECRUITING" /\ ~publishedAt[c])
        /\ status[c] # "NONE" /\ assertTransition(status[c], to)
    BY <1>2 DEF TransitionCheck, Becomes, Waiting, TypeOK
  <2>. QED
    BY <1>a, <2>1 DEF StillTrue
<1>3. ASSUME NEW c \in Campaigns, NEW k \in Creators,
             InviteCheck(r, c, k) \/ ApplyCheck(r, c, k) \/ WithdrawCheck(r, c, k)
               \/ SubmitCheck(r, c, k)
      PROVE  StillTrue(r)'
  <2>1. application[<<c, k>>] \in APPLICATION_STATUSES \cup {"NONE"}
    BY DEF TypeOK, Pairs
  <2>2. /\ request'[r].at \in {"inviting", "applying", "withdrawing", "numbering"}
        /\ request'[r].camp = c /\ request'[r].who = k
        /\ request'[r].at = "applying" => status[c] = "RECRUITING"
        /\ request'[r].at = "withdrawing" =>
             application[<<c, k>>] \notin {"NONE", "ACCEPTED", "REJECTED"}
        /\ request'[r].at = "numbering" => application[<<c, k>>] = "ACCEPTED"
    BY <1>3 DEF InviteCheck, ApplyCheck, WithdrawCheck, SubmitCheck, Becomes, Waiting,
                TypeOK
  <2>3. target(r)' = <<c, k>>
    BY <2>2 DEF target
  <2>. QED
    BY <1>a, <2>1, <2>2, <2>3 DEF StillTrue, APPLICATION_STATUSES
<1>4. ASSUME NEW c \in Campaigns, NEW k \in Creators, NEW d \in Decisions,
             ReviewCheck(r, c, k, d)
      PROVE  StillTrue(r)'
  BY <1>4 DEF ReviewCheck, Becomes, Waiting, StillTrue, TypeOK
<1>5. ASSUME NEW c \in Campaigns, NEW k \in Creators, NEW i \in 1..MaxSubmissions,
             NEW v \in Verdicts, FeedbackCheck(r, c, k, i, v)
      PROVE  StillTrue(r)'
  BY <1>5 DEF FeedbackCheck, Becomes, Waiting, StillTrue, TypeOK
<1>. QED
  BY <1>1, <1>2, <1>3, <1>4, <1>5 DEF Starting

LEMMA TurnsContinue ==
  ASSUME TypeOK, TurnsInv, OnePerCampaign', NEW r \in Requests,
         Continue(r) \/ RequestEnds(r)
  PROVE  TurnsInv'
<1> DEFINE q == request[r]
<1>0. q \in Request /\ Shaped(q) /\ StillTrue(r)
  BY DEF TypeOK, TurnsInv
<1>b. ASSUME NEW next, Becomes(r, next), next.at \in {"idle", "finding", "telling"},
             UNCHANGED <<status, publishedAt, completedAt, application>>
      PROVE  TurnsInv'
  <2>1. StillTrue(r)'
    BY <1>b DEF Becomes, TypeOK, StillTrue
  <2>. QED
    BY <1>b, <2>1, TurnsReadStep
<1>1. CASE UpdateWrite(r)
  BY <1>1, <1>b, StageOfNext DEF UpdateWrite, Ends, applicationRows
<1>2. CASE TransitionWrite(r)
  <2>1. /\ q.at = "moving" /\ q.camp \in Campaigns
        /\ status' = [status EXCEPT ![q.camp] = q.to]
        /\ publishedAt' = [publishedAt EXCEPT ![q.camp] = @ \/ q.stamp]
        /\ completedAt' = [completedAt EXCEPT ![q.camp] = @ \/ q.to = "COMPLETED"]
        /\ application' = application
    BY <1>0, <1>2 DEF TransitionWrite, applicationRows, Shaped
  <2>2. completedAt[q.camp] => q.to = "COMPLETED"
    BY <1>0, <2>1 DEF StillTrue, TurnsInv, assertTransition, nextCampaignStatuses
  <2>3. \A c \in Campaigns : completedAt'[c] => status'[c] = "COMPLETED"
    BY <2>1, <2>2 DEF TurnsInv, TypeOK
  <2>4. \E next : Becomes(r, next) /\ next.at \in {"idle", "finding"}
    BY <1>2, StageOfNext DEF TransitionWrite, Ends
  <2>. QED
    BY <2>1, <2>3, <2>4, TurnsWriteStep DEF TypeOK, Busy, Writing
<1>3. CASE TransitionFind(r)
  BY <1>3, <1>b, StageOfNext DEF TransitionFind, database, campaignRows, applicationRows
<1>4. CASE InviteWrite(r)
  BY <1>4, <1>b, StageOfNext DEF InviteWrite, campaignRows, applicationRows
<1>5. CASE ApplyLookup(r)
  <2>1. /\ q.at = "applying" /\ UNCHANGED <<status, publishedAt, completedAt, application>>
        /\ request' = [request EXCEPT ![r] = [q EXCEPT !.at = "looked"]]
    BY <1>5 DEF ApplyLookup, Becomes, database, campaignRows, applicationRows
  <2>2. request'[r].at = "looked" /\ request'[r].camp = q.camp
    BY <1>0, <2>1 DEF TypeOK, Request
  <2>3. StillTrue(r)'
    BY <1>0, <2>1, <2>2 DEF StillTrue
  <2>. QED
    BY <2>1, <2>3, TurnsReadStep DEF Becomes
<1>6. ASSUME ApplyWrite(r) \/ WithdrawWrite(r) \/ ReviewWrite(r)
      PROVE  TurnsInv'
  <2>1. /\ \E v : application' = [application EXCEPT ![target(r)] = v]
        /\ UNCHANGED <<status, publishedAt, completedAt>>
        /\ Busy(r)
    BY <1>6 DEF ApplyWrite, WithdrawWrite, ReviewWrite, campaignRows, Busy, Writing
  <2>2. \A p \in Pairs : p[1] # q.camp => application'[p] = application[p]
    BY <2>1 DEF target, TypeOK
  <2>3. \E next : Becomes(r, next) /\ next.at \in {"idle", "telling"}
    BY <1>6, StageOfNext DEF ApplyWrite, WithdrawWrite, ReviewWrite, Ends
  <2>. QED
    BY <2>1, <2>2, <2>3, TurnsWriteStep DEF TurnsInv, Writing
<1>7. CASE SubmitLookup(r)
  <2> DEFINE rows == submissions[target(r)]
             n == IF rows = <<>> THEN 1 ELSE rows[Len(rows)].version + 1
  <2>1. /\ q.at = "numbering" /\ UNCHANGED <<status, publishedAt, completedAt, application>>
        /\ request' = [request EXCEPT ![r] = [q EXCEPT !.at = "submitting", !.n = n]]
    BY <1>7 DEF SubmitLookup, Becomes, database, campaignRows, applicationRows
  <2> HIDE DEF n
  <2>2. /\ request'[r].at = "submitting"
        /\ request'[r].camp = q.camp /\ request'[r].who = q.who
    BY <1>0, <2>1 DEF TypeOK, Request
  <2>3. StillTrue(r)'
    BY <1>0, <2>1, <2>2 DEF StillTrue, target
  <2>. QED
    BY <2>1, <2>3, TurnsReadStep DEF Becomes
<1>8. CASE SubmitWrite(r)
  BY <1>8, <1>b, StageOfNext DEF SubmitWrite, Ends, campaignRows
<1>9. CASE FeedbackWrite(r)
  <2>1. \E next : Becomes(r, next) /\ next.at \in {"idle", "telling"}
    BY <1>9, StageOfNext DEF FeedbackWrite, Ends
  <2>. QED
    BY <1>9, <2>1, <1>b DEF FeedbackWrite, campaignRows
<1>10. ASSUME NEW k \in People, Tell(r, k)
       PROVE  TurnsInv'
  <2>1. /\ q.at = "telling" /\ Becomes(r, [q EXCEPT !.tell = @ \ {k}])
        /\ UNCHANGED <<campaignRows, applicationRows>>
    BY <1>10 DEF Tell
  <2>2. [q EXCEPT !.tell = @ \ {k}].at = "telling"
    BY <1>0, <2>1 DEF Request
  <2>. QED
    BY <2>1, <2>2, <1>b DEF campaignRows, applicationRows
<1>11. CASE Respond(r) \/ Refused(r) \/ RequestEnds(r)
  BY <1>11, <1>b, StageOfNext
     DEF Respond, Refused, RequestEnds, Ends, database, campaignRows, applicationRows
<1>. QED
  BY <1>1, <1>2, <1>3, <1>4, <1>5, <1>6, <1>7, <1>8, <1>9, <1>10, <1>11 DEF Continue

LEMMA TurnsStep == TypeOK /\ TurnsInv /\ [SerialNext]_vars => TurnsInv'
<1> SUFFICES ASSUME TypeOK, TurnsInv, [SerialNext]_vars PROVE TurnsInv'
  OBVIOUS
<1>1. CASE SerialNext
  <2>0. OnePerCampaign'
    BY <1>1 DEF SerialNext
  <2>1. ASSUME NEW c \in Campaigns, create(c) PROVE TurnsInv'
    <3>1. /\ status[c] = "NONE" /\ status' = [status EXCEPT ![c] = "DRAFT"]
          /\ UNCHANGED <<publishedAt, completedAt, application, request>>
      BY <2>1 DEF create, applicationRows
    <3>2. \A d \in Campaigns : completedAt'[d] => status'[d] = "COMPLETED"
      BY <3>1 DEF TurnsInv, TypeOK
    <3>3. \A r \in Requests : StillTrue(r)'
      BY <3>1 DEF TurnsInv, StillTrue, target, TypeOK
    <3>. QED
      BY <2>0, <3>2, <3>3 DEF TurnsInv
  <2>. QED
    BY <1>1, <2>0, <2>1, TurnsStarting, TurnsContinue DEF SerialNext, Next
<1>2. CASE UNCHANGED vars
  BY <1>2 DEF TurnsInv, OnePerCampaign, Busy, StillTrue, target, vars, campaignRows,
              applicationRows
<1>. QED
  BY <1>1, <1>2

(* While the requests for a campaign take turns, what each has read is     *)
(* still true when it writes.                                              *)
THEOREM Turns == SerialSpec => [](TypeOK /\ RecordsInv /\ TurnsInv)
<1>1. TypeOK /\ [SerialNext]_vars => TypeOK'
  BY TypeStep DEF SerialNext
<1>2. TypeOK /\ RecordsInv /\ [SerialNext]_vars => RecordsInv'
  BY RecordsStep DEF SerialNext
<1>. QED
  BY <1>1, <1>2, TypeInit, RecordsInit, TurnsInit, TurnsStep, PTL DEF SerialSpec


-----------------------------------------------------------------------------
(***************************************************************************)
(* While the requests for a campaign take turns, the services keep the     *)
(* rules: each write is one rule's step, every other step stutters.        *)
(***************************************************************************)
Counts == [p \in Pairs |-> Len(submissions[p])]

LEMMA RulesInit == Init => Rules!Init
BY DEF Init, Rules!Init, Rules!Pairs, Pairs

LEMMA RulesStutter ==
  ASSUME UNCHANGED <<status, publishedAt, completedAt, application, submissions>>
  PROVE  UNCHANGED Rules!rules
BY DEF Rules!rules

(* The transition table of the code is the lifecycle of the rules.         *)
LEMMA TableIsLifecycle ==
  ASSUME NEW s \in CAMPAIGN_STATUSES, NEW t \in nextCampaignStatuses(s)
  PROVE  <<s, t>> \in Rules!Lifecycle
BY DEF CAMPAIGN_STATUSES, nextCampaignStatuses, Rules!Lifecycle

LEMMA RulesMove ==
  ASSUME TypeOK, RecordsInv, TurnsInv, NEW r \in Requests, TransitionWrite(r)
  PROVE  Rules!Next \/ UNCHANGED Rules!rules
<1>1. PICK c \in Campaigns, to \in CAMPAIGN_STATUSES :
        c = request[r].camp /\ to = request[r].to
  BY DEF TransitionWrite, TypeOK, Shaped
<1>2. /\ status' = [status EXCEPT ![c] = to]
      /\ publishedAt' = [publishedAt EXCEPT ![c] = @ \/ request[r].stamp]
      /\ completedAt' = [completedAt EXCEPT ![c] = @ \/ to = "COMPLETED"]
      /\ UNCHANGED <<application, submissions>>
  BY <1>1 DEF TransitionWrite, applicationRows
<1>3. /\ status[c] \in CAMPAIGN_STATUSES /\ assertTransition(status[c], to)
      /\ to = "RECRUITING" => publishedAt[c] \/ request[r].stamp
      /\ request[r].stamp => to = "RECRUITING"
      /\ status[c] = "RECRUITING" => publishedAt[c]
      /\ status[c] = "COMPLETED" => completedAt[c]
      /\ completedAt[c] => status[c] = "COMPLETED"
      /\ request[r].stamp \in BOOLEAN
      /\ publishedAt[c] \in BOOLEAN /\ completedAt[c] \in BOOLEAN
  BY <1>1 DEF TransitionWrite, TypeOK, Request, TurnsInv, StillTrue, RecordsInv, Dated,
              Underway, Remembered
<1>4. CASE status[c] = to
  <2>1. /\ (publishedAt[c] \/ request[r].stamp) = publishedAt[c]
        /\ (completedAt[c] \/ to = "COMPLETED") = completedAt[c]
    BY <1>3, <1>4
  <2>. QED
    BY <1>2, <1>4, <2>1, RulesStutter DEF TypeOK
<1>5. CASE status[c] # to
  <2>1. <<status[c], to>> \in Rules!Lifecycle
    BY <1>3, <1>5, TableIsLifecycle DEF assertTransition
  <2>2. status[c] # "COMPLETED"
    BY <1>3, <1>5 DEF assertTransition, nextCampaignStatuses
  <2>3. /\ (publishedAt[c] \/ request[r].stamp) = (publishedAt[c] \/ to = "RECRUITING")
        /\ (completedAt[c] \/ to = "COMPLETED") = (to = "COMPLETED")
    BY <1>3, <2>2
  <2>4. /\ publishedAt' = [publishedAt EXCEPT ![c] = @ \/ to = "RECRUITING"]
        /\ completedAt' = [completedAt EXCEPT ![c] = to = "COMPLETED"]
    BY <1>2, <2>3
  <2>5. Counts' = Counts
    BY <1>2 DEF Counts
  <2>6. Rules!Move(c, to)
    BY <1>2, <2>1, <2>4, <2>5 DEF Rules!Move, Rules!CanMove, Counts
  <2>7. \E step \in Rules!Lifecycle : Rules!Move(c, step[2])
    BY <2>1, <2>6
  <2>. QED
    BY <2>7 DEF Rules!Next
<1>. QED
  BY <1>4, <1>5

LEMMA RulesApplication ==
  ASSUME TypeOK, TurnsInv, RecordsInv, NEW r \in Requests,
         ApplyWrite(r) \/ WithdrawWrite(r) \/ ReviewWrite(r)
  PROVE  Rules!Next
<1>1. PICK p \in Pairs : p = target(r) /\ p[1] = request[r].camp
  BY DEF ApplyWrite, WithdrawWrite, ReviewWrite, target, Pairs, TypeOK, Shaped, Writing
<1>2. UNCHANGED <<status, publishedAt, completedAt, submissions>>
  BY DEF ApplyWrite, WithdrawWrite, ReviewWrite, campaignRows
<1>3. Counts' = Counts
  BY <1>2 DEF Counts
<1>4. CASE ApplyWrite(r)
  <2>1. /\ status[p[1]] = "RECRUITING" /\ application[p] = "NONE"
        /\ application' = [application EXCEPT ![p] = "PENDING"]
    BY <1>1, <1>4 DEF ApplyWrite, TurnsInv, StillTrue
  <2>2. Rules!Apply(p)
    BY <1>2, <1>3, <2>1 DEF Rules!Apply, Rules!CanApply, Counts
  <2>. QED
    BY <2>2 DEF Rules!Next, Rules!Pairs, Pairs
<1>5. CASE WithdrawWrite(r)
  <2>1. /\ application[p] \in {"PENDING", "SHORTLISTED", "WITHDRAWN"}
        /\ application' = [application EXCEPT ![p] = "WITHDRAWN"]
    BY <1>1, <1>5 DEF WithdrawWrite, TurnsInv, StillTrue
  <2>2. Rules!Withdraw(p)
    BY <1>2, <1>3, <2>1 DEF Rules!Withdraw, Counts
  <2>. QED
    BY <2>2 DEF Rules!Next, Rules!Pairs, Pairs
<1>6. CASE ReviewWrite(r)
  <2>1. PICK d \in Decisions : d = request[r].to
    BY <1>6 DEF ReviewWrite, TypeOK, Shaped
  <2>2. application[p] # "NONE" /\ application' = [application EXCEPT ![p] = d]
    BY <1>1, <1>6, <2>1 DEF ReviewWrite, RecordsInv, Remembered
  <2>3. Rules!Review(p, d)
    BY <1>2, <1>3, <2>2 DEF Rules!Review, Rules!CanReview, Counts
  <2>. QED
    BY <2>3 DEF Rules!Next, Rules!Pairs, Pairs, Decisions
<1>. QED
  BY <1>4, <1>5, <1>6

LEMMA RulesSubmit ==
  ASSUME TypeOK, TurnsInv, NEW r \in Requests, SubmitWrite(r)
  PROVE  Rules!Next
<1>1. PICK p \in Pairs : p = target(r)
  BY DEF SubmitWrite, target, Pairs, TypeOK, Shaped, Writing
<1> DEFINE row == [version |-> request[r].n, status |-> "SUBMITTED"]
<1>2. /\ application[p] = "ACCEPTED"
      /\ submissions' = [submissions EXCEPT ![p] = Append(submissions[p], row)]
      /\ UNCHANGED <<status, publishedAt, completedAt, application>>
  BY <1>1 DEF SubmitWrite, TurnsInv, StillTrue, campaignRows
<1>3. submissions[p] \in Seq(SubmissionRow)
  BY DEF TypeOK
<1>4. Len(Append(submissions[p], row)) = Len(submissions[p]) + 1
  BY <1>3
<1> HIDE DEF row
<1>5. Counts' = [Counts EXCEPT ![p] = @ + 1]
  BY <1>2, <1>4 DEF Counts, TypeOK
<1>6. Rules!Submit(p)
  BY <1>2, <1>5 DEF Rules!Submit, Rules!CanSubmit, Counts
<1>. QED
  BY <1>6 DEF Rules!Next, Rules!Pairs, Pairs

LEMMA RulesFeedback ==
  ASSUME TypeOK, RecordsInv, NEW r \in Requests, FeedbackWrite(r)
  PROVE  UNCHANGED Rules!rules
<1>1. PICK p \in Pairs : p = target(r)
  BY DEF FeedbackWrite, target, Pairs, TypeOK, Shaped, Writing
<1>2. /\ submissions' = [submissions EXCEPT ![p] =
           Judged(submissions[p], request[r].n, request[r].to)]
      /\ UNCHANGED <<status, publishedAt, completedAt, application>>
      /\ request[r].n \in DOMAIN submissions[p]
  BY <1>1 DEF FeedbackWrite, campaignRows, RecordsInv, Remembered
<1>3. submissions[p] \in Seq(SubmissionRow)
  BY DEF TypeOK
<1>4. Len(Judged(submissions[p], request[r].n, request[r].to)) = Len(submissions[p])
  BY <1>2, <1>3, JudgedKeeps
<1>5. Counts' = Counts
  BY <1>2, <1>4 DEF Counts, TypeOK
<1>. QED
  BY <1>2, <1>5 DEF Rules!rules, Counts

LEMMA RulesStep ==
  TypeOK /\ RecordsInv /\ TurnsInv /\ [SerialNext]_vars => [Rules!Next]_(Rules!rules)
<1> SUFFICES ASSUME TypeOK, RecordsInv, TurnsInv, [SerialNext]_vars
             PROVE  Rules!Next \/ UNCHANGED Rules!rules
  OBVIOUS
<1>1. ASSUME NEW c \in Campaigns, create(c) PROVE Rules!Next
  <2>1. Counts' = Counts
    BY <1>1 DEF create, Counts, applicationRows
  <2>2. Rules!Draft(c)
    BY <1>1, <2>1 DEF create, applicationRows, Rules!Draft, Rules!CanDraft, Counts
  <2>. QED
    BY <2>2 DEF Rules!Next
<1>2. ASSUME NEW r \in Requests,
             TransitionWrite(r) \/ ApplyWrite(r) \/ WithdrawWrite(r) \/ ReviewWrite(r)
               \/ SubmitWrite(r) \/ FeedbackWrite(r)
      PROVE  Rules!Next \/ UNCHANGED Rules!rules
  BY <1>2, RulesMove, RulesApplication, RulesSubmit, RulesFeedback
<1>3. ASSUME NEW r \in Requests, Starting(r) PROVE UNCHANGED Rules!rules
  BY <1>3, RulesStutter
     DEF Starting, UpdateCheck, TransitionCheck, InviteCheck, ApplyCheck, WithdrawCheck,
         ReviewCheck, SubmitCheck, FeedbackCheck, database, campaignRows, applicationRows
<1>4. ASSUME NEW r \in Requests,
             UpdateWrite(r) \/ TransitionFind(r) \/ InviteWrite(r) \/ ApplyLookup(r)
               \/ SubmitLookup(r) \/ (\E k \in People : Tell(r, k))
               \/ Respond(r) \/ Refused(r) \/ RequestEnds(r)
      PROVE  UNCHANGED Rules!rules
  BY <1>4, RulesStutter
     DEF UpdateWrite, TransitionFind, InviteWrite, ApplyLookup, SubmitLookup, Tell,
         Respond, Refused, RequestEnds, database, campaignRows, applicationRows
<1>5. CASE UNCHANGED vars
  BY <1>5, RulesStutter DEF vars, campaignRows, applicationRows
<1>6. ASSUME NEW r \in Requests, Continue(r) PROVE Rules!Next \/ UNCHANGED Rules!rules
  BY <1>2, <1>4, <1>6 DEF Continue
<1>. QED
  BY <1>1, <1>3, <1>4, <1>5, <1>6 DEF SerialNext, Next

(* While the requests for a campaign take turns, the campaign and          *)
(* application services implement the rules of CampaignRules.              *)
THEOREM RulesKept == SerialSpec => KeepsTheRules
BY RulesInit, RulesStep, Turns, PTL DEF SerialSpec, KeepsTheRules, Rules!Spec

-----------------------------------------------------------------------------
(***************************************************************************)
(* The two halves of MCCampaigns.  A step of one leaves the other alone,   *)
(* so each half behaves as its own specification allows.                   *)
(***************************************************************************)
MP == INSTANCE MessagingProofs WITH Users <- Members, request <- handling

LEMMA MessagingAssumptions ==
  MP!RowsAssumption /\ MP!RequestsAssumption /\ MP!NoneAssumption
BY MembersAssumption
DEF MP!RowsAssumption, MP!RequestsAssumption, MP!NoneAssumption, IsFiniteSet, MP!IsFiniteSet

LEMMA MessagingInit == M!Init => MP!Init
BY Zenon
DEF M!Init, MP!Init, M!NoneServed, MP!NoneServed, M!Idle, MP!Idle,
    M!Waiting, MP!Waiting, M!Zero, MP!Zero

LEMMA MessagingNext == M!Next => MP!Next
BY Zenon
DEF M!Next, MP!Next, M!Creating, MP!Creating, M!Talking, MP!Talking,
    M!RequestFails, MP!RequestFails, M!CreateFind, MP!CreateFind,
    M!CreateWrite, MP!CreateWrite, M!SendMessage, MP!SendMessage,
    M!Show, MP!Show, M!BumpWrite, MP!BumpWrite, M!Tell, MP!Tell,
    M!MarkRead, MP!MarkRead, M!Starts, MP!Starts, M!Becomes, MP!Becomes,
    M!Ends, MP!Ends, M!Idle, MP!Idle, M!Waiting, MP!Waiting,
    M!Others, MP!Others, M!Raised, MP!Raised, M!LeftAfter, MP!LeftAfter,
    M!Bumped, MP!Bumped, M!Sending, MP!Sending, M!NotFound, MP!NotFound,
    M!Created, MP!Created, M!IsNext, MP!IsNext,
    M!conversations, MP!conversations, M!counters, MP!counters,
    M!history, MP!history

LEMMA MessagingTyped == MP!TypeOK => M!TypeOK
BY Zenon
DEF M!TypeOK, MP!TypeOK, M!Idle, MP!Idle, M!Waiting, MP!Waiting, M!Others, MP!Others

LEMMA MessagingUnread == MP!UnreadTellsUnseen => M!UnreadTellsUnseen
BY Zenon
DEF M!UnreadTellsUnseen, MP!UnreadTellsUnseen, M!Sending, MP!Sending,
    M!Cardinality, MP!Cardinality

LEMMA MessagingPairs == MP!OnePerPair /\ MP!OneNoticeEach => M!OnePerPair /\ M!OneNoticeEach
BY Zenon
DEF M!OnePerPair, MP!OnePerPair, M!OneNoticeEach, MP!OneNoticeEach,
    M!Created, MP!Created, M!Others, MP!Others, M!Cardinality, MP!Cardinality

(* What the runs explore is Messaging, with bounds.                        *)
THEOREM ChecksMessaging == CheckSpec => MP!Spec
<1>1. CheckInit => MP!Init
  BY MessagingInit DEF CheckInit
<1>2. [CheckNext]_<<part, vars, ofMessaging>> => [MP!Next]_MP!vars
  BY MessagingNext
  DEF CheckNext, MessagingCheck, ofMessaging,
      MP!vars, MP!conversations, MP!counters, MP!history
<1>. QED
  BY <1>1, <1>2, PTL DEF CheckSpec, MP!Spec

(* The unread counter of a member is what he has not been shown, once the  *)
(* senders are done and unless a reading overlapped a sending.             *)
THEOREM UnreadTold == CheckSpec => []UnreadTellsUnseen
<1>1. MP!Spec => [](MP!TypeOK /\ MP!NotAlone)
  BY MP!Typing, MessagingAssumptions
<1>2. MP!Spec => []MP!UnreadTellsUnseen
  BY MP!UnreadUnseen, MessagingAssumptions
<1>3. MP!TypeOK /\ MP!UnreadTellsUnseen => UnreadTellsUnseen
  BY MessagingTyped, MessagingUnread DEF UnreadTellsUnseen
<1>. QED
  BY <1>1, <1>2, <1>3, ChecksMessaging, PTL

(* Two people have one conversation about a campaign unless two requests   *)
(* were creating it at once, and a member gets one notice of each message. *)
THEOREM PairsKept == CheckSpec => []OnePerPair
<1>1. MP!Spec => []MP!OnePerPair
  BY MP!OneForPair, MessagingAssumptions
<1>2. MP!Spec => []MP!OneNoticeEach
  BY MP!OneNotice, MessagingAssumptions
<1>3. MP!OnePerPair /\ MP!OneNoticeEach => OnePerPair
  BY MessagingPairs DEF OnePerPair
<1>. QED
  BY <1>1, <1>2, <1>3, ChecksMessaging, PTL

=============================================================================
