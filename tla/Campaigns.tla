----------------------------- MODULE Campaigns -----------------------------
(***************************************************************************)
(* Campaigns, the applications to them and the work submitted for them:    *)
(* backend/src/campaign/campaign.service.ts and                            *)
(* backend/src/application/application.service.ts.                         *)
(*                                                                         *)
(* As everywhere in this backend a handler reads, checks in memory, and    *)
(* writes by primary key in a later await; request[r] holds what request r *)
(* has read.  What the database enforces by itself are the unique keys     *)
(* (campaign, creator) of Application and CampaignInvite and               *)
(* (application, version) of Submission.                                   *)
(***************************************************************************)
EXTENDS Integers, Sequences, FiniteSets

CONSTANTS
  Campaigns,
  Creators,
  Requests,        \* the requests the API can be serving at the same time
  Endpoints,       \* the endpoints in use, a subset of AllEndpoints
  Moves,           \* the statuses a campaign is asked to move to
  MaxSubmissions,  \* bound on the submissions of an application
  Brand,           \* stands for the user who created the campaign
  None

AllEndpoints == {"update", "transition", "invite", "apply", "withdraw",
                 "review", "submit", "feedback"}

CAMPAIGN_STATUSES == {"DRAFT", "RECRUITING", "SHORTLISTING", "PRODUCTION",
                      "REVIEW", "PUBLISHED", "COMPLETED", "CANCELLED"}

ASSUME MovesAssumption == Moves \subseteq CAMPAIGN_STATUSES
ASSUME EndpointsAssumption == Endpoints \subseteq AllEndpoints
ASSUME PeopleAssumption == Brand \notin Creators /\ None \notin Creators \cup Campaigns
ASSUME BoundsAssumption == MaxSubmissions \in Nat
ASSUME RequestsAssumption == IsFiniteSet(Requests)

VARIABLES
  status,       \* Campaign.status, or "NONE" before create()
  publishedAt, completedAt,   \* whether those columns are set
  late,         \* history: edits by the brand since the campaign left DRAFT
  invited,      \* the CampaignInvite rows
  application,  \* Application.status of each <<campaign, creator>>, or "NONE"
  submissions,  \* the Submission rows of each pair, in order of insertion
  request,      \* what each request in flight has read, and where it stands
  notice        \* the event of the newest Notification row about a campaign,
                \* for each <<campaign, person>>

campaignRows == <<status, publishedAt, completedAt, late>>
applicationRows == <<application, submissions>>
vars == <<campaignRows, invited, applicationRows, request, notice>>

-----------------------------------------------------------------------------
(* CAMPAIGN_TRANSITIONS.  (The mutant lets a campaign skip recruiting.)    *)
nextCampaignStatusesSkipping(s) ==
  CASE s = "DRAFT"        -> {"RECRUITING", "COMPLETED", "CANCELLED"}
    [] s = "RECRUITING"   -> {"SHORTLISTING", "COMPLETED", "CANCELLED"}
    [] s = "SHORTLISTING" -> {"PRODUCTION", "RECRUITING", "CANCELLED"}
    [] OTHER              -> {"CANCELLED"}
nextCampaignStatuses(s) ==
  CASE s = "DRAFT"        -> {"RECRUITING", "CANCELLED"}
    [] s = "RECRUITING"   -> {"SHORTLISTING", "COMPLETED", "CANCELLED"}
    [] s = "SHORTLISTING" -> {"PRODUCTION", "RECRUITING", "CANCELLED"}
    [] s = "PRODUCTION"   -> {"REVIEW", "CANCELLED"}
    [] s = "REVIEW"       -> {"PUBLISHED", "PRODUCTION", "CANCELLED"}
    [] s = "PUBLISHED"    -> {"COMPLETED", "CANCELLED"}
    [] OTHER              -> {}

isTerminal(s) == nextCampaignStatuses(s) = {}
assertTransition(from, to) == from = to \/ to \in nextCampaignStatuses(from)

APPLICATION_STATUSES ==
  {"PENDING", "SHORTLISTED", "ACCEPTED", "REJECTED", "WITHDRAWN"}
Decisions == {"SHORTLISTED", "ACCEPTED", "REJECTED"}
Verdicts == {"APPROVED", "IN_REVISION", "REJECTED"}

SubmissionRow == [version : Nat, status : {"SUBMITTED"} \cup Verdicts]
Pairs == Campaigns \X Creators
People == Creators \cup {Brand}

(***************************************************************************)
(* Requests.  `to` is the status, decision or verdict asked for, and later *)
(* the event to notify of; `tell` is who remains to be notified.           *)
(***************************************************************************)
Writing == {"editing", "moving", "inviting", "applying", "looked",
            "withdrawing", "reviewing", "numbering", "submitting", "judging"}
Stages == Writing \cup {"idle", "finding", "telling"}
Words == CAMPAIGN_STATUSES \cup Decisions \cup Verdicts \cup {"INVITED", "APPLIED"}

Request ==
  [at    : Stages,
   camp  : Campaigns \cup {None},
   who   : Creators \cup {None},
   to    : Words \cup {None},
   n     : Nat,          \* the version of a submission
   stamp : BOOLEAN,      \* publishedAt will be written
   tell  : SUBSET People]

Waiting(at, c, k, to, n, stamp, tell) ==
  [at |-> at, camp |-> c, who |-> k, to |-> to, n |-> n, stamp |-> stamp,
   tell |-> tell]
Idle == Waiting("idle", None, None, None, 0, FALSE, {})

(* A request is always about a campaign, and from the check that read it on *)
(* about an application and a legal target.                                *)
Shaped(q) ==
  /\ q.at # "idle" => q.camp \in Campaigns
  /\ q.at \in Writing \ {"editing", "moving"} => q.who \in Creators
  /\ q.at \in {"moving", "finding"} => q.to \in CAMPAIGN_STATUSES
  /\ q.at = "reviewing" => q.to \in Decisions
  /\ q.at = "judging" => q.to \in Verdicts
  /\ q.at = "telling" => q.to \in Words

Becomes(r, next) == request' = [request EXCEPT ![r] = next]
Ends(r) == Becomes(r, Idle)
Starts(r, endpoint) == request[r] = Idle /\ endpoint \in Endpoints

(* After its write a handler notifies `people` of `event`, one at a time.  *)
Telling(c, people, event) == Waiting("telling", c, None, event, 0, FALSE, people)

target(r) == <<request[r].camp, request[r].who>>

-----------------------------------------------------------------------------
Init ==
  /\ status = [c \in Campaigns |-> "NONE"]
  /\ publishedAt = [c \in Campaigns |-> FALSE]
  /\ completedAt = [c \in Campaigns |-> FALSE]
  /\ late = [c \in Campaigns |-> 0]
  /\ invited = {}
  /\ application = [p \in Pairs |-> "NONE"]
  /\ submissions = [p \in Pairs |-> <<>>]
  /\ request = [r \in Requests |-> Idle]
  /\ notice = [p \in Campaigns \X People |-> None]

database == <<campaignRows, invited, applicationRows, notice>>

(* POST /campaigns: every campaign starts as a draft.                      *)
create(c) ==
  /\ status[c] = "NONE"
  /\ status' = [status EXCEPT ![c] = "DRAFT"]
  /\ UNCHANGED <<publishedAt, completedAt, late, invited, applicationRows,
                 request, notice>>

(* PATCH /campaigns/:id by the brand; what the columns say is left out.    *)
UpdateCheckAnyStatus(r, c) ==              \* a mutant: not only drafts
  /\ Starts(r, "update")
  /\ status[c] # "NONE"
  /\ Becomes(r, Waiting("editing", c, None, None, 0, FALSE, {}))
  /\ UNCHANGED database
UpdateCheck(r, c) ==
  /\ Starts(r, "update")
  /\ status[c] = "DRAFT"
  /\ Becomes(r, Waiting("editing", c, None, None, 0, FALSE, {}))
  /\ UNCHANGED database

UpdateWrite(r) ==
  LET c == request[r].camp IN
  /\ request[r].at = "editing"
  /\ late' = [late EXCEPT ![c] = IF status[c] = "DRAFT" THEN 0 ELSE @ + 1]
  /\ Ends(r)
  /\ UNCHANGED <<status, publishedAt, completedAt, invited, applicationRows,
                 notice>>

(***************************************************************************)
(* POST /campaigns/:id/state                                               *)
(***************************************************************************)
TransitionCheck(r, c, to) ==
  /\ Starts(r, "transition")
  /\ status[c] # "NONE"
  /\ assertTransition(status[c], to)
  /\ Becomes(r, Waiting("moving", c, None, to, 0,
                        to = "RECRUITING" /\ ~publishedAt[c], {}))
  /\ UNCHANGED database

TransitionWrite(r) ==
  LET q == request[r]
      c == q.camp
  IN
  /\ q.at = "moving"
  /\ status' = [status EXCEPT ![c] = q.to]
  /\ publishedAt' = [publishedAt EXCEPT ![c] = @ \/ q.stamp]
  /\ completedAt' = [completedAt EXCEPT ![c] = @ \/ q.to = "COMPLETED"]
  /\ late' = [late EXCEPT ![c] = IF q.to = "DRAFT" THEN 0 ELSE @]
  /\ IF q.to \in {"SHORTLISTING", "PRODUCTION"}
     THEN Becomes(r, Waiting("finding", c, None, q.to, 0, FALSE, {}))
     ELSE Ends(r)
  /\ UNCHANGED <<invited, applicationRows, notice>>

(* The applicants a move concerns, as they stand after it.                 *)
Concerned(c, to) ==
  {k \in Creators : application[<<c, k>>] =
     IF to = "SHORTLISTING" THEN "PENDING" ELSE "SHORTLISTED"}

TransitionFind(r) ==
  LET q == request[r] IN
  /\ q.at = "finding"
  /\ Becomes(r, Telling(q.camp, Concerned(q.camp, q.to), q.to))
  /\ UNCHANGED database

(***************************************************************************)
(* POST /campaigns/:id/invite: the upsert leaves an existing invite alone. *)
(***************************************************************************)
InviteCheck(r, c, k) ==
  /\ Starts(r, "invite")
  /\ status[c] \notin {"NONE", "COMPLETED", "CANCELLED"}
  /\ Becomes(r, Waiting("inviting", c, k, None, 0, FALSE, {}))
  /\ UNCHANGED database

InviteWrite(r) ==
  LET q == request[r] IN
  /\ q.at = "inviting"
  /\ invited' = invited \cup {target(r)}
  /\ Becomes(r, Telling(q.camp, {q.who}, "INVITED"))
  /\ UNCHANGED <<campaignRows, applicationRows, notice>>

(***************************************************************************)
(* POST /campaigns/:id/apply                                               *)
(***************************************************************************)
ApplyCheckDraftsToo(r, c, k) ==            \* a mutant: any open campaign
  /\ Starts(r, "apply")
  /\ status[c] \notin {"NONE", "COMPLETED", "CANCELLED"}
  /\ Becomes(r, Waiting("applying", c, k, None, 0, FALSE, {}))
  /\ UNCHANGED database
ApplyCheck(r, c, k) ==
  /\ Starts(r, "apply")
  /\ status[c] = "RECRUITING"
  /\ Becomes(r, Waiting("applying", c, k, None, 0, FALSE, {}))
  /\ UNCHANGED database

ApplyLookup(r) ==
  /\ request[r].at = "applying"
  /\ application[target(r)] = "NONE"
  /\ Becomes(r, [request[r] EXCEPT !.at = "looked"])
  /\ UNCHANGED database

ApplyWrite(r) ==
  LET q == request[r] IN
  /\ q.at = "looked"
  /\ application[target(r)] = "NONE"     \* the unique key
  /\ application' = [application EXCEPT ![target(r)] = "PENDING"]
  /\ Becomes(r, Telling(q.camp, {Brand}, "APPLIED"))
  /\ UNCHANGED <<campaignRows, invited, submissions, notice>>

(***************************************************************************)
(* POST /applications/:id/withdraw and /applications/:id/review            *)
(***************************************************************************)
WithdrawCheckDecidedToo(r, c, k) ==       \* a mutant: decided ones as well
  /\ Starts(r, "withdraw")
  /\ application[<<c, k>>] # "NONE"
  /\ Becomes(r, Waiting("withdrawing", c, k, None, 0, FALSE, {}))
  /\ UNCHANGED database
WithdrawCheck(r, c, k) ==
  /\ Starts(r, "withdraw")
  /\ application[<<c, k>>] \notin {"NONE", "ACCEPTED", "REJECTED"}
  /\ Becomes(r, Waiting("withdrawing", c, k, None, 0, FALSE, {}))
  /\ UNCHANGED database

WithdrawWrite(r) ==
  /\ request[r].at = "withdrawing"
  /\ application' = [application EXCEPT ![target(r)] = "WITHDRAWN"]
  /\ Ends(r)
  /\ UNCHANGED <<campaignRows, invited, submissions, notice>>

ReviewCheck(r, c, k, decision) ==
  /\ Starts(r, "review")
  /\ application[<<c, k>>] # "NONE"
  /\ Becomes(r, Waiting("reviewing", c, k, decision, 0, FALSE, {}))
  /\ UNCHANGED database

ReviewWrite(r) ==
  LET q == request[r] IN
  /\ q.at = "reviewing"
  /\ application' = [application EXCEPT ![target(r)] = q.to]
  /\ Becomes(r, Telling(q.camp, {q.who}, q.to))
  /\ UNCHANGED <<campaignRows, invited, submissions, notice>>

(***************************************************************************)
(* POST /applications/:id/submissions: check, number, insert.              *)
(***************************************************************************)
Versions(p) == {submissions[p][i].version : i \in DOMAIN submissions[p]}

SubmitCheck(r, c, k) ==
  /\ Starts(r, "submit")
  /\ application[<<c, k>>] = "ACCEPTED"
  /\ Becomes(r, Waiting("numbering", c, k, None, 0, FALSE, {}))
  /\ UNCHANGED database

(* findFirst by descending version; the rows are in that order (Numbered). *)
SubmitLookup(r) ==
  LET rows == submissions[target(r)] IN
  /\ request[r].at = "numbering"
  /\ Becomes(r, [request[r] EXCEPT
       !.at = "submitting",
       !.n = IF rows = <<>> THEN 1 ELSE rows[Len(rows)].version + 1])
  /\ UNCHANGED database

VersionFreeAlways(p, n) == TRUE            \* a mutant: no unique key
VersionFree(p, n) == n \notin Versions(p)

SubmitWrite(r) ==
  LET p == target(r) IN
  /\ request[r].at = "submitting"
  /\ VersionFree(p, request[r].n)
  /\ Len(submissions[p]) < MaxSubmissions
  /\ submissions' = [submissions EXCEPT ![p] =
       Append(@, [version |-> request[r].n, status |-> "SUBMITTED"])]
  /\ Ends(r)
  /\ UNCHANGED <<campaignRows, invited, application, notice>>

(***************************************************************************)
(* POST /submissions/:id/feedback: whatever the submission's status is.    *)
(***************************************************************************)
FeedbackCheck(r, c, k, i, verdict) ==
  /\ Starts(r, "feedback")
  /\ i \in DOMAIN submissions[<<c, k>>]
  /\ Becomes(r, Waiting("judging", c, k, verdict, i, FALSE, {}))
  /\ UNCHANGED database

Judged(rows, n, verdict) ==
  [rows EXCEPT ![n] = [rows[n] EXCEPT !.status = verdict]]

FeedbackWrite(r) ==
  LET q == request[r] IN
  /\ q.at = "judging"
  /\ submissions' = [submissions EXCEPT ![target(r)] = Judged(@, q.n, q.to)]
  /\ IF q.to \in {"IN_REVISION", "APPROVED"}
     THEN Becomes(r, Telling(q.camp, {q.who}, q.to))
     ELSE Ends(r)
  /\ UNCHANGED <<campaignRows, invited, application, notice>>

(***************************************************************************)
(* The end of a handler: notices one at a time, then the response; or a    *)
(* later check or a unique key refuses it; or, anywhere, a statement fails *)
(* or the process dies.                                                    *)
(***************************************************************************)
TellFirstOnly(r, k) ==                     \* a mutant: return inside the loop
  LET q == request[r] IN
  /\ q.at = "telling"
  /\ k \in q.tell
  /\ notice' = [notice EXCEPT ![<<q.camp, k>>] = q.to]
  /\ Ends(r)
  /\ UNCHANGED <<campaignRows, invited, applicationRows>>
Tell(r, k) ==
  LET q == request[r] IN
  /\ q.at = "telling"
  /\ k \in q.tell
  /\ notice' = [notice EXCEPT ![<<q.camp, k>>] = q.to]
  /\ Becomes(r, [q EXCEPT !.tell = @ \ {k}])
  /\ UNCHANGED <<campaignRows, invited, applicationRows>>

Respond(r) ==
  /\ request[r].at = "telling"
  /\ request[r].tell = {}
  /\ Ends(r)
  /\ UNCHANGED database

Refused(r) ==
  /\ \/ /\ request[r].at \in {"applying", "looked"}
        /\ application[target(r)] # "NONE"
     \/ /\ request[r].at = "submitting"
        /\ ~VersionFree(target(r), request[r].n)
  /\ Ends(r)
  /\ UNCHANGED database

RequestEnds(r) ==
  /\ request[r] # Idle
  /\ Ends(r)
  /\ UNCHANGED database

-----------------------------------------------------------------------------
Starting(r) ==
  \E c \in Campaigns :
    \/ UpdateCheck(r, c)
    \/ \E to \in Moves : TransitionCheck(r, c, to)
    \/ \E k \in Creators :
         \/ InviteCheck(r, c, k) \/ ApplyCheck(r, c, k)
         \/ WithdrawCheck(r, c, k) \/ SubmitCheck(r, c, k)
         \/ \E d \in Decisions : ReviewCheck(r, c, k, d)
         \/ \E i \in 1..MaxSubmissions, v \in Verdicts :
              FeedbackCheck(r, c, k, i, v)

(* The next step of a request that has started, up to its response.        *)
Continue(r) ==
  \/ UpdateWrite(r) \/ TransitionWrite(r) \/ TransitionFind(r)
  \/ InviteWrite(r) \/ ApplyLookup(r) \/ ApplyWrite(r)
  \/ WithdrawWrite(r) \/ ReviewWrite(r)
  \/ SubmitLookup(r) \/ SubmitWrite(r) \/ FeedbackWrite(r)
  \/ (\E k \in People : Tell(r, k)) \/ Respond(r) \/ Refused(r)

Next ==
  \/ \E c \in Campaigns : create(c)
  \/ \E r \in Requests : Starting(r) \/ Continue(r) \/ RequestEnds(r)

Spec == Init /\ [][Next]_vars

(* The requests for one campaign come one after the other.                 *)
Busy(r) == request[r].at \in Writing
OnePerCampaign ==
  \A r, s \in Requests :
    r # s /\ Busy(r) /\ Busy(s) => request[r].camp # request[s].camp

SerialNext == Next /\ OnePerCampaign'
SerialSpec == Init /\ [][SerialNext]_vars

(* No crash and no failing statement: the event loop resumes every handler *)
(* whose await is done.                                                    *)
ReliableNext ==
  \/ \E c \in Campaigns : create(c)
  \/ \E r \in Requests : Starting(r) \/ Continue(r)
ReliableSpec ==
  Init /\ [][ReliableNext]_vars /\ \A r \in Requests : WF_vars(Continue(r))

-----------------------------------------------------------------------------
(***************************************************************************)
(* Properties                                                              *)
(***************************************************************************)

(* Every row and every request in flight has the shape the schema gives it.*)
TypeOK ==
  /\ status \in [Campaigns -> CAMPAIGN_STATUSES \cup {"NONE"}]
  /\ publishedAt \in [Campaigns -> BOOLEAN]
  /\ completedAt \in [Campaigns -> BOOLEAN]
  /\ late \in [Campaigns -> Nat]
  /\ invited \subseteq Pairs
  /\ application \in [Pairs -> APPLICATION_STATUSES \cup {"NONE"}]
  /\ submissions \in [Pairs -> Seq(SubmissionRow)]
  /\ request \in [Requests -> Request]
  /\ \A r \in Requests : Shaped(request[r])
  /\ notice \in [Campaigns \X People -> Words \cup {None}]

(* However requests overlap, a campaign that has left DRAFT for anything   *)
(* but CANCELLED has its publishedAt, and a COMPLETED one its completedAt: *)
(* no stale transition() brings a campaign to work creators never saw      *)
(* recruiting.                                                             *)
Underway == {"RECRUITING", "SHORTLISTING", "PRODUCTION", "REVIEW",
             "PUBLISHED", "COMPLETED"}
Dated ==
  \A c \in Campaigns :
    /\ status[c] \in Underway => publishedAt[c]
    /\ status[c] = "COMPLETED" => completedAt[c]

(* However requests overlap, whoever has applied applied to a campaign     *)
(* that was published, and whoever submitted work has applied.             *)
AppliedToPublished ==
  \A p \in Pairs :
    /\ application[p] # "NONE" => publishedAt[p[1]]
    /\ submissions[p] # <<>> => application[p] # "NONE"

(* However submit requests overlap, the rows of an application are         *)
(* numbered 1, 2, 3... in the order they were inserted: the loser of a     *)
(* race is refused by the unique key and leaves no gap.                    *)
Numbered ==
  \A p \in Pairs : \A i \in DOMAIN submissions[p] :
    submissions[p][i].version = i

(* A move to SHORTLISTING or PRODUCTION reaches every applicant it found,  *)
(* unless the process dies or a statement fails.                           *)
EveryoneTold ==
  \A r \in Requests, c \in Campaigns, k \in Creators,
     to \in {"SHORTLISTING", "PRODUCTION"} :
    (request[r].at = "telling" /\ request[r].camp = c
       /\ request[r].to = to /\ k \in request[r].tell)
      ~> notice[<<c, k>>] = to

(* However requests overlap, a campaign that has left DRAFT is edited by   *)
(* no more updates than were in flight when it left: fewer than there are  *)
(* requests, one of them being the move (update() checks, then writes).    *)
LateEditsWereUnderway ==
  \A c \in Campaigns :
    status[c] \notin {"NONE", "DRAFT"} => late[c] < Cardinality(Requests)

(* When the requests for one campaign do not overlap, the two services     *)
(* keep the rules of CampaignRules.                                        *)
Rules == INSTANCE CampaignRules WITH
  stage <- status,
  published <- publishedAt,
  completed <- completedAt,
  work <- [p \in Pairs |-> Len(submissions[p])]
KeepsTheRules == Rules!Spec

-----------------------------------------------------------------------------
(***************************************************************************)
(* The inductive invariants of the proofs in CampaignsProofs.              *)
(***************************************************************************)

(* What a request relies on that no other request ever undoes.             *)
Remembered(r) ==
  LET q == request[r] IN
  /\ q.at = "moving" =>
       /\ q.to \in Underway => publishedAt[q.camp] \/ q.stamp
       /\ q.stamp => q.to = "RECRUITING"
  /\ q.at \in {"applying", "looked"} => publishedAt[q.camp]
  /\ q.at \in {"withdrawing", "reviewing", "numbering", "submitting"} =>
       application[target(r)] # "NONE"
  /\ q.at = "submitting" => q.n \in 1..Len(submissions[target(r)]) + 1
  /\ q.at = "judging" => q.n \in DOMAIN submissions[target(r)]

RecordsInv ==
  /\ Dated /\ AppliedToPublished /\ Numbered
  /\ \A r \in Requests : Remembered(r)

(* The updates that have still to be written count as if they were.        *)
EditsOf(c) == {r \in Requests : request[r].at = "editing" /\ request[r].camp = c}
EditsInv ==
  /\ \A r \in Requests : request[r].at = "editing" => status[request[r].camp] # "NONE"
  /\ \A c \in Campaigns :
       IF status[c] \in {"NONE", "DRAFT"} THEN late[c] = 0
       ELSE late[c] + Cardinality(EditsOf(c)) < Cardinality(Requests)

(* When the requests for a campaign take turns, what a request has read is *)
(* still so when it writes.                                                *)
StillTrue(r) ==
  LET q == request[r] IN
  /\ q.at = "moving" => /\ status[q.camp] # "NONE"
                        /\ assertTransition(status[q.camp], q.to)
                        /\ q.to = "RECRUITING" => publishedAt[q.camp] \/ q.stamp
  /\ q.at \in {"applying", "looked"} => status[q.camp] = "RECRUITING"
  /\ q.at = "withdrawing" =>
       application[target(r)] \in {"PENDING", "SHORTLISTED", "WITHDRAWN"}
  /\ q.at \in {"numbering", "submitting"} => application[target(r)] = "ACCEPTED"

TurnsInv ==
  /\ OnePerCampaign
  /\ \A r \in Requests : StillTrue(r)
  /\ \A c \in Campaigns : completedAt[c] => status[c] = "COMPLETED"

=============================================================================
