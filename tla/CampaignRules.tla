--------------------------- MODULE CampaignRules ---------------------------
(***************************************************************************)
(* What campaigns promise to brands and creators, each request taking      *)
(* effect in one step: a campaign moves only along the lifecycle, creators *)
(* apply only while it recruits, withdraw only while undecided, and submit *)
(* work only once accepted.                                                *)
(***************************************************************************)
EXTENDS Naturals

CONSTANTS Campaigns, Creators

VARIABLES
  stage,        \* where each campaign stands
  published,    \* has it ever recruited?
  completed,    \* has it been completed?
  application,  \* the application of each creator to each campaign
  work          \* how often that creator has submitted work

rules == <<stage, published, completed, application, work>>

Lifecycle ==
  {<<"DRAFT", "RECRUITING">>, <<"RECRUITING", "SHORTLISTING">>,
   <<"RECRUITING", "COMPLETED">>, <<"SHORTLISTING", "PRODUCTION">>,
   <<"SHORTLISTING", "RECRUITING">>, <<"PRODUCTION", "REVIEW">>,
   <<"REVIEW", "PUBLISHED">>, <<"REVIEW", "PRODUCTION">>,
   <<"PUBLISHED", "COMPLETED">>}
    \cup {<<s, "CANCELLED">> :
            s \in {"DRAFT", "RECRUITING", "SHORTLISTING", "PRODUCTION",
                   "REVIEW", "PUBLISHED"}}

Pairs == Campaigns \X Creators

Init ==
  /\ stage = [c \in Campaigns |-> "NONE"]
  /\ published = [c \in Campaigns |-> FALSE]
  /\ completed = [c \in Campaigns |-> FALSE]
  /\ application = [p \in Pairs |-> "NONE"]
  /\ work = [p \in Pairs |-> 0]

(* What each request needs.                                                *)
CanDraft(c) == stage[c] = "NONE"
CanMove(c, to) == <<stage[c], to>> \in Lifecycle
CanApply(p) == stage[p[1]] = "RECRUITING" /\ application[p] = "NONE"
CanReview(p) == application[p] # "NONE"
CanSubmit(p) == application[p] = "ACCEPTED"

Draft(c) ==
  /\ CanDraft(c)
  /\ stage' = [stage EXCEPT ![c] = "DRAFT"]
  /\ UNCHANGED <<published, completed, application, work>>

Move(c, to) ==
  /\ CanMove(c, to)
  /\ stage' = [stage EXCEPT ![c] = to]
  /\ published' = [published EXCEPT ![c] = @ \/ to = "RECRUITING"]
  /\ completed' = [completed EXCEPT ![c] = to = "COMPLETED"]
  /\ UNCHANGED <<application, work>>

Apply(p) ==
  /\ CanApply(p)
  /\ application' = [application EXCEPT ![p] = "PENDING"]
  /\ UNCHANGED <<stage, published, completed, work>>

Withdraw(p) ==
  /\ application[p] \in {"PENDING", "SHORTLISTED", "WITHDRAWN"}
  /\ application' = [application EXCEPT ![p] = "WITHDRAWN"]
  /\ UNCHANGED <<stage, published, completed, work>>

(* A brand may review again and again, and review what was withdrawn.      *)
Review(p, decision) ==
  /\ CanReview(p)
  /\ application' = [application EXCEPT ![p] = decision]
  /\ UNCHANGED <<stage, published, completed, work>>

Submit(p) ==
  /\ CanSubmit(p)
  /\ work' = [work EXCEPT ![p] = @ + 1]
  /\ UNCHANGED <<stage, published, completed, application>>

Next ==
  \/ \E c \in Campaigns :
       Draft(c) \/ \E step \in Lifecycle : Move(c, step[2])
  \/ \E p \in Pairs :
       \/ Apply(p) \/ Withdraw(p) \/ Submit(p)
       \/ \E d \in {"SHORTLISTED", "ACCEPTED", "REJECTED"} : Review(p, d)

Spec == Init /\ [][Next]_rules

=============================================================================
