---------------------------- MODULE PortalPages ----------------------------
(***************************************************************************)
(* The pages that people work on: frontend/src/app/{brand,creator,admin}.  *)
(* A page loads its lists, offers a button where the row it shows says so, *)
(* sends one call per press, and loads some of its lists again once the    *)
(* call is answered.  Meanwhile everybody else goes on changing the same   *)
(* campaigns, payouts and accounts.                                        *)
(*                                                                         *)
(* The API is what CampaignRules and PaymentLifecycle promise (Campaigns   *)
(* and Payments are shown to implement them), with the accounts and the    *)
(* verification queue next to them.  A list is fetched and shown in one    *)
(* step: what a slow answer does is the matter of DataCache.               *)
(***************************************************************************)
EXTENDS Access, Naturals, FiniteSets

CONSTANTS
  Campaigns, Creators, Ops, Accounts, Documents,
  BrandDocuments,                 \* the documents that brands handed in
  Slots,                          \* the calls a page may have under way
  Creator, BrandUser, Operator,   \* whose pages are looked at
  Roles,                          \* the roles they sign in with
  None

ASSUME PeopleAssumption ==
  Creator \in Creators /\ Operator \in Ops /\ BrandUser \notin Ops

ASSUME RolesAssumption == Roles \subseteq UserRoles

VARIABLES
  stage, published, completed, application, work,   \* CampaignRules
  payout, terms, maker, checker, payer,             \* PaymentLifecycle
  standing,  \* the status of each account
  rank,      \* its role
  ruling,    \* the status of each verification request
  role, page,
  rows,      \* what the page got when it last loaded a list, None before
  load,      \* "loading", "ready" or "failed"
  busy,      \* what the page has marked as busy
  calls,     \* the calls that were sent and not answered yet
  behind,    \* history: lists that an own call changed since they were loaded
  unheard,   \* history: did the answer to a call that was done get lost?
  crowded    \* history: were two rows ever being worked on at a time?

Pairs == Campaigns \X Creators

Rules == INSTANCE CampaignRules
Life == INSTANCE PaymentLifecycle
  WITH stage <- payout, Apps <- Pairs, Owner <- [p \in Pairs |-> BrandUser],
       Terms <- {"agreed"}, NoTerms <- "none"

ofRules == <<stage, published, completed, application, work>>
ofLife == <<payout, terms, maker, checker, payer>>
ofAccounts == <<standing, rank>>
api == <<ofRules, ofLife, ofAccounts, ruling>>
lists == <<rows, load>>
history == <<behind, unheard, crowded>>
pageVars == <<role, page, lists, busy, calls, history>>
vars == <<api, pageVars>>

-----------------------------------------------------------------------------
(* What a list tells of the state of the API; of the lists that are only   *)
(* figures to look at the page keeps no more than that they are there.     *)
Tells(l) ==
  CASE l \in {"open_campaigns", "my_campaigns"}               -> stage
    [] l \in {"my_applications", "received"}                  -> application
    [] l = "payable"                                          -> <<application, payout>>
    [] l = "queued_payments"                                  -> <<payout, maker, checker>>
    [] l = "users"                                            -> <<standing, rank>>
    [] l = "queue"                                            -> ruling
    [] OTHER                                                  -> payout
Worked == {"open_campaigns", "my_campaigns", "my_applications", "received", "payable",
           "queued_payments", "users", "queue"}
Answer(l) == IF l \in Worked THEN Tells(l) ELSE "figures"

(* Whatever a list is answered with, it is not what a page keeps before.   *)
Words ==
  {"NONE", "DRAFT", "RECRUITING", "SHORTLISTING", "PRODUCTION", "REVIEW", "PUBLISHED",
   "COMPLETED", "CANCELLED", "PENDING", "SHORTLISTED", "ACCEPTED", "REJECTED", "WITHDRAWN",
   "SUBMITTED", "APPROVED", "PAID", "FAILED", "REFUNDED", "ACTIVE", "SUSPENDED", "DELETED",
   "VERIFIED"} \cup UserRoles
People == Ops \cup {BrandUser, None}
Answers ==
  {"figures"} \cup [Campaigns -> Words] \cup [Pairs -> Words] \cup [Documents -> Words]
    \cup ([Pairs -> Words] \X [Pairs -> Words])
    \cup ([Pairs -> Words] \X [Pairs -> People] \X [Pairs -> People])
    \cup ([Accounts -> Words] \X [Accounts -> Words])
ASSUME AnswersAssumption == None \notin Answers

Asked == Lists(page, role)

Init ==
  /\ Rules!Init /\ Life!Init
  /\ standing = [a \in Accounts |-> "PENDING"]
  /\ rank = [a \in Accounts |-> "creator"]
  /\ ruling = [d \in Documents |-> "NONE"]
  /\ role \in Roles /\ page \in {p \in Pages : role \in Allowed(p)}
  /\ rows = [l \in Asked |-> None]
  /\ load = [l \in Asked |-> "loading"]
  /\ busy = None /\ calls = {}
  /\ behind = {} /\ unheard = FALSE /\ crowded = FALSE

-----------------------------------------------------------------------------
(***************************************************************************)
(* The buttons: what to do, on which row, and to what it changes it.       *)
(***************************************************************************)
Button(do, row, to) == [do |-> do, row |-> row, to |-> to]
Ready(l) == l \in Asked /\ load[l] = "ready"
Undone == {"FAILED", "CANCELLED", "REFUNDED"}
Me == CASE role = "creator" -> Creator [] role = "brand" -> BrandUser [] OTHER -> Operator

(* Moving a campaign along nextCampaignStatuses(), and creating one.       *)
CampaignButtons ==
  {Button("create", c, "DRAFT") : c \in {d \in Campaigns : stage[d] = "NONE"}}
    \cup IF ~Ready("my_campaigns") THEN {}
         ELSE {b \in [do : {"move"}, row : Campaigns, to : {s[2] : s \in Rules!Lifecycle}] :
                 <<rows["my_campaigns"][b.row], b.to>> \in Rules!Lifecycle}

ReviewButtons ==
  {Button("review", p, d) :
     p \in {q \in Pairs : Ready("received") /\ rows["received"][q] = "PENDING"},
     d \in {"SHORTLISTED", "ACCEPTED", "REJECTED"}}

(* The selection of accepted creators is drawn from the last answer, also  *)
(* while it is being loaded again.                                         *)
PayableUndecided(p) ==            \* a mutant: applications that are not accepted
  /\ rows["payable"] # None
  /\ rows["payable"][1][p] # "NONE"
  /\ rows["payable"][2][p] \in Undone \cup {"NONE"}
Payable(p) ==
  /\ rows["payable"] # None
  /\ rows["payable"][1][p] = "ACCEPTED"
  /\ rows["payable"][2][p] \in Undone \cup {"NONE"}
PrepareButtons == {Button("prepare", p, "PENDING") : p \in {q \in Pairs : Payable(q)}}

ApplyButtons ==
  {Button("apply", <<c, Creator>>, "PENDING") :
     c \in {d \in Campaigns : Ready("open_campaigns")
                              /\ rows["open_campaigns"][d] = "RECRUITING"}}

SubmitButtons ==
  {Button("submit", p, "SUBMITTED") :
     p \in {q \in Pairs : /\ q[2] = Creator /\ Ready("my_applications")
                          /\ rows["my_applications"][q] = "ACCEPTED"}}

(* The queue of the finance page: canApprove and canRelease.               *)
canReleaseOwn(p) ==               \* a mutant: whoever approved may release
  rows["queued_payments"][1][p] = "APPROVED" /\ rows["queued_payments"][2][p] # Operator
canRelease(p) ==
  /\ rows["queued_payments"][1][p] = "APPROVED"
  /\ Operator \notin {rows["queued_payments"][2][p], rows["queued_payments"][3][p]}
canApprove(p) ==
  rows["queued_payments"][1][p] = "PENDING" /\ rows["queued_payments"][2][p] # Operator

FinanceButtons ==
  IF ~Ready("queued_payments") THEN {}
  ELSE {Button("approve", p, "APPROVED") : p \in {q \in Pairs : canApprove(q)}}
         \cup {Button("release", p, "PAID") : p \in {q \in Pairs : canRelease(q)}}

NextStanding(s) ==
  CASE s = "ACTIVE"                             -> {"SUSPENDED"}
    [] s \in {"PENDING", "SUSPENDED", "BANNED"} -> {"ACTIVE"}
    [] OTHER                                    -> {}
UserButtons ==
  IF ~Ready("users") THEN {}
  ELSE (UNION {{Button("status", a, s) : s \in NextStanding(rows["users"][1][a])} : a \in Accounts})
         \cup {b \in [do : {"role"}, row : Accounts, to : UserRoles] :
                 b.to # rows["users"][2][b.row]}

Verify(d) == IF d \in BrandDocuments THEN "verify_brand" ELSE "verify_creator"
QueueButtons ==
  {Button(Verify(d), d, s) :
     d \in {e \in Documents : Ready("queue") /\ rows["queue"][e] = "PENDING"},
     s \in {"VERIFIED", "REJECTED"}}

Offered ==
  CASE page = "campaigns"     -> CampaignButtons
    [] page = "received"      -> ReviewButtons
    [] page = "payouts"       -> PrepareButtons
    [] page = "discover"      -> ApplyButtons
    [] page = "applications"  -> SubmitButtons
    [] page = "finance"       -> FinanceButtons
    [] page = "users"         -> UserButtons
    [] page = "verifications" -> QueueButtons
    [] OTHER                  -> {}

-----------------------------------------------------------------------------
(***************************************************************************)
(* What the API does with a call.  A refusal changes nothing.              *)
(***************************************************************************)
OfRules(b) ==
  \/ b.do = "create" /\ Rules!Draft(b.row)
  \/ b.do = "move" /\ Rules!Move(b.row, b.to)
  \/ b.do = "review" /\ Rules!Review(b.row, b.to)
  \/ b.do = "apply" /\ Rules!Apply(b.row)
  \/ b.do = "submit" /\ Rules!Submit(b.row)

OfLife(b, u) ==
  \/ b.do = "prepare" /\ application[b.row] = "ACCEPTED" /\ Life!Prepare(b.row, u, "agreed")
  \/ b.do = "approve" /\ Life!Approve(b.row, u)
  \/ b.do = "release" /\ Life!Release(b.row, u)

OfAccounts(b, r) ==
  /\ b.do \in {"status", "role"} /\ MayDo(r, b.do)
  /\ \/ /\ b.do = "status"
        /\ standing' = [standing EXCEPT ![b.row] = b.to] /\ UNCHANGED rank
     \/ /\ b.do = "role"
        /\ rank' = [rank EXCEPT ![b.row] = b.to] /\ UNCHANGED standing

Verifying == {"verify_creator", "verify_brand"}
Decides(b, r) ==
  /\ b.do \in Verifying /\ MayDo(r, b.do)
  /\ ruling' = [ruling EXCEPT ![b.row] = b.to]

Does(b, u, r) ==
  \/ OfRules(b) /\ UNCHANGED <<ofLife, ofAccounts, ruling>>
  \/ OfLife(b, u) /\ UNCHANGED <<ofRules, ofAccounts, ruling>>
  \/ OfAccounts(b, r) /\ UNCHANGED <<ofRules, ofLife, ruling>>
  \/ Decides(b, r) /\ UNCHANGED <<ofRules, ofLife, ofAccounts>>

(* What the API asks of a call before it does it.                          *)
Accepts(b) ==
  \/ b.do = "create" /\ Rules!CanDraft(b.row)
  \/ b.do = "move" /\ Rules!CanMove(b.row, b.to)
  \/ b.do = "review" /\ Rules!CanReview(b.row)
  \/ b.do = "apply" /\ Rules!CanApply(b.row)
  \/ b.do = "submit" /\ Rules!CanSubmit(b.row)
  \/ b.do = "prepare" /\ application[b.row] = "ACCEPTED" /\ Life!CanPrepare(b.row, Me)
  \/ b.do = "approve" /\ Life!CanApprove(b.row, Me)
  \/ b.do = "release" /\ Life!CanRelease(b.row, Me)
  \/ b.do \in {"status", "role"} \cup Verifying /\ MayDo(role, b.do)

-----------------------------------------------------------------------------
(***************************************************************************)
(* The page.  It marks one row as busy, two pages the whole form; creating *)
(* a campaign has a mark of its own.  The users page marks the row with    *)
(* what it is given, which disables no change of the role.                 *)
(***************************************************************************)
Mark(b) ==
  CASE page \in {"payouts", "applications"} -> <<page>>
    [] page = "users"                       -> <<b.row, b.to>>
    [] OTHER                                -> <<b.row>>
DisabledNever(b) == FALSE         \* a mutant: buttons stay enabled
Disabled(b) ==
  CASE b.do = "create" -> \E k \in calls : k.button.do = "create"
    [] b.do = "role"   -> busy = <<b.row, rows["users"][2][b.row]>>
    [] OTHER           -> busy = Mark(b)

Call(n, b, at) == [slot |-> n, button |-> b, at |-> at]

Press(b) ==
  /\ b \in Offered /\ ~Disabled(b)
  /\ \E n \in Slots : /\ \A k \in calls : k.slot # n
                      /\ calls' = calls \cup {Call(n, b, "sent")}
  /\ busy' = IF b.do = "create" THEN busy ELSE Mark(b)
  /\ crowded' = (crowded \/ \E k \in calls : k.button.row # b.row)
  /\ UNCHANGED <<api, role, page, lists, behind, unheard>>

Serve(k) ==
  /\ k.at = "sent"
  /\ \/ /\ Does(k.button, Me, role)
        /\ calls' = (calls \ {k}) \cup {Call(k.slot, k.button, "done")}
        /\ behind' = behind \cup {l \in Asked : Tells(l)' # Tells(l)}
     \/ /\ ~Accepts(k.button)
        /\ calls' = (calls \ {k}) \cup {Call(k.slot, k.button, "refused")}
        /\ UNCHANGED <<api, behind>>
  /\ UNCHANGED <<role, page, lists, busy, unheard, crowded>>

(* reload() of the lists each handler names.                               *)
ReloadedFirst(p) ==               \* a mutant: one list is reloaded
  CASE p = "payouts"   -> {"payments", "invoices"}
    [] p = "campaigns" -> {"my_campaigns"}
    [] p = "finance"   -> {"queued_payments"}
    [] OTHER           -> Lists(p, role)
Reloaded(p) ==
  CASE p = "payouts"   -> {"payments", "invoices"}
    [] p = "campaigns" -> {"my_campaigns"}
    [] OTHER           -> Lists(p, role)
UnmarkedNot(b) == busy            \* a mutant: the row stays busy
Unmarked(b) == IF b.do = "create" THEN busy ELSE None

Return(k) ==
  /\ k.at # "sent"
  /\ calls' = calls \ {k}
  /\ busy' = Unmarked(k.button)
  /\ load' = IF k.at = "refused" THEN load
             ELSE [l \in Asked |-> IF l \in Reloaded(page) THEN "loading" ELSE load[l]]
  /\ UNCHANGED <<api, role, page, rows, history>>

(* The call or its answer is lost; the page shows an error.                *)
Lose(k) ==
  /\ calls' = calls \ {k}
  /\ busy' = Unmarked(k.button)
  /\ unheard' = (unheard \/ k.at = "done")
  /\ UNCHANGED <<api, role, page, lists, behind, crowded>>

Show(l) ==
  /\ load[l] = "loading" /\ MayRead(role, l)
  /\ rows' = [rows EXCEPT ![l] = Answer(l)]
  /\ load' = [load EXCEPT ![l] = "ready"]
  /\ behind' = behind \ {l}
  /\ UNCHANGED <<api, role, page, busy, calls, unheard, crowded>>

ShowError(l) ==
  /\ load[l] = "loading"
  /\ load' = [load EXCEPT ![l] = "failed"]
  /\ UNCHANGED <<api, role, page, rows, busy, calls, history>>

(* Some lists that failed have no button to load them again.               *)
NoRetry ==
  {<<"payouts", "payable">>, <<"campaigns", "summary">>, <<"creator_home", "my_applications">>,
   <<"creator_home", "summary">>, <<"brand_home", "received">>, <<"brand_home", "my_brand">>,
   <<"brand_home", "summary">>, <<"console", "totals">>}

Retry(l) ==
  /\ load[l] = "failed" /\ <<page, l>> \notin NoRetry
  /\ load' = [load EXCEPT ![l] = "loading"]
  /\ UNCHANGED <<api, role, page, rows, busy, calls, history>>

PageSteps ==
  \/ \E b \in Offered : Press(b)
  \/ \E k \in calls : Serve(k) \/ Return(k) \/ Lose(k)
  \/ \E l \in Asked : Show(l) \/ ShowError(l) \/ Retry(l)

-----------------------------------------------------------------------------
(* Everybody else, on pages of their own.                                  *)
ElsewhereCampaigns ==
  Rules!Next /\ UNCHANGED <<ofLife, ofAccounts, ruling, pageVars>>

ElsewherePayouts ==
  /\ \E p \in Pairs :
       \/ /\ application[p] = "ACCEPTED"
          /\ \E u \in Ops \cup {BrandUser} : Life!Prepare(p, u, "agreed")
       \/ \E u \in Ops : Life!Approve(p, u) \/ Life!Release(p, u)
       \/ \E s \in Undone : Life!Undo(p, s) \/ Life!Correct(p, s)
  /\ UNCHANGED <<ofRules, ofAccounts, ruling, pageVars>>

ElsewhereAccounts ==
  /\ \E a \in Accounts :
       \/ \E s \in {"ACTIVE", "SUSPENDED", "DELETED"} : OfAccounts(Button("status", a, s), "admin")
       \/ \E r \in UserRoles : OfAccounts(Button("role", a, r), "admin")
  /\ UNCHANGED <<ofRules, ofLife, ruling, pageVars>>

ElsewhereQueue ==
  /\ \E d \in Documents :
       \/ ruling[d] = "NONE" /\ ruling' = [ruling EXCEPT ![d] = "PENDING"]
       \/ ruling[d] # "NONE" /\ \E s \in {"VERIFIED", "REJECTED"} : Decides(Button(Verify(d), d, s), "admin")
  /\ UNCHANGED <<ofRules, ofLife, ofAccounts, pageVars>>

Next ==
  \/ PageSteps
  \/ ElsewhereCampaigns \/ ElsewherePayouts \/ ElsewhereAccounts \/ ElsewhereQueue

Spec == Init /\ [][Next]_vars

-----------------------------------------------------------------------------
(***************************************************************************)
(* Properties                                                              *)
(***************************************************************************)

(* A page has its lists in one of three states, rows once they were        *)
(* loaded, and calls from buttons of its own.                              *)
PagesTypeOK ==
  /\ role \in Allowed(page)
  /\ DOMAIN rows = Asked /\ DOMAIN load = Asked
  /\ \A l \in Asked :
       /\ load[l] \in {"loading", "ready", "failed"}
       /\ load[l] = "ready" => rows[l] # None
  /\ \A k \in calls : k.at \in {"sent", "done", "refused"} /\ k.button.to \in Words
  /\ behind \subseteq Asked
  /\ busy # None => \E k \in calls : k.button.do # "create"

(* Whoever a page lets in may read every list it asks for: the portals'    *)
(* guards, the permission table and the checks of the services agree, for  *)
(* all pages but that of the platform's analytics.                         *)
PagesMayRead == page # "analytics" => \A l \in Asked : MayRead(role, l)

(* The console's navigation leads nobody to a page whose guard sends him   *)
(* away: its roles and those of the pages are kept in two places.  (It     *)
(* does lead the QA and finance teams to the analytics, which let them in  *)
(* and show them an error.)                                                *)
NavigationLeadsIn == \A p \in adminNavFor(role) : role \in Allowed(p)

(* A page that shows the state of the API, and waits for no answer, offers *)
(* nothing that the API would refuse: the conditions the pages draw their  *)
(* buttons from agree with the guards of the services.  Two exceptions: a  *)
(* campaign one has applied to is offered again, and a manager is offered  *)
(* the buttons of an administrator.                                        *)
Current == \A l \in Asked : rows[l] = Answer(l)
OffersAreAccepted ==
  Current /\ calls = {} =>
    \A b \in Offered :
      \/ Accepts(b)
      \/ b.do = "apply" /\ application[b.row] # "NONE"
      \/ role = "manager"

(* Once a call is answered, the page that sent it shows what it changed,   *)
(* or is loading it.  The payouts page leaves out the creators it may pay  *)
(* and its totals.                                                         *)
OwnChangesShow ==
  \/ unheard
  \/ \E k \in calls : k.at = "done"
  \/ \A l \in behind :
       \/ load[l] \in {"loading", "failed"}
       \/ page = "payouts" /\ l \in {"payable", "summary"}

(* As long as one row is worked on at a time no call is sent twice: what   *)
(* was pressed stays disabled until it is answered.  Since a page marks    *)
(* one row only, a second one makes the first available again; and nothing *)
(* disables the roles of a user.                                           *)
NoDoublePress ==
  \/ crowded \/ page = "users"
  \/ \A j, k \in calls :
       j # k => /\ j.button.do # k.button.do
                /\ "create" \in {j.button.do, k.button.do}

(* brand/payments/page.tsx:71-73: who is PENDING, APPROVED or PAID "is     *)
(* filtered out here instead of being offered and then rejected with a     *)
(* 409".  The page does not load the applications again after it prepared  *)
(* a payout, and offers its creator once more.                             *)
PreparedIsNotOffered ==
  "payable" \in behind /\ calls = {} /\ ~unheard =>
    \A b \in Offered : b.do = "prepare" => payout[b.row] \in Undone \cup {"NONE"}

=============================================================================
