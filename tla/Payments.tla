------------------------------ MODULE Payments ------------------------------
(***************************************************************************)
(* The payout of an accepted application and the invoice that bills it:    *)
(* backend/src/payment/payment.service.ts.                                 *)
(*                                                                         *)
(* Every handler of that service first reads the rows it needs, checks     *)
(* them in memory, and only then writes, by primary key and without        *)
(* repeating the check.  Each `await` in between lets another request run, *)
(* so a handler is a chain of actions over the record request[r] that      *)
(* holds what request r has read.  A $transaction whose statements do not  *)
(* depend on each other's reads is one action.                             *)
(***************************************************************************)
EXTENDS Integers, FiniteSets

CONSTANTS
  Apps,             \* applications: Payment.applicationId is unique, so each
                    \* application names at most one payment row
  Requests,         \* the requests the API can be serving at the same time
  Ops,              \* users whose role is ADMIN or FINANCE
  Owner,            \* Owner[a]: the BRAND user who owns the campaign of a
  Amounts,          \* the gross amounts a preparer may ask for, in NPR
  Percents,         \* the commission rates an administrator may set
  MaxPreparations,  \* bound on how often one payout is prepared (a counter)
  None              \* SQL NULL

Users == Ops \cup {Owner[a] : a \in Apps}

ASSUME PeopleAssumption == None \notin Users /\ None \notin Apps
ASSUME MoneyAssumption ==
  /\ Amounts \subseteq Nat \ {0}     \* paymentCreateSchema: int().positive()
  /\ Percents \subseteq 0..60        \* platformSettingsSchema: min(0).max(60)
ASSUME BoundAssumption == MaxPreparations \in Nat
ASSUME RequestsAssumption == IsFiniteSet(Requests)

VARIABLES
  payment,      \* the Payment row of each application
  invoice,      \* the Invoice row of each payment (Invoice.paymentId unique)
  accepted,     \* the applications whose status is ACCEPTED
  percent,      \* the commissionPercent platform setting
  request,      \* what each request in flight has read, and where it stands
  releasedBy,   \* history: who wrote PAID in the current attempt (no column)
  prepared,     \* history: preparations committed, per application
  announced     \* history: "Payment initiated" notices the creator received

vars == <<payment, invoice, accepted, percent, request,
          releasedBy, prepared, announced>>

-----------------------------------------------------------------------------
(***************************************************************************)
(* Rows.  A row that does not exist has status "NONE"; paidAt records only *)
(* whether the column is set.                                              *)
(***************************************************************************)
RetryableStatuses == {"FAILED", "CANCELLED", "REFUNDED"}
PaymentStatuses == {"PENDING", "APPROVED", "PAID"} \cup RetryableStatuses

PaymentRow ==
  [status     : PaymentStatuses \cup {"NONE"},
   preparedBy : Users \cup {None},
   approvedBy : Users \cup {None},
   paidAt     : BOOLEAN,
   amount     : Nat,
   commission : Nat]

InvoiceRow ==
  [status     : {"NONE", "DRAFT", "PAID"},
   amount     : Nat,
   commission : Nat]

NoPayment == [status |-> "NONE", preparedBy |-> None, approvedBy |-> None,
              paidAt |-> FALSE, amount |-> 0, commission |-> 0]
NoInvoice == [status |-> "NONE", amount |-> 0, commission |-> 0]

(* Math.round(amount * rate / 100), which rounds a half upwards. *)
CommissionOn(amount, rate) == (2 * amount * rate + 100) \div 200

(***************************************************************************)
(* Requests.  `at` is the await a request is suspended in; the other       *)
(* fields are its parameters and what it has read so far.                  *)
(***************************************************************************)
Creating == {"quoted", "eligible", "preparing"}
Writing == {"approving", "releasing", "failing", "correcting"}
Stages == {"idle", "announcing"} \cup Creating \cup Writing

Request ==
  [at     : Stages,
   user   : Users \cup {None},
   app    : Apps \cup {None},
   amount : Nat,
   rate   : Nat,
   retry  : BOOLEAN,
   to     : RetryableStatuses \cup {None}]

Waiting(at, u, a, n, rate, to) ==
  [at |-> at, user |-> u, app |-> a, amount |-> n, rate |-> rate,
   retry |-> FALSE, to |-> to]
Idle == Waiting("idle", None, None, 0, 0, None)

Becomes(r, next) == request' = [request EXCEPT ![r] = next]
Ends(r) == Becomes(r, Idle)

isOps(u) == u \in Ops
MayPrepare(u, a) == isOps(u) \/ u = Owner[a]

-----------------------------------------------------------------------------
Init ==
  /\ payment = [a \in Apps |-> NoPayment]
  /\ invoice = [a \in Apps |-> NoInvoice]
  /\ accepted \in SUBSET Apps
  /\ percent \in Percents
  /\ request = [r \in Requests |-> Idle]
  /\ releasedBy = [a \in Apps |-> None]
  /\ prepared = [a \in Apps |-> 0]
  /\ announced = [a \in Apps |-> 0]

tables == <<payment, invoice, releasedBy, prepared, announced>>
surroundings == <<accepted, percent>>

(***************************************************************************)
(* POST /payments.  create() reads the campaign and the commission rate    *)
(* together, then the application, then an existing payment, each in an    *)
(* await of its own.                                                       *)
(***************************************************************************)
CreateQuote(r, u, a, amount) ==
  /\ request[r] = Idle
  /\ MayPrepare(u, a)
  /\ Becomes(r, Waiting("quoted", u, a, amount, percent, None))
  /\ UNCHANGED <<tables, surroundings>>

CreateCheckApplication(r) ==
  /\ request[r].at = "quoted"
  /\ request[r].app \in accepted
  /\ Becomes(r, [request[r] EXCEPT !.at = "eligible"])
  /\ UNCHANGED <<tables, surroundings>>

CreateCheckExisting(r) ==
  LET existing == payment[request[r].app] IN
  /\ request[r].at = "eligible"
  /\ existing.status \in RetryableStatuses \cup {"NONE"}
  /\ Becomes(r, [request[r] EXCEPT !.at = "preparing",
                                   !.retry = existing.status # "NONE"])
  /\ UNCHANGED <<tables, surroundings>>

(* What the transaction writes: a payment row that starts its trail anew,  *)
(* and its invoice, reopened on the same terms.  (The mutants: the trail   *)
(* is kept; a reopened invoice keeps its terms.)                           *)
PreparedRowKeepsTrail(row, q) ==
  [row EXCEPT !.status = "PENDING", !.preparedBy = q.user, !.amount = q.amount,
              !.commission = CommissionOn(q.amount, q.rate)]
PreparedRow(row, q) ==
  [status |-> "PENDING", preparedBy |-> q.user, approvedBy |-> None,
   paidAt |-> FALSE, amount |-> q.amount,
   commission |-> CommissionOn(q.amount, q.rate)]

DraftRowKeepsTerms(row, q) ==
  IF row.status # "NONE"
  THEN [row EXCEPT !.status = "DRAFT"]
  ELSE [status |-> "DRAFT", amount |-> q.amount,
        commission |-> CommissionOn(q.amount, q.rate)]
DraftRow(row, q) ==
  [status |-> "DRAFT", amount |-> q.amount,
   commission |-> CommissionOn(q.amount, q.rate)]

(* The transaction.  Inserting fails on the unique applicationId when the  *)
(* row has appeared since it was looked up; updating a retried row looks   *)
(* at nothing but its id.                                                  *)
CreateCommit(r) ==
  LET q == request[r]
      a == q.app
  IN
  /\ q.at = "preparing"
  /\ q.retry \/ payment[a].status = "NONE"
  /\ prepared[a] < MaxPreparations
  /\ payment' = [payment EXCEPT ![a] = PreparedRow(@, q)]
  /\ invoice' = [invoice EXCEPT ![a] = DraftRow(@, q)]
  /\ releasedBy' = [releasedBy EXCEPT ![a] = None]
  /\ prepared' = [prepared EXCEPT ![a] = @ + 1]
  /\ Becomes(r, Waiting("announcing", None, a, 0, 0, None))
  /\ UNCHANGED <<announced, surroundings>>

(* Mutant: the creator is told again after the notice was delivered.       *)
CreateNotifyAgain(r) ==
  /\ request[r].at = "announcing"
  /\ announced' = [announced EXCEPT ![request[r].app] = @ + 1]
  /\ UNCHANGED <<payment, invoice, releasedBy, prepared, request, surroundings>>

CreateNotify(r) ==
  /\ request[r].at = "announcing"
  /\ announced' = [announced EXCEPT ![request[r].app] = @ + 1]
  /\ Ends(r)
  /\ UNCHANGED <<payment, invoice, releasedBy, prepared, surroundings>>

(***************************************************************************)
(* POST /payments/:id/approve                                              *)
(***************************************************************************)
MayApproveOwn(p, u) == p.status = "PENDING"    \* a mutant: preparer allowed
MayApprove(p, u) ==
  /\ p.status = "PENDING"
  /\ p.preparedBy # u
  /\ p.approvedBy \in {None, u}

ApproveCheck(r, u, a) ==
  /\ request[r] = Idle
  /\ isOps(u)
  /\ MayApprove(payment[a], u)
  /\ Becomes(r, Waiting("approving", u, a, 0, 0, None))
  /\ UNCHANGED <<tables, surroundings>>

ApproveWrite(r) ==
  LET q == request[r] IN
  /\ q.at = "approving"
  /\ payment' = [payment EXCEPT ![q.app] =
       [@ EXCEPT !.status = "APPROVED", !.approvedBy = q.user]]
  /\ Ends(r)
  /\ UNCHANGED <<invoice, releasedBy, prepared, announced, surroundings>>

(***************************************************************************)
(* POST /payments/:id/release, with { failed } or without.                 *)
(***************************************************************************)
MayReleaseUnapproved(p, u) ==     \* a mutant: the status is not checked
  p.status # "NONE" /\ u \notin {p.preparedBy, p.approvedBy}
MayRelease(p, u) ==
  p.status = "APPROVED" /\ u \notin {p.preparedBy, p.approvedBy}

ReleaseCheck(r, u, a, outcome) ==
  /\ request[r] = Idle
  /\ isOps(u)
  /\ MayRelease(payment[a], u)
  /\ Becomes(r, Waiting(outcome, u, a, 0, 0, None))
  /\ UNCHANGED <<tables, surroundings>>

ReleaseFail(r) ==
  /\ request[r].at = "failing"
  /\ payment' = [payment EXCEPT ![request[r].app] = [@ EXCEPT !.status = "FAILED"]]
  /\ Ends(r)
  /\ UNCHANGED <<invoice, releasedBy, prepared, announced, surroundings>>

SettledInvoiceNot(row) == row       \* a mutant: the invoice is forgotten
SettledInvoice(row) == [row EXCEPT !.status = "PAID"]

ReleasePay(r) ==
  LET q == request[r] IN
  /\ q.at = "releasing"
  /\ payment' = [payment EXCEPT ![q.app] =
       [@ EXCEPT !.status = "PAID", !.paidAt = TRUE]]
  /\ invoice' = [invoice EXCEPT ![q.app] = SettledInvoice(@)]
  /\ releasedBy' = [releasedBy EXCEPT ![q.app] = q.user]
  /\ Ends(r)
  /\ UNCHANGED <<prepared, announced, surroundings>>

(***************************************************************************)
(* PATCH /payments/:id/status: only the target is checked, never the       *)
(* status the row is in.                                                   *)
(***************************************************************************)
UpdateStatusCheck(r, u, a, to) ==
  /\ request[r] = Idle
  /\ isOps(u)
  /\ payment[a].status # "NONE"
  /\ Becomes(r, Waiting("correcting", None, a, 0, 0, to))
  /\ UNCHANGED <<tables, surroundings>>

CorrectedRowKeepsPaidAt(row, to) == [row EXCEPT !.status = to]    \* a mutant
CorrectedRow(row, to) == [row EXCEPT !.status = to, !.paidAt = FALSE]

UpdateStatusWrite(r) ==
  LET q == request[r] IN
  /\ q.at = "correcting"
  /\ payment' = [payment EXCEPT ![q.app] = CorrectedRow(@, q.to)]
  /\ Ends(r)
  /\ UNCHANGED <<invoice, releasedBy, prepared, announced, surroundings>>

(***************************************************************************)
(* A request ends without writing any more: a later check refuses it, a    *)
(* statement fails, or the process dies between two awaits.                *)
(***************************************************************************)
RequestEnds(r) ==
  /\ request[r] # Idle
  /\ Ends(r)
  /\ UNCHANGED <<tables, surroundings>>

(***************************************************************************)
(* What other services change meanwhile: an application is reviewed again  *)
(* (review() has no status check), the commission rate is edited.          *)
(***************************************************************************)
Review(a) ==
  /\ accepted' \in {accepted \cup {a}, accepted \ {a}}
  /\ UNCHANGED <<tables, percent, request>>

(* Mutant: the new rate is applied to the payments still pending approval  *)
(* or release.                                                             *)
SetCommissionEverywhere(p) ==
  /\ percent' = p
  /\ payment' = [a \in Apps |->
       IF payment[a].status \in {"PENDING", "APPROVED"}
       THEN [payment[a] EXCEPT !.commission = CommissionOn(payment[a].amount, p)]
       ELSE payment[a]]
  /\ UNCHANGED <<invoice, releasedBy, prepared, announced, accepted, request>>

SetCommission(p) ==
  /\ percent' = p
  /\ UNCHANGED <<tables, accepted, request>>

-----------------------------------------------------------------------------
Create(r) ==
  \/ \E a \in Apps, u \in Users, n \in Amounts : CreateQuote(r, u, a, n)
  \/ CreateCheckApplication(r)
  \/ CreateCheckExisting(r)
  \/ CreateCommit(r)
  \/ CreateNotify(r)

Approve(r) ==
  \/ \E a \in Apps, u \in Users : ApproveCheck(r, u, a)
  \/ ApproveWrite(r)

Release(r) ==
  \/ \E a \in Apps, u \in Users, outcome \in {"releasing", "failing"} :
       ReleaseCheck(r, u, a, outcome)
  \/ ReleaseFail(r)
  \/ ReleasePay(r)

UpdateStatus(r) ==
  \/ \E a \in Apps, u \in Users, to \in RetryableStatuses :
       UpdateStatusCheck(r, u, a, to)
  \/ UpdateStatusWrite(r)

Next ==
  \/ \E r \in Requests :
       Create(r) \/ Approve(r) \/ Release(r) \/ UpdateStatus(r) \/ RequestEnds(r)
  \/ \E a \in Apps : Review(a)
  \/ \E p \in Percents : SetCommission(p)

Spec == Init /\ [][Next]_vars

(***************************************************************************)
(* The same system under a load in which the requests for one payment come *)
(* one after the other; requests for different payments still overlap, and *)
(* so do reviews and settings changes.                                     *)
(***************************************************************************)
Busy(r) == request[r].at \in Creating \cup Writing
OnePerPayment ==
  \A r, s \in Requests :
    r # s /\ Busy(r) /\ Busy(s) => request[r].app # request[s].app

SerialNext == Next /\ OnePerPayment'
SerialSpec == Init /\ [][SerialNext]_vars

-----------------------------------------------------------------------------
(***************************************************************************)
(* Properties                                                              *)
(***************************************************************************)

(* Every row and every request in flight has the shape the schema gives it.*)
TypeOK ==
  /\ payment \in [Apps -> PaymentRow]
  /\ invoice \in [Apps -> InvoiceRow]
  /\ accepted \in SUBSET Apps
  /\ percent \in Percents
  /\ request \in [Requests -> Request]
  /\ \A r \in Requests :
       /\ request[r].at # "idle" => request[r].app \in Apps
       /\ request[r].at = "correcting" => request[r].to \in RetryableStatuses
  /\ releasedBy \in [Apps -> Users \cup {None}]
  /\ prepared \in [Apps -> Nat]
  /\ announced \in [Apps -> Nat]

(* However requests overlap, a payment the ledger calls PAID carries its   *)
(* paidAt stamp and its invoice is PAID too: release() writes both rows in *)
(* one transaction, and whatever reopens the invoice also reopens the      *)
(* payment.                                                                *)
PaidIsBilled ==
  \A a \in Apps : payment[a].status = "PAID" =>
    payment[a].paidAt /\ invoice[a].status = "PAID"

(* However requests overlap, an invoice exists exactly when its payment    *)
(* does and bills the same amount and commission, also after a retry at    *)
(* another amount or another rate.                                         *)
InvoiceMirrorsPayment ==
  \A a \in Apps :
    /\ invoice[a].status = "NONE" <=> payment[a].status = "NONE"
    /\ invoice[a].amount = payment[a].amount
    /\ invoice[a].commission = payment[a].commission

(* However requests overlap, a payment waiting for its second person bears *)
(* no trace of an earlier attempt: no approver, no paidAt, nobody who      *)
(* released it, an unpaid invoice.                                         *)
PendingIsClean ==
  \A a \in Apps : payment[a].status = "PENDING" =>
    /\ payment[a].approvedBy = None
    /\ ~payment[a].paidAt
    /\ releasedBy[a] = None
    /\ invoice[a].status = "DRAFT"

(* However requests overlap, the amount and the commission of a payment    *)
(* change only by sending it back to the start of the maker-checker trail: *)
(* nobody approves or releases other terms than those on the row, and an   *)
(* edited commission rate never reaches a row already prepared.            *)
TermsFrozen ==
  [][\A a \in Apps :
       \/ /\ payment'[a].amount = payment[a].amount
          /\ payment'[a].commission = payment[a].commission
       \/ payment'[a].status = "PENDING" /\ payment'[a].approvedBy = None]_vars

(* A creator is told of a payout only once it is committed, and once for   *)
(* each preparation at most; requests that die before notifying lose it.   *)
Unannounced(a) ==
  {r \in Requests : request[r].at = "announcing" /\ request[r].app = a}
NoPhantomNotice ==
  \A a \in Apps : announced[a] + Cardinality(Unannounced(a)) <= prepared[a]

(* The maker-checker rule: whoever approved a payment did not prepare it,  *)
(* and a PAID payment was prepared, approved and released by three         *)
(* different people.                                                       *)
SeparationOfDuties ==
  \A a \in Apps :
    LET p == payment[a] IN
    /\ p.approvedBy # None => p.approvedBy # p.preparedBy
    /\ p.status = "PAID" =>
         /\ None \notin {p.preparedBy, p.approvedBy, releasedBy[a]}
         /\ releasedBy[a] \notin {p.preparedBy, p.approvedBy}

(* paidAt is set on PAID payments and on no others: the reports that date  *)
(* a payout by paidAt count what the reports that go by status count.      *)
PaidAtMeansPaid ==
  \A a \in Apps : payment[a].paidAt <=> payment[a].status = "PAID"

Quotes == {<<n, CommissionOn(n, p)>> : n \in Amounts, p \in Percents}

(* When the requests for one payment do not overlap, the service           *)
(* implements the lifecycle of its header comment, widened by corrections  *)
(* of what was paid or undone.                                             *)
Lifecycle == INSTANCE PaymentLifecycle WITH
  Terms <- Quotes,
  NoTerms <- <<0, 0>>,
  stage <- [a \in Apps |-> payment[a].status],
  terms <- [a \in Apps |-> <<payment[a].amount, payment[a].commission>>],
  maker <- [a \in Apps |-> payment[a].preparedBy],
  checker <- [a \in Apps |-> payment[a].approvedBy],
  payer <- releasedBy
ImplementsLifecycle == Lifecycle!Spec

-----------------------------------------------------------------------------
(***************************************************************************)
(* The inductive invariants of the proofs in PaymentsProofs.               *)
(***************************************************************************)

(* Under any overlap: a request about to write an existing row has one.    *)
WritesFindRows ==
  \A r \in Requests :
    request[r].at \in Writing => payment[request[r].app].status # "NONE"
LedgerInv ==
  PaidIsBilled /\ InvoiceMirrorsPayment /\ PendingIsClean /\ WritesFindRows

(* When the requests for a payment take turns, what a request has read is  *)
(* still what the row says when it writes.                                 *)
StillTrue(r) ==
  LET q == request[r]
      p == payment[q.app]
  IN
  /\ q.at \in Creating =>
       MayPrepare(q.user, q.app) /\ q.amount \in Amounts /\ q.rate \in Percents
  /\ q.at = "preparing" => p.status \in RetryableStatuses \cup {"NONE"}
  /\ q.at = "approving" =>
       isOps(q.user) /\ p.status = "PENDING" /\ p.preparedBy # q.user
  /\ q.at = "releasing" =>
       /\ isOps(q.user)
       /\ p.status = "APPROVED"
       /\ q.user \notin {p.preparedBy, p.approvedBy}
  /\ q.at = "failing" => p.status = "APPROVED"
  /\ q.at = "correcting" => p.status # "NONE"

(* The trail a payment row must carry, given who released it.              *)
Sound(p, releaser) ==
  /\ p.status = "NONE" <=> p.preparedBy = None
  /\ p.status \in {"NONE", "PENDING"} => p.approvedBy = None
  /\ p.status \in {"APPROVED", "PAID"} => p.approvedBy # None
  /\ p.approvedBy # None => p.approvedBy # p.preparedBy
  /\ p.status = "PAID" => releaser \notin {None, p.preparedBy, p.approvedBy}
  /\ p.paidAt <=> p.status = "PAID"

SerialInv ==
  /\ OnePerPayment
  /\ \A r \in Requests : StillTrue(r)
  /\ \A a \in Apps : Sound(payment[a], releasedBy[a])

=============================================================================
