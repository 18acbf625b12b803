--------------------------- MODULE PaymentsProofs ---------------------------
(***************************************************************************)
(* Theorems about Payments, for any number of applications, operators and  *)
(* concurrent requests.                                                    *)
(***************************************************************************)
EXTENDS MCPayouts, Sequences, FiniteSetTheorems, WellFoundedInduction, TLAPS

(***************************************************************************)
(* Facts about the data.                                                   *)
(***************************************************************************)
LEMMA CommissionIsNat ==
  ASSUME NEW n \in Nat, NEW p \in Nat
  PROVE  CommissionOn(n, p) \in Nat
<1>1. n * p \in Nat
  OBVIOUS
<1>2. 2 * n * p = 2 * (n * p)
  OBVIOUS
<1> DEFINE x == n * p
<1>3. \A y \in Nat : (2 * y + 100) \div 200 \in Nat
  OBVIOUS
<1>. QED
  BY <1>1, <1>2, <1>3 DEF CommissionOn

LEMMA IdleTyped == Idle \in Request /\ Idle.at = "idle"
BY DEF Idle, Waiting, Request, Stages, Creating, Writing

LEMMA EmptyRowsTyped == NoPayment \in PaymentRow /\ NoInvoice \in InvoiceRow
BY DEF NoPayment, NoInvoice, PaymentRow, InvoiceRow

LEMMA PeopleAreUsers == Ops \subseteq Users /\ \A a \in Apps : Owner[a] \in Users
BY DEF Users

(***************************************************************************)
(* Type correctness.                                                       *)
(***************************************************************************)
LEMMA TypeInit == Init => TypeOK
BY EmptyRowsTyped, IdleTyped DEF Init, TypeOK

LEMMA CreateTyped ==
  ASSUME TypeOK, NEW r \in Requests, Create(r)
  PROVE  TypeOK'
<1> USE IdleTyped, MoneyAssumption DEF TypeOK
<1>1. ASSUME NEW a \in Apps, NEW u \in Users, NEW n \in Amounts,
             CreateQuote(r, u, a, n)
      PROVE  TypeOK'
  <2>1. n \in Nat /\ percent \in Nat
    OBVIOUS
  <2>. QED
    BY <1>1, <2>1 DEF CreateQuote, Becomes, tables, surroundings, Waiting,
                      Request, Stages, Creating
<1>2. CASE CreateCheckApplication(r)
  BY <1>2 DEF CreateCheckApplication, Becomes, tables, surroundings, Request,
              Stages, Creating
<1>3. CASE CreateCheckExisting(r)
  BY <1>3 DEF CreateCheckExisting, Becomes, tables, surroundings, Request,
              Stages, Creating
<1>4. CASE CreateCommit(r)
  <2> DEFINE q == request[r]
             c == CommissionOn(q.amount, q.rate)
  <2>1. q \in Request /\ q.app \in Apps /\ q.at = "preparing"
    BY <1>4 DEF CreateCommit, PreparedRow, DraftRow
  <2>2. c \in Nat /\ q.amount \in Nat
    BY <2>1, CommissionIsNat DEF Request
  <2>3. [status |-> "PENDING", preparedBy |-> q.user, approvedBy |-> None,
         paidAt |-> FALSE, amount |-> q.amount, commission |-> c] \in PaymentRow
    BY <2>1, <2>2 DEF PaymentRow, PaymentStatuses, Request
  <2>4. [status |-> "DRAFT", amount |-> q.amount, commission |-> c] \in InvoiceRow
    BY <2>2 DEF InvoiceRow
  <2>5. payment' \in [Apps -> PaymentRow] /\ invoice' \in [Apps -> InvoiceRow]
    BY <1>4, <2>1, <2>3, <2>4 DEF CreateCommit, PreparedRow, DraftRow
  <2>6. request' \in [Requests -> Request]
        /\ \A s \in Requests :
             /\ request'[s].at # "idle" => request'[s].app \in Apps
             /\ request'[s].at = "correcting" => request'[s].to \in RetryableStatuses
    BY <1>4, <2>1 DEF CreateCommit, PreparedRow, DraftRow, Becomes, Waiting, Request, Stages
  <2>. QED
    BY <1>4, <2>5, <2>6 DEF CreateCommit, PreparedRow, DraftRow, surroundings
<1>5. CASE CreateNotify(r)
  BY <1>5 DEF CreateNotify, Ends, Becomes, surroundings
<1>. QED
  BY <1>1, <1>2, <1>3, <1>4, <1>5 DEF Create

LEMMA OperatorTyped ==
  ASSUME TypeOK, NEW r \in Requests, Approve(r) \/ Release(r) \/ UpdateStatus(r)
  PROVE  TypeOK'
<1> USE IdleTyped DEF TypeOK
<1>1. ASSUME NEW a \in Apps, NEW u \in Users, ApproveCheck(r, u, a)
      PROVE  TypeOK'
  BY <1>1 DEF ApproveCheck, MayApprove, Becomes, tables, surroundings, Waiting, Request,
              Stages, Writing
<1>2. CASE ApproveWrite(r)
  <2>1. request[r].app \in Apps /\ request[r].user \in Users \cup {None}
    BY <1>2 DEF ApproveWrite, Request
  <2>2. payment' \in [Apps -> PaymentRow]
    BY <1>2, <2>1 DEF ApproveWrite, PaymentRow, PaymentStatuses
  <2>. QED
    BY <1>2, <2>2 DEF ApproveWrite, Ends, Becomes, surroundings
<1>3. ASSUME NEW a \in Apps, NEW u \in Users,
             NEW outcome \in {"releasing", "failing"},
             ReleaseCheck(r, u, a, outcome)
      PROVE  TypeOK'
  BY <1>3 DEF ReleaseCheck, MayRelease, Becomes, tables, surroundings, Waiting, Request,
              Stages, Writing
<1>4. CASE ReleaseFail(r)
  <2>1. payment' \in [Apps -> PaymentRow]
    BY <1>4 DEF ReleaseFail, PaymentRow, PaymentStatuses, RetryableStatuses
  <2>. QED
    BY <1>4, <2>1 DEF ReleaseFail, Ends, Becomes, surroundings
<1>5. CASE ReleasePay(r)
  <2>1. request[r].app \in Apps /\ request[r].user \in Users \cup {None}
    BY <1>5 DEF ReleasePay, SettledInvoice, Request
  <2>2. payment' \in [Apps -> PaymentRow] /\ invoice' \in [Apps -> InvoiceRow]
    BY <1>5, <2>1 DEF ReleasePay, SettledInvoice, PaymentRow, PaymentStatuses, InvoiceRow
  <2>. QED
    BY <1>5, <2>1, <2>2 DEF ReleasePay, SettledInvoice, Ends, Becomes, surroundings
<1>6. ASSUME NEW a \in Apps, NEW u \in Users, NEW to \in RetryableStatuses,
             UpdateStatusCheck(r, u, a, to)
      PROVE  TypeOK'
  BY <1>6 DEF UpdateStatusCheck, Becomes, tables, surroundings, Waiting, Request,
              Stages, Writing
<1>7. CASE UpdateStatusWrite(r)
  <2>1. request[r].app \in Apps /\ request[r].to \in RetryableStatuses
    BY <1>7 DEF UpdateStatusWrite, CorrectedRow
  <2>2. payment' \in [Apps -> PaymentRow]
    BY <1>7, <2>1 DEF UpdateStatusWrite, CorrectedRow, PaymentRow, PaymentStatuses
  <2>. QED
    BY <1>7, <2>2 DEF UpdateStatusWrite, CorrectedRow, Ends, Becomes, surroundings
<1>. QED
  BY <1>1, <1>2, <1>3, <1>4, <1>5, <1>6, <1>7 DEF Approve, Release, UpdateStatus

LEMMA TypeStep == TypeOK /\ [Next]_vars => TypeOK'
<1> SUFFICES ASSUME TypeOK, [Next]_vars PROVE TypeOK'
  OBVIOUS
<1>1. ASSUME NEW r \in Requests, RequestEnds(r) PROVE TypeOK'
  BY <1>1, IdleTyped DEF TypeOK, RequestEnds, Ends, Becomes, tables, surroundings
<1>2. ASSUME NEW a \in Apps, Review(a) PROVE TypeOK'
  BY <1>2 DEF TypeOK, Review, tables
<1>3. ASSUME NEW p \in Percents, SetCommission(p) PROVE TypeOK'
  BY <1>3 DEF TypeOK, SetCommission, tables
<1>4. CASE UNCHANGED vars
  BY <1>4 DEF TypeOK, vars
<1>. QED
  BY <1>1, <1>2, <1>3, <1>4, CreateTyped, OperatorTyped DEF Next

(* Every row and every request in flight keeps the shape the schema gives  *)
(* it, in every execution of the service.                                  *)
THEOREM Typing == Spec => []TypeOK
BY TypeInit, TypeStep, PTL DEF Spec

-----------------------------------------------------------------------------
(***************************************************************************)
(* What holds of the two ledgers however requests overlap.  A handler      *)
(* writes without re-reading, so the only thing its write can rely on is   *)
(* what no other request ever undoes: rows are never deleted.              *)
(***************************************************************************)
LEMMA LedgerInit == Init => LedgerInv
BY DEF Init, LedgerInv, PaidIsBilled, InvoiceMirrorsPayment, PendingIsClean,
       WritesFindRows, NoPayment, NoInvoice, Idle, Waiting, Writing

(* A step that writes neither ledger and lets no request into a writing    *)
(* stage without a row.                                                    *)
LEMMA LedgerReadStep ==
  ASSUME TypeOK, LedgerInv, UNCHANGED <<payment, invoice, releasedBy>>,
         NEW r \in Requests, NEW q, Becomes(r, q),
         q.at \in Writing => payment[q.app].status # "NONE"
  PROVE  LedgerInv'
BY DEF TypeOK, LedgerInv, PaidIsBilled, InvoiceMirrorsPayment, PendingIsClean,
       WritesFindRows, Becomes

LEMMA LedgerStep == TypeOK /\ LedgerInv /\ [Next]_vars => LedgerInv'
<1> SUFFICES ASSUME TypeOK, LedgerInv, [Next]_vars PROVE LedgerInv'
  OBVIOUS
<1> USE DEF tables
<1>1. ASSUME NEW r \in Requests, Create(r) PROVE LedgerInv'
  <2>1. ASSUME NEW a \in Apps, NEW u \in Users, NEW n \in Amounts,
               CreateQuote(r, u, a, n)
        PROVE  LedgerInv'
    BY <2>1, LedgerReadStep DEF CreateQuote, Waiting, Writing
  <2>2. CASE CreateCheckApplication(r)
    <3>1. ([request[r] EXCEPT !.at = "eligible"]).at \notin Writing
      BY DEF TypeOK, Request, Writing
    <3>. QED
      BY <2>2, <3>1, LedgerReadStep DEF CreateCheckApplication
  <2>3. CASE CreateCheckExisting(r)
    <3> DEFINE q == [request[r] EXCEPT !.at = "preparing",
                     !.retry = payment[request[r].app].status # "NONE"]
    <3>1. q.at = "preparing"
      BY DEF TypeOK, Request
    <3>2. Becomes(r, q) /\ UNCHANGED <<payment, invoice, releasedBy>>
      BY <2>3 DEF CreateCheckExisting
    <3>. HIDE DEF q
    <3>. QED
      BY <3>1, <3>2, LedgerReadStep DEF Writing
  <2>4. CASE CreateCommit(r)
    BY <2>4 DEF CreateCommit, PreparedRow, DraftRow, TypeOK, LedgerInv, PaidIsBilled,
       InvoiceMirrorsPayment, PendingIsClean, WritesFindRows, Becomes, Waiting,
       Writing
  <2>5. CASE CreateNotify(r)
    BY <2>5, LedgerReadStep, IdleTyped DEF CreateNotify, Ends, Writing
  <2>. QED
    BY <1>1, <2>1, <2>2, <2>3, <2>4, <2>5 DEF Create
<1>2. ASSUME NEW r \in Requests, Approve(r) PROVE LedgerInv'
  <2>1. ASSUME NEW a \in Apps, NEW u \in Users, ApproveCheck(r, u, a)
        PROVE  LedgerInv'
    BY <2>1, LedgerReadStep DEF ApproveCheck, MayApprove, Waiting
  <2>2. CASE ApproveWrite(r)
    BY <2>2, IdleTyped DEF ApproveWrite, TypeOK, LedgerInv, PaidIsBilled,
       InvoiceMirrorsPayment, PendingIsClean, WritesFindRows, Ends, Becomes,
       Writing, PaymentRow
  <2>. QED
    BY <1>2, <2>1, <2>2 DEF Approve
<1>3. ASSUME NEW r \in Requests, Release(r) PROVE LedgerInv'
  <2>1. ASSUME NEW a \in Apps, NEW u \in Users,
               NEW outcome \in {"releasing", "failing"},
               ReleaseCheck(r, u, a, outcome)
        PROVE  LedgerInv'
    BY <2>1, LedgerReadStep DEF ReleaseCheck, MayRelease, Waiting
  <2>2. CASE ReleaseFail(r)
    BY <2>2, IdleTyped DEF ReleaseFail, TypeOK, LedgerInv, PaidIsBilled,
       InvoiceMirrorsPayment, PendingIsClean, WritesFindRows, Ends, Becomes,
       Writing, PaymentRow
  <2>3. CASE ReleasePay(r)
    BY <2>3, IdleTyped DEF ReleasePay, SettledInvoice, TypeOK, LedgerInv, PaidIsBilled,
       InvoiceMirrorsPayment, PendingIsClean, WritesFindRows, Ends, Becomes,
       Writing, PaymentRow, InvoiceRow
  <2>. QED
    BY <1>3, <2>1, <2>2, <2>3 DEF Release
<1>4. ASSUME NEW r \in Requests, UpdateStatus(r) PROVE LedgerInv'
  <2>1. ASSUME NEW a \in Apps, NEW u \in Users, NEW to \in RetryableStatuses,
               UpdateStatusCheck(r, u, a, to)
        PROVE  LedgerInv'
    BY <2>1, LedgerReadStep DEF UpdateStatusCheck, Waiting
  <2>2. CASE UpdateStatusWrite(r)
    BY <2>2, IdleTyped DEF UpdateStatusWrite, CorrectedRow, TypeOK, LedgerInv, PaidIsBilled,
       InvoiceMirrorsPayment, PendingIsClean, WritesFindRows, Ends, Becomes,
       Writing, PaymentRow, RetryableStatuses
  <2>. QED
    BY <1>4, <2>1, <2>2 DEF UpdateStatus
<1>5. ASSUME NEW r \in Requests, RequestEnds(r) PROVE LedgerInv'
  BY <1>5, LedgerReadStep, IdleTyped DEF RequestEnds, Ends, Writing
<1>6. ASSUME UNCHANGED <<tables, request>> PROVE LedgerInv'
  BY <1>6 DEF LedgerInv, PaidIsBilled, InvoiceMirrorsPayment, PendingIsClean,
              WritesFindRows
<1>. QED
  BY <1>1, <1>2, <1>3, <1>4, <1>5, <1>6 DEF Next, Review, SetCommission, vars

(* The invariant of both ledgers from which the next three follow, under   *)
(* any overlap of requests.                                                *)
THEOREM Ledger == Spec => []LedgerInv
BY LedgerInit, LedgerStep, TypeInit, TypeStep, PTL DEF Spec

(* A PAID payment is stamped and its invoice is PAID, however release,     *)
(* retry and status corrections overlap.                                   *)
THEOREM PaidBilled == Spec => []PaidIsBilled
BY Ledger, PTL DEF LedgerInv

(* An invoice bills exactly the terms of its payment, retries included.    *)
THEOREM InvoiceMirrors == Spec => []InvoiceMirrorsPayment
BY Ledger, PTL DEF LedgerInv

(* A payment waiting for approval carries nothing of an earlier attempt.   *)
THEOREM PendingClean == Spec => []PendingIsClean
BY Ledger, PTL DEF LedgerInv

(* Nobody approves or releases other terms than those prepared: the amount *)
(* and the commission change only together with a return to PENDING.       *)
THEOREM FrozenTerms == Spec => TermsFrozen
<1> DEFINE Frozen == \A a \in Apps :
       \/ /\ payment'[a].amount = payment[a].amount
          /\ payment'[a].commission = payment[a].commission
       \/ payment'[a].status = "PENDING" /\ payment'[a].approvedBy = None
<1>1. ASSUME TypeOK, Next PROVE Frozen
  <2>1. ASSUME NEW r \in Requests, CreateCommit(r) PROVE Frozen
    BY <1>1, <2>1 DEF CreateCommit, PreparedRow, DraftRow, TypeOK
  <2>2. ASSUME NEW r \in Requests, ApproveWrite(r) PROVE Frozen
    BY <1>1, <2>2 DEF ApproveWrite, TypeOK, PaymentRow
  <2>3. ASSUME NEW r \in Requests, ReleaseFail(r) PROVE Frozen
    BY <1>1, <2>3 DEF ReleaseFail, TypeOK, PaymentRow
  <2>4. ASSUME NEW r \in Requests, ReleasePay(r) PROVE Frozen
    BY <1>1, <2>4 DEF ReleasePay, SettledInvoice, TypeOK, PaymentRow
  <2>5. ASSUME NEW r \in Requests, UpdateStatusWrite(r) PROVE Frozen
    BY <1>1, <2>5 DEF UpdateStatusWrite, CorrectedRow, TypeOK, PaymentRow
  <2>6. CASE UNCHANGED payment
    BY <2>6
  <2>. QED
    BY <1>1, <2>1, <2>2, <2>3, <2>4, <2>5, <2>6
       DEF Next, Create, CreateQuote, CreateCheckApplication,
       CreateCheckExisting, CreateNotify, Approve, ApproveCheck, MayApprove, Release,
       ReleaseCheck, MayRelease, UpdateStatus, UpdateStatusCheck, RequestEnds, Review,
       SetCommission, tables
<1>2. TypeOK /\ [Next]_vars => [Frozen]_vars
  BY <1>1
<1>. QED
  BY <1>2, Typing, PTL DEF Spec, TermsFrozen

-----------------------------------------------------------------------------
(***************************************************************************)
(* The notices.  A preparation and the request that has yet to announce it *)
(* come into being in one step, so the two are counted together.           *)
(***************************************************************************)
LEMMA NoticeInit == Init => NoPhantomNotice
<1> SUFFICES ASSUME Init, NEW a \in Apps
             PROVE  announced[a] + Cardinality(Unannounced(a)) <= prepared[a]
  BY DEF NoPhantomNotice
<1>1. Unannounced(a) = {}
  BY IdleTyped DEF Init, Unannounced
<1>. QED
  BY <1>1, FS_EmptySet DEF Init

LEMMA UnannouncedFinite ==
  ASSUME NEW a \in Apps
  PROVE  IsFiniteSet(Unannounced(a)) /\ Cardinality(Unannounced(a)) \in Nat
<1>1. Unannounced(a) \subseteq Requests
  BY DEF Unannounced
<1>. QED
  BY <1>1, RequestsAssumption, FS_Subset, FS_CardinalityType

LEMMA OneFewer ==
  ASSUME NEW S, IsFiniteSet(S), NEW x, NEW U, U = S \ {x}
  PROVE  Cardinality(U) \in Nat /\ Cardinality(U) <= Cardinality(S)
<1>1. IsFiniteSet(U) /\ Cardinality(U) \in Nat /\ Cardinality(S) \in Nat
  BY FS_RemoveElement, FS_CardinalityType
<1>. QED
  BY <1>1, FS_RemoveElement

LEMMA OneMore ==
  ASSUME NEW S, IsFiniteSet(S), NEW x, NEW U, U = S \cup {x}
  PROVE  Cardinality(U) \in Nat /\ Cardinality(U) <= Cardinality(S) + 1
<1>1. IsFiniteSet(U) /\ Cardinality(U) \in Nat /\ Cardinality(S) \in Nat
  BY FS_AddElement, FS_CardinalityType
<1>. QED
  BY <1>1, FS_AddElement

(* A request that is not, and does not come to be, about to announce.      *)
LEMMA NoticeQuietStep ==
  ASSUME TypeOK, NoPhantomNotice, UNCHANGED <<prepared, announced>>,
         NEW r \in Requests, NEW q, Becomes(r, q), q.at # "announcing"
  PROVE  NoPhantomNotice'
<1> SUFFICES ASSUME NEW a \in Apps
             PROVE  announced[a] + Cardinality(Unannounced(a)') <= prepared[a]
  BY DEF NoPhantomNotice
<1>1. announced[a] \in Nat /\ prepared[a] \in Nat
      /\ announced[a] + Cardinality(Unannounced(a)) <= prepared[a]
  BY DEF TypeOK, NoPhantomNotice
<1>2. Unannounced(a)' = Unannounced(a) \ {r}
  BY DEF TypeOK, Becomes, Unannounced
<1>3. Cardinality(Unannounced(a)') \in Nat
      /\ Cardinality(Unannounced(a)') <= Cardinality(Unannounced(a))
  BY <1>2, UnannouncedFinite, OneFewer
<1>. QED
  BY <1>1, <1>3, UnannouncedFinite

LEMMA NoticeStep == TypeOK /\ NoPhantomNotice /\ [Next]_vars => NoPhantomNotice'
<1> SUFFICES ASSUME TypeOK, NoPhantomNotice, [Next]_vars PROVE NoPhantomNotice'
  OBVIOUS
<1> USE DEF tables
<1>1. ASSUME NEW r \in Requests, Create(r) PROVE NoPhantomNotice'
  <2>1. ASSUME NEW a \in Apps, NEW u \in Users, NEW n \in Amounts,
               CreateQuote(r, u, a, n)
        PROVE  NoPhantomNotice'
    BY <2>1, NoticeQuietStep DEF CreateQuote, Waiting
  <2>2. CASE CreateCheckApplication(r)
    <3>1. ([request[r] EXCEPT !.at = "eligible"]).at # "announcing"
      BY DEF TypeOK, Request
    <3>. QED
      BY <2>2, <3>1, NoticeQuietStep DEF CreateCheckApplication
  <2>3. CASE CreateCheckExisting(r)
    <3> DEFINE q == [request[r] EXCEPT !.at = "preparing",
                     !.retry = payment[request[r].app].status # "NONE"]
    <3>1. q.at # "announcing"
      BY DEF TypeOK, Request
    <3>2. Becomes(r, q) /\ UNCHANGED <<prepared, announced>>
      BY <2>3 DEF CreateCheckExisting
    <3>. HIDE DEF q
    <3>. QED
      BY <3>1, <3>2, NoticeQuietStep
  <2>4. CASE CreateCommit(r)
    <3> SUFFICES ASSUME NEW a \in Apps
                 PROVE  announced[a]' + Cardinality(Unannounced(a)') <= prepared[a]'
      BY DEF NoPhantomNotice
    <3>1. announced[a] \in Nat /\ prepared[a] \in Nat
          /\ announced[a] + Cardinality(Unannounced(a)) <= prepared[a]
      BY DEF TypeOK, NoPhantomNotice
    <3>2. announced[a]' = announced[a]
      BY <2>4 DEF CreateCommit
    <3>3. CASE a = request[r].app
      <4>1. Unannounced(a)' = Unannounced(a) \cup {r} /\ prepared[a]' = prepared[a] + 1
        BY <2>4, <3>3 DEF CreateCommit, Becomes, Waiting, Unannounced, TypeOK
      <4>2. Cardinality(Unannounced(a)') <= Cardinality(Unannounced(a)) + 1
            /\ Cardinality(Unannounced(a)') \in Nat
        BY <4>1, UnannouncedFinite, OneMore
      <4>. QED
        BY <3>1, <3>2, <4>1, <4>2, UnannouncedFinite
    <3>4. CASE a # request[r].app
      <4>1. Unannounced(a)' = Unannounced(a) /\ prepared[a]' = prepared[a]
        BY <2>4, <3>4 DEF CreateCommit, Becomes, Waiting, Unannounced, TypeOK
      <4>. QED
        BY <3>1, <3>2, <4>1
    <3>. QED
      BY <3>3, <3>4
  <2>5. CASE CreateNotify(r)
    <3> SUFFICES ASSUME NEW a \in Apps
                 PROVE  announced[a]' + Cardinality(Unannounced(a)') <= prepared[a]'
      BY DEF NoPhantomNotice
    <3>1. announced[a] \in Nat /\ prepared[a] \in Nat
          /\ announced[a] + Cardinality(Unannounced(a)) <= prepared[a]
      BY DEF TypeOK, NoPhantomNotice
    <3>2. prepared[a]' = prepared[a]
          /\ Unannounced(a)' = Unannounced(a) \ {r}
      BY <2>5, IdleTyped DEF CreateNotify, Ends, Becomes, Unannounced, TypeOK
    <3>3. CASE a = request[r].app
      <4>1. r \in Unannounced(a) /\ announced[a]' = announced[a] + 1
        BY <2>5, <3>3 DEF CreateNotify, Unannounced, TypeOK
      <4>2. Cardinality(Unannounced(a)') = Cardinality(Unannounced(a)) - 1
        BY <3>2, <4>1, UnannouncedFinite, FS_RemoveElement
      <4>. QED
        BY <3>1, <3>2, <4>1, <4>2, UnannouncedFinite
    <3>4. CASE a # request[r].app
      <4>1. Unannounced(a)' = Unannounced(a) /\ announced[a]' = announced[a]
        BY <2>5, <3>2, <3>4 DEF CreateNotify, Unannounced, TypeOK
      <4>. QED
        BY <3>1, <3>2, <4>1
    <3>. QED
      BY <3>3, <3>4
  <2>. QED
    BY <1>1, <2>1, <2>2, <2>3, <2>4, <2>5 DEF Create
<1>2. ASSUME NEW r \in Requests, Approve(r) PROVE NoPhantomNotice'
  BY <1>2, NoticeQuietStep, IdleTyped
     DEF Approve, ApproveCheck, ApproveWrite, Ends, Waiting
<1>3. ASSUME NEW r \in Requests, Release(r) PROVE NoPhantomNotice'
  BY <1>3, NoticeQuietStep, IdleTyped
     DEF Release, ReleaseCheck, ReleaseFail, ReleasePay, Ends, Waiting
<1>4. ASSUME NEW r \in Requests, UpdateStatus(r) PROVE NoPhantomNotice'
  BY <1>4, NoticeQuietStep, IdleTyped
     DEF UpdateStatus, UpdateStatusCheck, UpdateStatusWrite, Ends, Waiting
<1>5. ASSUME NEW r \in Requests, RequestEnds(r) PROVE NoPhantomNotice'
  BY <1>5, NoticeQuietStep, IdleTyped DEF RequestEnds, Ends
<1>6. ASSUME UNCHANGED <<tables, request>> PROVE NoPhantomNotice'
  BY <1>6 DEF NoPhantomNotice, Unannounced
<1>. QED
  BY <1>1, <1>2, <1>3, <1>4, <1>5, <1>6 DEF Next, Review, SetCommission, vars

(* However requests overlap and die, a creator is told of no payout that   *)
(* was not committed, and of each preparation once at most.                *)
THEOREM NoticesEarned == Spec => []NoPhantomNotice
BY NoticeInit, NoticeStep, Typing, PTL DEF Spec

-----------------------------------------------------------------------------
(***************************************************************************)
(* When the requests for a payment take turns (SerialSpec), what a request *)
(* has checked is still true when it writes; from that, the maker-checker  *)
(* rule.                                                                   *)
(***************************************************************************)
LEMMA SerialTypeStep == TypeOK /\ [SerialNext]_vars => TypeOK'
BY TypeStep DEF SerialNext

LEMMA SerialInit == Init => SerialInv
BY PeopleAssumption DEF Init, SerialInv, OnePerPayment, Busy, StillTrue, Sound,
   NoPayment, Idle, Waiting, Creating, Writing

(* A step of request r that leaves the tables alone.                       *)
LEMMA SerialReadStep ==
  ASSUME TypeOK, SerialInv, OnePerPayment', UNCHANGED <<payment, releasedBy>>,
         NEW r \in Requests, NEW q, Becomes(r, q), StillTrue(r)'
  PROVE  SerialInv'
<1>1. ASSUME NEW s \in Requests, s # r PROVE StillTrue(s)'
  <2>1. request'[s] = request[s]
    BY <1>1 DEF Becomes, TypeOK
  <2>. QED
    BY <2>1 DEF SerialInv, StillTrue
<1>. QED
  BY <1>1 DEF SerialInv

(* A step in which a busy request writes its payment's row and is done.    *)
LEMMA SerialWriteStep ==
  ASSUME TypeOK, SerialInv, OnePerPayment',
         NEW r \in Requests, Busy(r), NEW q, Becomes(r, q),
         q.at \notin Creating \cup Writing,
         NEW p, NEW releaser, Sound(p, releaser),
         payment' = [payment EXCEPT ![request[r].app] = p],
         releasedBy' = [releasedBy EXCEPT ![request[r].app] = releaser]
  PROVE  SerialInv'
<1> DEFINE a == request[r].app
<1>1. a \in Apps
  BY DEF TypeOK, Busy, Creating, Writing
<1>2. ASSUME NEW s \in Requests PROVE StillTrue(s)'
  <2>1. CASE s = r
    BY <2>1 DEF Becomes, TypeOK, StillTrue, Creating, Writing
  <2>2. CASE s # r
    <3>1. request'[s] = request[s]
      BY <2>2 DEF Becomes, TypeOK
    <3>2. CASE Busy(s)
      <4>1. payment'[request[s].app] = payment[request[s].app]
        BY <3>2, <2>2, <1>1 DEF SerialInv, OnePerPayment, TypeOK
      <4>. QED
        BY <3>1, <4>1 DEF SerialInv, StillTrue
    <3>3. CASE ~Busy(s)
      BY <3>1, <3>3 DEF StillTrue, Busy, Creating, Writing
    <3>. QED
      BY <3>2, <3>3
  <2>. QED
    BY <2>1, <2>2
<1>3. ASSUME NEW b \in Apps PROVE Sound(payment'[b], releasedBy'[b])
  BY <1>1 DEF TypeOK, SerialInv
<1>. QED
  BY <1>2, <1>3 DEF SerialInv

LEMMA SerialStep == TypeOK /\ SerialInv /\ [SerialNext]_vars => SerialInv'
<1> SUFFICES ASSUME TypeOK, SerialInv, [SerialNext]_vars PROVE SerialInv'
  OBVIOUS
<1>1. CASE UNCHANGED vars
  BY <1>1 DEF vars, SerialInv, OnePerPayment, Busy, StillTrue
<1>2. CASE SerialNext
  <2>1. TypeOK' /\ OnePerPayment' /\ Next
    BY <1>2, TypeStep DEF SerialNext
  <2>2. ASSUME NEW r \in Requests, Create(r) PROVE SerialInv'
    <3>1. ASSUME NEW a \in Apps, NEW u \in Users, NEW n \in Amounts,
                 CreateQuote(r, u, a, n)
          PROVE  SerialInv'
      <4>1. request'[r] = Waiting("quoted", u, a, n, percent, None)
        BY <3>1 DEF CreateQuote, Becomes, TypeOK
      <4>2. StillTrue(r)'
        BY <3>1, <4>1 DEF CreateQuote, StillTrue, Waiting, Creating, Writing,
                          MayPrepare, isOps, TypeOK
      <4>. QED
        BY <3>1, <4>2, <2>1, SerialReadStep DEF CreateQuote, tables
    <3>2. CASE CreateCheckApplication(r)
      <4> DEFINE q == [request[r] EXCEPT !.at = "eligible"]
      <4>1. /\ q.at = "eligible" /\ q.user = request[r].user /\ q.app = request[r].app
            /\ q.amount = request[r].amount /\ q.rate = request[r].rate
        BY DEF TypeOK, Request
      <4>2. request'[r] = q /\ Becomes(r, q)
        BY <3>2 DEF CreateCheckApplication, Becomes, TypeOK
      <4>. HIDE DEF q
      <4>3. StillTrue(r)'
        BY <3>2, <4>1, <4>2
           DEF CreateCheckApplication, SerialInv, StillTrue, Creating, Writing,
               MayPrepare, isOps
      <4>. QED
        BY <3>2, <4>2, <4>3, <2>1, SerialReadStep DEF CreateCheckApplication, tables
    <3>3. CASE CreateCheckExisting(r)
      <4> DEFINE q == [request[r] EXCEPT !.at = "preparing",
                       !.retry = payment[request[r].app].status # "NONE"]
      <4>1. /\ q.at = "preparing" /\ q.user = request[r].user /\ q.app = request[r].app
            /\ q.amount = request[r].amount /\ q.rate = request[r].rate
        BY DEF TypeOK, Request
      <4>2. request'[r] = q /\ Becomes(r, q)
        BY <3>3 DEF CreateCheckExisting, Becomes, TypeOK
      <4>. HIDE DEF q
      <4>3. StillTrue(r)'
        BY <3>3, <4>1, <4>2
           DEF CreateCheckExisting, SerialInv, StillTrue, Creating, Writing,
               MayPrepare, isOps, tables
      <4>. QED
        BY <3>3, <4>2, <4>3, <2>1, SerialReadStep DEF CreateCheckExisting, tables
    <3>4. CASE CreateCommit(r)
      <4> DEFINE c == CommissionOn(request[r].amount, request[r].rate)
                 p == [status |-> "PENDING", preparedBy |-> request[r].user,
                       approvedBy |-> None, paidAt |-> FALSE,
                       amount |-> request[r].amount, commission |-> c]
      <4>1. request[r].user \in Users
        BY <3>4, PeopleAreUsers DEF CreateCommit, PreparedRow, DraftRow, SerialInv, StillTrue, Creating,
           MayPrepare, isOps, TypeOK
      <4>2. Sound(p, None)
        BY <4>1, PeopleAssumption DEF Sound
      <4>3. Busy(r)
        BY <3>4 DEF CreateCommit, PreparedRow, DraftRow, Busy, Creating
      <4>4. /\ payment' = [payment EXCEPT ![request[r].app] = p]
            /\ releasedBy' = [releasedBy EXCEPT ![request[r].app] = None]
            /\ Becomes(r, Waiting("announcing", None, request[r].app, 0, 0, None))
        BY <3>4 DEF CreateCommit, PreparedRow, DraftRow
      <4>5. Waiting("announcing", None, request[r].app, 0, 0, None).at
              \notin Creating \cup Writing
        BY DEF Waiting, Creating, Writing
      <4>. HIDE DEF p
      <4>. QED
        BY <4>2, <4>3, <4>4, <4>5, <2>1, SerialWriteStep
    <3>5. CASE CreateNotify(r)
      <4>1. StillTrue(r)'
        BY <3>5, IdleTyped DEF CreateNotify, Ends, Becomes, TypeOK, StillTrue,
                               Creating, Writing
      <4>. QED
        BY <3>5, <4>1, <2>1, SerialReadStep DEF CreateNotify, Ends
    <3>. QED
      BY <2>2, <3>1, <3>2, <3>3, <3>4, <3>5 DEF Create
  <2>3. ASSUME NEW r \in Requests, NEW a \in Apps, NEW u \in Users,
               NEW to \in RetryableStatuses,
               \/ ApproveCheck(r, u, a)
               \/ ReleaseCheck(r, u, a, "releasing")
               \/ ReleaseCheck(r, u, a, "failing")
               \/ UpdateStatusCheck(r, u, a, to)
        PROVE  SerialInv'
    <3> USE DEF Waiting, TypeOK, Becomes, StillTrue, Creating, Writing, tables
    <3>1. CASE ApproveCheck(r, u, a)
      <4>1. StillTrue(r)'
        BY <3>1 DEF ApproveCheck, MayApprove
      <4>. QED
        BY <3>1, <4>1, <2>1, SerialReadStep DEF ApproveCheck, MayApprove
    <3>2. ASSUME NEW outcome \in {"releasing", "failing"},
                 ReleaseCheck(r, u, a, outcome)
          PROVE  SerialInv'
      <4>1. StillTrue(r)'
        BY <3>2 DEF ReleaseCheck, MayRelease
      <4>. QED
        BY <3>2, <4>1, <2>1, SerialReadStep DEF ReleaseCheck, MayRelease
    <3>3. CASE UpdateStatusCheck(r, u, a, to)
      <4>1. StillTrue(r)'
        BY <3>3 DEF UpdateStatusCheck
      <4>. QED
        BY <3>3, <4>1, <2>1, SerialReadStep DEF UpdateStatusCheck
    <3>. QED
      BY <2>3, <3>1, <3>2, <3>3
  <2>4. ASSUME NEW r \in Requests,
               \/ ApproveWrite(r)
               \/ ReleaseFail(r)
               \/ ReleasePay(r)
               \/ UpdateStatusWrite(r)
        PROVE  SerialInv'
    <3> DEFINE a == request[r].app
               u == request[r].user
    <3>1. Busy(r) /\ a \in Apps /\ Becomes(r, Idle) /\ Idle.at \notin Creating \cup Writing
      BY <2>4, IdleTyped DEF TypeOK, Busy, Creating, Writing, Ends, ApproveWrite,
         ReleaseFail, ReleasePay, SettledInvoice, UpdateStatusWrite, CorrectedRow
    <3>2. payment[a] \in PaymentRow /\ Sound(payment[a], releasedBy[a]) /\ StillTrue(r)
      BY <3>1 DEF TypeOK, SerialInv
    <3>3. releasedBy = [releasedBy EXCEPT ![a] = releasedBy[a]]
      BY <3>1 DEF TypeOK
    <3>4. isOps(u) => u # None
      BY PeopleAssumption, PeopleAreUsers DEF isOps
    <3>5. CASE ApproveWrite(r)
      <4> DEFINE p == [payment[a] EXCEPT !.status = "APPROVED", !.approvedBy = u]
      <4>1. Sound(p, releasedBy[a])
        BY <3>2, <3>4, <3>5 DEF ApproveWrite, StillTrue, Sound, PaymentRow
      <4>2. payment' = [payment EXCEPT ![a] = p] /\ releasedBy' = releasedBy
        BY <3>5 DEF ApproveWrite
      <4>. HIDE DEF p
      <4>. QED
        BY <3>1, <3>3, <4>1, <4>2, <2>1, SerialWriteStep
    <3>6. CASE ReleaseFail(r)
      <4> DEFINE p == [payment[a] EXCEPT !.status = "FAILED"]
      <4>1. Sound(p, releasedBy[a])
        BY <3>2, <3>6 DEF ReleaseFail, StillTrue, Sound, PaymentRow
      <4>2. payment' = [payment EXCEPT ![a] = p] /\ releasedBy' = releasedBy
        BY <3>6 DEF ReleaseFail
      <4>. HIDE DEF p
      <4>. QED
        BY <3>1, <3>3, <4>1, <4>2, <2>1, SerialWriteStep
    <3>7. CASE ReleasePay(r)
      <4> DEFINE p == [payment[a] EXCEPT !.status = "PAID", !.paidAt = TRUE]
      <4>1. Sound(p, u)
        BY <3>2, <3>4, <3>7 DEF ReleasePay, SettledInvoice, StillTrue, Sound, PaymentRow
      <4>2. payment' = [payment EXCEPT ![a] = p]
            /\ releasedBy' = [releasedBy EXCEPT ![a] = u]
        BY <3>7 DEF ReleasePay, SettledInvoice
      <4>. HIDE DEF p
      <4>. QED
        BY <3>1, <4>1, <4>2, <2>1, SerialWriteStep
    <3>8. CASE UpdateStatusWrite(r)
      <4> DEFINE p == [payment[a] EXCEPT !.status = request[r].to, !.paidAt = FALSE]
      <4>1. request[r].to \in RetryableStatuses
        BY <3>8 DEF UpdateStatusWrite, CorrectedRow, TypeOK
      <4>2. Sound(p, releasedBy[a])
        BY <3>2, <3>8, <4>1 DEF UpdateStatusWrite, CorrectedRow, StillTrue, Sound, PaymentRow,
                                RetryableStatuses
      <4>3. payment' = [payment EXCEPT ![a] = p] /\ releasedBy' = releasedBy
        BY <3>8 DEF UpdateStatusWrite, CorrectedRow
      <4>. HIDE DEF p
      <4>. QED
        BY <3>1, <3>3, <4>2, <4>3, <2>1, SerialWriteStep
    <3>. QED
      BY <2>4, <3>5, <3>6, <3>7, <3>8
  <2>5. ASSUME NEW r \in Requests, RequestEnds(r) PROVE SerialInv'
    <3>1. StillTrue(r)'
      BY <2>5, IdleTyped DEF RequestEnds, Ends, Becomes, TypeOK, StillTrue,
                             Creating, Writing
    <3>. QED
      BY <2>5, <3>1, <2>1, SerialReadStep DEF RequestEnds, Ends, tables
  <2>6. ASSUME UNCHANGED <<tables, request>> PROVE SerialInv'
    BY <2>6, <2>1 DEF SerialInv, StillTrue, tables
  <2>7. "FAILED" \in RetryableStatuses
    BY DEF RetryableStatuses
  <2>8. ASSUME NEW r \in Requests, Approve(r) PROVE SerialInv'
    BY <2>3, <2>4, <2>7, <2>8 DEF Approve
  <2>9. ASSUME NEW r \in Requests, Release(r) PROVE SerialInv'
    BY <2>3, <2>4, <2>7, <2>9 DEF Release
  <2>10. ASSUME NEW r \in Requests, UpdateStatus(r) PROVE SerialInv'
    BY <2>3, <2>4, <2>10 DEF UpdateStatus
  <2>. QED
    BY <2>1, <2>2, <2>5, <2>6, <2>8, <2>9, <2>10
       DEF Next, Review, SetCommission
<1>. QED
  BY <1>1, <1>2

(* While the requests for a payment take turns, what each has read is still *)
(* true when it writes, and every row carries a sound trail.               *)
THEOREM Serial == SerialSpec => [](TypeOK /\ SerialInv)
BY TypeInit, SerialTypeStep, SerialInit, SerialStep, PTL DEF SerialSpec

(* While the requests for a payment do not overlap, three different people *)
(* stand behind every PAID payment and no approver approved what they      *)
(* prepared themselves.                                                    *)
THEOREM MakerChecker == SerialSpec => []SeparationOfDuties
<1>1. SerialInv => SeparationOfDuties
  BY DEF SerialInv, Sound, SeparationOfDuties
<1>. QED
  BY <1>1, Serial, PTL

(* While the requests for a payment do not overlap, paidAt dates exactly   *)
(* the PAID payments.                                                      *)
THEOREM PaidAtExact == SerialSpec => []PaidAtMeansPaid
<1>1. SerialInv => PaidAtMeansPaid
  BY DEF SerialInv, Sound, PaidAtMeansPaid
<1>. QED
  BY <1>1, Serial, PTL

-----------------------------------------------------------------------------
(***************************************************************************)
(* While the requests for a payment take turns, the service implements the *)
(* lifecycle of its header comment: each write is one decision of the      *)
(* lifecycle, every other step stutters.                                   *)
(***************************************************************************)
LEMMA LifecycleInit == Init => Lifecycle!Init
BY DEF Init, Lifecycle!Init, NoPayment

LEMMA LifecycleStutter ==
  ASSUME UNCHANGED <<payment, releasedBy>>
  PROVE  UNCHANGED Lifecycle!lifecycle
BY DEF Lifecycle!lifecycle

(* Writing row p over the payment of a is writing each of the columns the  *)
(* lifecycle sees.                                                         *)
LEMMA LifecycleWrite ==
  ASSUME TypeOK, NEW a \in Apps, NEW p \in PaymentRow,
         payment' = [payment EXCEPT ![a] = p]
  PROVE  /\ [b \in Apps |-> payment'[b].status] =
              [[b \in Apps |-> payment[b].status] EXCEPT ![a] = p.status]
         /\ [b \in Apps |-> <<payment'[b].amount, payment'[b].commission>>] =
              [[b \in Apps |-> <<payment[b].amount, payment[b].commission>>]
                 EXCEPT ![a] = <<p.amount, p.commission>>]
         /\ [b \in Apps |-> payment'[b].preparedBy] =
              [[b \in Apps |-> payment[b].preparedBy] EXCEPT ![a] = p.preparedBy]
         /\ [b \in Apps |-> payment'[b].approvedBy] =
              [[b \in Apps |-> payment[b].approvedBy] EXCEPT ![a] = p.approvedBy]
BY DEF TypeOK

(* The columns such a write leaves as they were.                           *)
LEMMA LifecycleKeep ==
  ASSUME TypeOK, NEW a \in Apps, NEW p \in PaymentRow,
         payment' = [payment EXCEPT ![a] = p]
  PROVE  /\ p.amount = payment[a].amount /\ p.commission = payment[a].commission
            => [b \in Apps |-> <<payment'[b].amount, payment'[b].commission>>] =
               [b \in Apps |-> <<payment[b].amount, payment[b].commission>>]
         /\ p.preparedBy = payment[a].preparedBy
            => [b \in Apps |-> payment'[b].preparedBy] =
               [b \in Apps |-> payment[b].preparedBy]
         /\ p.approvedBy = payment[a].approvedBy
            => [b \in Apps |-> payment'[b].approvedBy] =
               [b \in Apps |-> payment[b].approvedBy]
BY DEF TypeOK

LEMMA ApprovedRow ==
  ASSUME NEW p \in PaymentRow, NEW u \in Users
  PROVE  [p EXCEPT !.status = "APPROVED", !.approvedBy = u] \in PaymentRow
BY DEF PaymentRow, PaymentStatuses

LEMMA PaidRow ==
  ASSUME NEW p \in PaymentRow
  PROVE  [p EXCEPT !.status = "PAID", !.paidAt = TRUE] \in PaymentRow
BY DEF PaymentRow, PaymentStatuses

LEMMA CorrectedRowTyped ==
  ASSUME NEW p \in PaymentRow, NEW s \in RetryableStatuses
  PROVE  [p EXCEPT !.status = s, !.paidAt = FALSE] \in PaymentRow
BY DEF PaymentRow, PaymentStatuses

LEMMA LifecyclePrepare ==
  ASSUME TypeOK, SerialInv, NEW r \in Requests, CreateCommit(r)
  PROVE  Lifecycle!Next
<1>1. PICK a \in Apps : a = request[r].app
  BY DEF CreateCommit, PreparedRow, DraftRow, TypeOK
<1>2. StillTrue(r) /\ request[r].at = "preparing"
  BY DEF CreateCommit, PreparedRow, DraftRow, SerialInv
<1>3. PICK u \in Ops \cup {Owner[a]} : u = request[r].user
  BY <1>1, <1>2 DEF StillTrue, Creating, MayPrepare, isOps
<1>4. PICK c \in Nat : c = CommissionOn(request[r].amount, request[r].rate)
  BY CommissionIsNat DEF TypeOK, Request
<1> DEFINE quote == <<request[r].amount, c>>
<1>a. quote \in Quotes
  BY <1>2, <1>4 DEF StillTrue, Creating, Quotes
<1>5. PICK t \in Quotes : t = quote
  BY <1>a, Zenon
<1>6. payment[a].status \in RetryableStatuses \cup {"NONE"}
  BY <1>1, <1>2 DEF StillTrue
<1>7. PICK p \in PaymentRow :
        p = [status |-> "PENDING", preparedBy |-> u, approvedBy |-> None,
             paidAt |-> FALSE, amount |-> request[r].amount, commission |-> c]
  BY <1>1, <1>3, PeopleAreUsers DEF PaymentRow, PaymentStatuses, TypeOK, Request
<1>8. /\ payment' = [payment EXCEPT ![a] = p]
      /\ releasedBy' = [releasedBy EXCEPT ![a] = None]
  BY <1>1, <1>3, <1>4, <1>7 DEF CreateCommit, PreparedRow, DraftRow
<1>9. Lifecycle!Prepare(a, u, t)
  BY <1>5, <1>6, <1>7, <1>8, LifecycleWrite
     DEF Lifecycle!Prepare, Lifecycle!CanPrepare, Lifecycle!Undone, RetryableStatuses
<1>. QED
  BY <1>9, Zenon DEF Lifecycle!Next, Lifecycle!HeaderNext

LEMMA LifecycleApprove ==
  ASSUME TypeOK, SerialInv, NEW r \in Requests, ApproveWrite(r)
  PROVE  Lifecycle!Next
<1>1. PICK a \in Apps : a = request[r].app
  BY DEF ApproveWrite, TypeOK
<1>2. StillTrue(r) /\ request[r].at = "approving"
  BY DEF ApproveWrite, SerialInv
<1>3. PICK u \in Ops : u = request[r].user
  BY <1>2 DEF StillTrue, isOps
<1>4. payment[a].status = "PENDING" /\ u # payment[a].preparedBy
  BY <1>1, <1>2, <1>3 DEF StillTrue
<1> DEFINE q == [payment[a] EXCEPT !.status = "APPROVED", !.approvedBy = u]
<1>a. q \in PaymentRow
  BY PeopleAreUsers, ApprovedRow DEF TypeOK
<1>5. PICK p \in PaymentRow : p = q
  BY <1>a, Zenon
<1>6. /\ p.status = "APPROVED" /\ p.approvedBy = u
      /\ p.preparedBy = payment[a].preparedBy
      /\ p.amount = payment[a].amount /\ p.commission = payment[a].commission
  BY <1>5 DEF TypeOK, PaymentRow
<1>7. payment' = [payment EXCEPT ![a] = p] /\ releasedBy' = releasedBy
  BY <1>1, <1>3, <1>5 DEF ApproveWrite
<1>9. Lifecycle!Approve(a, u)
  BY <1>4, <1>6, <1>7, LifecycleWrite, LifecycleKeep
     DEF Lifecycle!Approve, Lifecycle!CanApprove
<1>. QED
  BY <1>9 DEF Lifecycle!Next, Lifecycle!HeaderNext

LEMMA LifecycleRelease ==
  ASSUME TypeOK, SerialInv, NEW r \in Requests, ReleasePay(r)
  PROVE  Lifecycle!Next
<1>1. PICK a \in Apps : a = request[r].app
  BY DEF ReleasePay, SettledInvoice, TypeOK
<1>2. StillTrue(r) /\ request[r].at = "releasing"
  BY DEF ReleasePay, SettledInvoice, SerialInv
<1>3. PICK u \in Ops : u = request[r].user
  BY <1>2 DEF StillTrue, isOps
<1>4. payment[a].status = "APPROVED" /\ u \notin {payment[a].preparedBy, payment[a].approvedBy}
  BY <1>1, <1>2, <1>3 DEF StillTrue
<1> DEFINE q == [payment[a] EXCEPT !.status = "PAID", !.paidAt = TRUE]
<1>a. q \in PaymentRow
  BY PaidRow DEF TypeOK
<1>5. PICK p \in PaymentRow : p = q
  BY <1>a, Zenon
<1>6. /\ p.status = "PAID" /\ p.approvedBy = payment[a].approvedBy
      /\ p.preparedBy = payment[a].preparedBy
      /\ p.amount = payment[a].amount /\ p.commission = payment[a].commission
  BY <1>5 DEF TypeOK, PaymentRow
<1>7. payment' = [payment EXCEPT ![a] = p] /\ releasedBy' = [releasedBy EXCEPT ![a] = u]
  BY <1>1, <1>3, <1>5 DEF ReleasePay, SettledInvoice
<1>8. Lifecycle!Release(a, u)
  BY <1>4, <1>6, <1>7, LifecycleWrite, LifecycleKeep
     DEF Lifecycle!Release, Lifecycle!CanRelease
<1>. QED
  BY <1>8 DEF Lifecycle!Next, Lifecycle!HeaderNext

LEMMA LifecycleUndo ==
  ASSUME TypeOK, SerialInv, NEW r \in Requests, NEW a \in Apps, a = request[r].app,
         ReleaseFail(r) \/ UpdateStatusWrite(r),
         NEW s \in RetryableStatuses, NEW p \in PaymentRow,
         payment' = [payment EXCEPT ![a] = p],
         p.status = s,
         /\ p.approvedBy = payment[a].approvedBy
         /\ p.preparedBy = payment[a].preparedBy
         /\ p.amount = payment[a].amount /\ p.commission = payment[a].commission
  PROVE  Lifecycle!Next
<1>1. payment[a].status # "NONE"
  BY DEF ReleaseFail, UpdateStatusWrite, CorrectedRow, SerialInv, StillTrue
<1>2. releasedBy' = releasedBy
  BY DEF ReleaseFail, UpdateStatusWrite, CorrectedRow
<1>3. payment[a].status \in PaymentStatuses
  BY <1>1 DEF TypeOK, PaymentRow
<1>4. Lifecycle!Undo(a, s) \/ Lifecycle!Correct(a, s)
  BY <1>1, <1>2, <1>3, LifecycleWrite, LifecycleKeep
     DEF Lifecycle!Undo, Lifecycle!Correct, Lifecycle!Undone, PaymentStatuses, RetryableStatuses
<1>. QED
  BY <1>4, Zenon
     DEF Lifecycle!Next, Lifecycle!HeaderNext, Lifecycle!Undone, RetryableStatuses

LEMMA LifecycleFail ==
  ASSUME TypeOK, SerialInv, NEW r \in Requests, ReleaseFail(r)
  PROVE  Lifecycle!Next
<1>1. PICK a \in Apps : a = request[r].app
  BY DEF ReleaseFail, TypeOK
<1> DEFINE q == [payment[a] EXCEPT !.status = "FAILED"]
<1>2. q \in PaymentRow /\ "FAILED" \in RetryableStatuses
  BY DEF TypeOK, PaymentRow, PaymentStatuses, RetryableStatuses
<1>3. PICK p \in PaymentRow : p = q
  BY <1>2, Zenon
<1>4. /\ p.status = "FAILED" /\ p.approvedBy = payment[a].approvedBy
      /\ p.preparedBy = payment[a].preparedBy
      /\ p.amount = payment[a].amount /\ p.commission = payment[a].commission
  BY <1>3 DEF TypeOK, PaymentRow
<1>5. payment' = [payment EXCEPT ![a] = p]
  BY <1>1, <1>3 DEF ReleaseFail
<1>. QED
  BY <1>1, <1>2, <1>4, <1>5, LifecycleUndo

LEMMA LifecycleCorrect ==
  ASSUME TypeOK, SerialInv, NEW r \in Requests, UpdateStatusWrite(r)
  PROVE  Lifecycle!Next
<1>1. PICK a \in Apps, s \in RetryableStatuses : a = request[r].app /\ s = request[r].to
  BY DEF UpdateStatusWrite, CorrectedRow, TypeOK
<1> DEFINE q == [payment[a] EXCEPT !.status = s, !.paidAt = FALSE]
<1>2. q \in PaymentRow
  BY CorrectedRowTyped DEF TypeOK
<1>3. PICK p \in PaymentRow : p = q
  BY <1>2, Zenon
<1>4. /\ p.status = s /\ p.approvedBy = payment[a].approvedBy
      /\ p.preparedBy = payment[a].preparedBy
      /\ p.amount = payment[a].amount /\ p.commission = payment[a].commission
  BY <1>3 DEF TypeOK, PaymentRow
<1>5. payment' = [payment EXCEPT ![a] = p]
  BY <1>1, <1>3 DEF UpdateStatusWrite, CorrectedRow
<1>. QED
  BY <1>1, <1>4, <1>5, LifecycleUndo

LEMMA LifecycleStep ==
  TypeOK /\ SerialInv /\ [SerialNext]_vars => [Lifecycle!Next]_(Lifecycle!lifecycle)
<1> SUFFICES ASSUME TypeOK, SerialInv, [SerialNext]_vars
             PROVE  [Lifecycle!Next]_(Lifecycle!lifecycle)
  OBVIOUS
<1>1. CASE UNCHANGED <<payment, releasedBy>>
  BY <1>1, LifecycleStutter
<1>2. CASE \E r \in Requests :
             CreateCommit(r) \/ ApproveWrite(r) \/ ReleasePay(r)
               \/ ReleaseFail(r) \/ UpdateStatusWrite(r)
  BY <1>2, LifecyclePrepare, LifecycleApprove, LifecycleRelease, LifecycleFail,
     LifecycleCorrect
<1>. QED
  BY <1>1, <1>2
     DEF SerialNext, Next, Create, CreateQuote, CreateCheckApplication,
     CreateCheckExisting, CreateNotify, Approve, ApproveCheck, MayApprove, Release,
     ReleaseCheck, MayRelease, UpdateStatus, UpdateStatusCheck, RequestEnds, Review,
     SetCommission, tables, vars

(* While the requests for a payment do not overlap, the read-check-write   *)
(* handlers implement the maker-checker lifecycle with its corrections.    *)
THEOREM Implementation == SerialSpec => ImplementsLifecycle
BY LifecycleInit, LifecycleStep, Serial, PTL DEF SerialSpec, ImplementsLifecycle, Lifecycle!Spec

(***************************************************************************)
(* The same of the module that is checked, whose payments take turns in    *)
(* every part but one.                                                     *)
(***************************************************************************)

LEMMA TurnsStep ==
  ASSUME [CheckNext]_everything, TypeOK, part # "overlap" => SerialInv
  PROVE  /\ part' = part /\ TypeOK'
         /\ part # "overlap" => [SerialNext]_vars /\ SerialInv'
<1>1. /\ part' = part
      /\ \/ part = "overlap" /\ Next
         \/ part = "turns" /\ SerialNext
         \/ UNCHANGED vars
  BY DEF CheckNext, everything
<1>2. TypeOK'
  BY <1>1, TypeStep DEF SerialNext
<1>3. part # "overlap" => [SerialNext]_vars
  BY <1>1
<1>. QED
  BY <1>1, <1>2, <1>3, SerialStep

\* In every part but that of overlaps, what a request has read is still true
\* when it writes and every row carries a sound trail.
THEOREM TurnsChecked == CheckSpec => [](TypeOK /\ (part # "overlap" => SerialInv))
<1>1. CheckInit => TypeOK /\ SerialInv
  BY TypeInit, SerialInit DEF CheckInit
<1>2. TypeOK /\ (part # "overlap" => SerialInv) /\ [CheckNext]_everything
        => (TypeOK /\ (part # "overlap" => SerialInv))'
  BY TurnsStep
<1>. QED
  BY <1>1, <1>2, PTL DEF CheckSpec

\* DutiesAreSeparate, for any payouts, people and requests.
THEOREM DutiesSeparate == CheckSpec => []DutiesAreSeparate
<1>1. (part # "overlap" => SerialInv) => DutiesAreSeparate
  BY DEF SerialInv, Sound, SeparationOfDuties, DutiesAreSeparate
<1>. QED
  BY <1>1, TurnsChecked, PTL

\* PaidAtMeansPaidInTurns, for any payouts, people and requests.
THEOREM PaidAtInTurns == CheckSpec => []PaidAtMeansPaidInTurns
<1>1. (part # "overlap" => SerialInv) => PaidAtMeansPaidInTurns
  BY DEF SerialInv, Sound, PaidAtMeansPaid, PaidAtMeansPaidInTurns
<1>. QED
  BY <1>1, TurnsChecked, PTL

\* FollowsLifecycle: what takes turns implements the lifecycle, corrections
\* included, for any payouts, people, requests, amounts and rates.
THEOREM LifecycleFollowed == CheckSpec => FollowsLifecycle
<1>1. CheckInit => Lifecycle!Init
  BY LifecycleInit DEF CheckInit
<1>2. ASSUME TypeOK, part # "overlap" => SerialInv, [CheckNext]_everything
      PROVE  [part # "overlap" => [Lifecycle!Next]_(Lifecycle!lifecycle)]_everything
  BY <1>2, TurnsStep, LifecycleStep
<1>. QED
  BY <1>1, <1>2, TurnsChecked, PTL DEF CheckSpec, FollowsLifecycle


(***************************************************************************)
(* Induction.  The library's theorems on induction are about a predicate,  *)
(* which the provers cannot be given; but it also says that subsets of a   *)
(* finite set are well ordered, and so there is a least counterexample.    *)
(***************************************************************************)
LEMMA LeastSet ==
  ASSUME NEW S, IsFiniteSet(S), NEW X, X \subseteq SUBSET S, X # {}
  PROVE  \E x \in X : \A y \in X : ~(y \subseteq x /\ y # x)
<1>1. PICK x \in X : \A y \in X : <<y, x>> \notin StrictSubsetOrdering(S)
  BY FS_StrictSubsetOrderingWellFounded, FS_FiniteSubsetsOfFinite, WFMin
<1>. QED
  BY <1>1 DEF StrictSubsetOrdering

LEMMA LeastNumber ==
  ASSUME NEW X, X \subseteq Nat, X # {}
  PROVE  \E n \in X : \A m \in X : n <= m
<1>1. PICK t \in X : TRUE
  OBVIOUS
<1>2. PICK S : S = 0 .. t
  OBVIOUS
<1>7. PICK Y : Y = {y \in SUBSET S : \E m \in X : y = 0 .. m}
  OBVIOUS
<1>3. IsFiniteSet(S) /\ Y \subseteq SUBSET S /\ Y # {}
  <2>1. IsFiniteSet(S)
    BY <1>2, FS_Interval
  <2>2. S \in Y
    BY <1>1, <1>2, <1>7
  <2>. QED
    BY <1>7, <2>1, <2>2
<1>4. PICK x \in Y : \A y \in Y : ~(y \subseteq x /\ y # x)
  BY <1>3, LeastSet
<1>5. PICK n \in X : x = 0 .. n
  BY <1>7, <1>4
<1>6. ASSUME NEW m \in X, m < n
      PROVE  FALSE
  <2>1. (0 .. m) \in Y /\ (0 .. m) \subseteq x /\ n \in x /\ n \notin 0 .. m
    BY <1>7, <1>4, <1>5, <1>6
  <2>. QED
    BY <1>4, <2>1
<1>. QED
  BY <1>5, <1>6

LEMMA Counting ==
  ASSUME NEW X, NEW n \in Nat, 0 \in X, \A m \in 0 .. n : m < n /\ m \in X => m + 1 \in X
  PROVE  0 .. n \subseteq X
<1> SUFFICES ASSUME (0 .. n) \ X # {} PROVE FALSE
  OBVIOUS
<1>1. PICK m \in (0 .. n) \ X : \A k \in (0 .. n) \ X : m <= k
  <2>1. (0 .. n) \ X \subseteq Nat
    OBVIOUS
  <2>. QED
    BY <2>1, LeastNumber
<1>2. m - 1 \in 0 .. n /\ m - 1 < n /\ m - 1 \in X
  BY <1>1
<1>. QED
  BY <1>1, <1>2

(***************************************************************************)
(* What is kept of the cache.                                              *)
(***************************************************************************)
UpTo(c, places, n, g) ==
  g = [m \in 0 .. n |->
         IF m = 0 THEN <<>>
         ELSE IF m \in places THEN Append(g[m - 1], c[m]) ELSE g[m - 1]]

LEMMA UpToExists ==
  ASSUME NEW c, NEW places, NEW n \in Nat
  PROVE  \E g : UpTo(c, places, n, g)
<1>1. PICK X : X = {m \in 0 .. n : \E g : UpTo(c, places, m, g)}
  OBVIOUS
<1>2. 0 \in X
  <2>1. UpTo(c, places, 0, [m \in 0 .. 0 |-> <<>>])
    BY DEF UpTo
  <2>. QED
    BY <1>1, <2>1
<1>3. ASSUME NEW m \in 0 .. n, m < n, m \in X
      PROVE  m + 1 \in X
  <2>1. PICK g : UpTo(c, places, m, g)
    BY <1>1, <1>3
  <2>2. PICK last : last = IF m + 1 \in places THEN Append(g[m], c[m + 1]) ELSE g[m]
    OBVIOUS
  <2>3. PICK h : h = [k \in 0 .. m + 1 |-> IF k = m + 1 THEN last ELSE g[k]]
    OBVIOUS
  <2>4. ASSUME NEW k \in 0 .. m + 1
        PROVE  h[k] = IF k = 0 THEN <<>>
                      ELSE IF k \in places THEN Append(h[k - 1], c[k]) ELSE h[k - 1]
    <3>1. CASE k = m + 1
      BY <2>2, <2>3, <3>1
    <3>2. CASE k \in 0 .. m
      <4>1. h[k] = g[k] /\ (k # 0 => h[k - 1] = g[k - 1])
        BY <2>3, <3>2
      <4>. QED
        BY <2>1, <3>2, <4>1 DEF UpTo
    <3>. QED
      BY <3>1, <3>2
  <2>5. UpTo(c, places, m + 1, h)
    BY <2>3, <2>4 DEF UpTo
  <2>. QED
    BY <1>1, <1>3, <2>5
<1>4. 0 .. n \subseteq X
  BY <1>2, <1>3, Counting
<1>. QED
  BY <1>1, <1>4

OneAKey(c) == \A i, j \in 1 .. Len(c) : i # j => c[i].key # c[j].key

LEMMA KeptIs ==
  ASSUME NEW E, NEW c \in Seq(E), OneAKey(c), NEW places
  PROVE  LET d == Cache!Kept(c, places) IN
         /\ d \in Seq(E) /\ Len(d) <= Len(c) /\ OneAKey(d)
         /\ \A i \in 1 .. Len(d) : \E j \in 1 .. Len(c) : j \in places /\ d[i] = c[j]
<1>1. PICK n \in Nat : n = Len(c)
  OBVIOUS
<1>2. PICK g : UpTo(c, places, n, g) /\ Cache!Kept(c, places) = g[n]
  <2>1. Cache!Kept(c, places) = (CHOOSE g : UpTo(c, places, n, g))[n]
    BY Zenon, <1>1 DEF Cache!Kept, UpTo
  <2>. QED
    BY <2>1, UpToExists
<1>3. PICK X : X = {m \in 0 .. n :
                      /\ g[m] \in Seq(E) /\ Len(g[m]) <= m /\ OneAKey(g[m])
                      /\ \A i \in 1 .. Len(g[m]) :
                           \E j \in 1 .. m : j \in places /\ g[m][i] = c[j]}
  OBVIOUS
<1>4. 0 \in X
  <2>1. g[0] = <<>>
    <3>1. 0 \in 0 .. n
      OBVIOUS
    <3>. QED
      BY <1>2, <3>1 DEF UpTo
  <2>2. <<>> \in Seq(E) /\ Len(<<>>) = 0 /\ OneAKey(<<>>)
    BY DEF OneAKey
  <2>3. 0 \in 0 .. n /\ Len(g[0]) = 0 /\ 1 .. 0 = {}
    BY <2>1, <2>2
  <2>4. g[0] \in Seq(E) /\ OneAKey(g[0])
    BY <2>1, <2>2
  <2>. QED
    BY <1>3, <2>3, <2>4
<1>5. ASSUME NEW m \in 0 .. n, m < n, m \in X
      PROVE  m + 1 \in X
  <2>1. PICK d \in Seq(E) : d = g[m]
    BY <1>3, <1>5
  <2>2. /\ Len(d) <= m /\ OneAKey(d)
        /\ \A i \in 1 .. Len(d) : \E j \in 1 .. m : j \in places /\ d[i] = c[j]
    BY <1>3, <1>5, <2>1
  <2>3. g[m + 1] = IF m + 1 \in places THEN Append(d, c[m + 1]) ELSE d
    <3>1. m + 1 \in 0 .. n /\ m + 1 # 0 /\ (m + 1) - 1 = m
      BY <1>5
    <3>. QED
      BY <1>2, <2>1, <3>1 DEF UpTo
  <2>4. CASE m + 1 \notin places
    <3>1. g[m + 1] = d /\ m + 1 \in 0 .. n
      BY <1>5, <2>3, <2>4
    <3>2. Len(d) <= m + 1 /\ d \in Seq(E)
      BY <2>2
    <3>3. \A i \in 1 .. Len(d) : \E j \in 1 .. m + 1 : j \in places /\ d[i] = c[j]
      BY <2>2
    <3>. QED
      BY <1>3, <2>2, <3>1, <3>2, <3>3
  <2>5. CASE m + 1 \in places
    <3>1. PICK e : e = Append(d, c[m + 1])
      OBVIOUS
    <3>2. c[m + 1] \in E
      BY <1>1, <1>5
    <3>3. /\ e \in Seq(E) /\ Len(e) = Len(d) + 1 /\ e[Len(e)] = c[m + 1]
          /\ \A i \in 1 .. Len(d) : e[i] = d[i]
      BY <3>1, <3>2
    <3>4. \A i \in 1 .. Len(e) : \E j \in 1 .. m + 1 : j \in places /\ e[i] = c[j]
      BY <2>2, <2>5, <3>3
    <3>5. ASSUME NEW i \in 1 .. Len(d)
          PROVE  e[i].key # c[m + 1].key
      <4>1. PICK j \in 1 .. m : d[i] = c[j]
        BY <2>2
      <4>2. j \in 1 .. Len(c) /\ m + 1 \in 1 .. Len(c) /\ j # m + 1
        BY <1>1, <1>5
      <4>3. e[i] = c[j]
        BY <3>3, <4>1
      <4>. QED
        BY <4>2, <4>3 DEF OneAKey
    <3>6. OneAKey(e)
      <4> SUFFICES ASSUME NEW i \in 1 .. Len(e), NEW j \in 1 .. Len(e), i # j
                   PROVE  e[i].key # e[j].key
        BY DEF OneAKey
      <4>1. Len(d) \in Nat
        OBVIOUS
      <4>2. CASE i \in 1 .. Len(d) /\ j \in 1 .. Len(d)
        <5>1. d[i].key # d[j].key
          BY <2>2, <4>2 DEF OneAKey
        <5>2. e[i] = d[i] /\ e[j] = d[j]
          BY <3>3, <4>2
        <5>. QED
          BY <5>1, <5>2
      <4>3. CASE i = Len(e)
        <5>1. j \in 1 .. Len(d)
          BY <3>3, <4>1, <4>3
        <5>2. e[j].key # c[m + 1].key
          BY <3>5, <5>1
        <5>. QED
          BY <3>3, <4>3, <5>2
      <4>4. CASE j = Len(e)
        <5>1. i \in 1 .. Len(d)
          BY <3>3, <4>1, <4>4
        <5>2. e[i].key # c[m + 1].key
          BY <3>5, <5>1
        <5>. QED
          BY <3>3, <4>4, <5>2
      <4>. QED
        BY <3>3, <4>1, <4>2, <4>3, <4>4
    <3>7. g[m + 1] = e /\ m + 1 \in 0 .. n /\ Len(e) <= m + 1
      BY <1>5, <2>2, <2>3, <2>5, <3>1, <3>3
    <3>. QED
      BY <1>3, <3>3, <3>4, <3>6, <3>7
  <2>. QED
    BY <2>4, <2>5
<1>6. n \in X
  <2>1. \A m \in 0 .. n : m < n /\ m \in X => m + 1 \in X
    BY <1>5
  <2>2. 0 .. n \subseteq X
    BY <1>4, <2>1, Counting
  <2>. QED
    BY <2>2
<1>. QED
  BY <1>1, <1>2, <1>3, <1>6

LEMMA KeptOf ==
  ASSUME NEW E, NEW c \in Seq(E), OneAKey(c), NEW places
  PROVE  /\ Cache!Kept(c, places) \in Seq(E)
         /\ Len(Cache!Kept(c, places)) <= Len(c)
         /\ OneAKey(Cache!Kept(c, places))
  BY KeptIs

LEMMA WithoutIt ==
  ASSUME NEW E, NEW c \in Seq(E), OneAKey(c), NEW k
  PROVE  /\ Cache!Without(c, k) \in Seq(E)
         /\ Len(Cache!Without(c, k)) <= Len(c)
         /\ OneAKey(Cache!Without(c, k))
         /\ \A i \in 1 .. Len(Cache!Without(c, k)) :
              /\ Cache!Without(c, k)[i].key # k
              /\ \E j \in 1 .. Len(c) : Cache!Without(c, k)[i] = c[j]
<1>1. PICK places : places = {i \in DOMAIN c : c[i].key # k}
  OBVIOUS
<1>2. Cache!Without(c, k) = Cache!Kept(c, places)
  BY <1>1 DEF Cache!Without
<1>3. PICK d : d = Cache!Kept(c, places)
  OBVIOUS
<1>4. /\ d \in Seq(E) /\ Len(d) <= Len(c) /\ OneAKey(d)
      /\ \A i \in 1 .. Len(d) : \E j \in 1 .. Len(c) : j \in places /\ d[i] = c[j]
  BY <1>3, KeptIs
<1>5. \A i \in 1 .. Len(d) : d[i].key # k /\ \E j \in 1 .. Len(c) : d[i] = c[j]
  BY <1>1, <1>4
<1>. QED
  BY <1>2, <1>3, <1>4, <1>5

LEMMA TrimmedIs ==
  ASSUME NEW E, NEW c \in Seq(E), OneAKey(c), Len(c) <= MaxEntries
  PROVE  /\ Cache!Trimmed(c) \in Seq(E)
         /\ Len(Cache!Trimmed(c)) < MaxEntries
         /\ OneAKey(Cache!Trimmed(c))
<1>. MaxEntries \in Nat \ {0} /\ Len(c) \in Nat
  BY CacheAssumption
<1>1. CASE Len(c) < MaxEntries
  BY <1>1 DEF Cache!Trimmed
<1>2. CASE ~(Len(c) < MaxEntries)
  <2>1. PICK places : places = {i \in DOMAIN c : c[i].live}
    OBVIOUS
  <2>2. PICK d \in Seq(E) : d = Cache!Kept(c, places) /\ Len(d) <= Len(c) /\ OneAKey(d)
    BY KeptOf
  <2>3. Cache!Trimmed(c) = IF Len(d) >= MaxEntries THEN Tail(d) ELSE d
    BY <1>2, <2>1, <2>2 DEF Cache!Trimmed, Cache!RoomMade
  <2>4. CASE ~(Len(d) >= MaxEntries)
    BY <2>2, <2>3, <2>4
  <2>5. CASE Len(d) >= MaxEntries
    <3>1. d # <<>> /\ Len(d) = MaxEntries
      BY <2>2, <2>5
    <3>2. PICK t : t = Tail(d)
      OBVIOUS
    <3>3. t \in Seq(E) /\ Len(t) = Len(d) - 1 /\ \A i \in 1 .. Len(t) : t[i] = d[i + 1]
      BY <2>2, <3>1, <3>2
    <3>4. OneAKey(t)
      <4> SUFFICES ASSUME NEW i \in 1 .. Len(t), NEW j \in 1 .. Len(t), i # j
                   PROVE  t[i].key # t[j].key
        BY DEF OneAKey
      <4>1. /\ i + 1 \in 1 .. Len(d) /\ j + 1 \in 1 .. Len(d) /\ i + 1 # j + 1
            /\ t[i] = d[i + 1] /\ t[j] = d[j + 1]
        BY <3>3
      <4>. QED
        BY <2>2, <4>1 DEF OneAKey
    <3>. QED
      BY <2>3, <2>5, <3>1, <3>2, <3>3, <3>4
  <2>. QED
    BY <2>4, <2>5
<1>. QED
  BY <1>1, <1>2

LEMMA PutIs ==
  ASSUME NEW E, NEW c \in Seq(E), OneAKey(c), Len(c) < MaxEntries,
         NEW k, NEW version, Cache!Entry(k, version) \in E
  PROVE  /\ Cache!Put(c, k, version) \in Seq(E)
         /\ Len(Cache!Put(c, k, version)) <= MaxEntries
         /\ OneAKey(Cache!Put(c, k, version))
<1>. MaxEntries \in Nat \ {0} /\ Len(c) \in Nat /\ DOMAIN c = 1 .. Len(c)
  BY CacheAssumption
<1>1. PICK e \in E : e = Cache!Entry(k, version)
  OBVIOUS
<1>2. e.key = k
  BY <1>1 DEF Cache!Entry
<1>3. CASE \E i \in DOMAIN c : c[i].key = k
  <2>1. PICK d : d = [i \in DOMAIN c |-> IF c[i].key = k THEN e ELSE c[i]]
    OBVIOUS
  <2>2. Cache!Put(c, k, version) = d
    BY <1>1, <1>3, <2>1 DEF Cache!Put
  <2>3. d \in Seq(E) /\ Len(d) = Len(c)
    BY <2>1
  <2>4. \A i \in 1 .. Len(d) : d[i].key = c[i].key
    BY <1>2, <2>1, <2>3
  <2>5. OneAKey(d)
    BY <2>3, <2>4 DEF OneAKey
  <2>. QED
    BY <2>2, <2>3, <2>5
<1>4. CASE \A i \in DOMAIN c : c[i].key # k
  <2>1. PICK d : d = Append(c, e)
    OBVIOUS
  <2>2. Cache!Put(c, k, version) = d
    BY <1>1, <1>4, <2>1 DEF Cache!Put
  <2>3. /\ d \in Seq(E) /\ Len(d) = Len(c) + 1 /\ d[Len(d)] = e
        /\ \A i \in 1 .. Len(c) : d[i] = c[i]
    BY <2>1
  <2>4. OneAKey(d)
    <3> SUFFICES ASSUME NEW i \in 1 .. Len(d), NEW j \in 1 .. Len(d), i # j
                 PROVE  d[i].key # d[j].key
      BY DEF OneAKey
    <3>1. CASE i \in 1 .. Len(c) /\ j \in 1 .. Len(c)
      BY <2>3, <3>1 DEF OneAKey
    <3>2. CASE i = Len(d)
      <4>1. j \in 1 .. Len(c)
        BY <2>3, <3>2
      <4>. QED
        BY <1>2, <1>4, <2>3, <3>2, <4>1
    <3>3. CASE j = Len(d)
      <4>1. i \in 1 .. Len(c)
        BY <2>3, <3>3
      <4>. QED
        BY <1>2, <1>4, <2>3, <3>3, <4>1
    <3>. QED
      BY <2>3, <3>1, <3>2, <3>3
  <2>. QED
    BY <2>2, <2>3, <2>4
<1>. QED
  BY <1>3, <1>4

(***************************************************************************)
(* What holds of the data cache: of the entries kept, of what each view    *)
(* shows, and of the requests still under way.                             *)
(***************************************************************************)

(* The data behind a key as it may be told after the last invalidation.    *)
IsFresh(k, version) ==
  /\ version \in Nat /\ version <= server[k]
  /\ version >= changed[k] \/ k \in late
FreshEntries ==
  {e \in [key : Keys, version : Nat, live : BOOLEAN] : IsFresh(e.key, e.version)}

Versioned == server \in [Keys -> Nat] /\ changed \in [Keys -> Nat] /\ late \subseteq Keys
ViewsTyped ==
  view \in [Views -> [key : Keys \cup {None}, reloaded : BOOLEAN,
                      of : Keys \cup {None}, shown : Int]]
Limited == cache \in Seq(FreshEntries) /\ Len(cache) <= MaxEntries /\ OneAKey(cache)
Asked ==
  /\ fetches \subseteq [view : Views, key : Keys, read : Int]
  /\ \A f, g \in fetches : f.view = g.view => f = g
  /\ \A f \in fetches : f.key = view[f.view].key
Behind ==
  /\ \A k \in Keys : changed[k] <= server[k]
  /\ \A v \in Views : view[v].of # None => view[v].shown <= server[view[v].of]
Onward ==
  \A f \in fetches : f.read # -1 =>
    /\ IsFresh(f.key, f.read)
    /\ view[f.view].of = f.key => f.read >= view[f.view].shown
CacheInv == Versioned /\ ViewsTyped /\ Limited /\ Asked /\ Behind /\ Onward

LEMMA ReSeq ==
  ASSUME NEW A, NEW B, NEW c \in Seq(A), \A i \in 1 .. Len(c) : c[i] \in B
  PROVE  c \in Seq(B)
  OBVIOUS

LEMMA FetchIs ==
  ASSUME NEW v \in Views, NEW k \in Keys, NEW r \in Int
  PROVE  /\ Cache!Fetch(v, k, r) \in [view : Views, key : Keys, read : Int]
         /\ Cache!Fetch(v, k, r).view = v /\ Cache!Fetch(v, k, r).key = k
         /\ Cache!Fetch(v, k, r).read = r
  BY DEF Cache!Fetch

LEMMA CancelledIs ==
  ASSUME NEW v
  PROVE  Cache!Cancelled(v) = {f \in fetches : f.view # v}
  BY DEF Cache!Cancelled, Cache!FetchesOf

LEMMA CacheStarts == Cache!CacheInit => CacheInv
<1> SUFFICES ASSUME Cache!CacheInit PROVE CacheInv
  OBVIOUS
<1>. /\ server = [k \in Keys |-> 0] /\ cache = <<>> /\ fetches = {} /\ late = {}
     /\ view = [v \in Views |-> [key |-> None, reloaded |-> FALSE, of |-> None, shown |-> -1]]
     /\ changed = [k \in Keys |-> 0] /\ MaxEntries \in Nat /\ MaxEntries >= 0
  BY CacheAssumption DEF Cache!CacheInit, Cache!Unmounted
<1>1. Versioned /\ ViewsTyped /\ Asked /\ Onward
  BY DEF Versioned, ViewsTyped, Asked, Onward
<1>2. Limited
  BY DEF Limited, OneAKey
<1>3. Behind
  BY DEF Behind
<1>. QED
  BY <1>1, <1>2, <1>3 DEF CacheInv

(* A view's effect.                                                        *)
LEMMA RunsKeep ==
  ASSUME CacheInv, NEW v \in Views, NEW k \in Keys, NEW reloaded \in BOOLEAN,
         Cache!Runs(v, k, reloaded), UNCHANGED <<server, changed, late>>
  PROVE  /\ CacheInv'
         /\ \A w \in Views : w # v => view'[w] = view[w]
         /\ view'[v].key = k
         /\ k = view[v].key /\ reloaded =>
              view'[v].of = view[v].of /\ view'[v].shown = view[v].shown
<1>. /\ Versioned /\ ViewsTyped /\ Limited /\ Asked /\ Behind /\ Onward
     /\ None \notin Keys
  BY CacheAssumption DEF CacheInv
<1>1. Versioned' /\ FreshEntries' = FreshEntries
  BY DEF Versioned, FreshEntries, IsFresh
<1>2. Cache!Cancelled(v) = {f \in fetches : f.view # v}
  BY CancelledIs
<1>3. CASE ~reloaded /\ Cache!Hits(k) # {}
  <2>1. PICK i \in Cache!Hits(k) :
          /\ view' = [view EXCEPT ![v] = [key |-> k, reloaded |-> FALSE, of |-> k,
                                         shown |-> cache[i].version]]
          /\ fetches' = Cache!Cancelled(v) /\ cache' = cache
    BY <1>3 DEF Cache!Runs
  <2>2. cache[i] \in FreshEntries /\ cache[i].key = k
    BY <2>1 DEF Cache!Hits, Limited
  <2>3. IsFresh(k, cache[i].version)
    BY <2>2 DEF FreshEntries
  <2>4. ViewsTyped' /\ view'[v].key = k /\ view'[v].of = k /\ view'[v].shown = cache[i].version
        /\ \A w \in Views : w # v => view'[w] = view[w]
    BY <2>1, <2>3 DEF ViewsTyped, IsFresh
  <2>5. Limited'
    BY <1>1, <2>1 DEF Limited, OneAKey
  <2>6. Asked'
    BY <1>2, <2>1, <2>4 DEF Asked
  <2>7. Behind'
    BY <2>3, <2>4 DEF Behind, IsFresh
  <2>8. Onward'
    BY <1>2, <2>1, <2>4 DEF Onward, IsFresh, Asked
  <2>. QED
    BY <1>1, <1>3, <2>4, <2>5, <2>6, <2>7, <2>8 DEF CacheInv
<1>4. CASE ~(~reloaded /\ Cache!Hits(k) # {})
  <2>1. /\ view' = [view EXCEPT ![v].key = k, ![v].reloaded = reloaded]
        /\ fetches' = Cache!Cancelled(v) \cup {Cache!Fetch(v, k, -1)}
        /\ cache' = IF reloaded THEN cache ELSE Cache!AfterGet(k)
    BY <1>4 DEF Cache!Runs, Cache!Unread
  <2>2. ViewsTyped' /\ view'[v].key = k /\ view'[v].of = view[v].of
        /\ view'[v].shown = view[v].shown
        /\ \A w \in Views : w # v => view'[w] = view[w]
    BY <2>1 DEF ViewsTyped
  <2>3. Limited'
    <3>1. CASE reloaded
      BY <1>1, <2>1, <3>1 DEF Limited, OneAKey
    <3>2. CASE ~reloaded
      <4>1. PICK places : cache' = Cache!Kept(cache, places)
        BY <2>1, <3>2 DEF Cache!AfterGet
      <4>2. cache \in Seq(FreshEntries) /\ OneAKey(cache) /\ Len(cache) <= MaxEntries
        BY DEF Limited
      <4>3. cache' \in Seq(FreshEntries) /\ OneAKey(cache)' /\ Len(cache') <= Len(cache)
        BY <4>1, <4>2, KeptOf DEF OneAKey
      <4>4. MaxEntries \in Nat /\ Len(cache) \in Nat /\ Len(cache') \in Nat
        BY <4>2, <4>3, CacheAssumption
      <4>. QED
        BY <1>1, <4>2, <4>3, <4>4 DEF Limited
    <3>. QED
      BY <3>1, <3>2
  <2>4. PICK f : f = Cache!Fetch(v, k, -1)
    OBVIOUS
  <2>5. f \in [view : Views, key : Keys, read : Int] /\ f.view = v /\ f.key = k /\ f.read = -1
    BY <2>4, FetchIs
  <2>6. fetches' = {h \in fetches : h.view # v} \cup {f}
    BY <1>2, <2>1, <2>4
  <2>7. Asked'
    BY <2>2, <2>5, <2>6 DEF Asked
  <2>8. Behind'
    <3>1. \A w \in Views : view'[w].of = view[w].of /\ view'[w].shown = view[w].shown
      BY <2>2
    <3>. QED
      BY <3>1 DEF Behind
  <2>9. Onward'
    <3> SUFFICES ASSUME NEW h \in fetches', h.read # -1
                 PROVE  /\ IsFresh(h.key, h.read)
                        /\ view'[h.view].of = h.key => h.read >= view'[h.view].shown
      BY DEF Onward, IsFresh
    <3>1. h \in fetches /\ h.view # v /\ h.view \in Views
      BY <2>5, <2>6 DEF Asked
    <3>. QED
      BY <2>2, <3>1 DEF Onward
  <2>. QED
    BY <1>1, <2>2, <2>3, <2>7, <2>8, <2>9 DEF CacheInv
<1>. QED
  BY <1>3, <1>4

(***************************************************************************)
(* The cache's steps keep it: views ask, requests end, and the data behind *)
(* a key changes or is invalidated.                                        *)
(***************************************************************************)

Forward ==
  \A v \in Views :
    view[v].of = view[v].key /\ view'[v].key = view[v].key
      => view'[v].shown >= view[v].shown

LEMMA ViewsAsk ==
  ASSUME CacheInv, NEW v \in Views,
         \/ Cache!Reload(v) \/ Cache!Unmount(v)
         \/ \E k \in Keys : Cache!Mount(v, k) \/ Cache!AskFor(v, k)
  PROVE  CacheInv' /\ Forward
<1>. /\ Versioned /\ ViewsTyped /\ Limited /\ Asked /\ Behind /\ Onward
     /\ None \notin Keys
  BY CacheAssumption DEF CacheInv
<1>0. view[v].key \in Keys \cup {None} /\ view[v].reloaded \in BOOLEAN
      /\ \A w \in Views : view[w].shown \in Int
  BY DEF ViewsTyped
<1>1. CASE Cache!Reload(v)
  <2>1. /\ view[v].key \in Keys /\ Cache!Runs(v, view[v].key, TRUE)
        /\ UNCHANGED <<server, changed, late>>
    BY <1>0, <1>1 DEF Cache!Reload
  <2>2. /\ CacheInv' /\ \A w \in Views : w # v => view'[w] = view[w]
        /\ view'[v].shown = view[v].shown
    BY <2>1, RunsKeep
  <2>. QED
    BY <1>0, <2>2 DEF Forward
<1>2. CASE \E k \in Keys : Cache!Mount(v, k) \/ Cache!AskFor(v, k)
  <2>1. PICK k \in Keys : Cache!Mount(v, k) \/ Cache!AskFor(v, k)
    BY <1>2
  <2>2. PICK r \in BOOLEAN : Cache!Runs(v, k, r) /\ view[v].key # k
                             /\ UNCHANGED <<server, changed, late>>
    <3>1. CASE Cache!Mount(v, k)
      BY <3>1 DEF Cache!Mount
    <3>2. CASE Cache!AskFor(v, k)
      BY <1>0, <3>2 DEF Cache!AskFor
    <3>. QED
      BY <2>1, <3>1, <3>2
  <2>3. /\ CacheInv' /\ \A w \in Views : w # v => view'[w] = view[w]
        /\ view'[v].key = k
    BY <2>2, RunsKeep
  <2>. QED
    BY <1>0, <2>2, <2>3 DEF Forward
<1>3. CASE Cache!Unmount(v)
  <2>1. PICK out : out = [key |-> None, reloaded |-> FALSE, of |-> None, shown |-> -1]
    OBVIOUS
  <2>2. /\ view' = [view EXCEPT ![v] = out] /\ view[v].key # None
        /\ fetches' = {f \in fetches : f.view # v}
        /\ UNCHANGED <<server, cache, changed, late>>
    BY <1>3, <2>1, CancelledIs DEF Cache!Unmount, Cache!Unmounted
  <2>3. ViewsTyped' /\ view'[v] = out /\ \A w \in Views : w # v => view'[w] = view[w]
    BY <2>1, <2>2 DEF ViewsTyped
  <2>4. Versioned' /\ FreshEntries' = FreshEntries
    BY <2>2 DEF Versioned, FreshEntries, IsFresh
  <2>5. Limited'
    BY <2>2, <2>4 DEF Limited, OneAKey
  <2>6. Asked' /\ Behind'
    BY <2>1, <2>2, <2>3 DEF Asked, Behind
  <2>7. Onward'
    BY <2>1, <2>2, <2>3 DEF Onward, IsFresh, Asked
  <2>8. Forward
    BY <1>0, <2>1, <2>2, <2>3 DEF Forward
  <2>. QED
    BY <2>3, <2>4, <2>5, <2>6, <2>7, <2>8 DEF CacheInv
<1>. QED
  BY <1>1, <1>2, <1>3

LEMMA RequestsEnd ==
  ASSUME CacheInv, NEW f \in fetches,
         Cache!Serve(f) \/ Cache!Answer(f) \/ Cache!Fail(f)
  PROVE  CacheInv' /\ Forward
<1>. /\ Versioned /\ ViewsTyped /\ Limited /\ Asked /\ Behind /\ Onward
     /\ None \notin Keys
  BY CacheAssumption DEF CacheInv
<1>0. f.view \in Views /\ f.key \in Keys /\ f.read \in Int /\ f.key = view[f.view].key
      /\ \A w \in Views : view[w].shown \in Int
  BY DEF Asked, ViewsTyped
<1>1. Versioned' /\ FreshEntries' = FreshEntries
  BY DEF Versioned, FreshEntries, IsFresh, Cache!Serve, Cache!Answer, Cache!Fail
<1>2. CASE Cache!Fail(f)
  <2>1. fetches' = fetches \ {f} /\ UNCHANGED <<server, cache, view, changed, late>>
    BY <1>2 DEF Cache!Fail
  <2>2. ViewsTyped' /\ Limited' /\ Behind'
    BY <1>1, <2>1 DEF ViewsTyped, Limited, OneAKey, Behind
  <2>3. Asked' /\ Onward'
    BY <2>1 DEF Asked, Onward, IsFresh
  <2>4. Forward
    BY <1>0, <2>1 DEF Forward
  <2>. QED
    BY <1>1, <2>2, <2>3, <2>4 DEF CacheInv
<1>3. CASE Cache!Serve(f)
  <2>1. PICK h : h = Cache!Fetch(f.view, f.key, server[f.key])
    OBVIOUS
  <2>2. /\ fetches' = (fetches \ {f}) \cup {h} /\ UNCHANGED <<cache, view>>
        /\ UNCHANGED <<server, changed, late>>
    BY <1>3, <2>1 DEF Cache!Serve
  <2>3. server[f.key] \in Nat /\ changed[f.key] \in Nat /\ changed[f.key] <= server[f.key]
    BY <1>0 DEF Versioned, Behind
  <2>4. /\ h \in [view : Views, key : Keys, read : Int]
        /\ h.view = f.view /\ h.key = f.key /\ h.read = server[f.key]
    BY <1>0, <2>1, <2>3, FetchIs
  <2>5. ViewsTyped' /\ Limited' /\ Behind'
    BY <1>1, <2>2 DEF ViewsTyped, Limited, OneAKey, Behind
  <2>6. Asked'
    <3>1. \A g \in fetches : g.view = f.view => g = f
      BY DEF Asked
    <3>. QED
      BY <1>0, <2>2, <2>4, <3>1 DEF Asked
  <2>7. Onward'
    <3>1. IsFresh(h.key, h.read)
      BY <2>3, <2>4 DEF IsFresh
    <3>2. view[h.view].of = h.key => h.read >= view[h.view].shown
      <4>1. view[f.view].of = f.key => view[f.view].shown <= server[f.key]
        BY <1>0 DEF Behind
      <4>. QED
        BY <1>0, <2>3, <2>4, <4>1
    <3>3. \A g \in fetches' : g = h \/ g \in fetches
      BY <2>2
    <3>. QED
      BY <2>2, <3>1, <3>2, <3>3 DEF Onward, IsFresh
  <2>8. Forward
    BY <1>0, <2>2 DEF Forward
  <2>. QED
    BY <1>1, <2>5, <2>6, <2>7, <2>8 DEF CacheInv
<1>4. CASE Cache!Answer(f)
  <2>1. /\ f.read # -1 /\ fetches' = fetches \ {f}
        /\ view' = [view EXCEPT ![f.view].of = f.key, ![f.view].shown = f.read]
        /\ cache' = Cache!Put(Cache!Trimmed(cache), f.key, f.read)
        /\ UNCHANGED <<server, changed, late>>
    BY <1>4 DEF Cache!Answer, Cache!Unread
  <2>2. IsFresh(f.key, f.read) /\ (view[f.view].of = f.key => f.read >= view[f.view].shown)
    BY <2>1 DEF Onward
  <2>3. /\ ViewsTyped' /\ view'[f.view].key = view[f.view].key
        /\ view'[f.view].of = f.key /\ view'[f.view].shown = f.read
        /\ \A w \in Views : w # f.view => view'[w] = view[w]
        /\ \A w \in Views : view'[w].key = view[w].key
    BY <1>0, <2>1 DEF ViewsTyped
  <2>4. \A g \in fetches' : g \in fetches /\ g.view # f.view /\ g.view \in Views
    BY <2>1 DEF Asked
  <2>5. Limited'
    <3>1. cache \in Seq(FreshEntries) /\ OneAKey(cache) /\ Len(cache) <= MaxEntries
      BY DEF Limited
    <3>2. PICK c \in Seq(FreshEntries) :
            c = Cache!Trimmed(cache) /\ Len(c) < MaxEntries /\ OneAKey(c)
      BY <3>1, TrimmedIs
    <3>3. Cache!Entry(f.key, f.read) \in FreshEntries
      BY <1>0, <2>2 DEF FreshEntries, Cache!Entry, IsFresh
    <3>4. PICK d : d = Cache!Put(c, f.key, f.read)
      OBVIOUS
    <3>5. d \in Seq(FreshEntries) /\ Len(d) <= MaxEntries /\ OneAKey(d)
      BY <3>2, <3>3, <3>4, PutIs
    <3>6. cache' = d
      BY <2>1, <3>2, <3>4
    <3>. QED
      BY <1>1, <3>5, <3>6 DEF Limited, OneAKey
  <2>6. Asked'
    BY <2>1, <2>3 DEF Asked
  <2>7. Behind'
    <3>1. f.read <= server[f.key]
      BY <2>2 DEF IsFresh
    <3>. QED
      BY <2>1, <2>3, <3>1 DEF Behind
  <2>8. Onward'
    BY <2>1, <2>3, <2>4 DEF Onward, IsFresh
  <2>9. Forward
    BY <1>0, <2>2, <2>3 DEF Forward
  <2>. QED
    BY <1>1, <2>3, <2>5, <2>6, <2>7, <2>8, <2>9 DEF CacheInv
<1>. QED
  BY <1>2, <1>3, <1>4

LEMMA DataMove ==
  ASSUME CacheInv,
         \/ \E k \in Keys : Cache!Change(k) \/ Cache!Invalidate(k)
         \/ \E i \in 1 .. MaxEntries : Cache!Expire(i)
  PROVE  CacheInv' /\ Forward
<1>. /\ Versioned /\ ViewsTyped /\ Limited /\ Asked /\ Behind /\ Onward
     /\ None \notin Keys
  BY CacheAssumption DEF CacheInv
<1>0. \A w \in Views : view[w].shown \in Int
  BY DEF ViewsTyped
<1>1. view' = view /\ fetches' = fetches
  BY DEF Cache!Change, Cache!Invalidate, Cache!Expire
<1>2. Forward /\ ViewsTyped' /\ Asked'
  BY <1>0, <1>1 DEF Forward, ViewsTyped, Asked
<1>3. ASSUME NEW k \in Keys, Cache!Change(k)
      PROVE  CacheInv'
  <2>1. server' = [server EXCEPT ![k] = @ + 1] /\ UNCHANGED <<cache, changed, late>>
    BY <1>3 DEF Cache!Change
  <2>2. Versioned' /\ \A j \in Keys : server'[j] >= server[j]
    BY <2>1 DEF Versioned
  <2>3. \A r : \A j \in Keys : IsFresh(j, r) => IsFresh(j, r)'
    BY <2>1, <2>2 DEF IsFresh, Versioned
  <2>4. FreshEntries \subseteq FreshEntries'
    BY <2>3 DEF FreshEntries
  <2>5. Limited'
    <3>1. cache \in Seq(FreshEntries')
      BY <2>4, ReSeq DEF Limited
    <3>. QED
      BY <2>1, <3>1 DEF Limited, OneAKey
  <2>6. Behind'
    BY <1>1, <2>1, <2>2 DEF Behind, Versioned, ViewsTyped
  <2>7. Onward'
    <3>1. \A f \in fetches : f.key \in Keys
      BY DEF Asked
    <3>. QED
      BY <1>1, <2>3, <3>1 DEF Onward
  <2>. QED
    BY <1>2, <2>2, <2>5, <2>6, <2>7 DEF CacheInv
<1>4. ASSUME NEW k \in Keys, Cache!Invalidate(k)
      PROVE  CacheInv'
  <2>1. /\ cache' = Cache!Without(cache, k) /\ changed' = [changed EXCEPT ![k] = server[k]]
        /\ late' = IF \E f \in fetches : f.key = k /\ f.read # -1
                   THEN late \cup {k} ELSE late \ {k}
        /\ server' = server
    BY <1>4 DEF Cache!Invalidate, Cache!Invalidated, Cache!Unread
  <2>2. Versioned' /\ Behind'
    BY <1>1, <2>1 DEF Versioned, Behind
  <2>3. ASSUME NEW j \in Keys, NEW r, IsFresh(j, r),
               j = k => \E f \in fetches : f.key = k /\ f.read # -1
        PROVE  IsFresh(j, r)'
    BY <2>1, <2>3 DEF IsFresh, Versioned
  <2>4. Limited'
    <3>1. cache \in Seq(FreshEntries) /\ OneAKey(cache) /\ Len(cache) <= MaxEntries
      BY DEF Limited
    <3>2. PICK c \in Seq(FreshEntries) :
            /\ c = cache' /\ Len(c) <= Len(cache) /\ OneAKey(c)
            /\ \A i \in 1 .. Len(c) : c[i].key # k
      BY <2>1, <3>1, WithoutIt
    <3>3. \A i \in 1 .. Len(c) : c[i] \in FreshEntries'
      <4> SUFFICES ASSUME NEW i \in 1 .. Len(c) PROVE c[i] \in FreshEntries'
        OBVIOUS
      <4>1. /\ c[i] \in [key : Keys, version : Nat, live : BOOLEAN]
            /\ IsFresh(c[i].key, c[i].version) /\ c[i].key # k
        BY <3>2 DEF FreshEntries
      <4>2. IsFresh(c[i].key, c[i].version)'
        BY <2>1, <3>2, <4>1 DEF IsFresh, Versioned
      <4>. QED
        BY <3>2, <4>1, <4>2 DEF FreshEntries, IsFresh
    <3>4. c \in Seq(FreshEntries')
      BY <3>3, ReSeq
    <3>5. MaxEntries \in Nat /\ Len(c) \in Nat /\ Len(cache) \in Nat
      BY <3>1, <3>2, CacheAssumption
    <3>. QED
      BY <3>1, <3>2, <3>4, <3>5 DEF Limited, OneAKey
  <2>5. Onward'
    <3> SUFFICES ASSUME NEW f \in fetches, f.read # -1
                 PROVE  /\ IsFresh(f.key, f.read)'
                        /\ view[f.view].of = f.key => f.read >= view[f.view].shown
      BY <1>1 DEF Onward, IsFresh
    <3>1. f.key \in Keys /\ IsFresh(f.key, f.read)
          /\ (view[f.view].of = f.key => f.read >= view[f.view].shown)
      BY DEF Asked, Onward
    <3>. QED
      BY <2>1, <3>1 DEF IsFresh, Versioned
  <2>. QED
    BY <1>2, <2>2, <2>4, <2>5 DEF CacheInv
<1>5. ASSUME NEW i \in 1 .. MaxEntries, Cache!Expire(i)
      PROVE  CacheInv'
  <2>1. /\ i \in DOMAIN cache /\ cache' = [cache EXCEPT ![i].live = FALSE]
        /\ UNCHANGED <<server, changed, late>>
    BY <1>5 DEF Cache!Expire
  <2>2. Versioned' /\ Behind' /\ Onward' /\ FreshEntries' = FreshEntries
    BY <1>1, <2>1 DEF Versioned, Behind, Onward, FreshEntries, IsFresh
  <2>3. PICK n \in Nat : n = Len(cache) /\ DOMAIN cache = 1 .. n
    BY DEF Limited
  <2>4. PICK e : e = [cache[i] EXCEPT !.live = FALSE]
    OBVIOUS
  <2>5. e \in FreshEntries /\ e.key = cache[i].key
    <3>1. cache[i] \in FreshEntries
      BY <2>1 DEF Limited
    <3>. QED
      BY <2>4, <3>1 DEF FreshEntries
  <2>6. cache' = [cache EXCEPT ![i] = e]
    BY <2>1, <2>4
  <2>7. cache' \in Seq(FreshEntries) /\ Len(cache') = n
    <3>1. cache' \in [1 .. n -> FreshEntries]
      <4>1. cache \in [1 .. n -> FreshEntries]
        BY <2>3 DEF Limited
      <4>. QED
        BY <2>5, <2>6, <4>1
    <3>. QED
      BY <3>1
  <2>8. \A j \in 1 .. n : cache'[j].key = cache[j].key
    <3>1. cache'[i] = e /\ \A j \in DOMAIN cache : j # i => cache'[j] = cache[j]
      BY <2>1, <2>6
    <3>. QED
      BY <2>3, <2>5, <3>1
  <2>9. Limited'
    <3>1. OneAKey(cache) /\ n <= MaxEntries
      BY <2>3 DEF Limited
    <3>2. OneAKey(cache')
      BY <2>3, <2>7, <2>8, <3>1 DEF OneAKey
    <3>3. OneAKey(cache)'
      BY <3>2 DEF OneAKey
    <3>. QED
      BY <2>2, <2>7, <3>1, <3>3 DEF Limited
  <2>. QED
    BY <1>2, <2>2, <2>9 DEF CacheInv
<1>. QED
  BY <1>2, <1>3, <1>4, <1>5

LEMMA CacheKeeps ==
  ASSUME CacheInv, [Cache!CacheNext]_ofCache
  PROVE  CacheInv' /\ Forward
<1>1. CASE Cache!CacheNext
  BY <1>1, ViewsAsk, RequestsEnd, DataMove DEF Cache!CacheNext
<1>2. CASE UNCHANGED ofCache
  <2>1. CacheInv'
    BY <1>2 DEF CacheInv, Versioned, ViewsTyped, Limited, Asked, Behind, Onward, OneAKey,
                FreshEntries, IsFresh, ofCache
  <2>2. Forward
    BY <1>2 DEF Forward, CacheInv, ViewsTyped, ofCache
  <2>. QED
    BY <2>1, <2>2
<1>. QED
  BY <1>1, <1>2

LEMMA CacheTells == CacheInv => Cache!WithinLimits /\ Cache!FreshAfterChange
<1> SUFFICES ASSUME CacheInv PROVE Cache!WithinLimits /\ Cache!FreshAfterChange
  OBVIOUS
<1>1. DOMAIN cache = 1 .. Len(cache) /\ \A i \in DOMAIN cache : cache[i] \in FreshEntries
  BY DEF CacheInv, Limited
<1>. QED
  BY <1>1 DEF CacheInv, Limited, OneAKey, Asked, FreshEntries, IsFresh,
              Cache!WithinLimits, Cache!FreshAfterChange

\* Every behaviour of the module checked is, in its part for the cache, one of
\* DataCache: nothing else touches the cache or the views.
THEOREM CacheChecked == CheckSpec => Cache!CacheSpec
<1>1. CheckInit => Cache!CacheInit
  BY DEF CheckInit
<1>2. [CheckNext]_everything
        => [Cache!CacheNext]_(Cache!cacheVars)
  BY DEF CheckNext, CacheCheck, Cache!cacheVars, ofCache, everything
<1>. QED
  BY <1>1, <1>2, PTL DEF CheckSpec, Cache!CacheSpec

\* FreshAfterChange for any keys, views and size of the cache: a view that shows
\* data without asking for it anew shows what is no older than the last
\* invalidation of its key (use-api.ts).
THEOREM CacheIsFresh == CheckSpec => []FreshAfterChange
<1>1. CheckInit => CacheInv
  BY CacheStarts DEF CheckInit
<1>2. CacheInv /\ [CheckNext]_everything => CacheInv'
  BY CacheKeeps DEF CheckNext, CacheCheck, ofCache, everything
<1>3. CacheInv => FreshAfterChange
  BY CacheTells DEF FreshAfterChange
<1>. QED
  BY <1>1, <1>2, <1>3, PTL DEF CheckSpec

\* NeverGoesBack: a view that goes on showing a key is never given older data
\* than it shows, whatever order answers come in.
THEOREM CacheNeverGoesBack == CheckSpec => NeverGoesBack
<1>1. CheckInit => CacheInv
  BY CacheStarts DEF CheckInit
<1>2. CacheInv /\ [CheckNext]_everything => CacheInv'
  BY CacheKeeps DEF CheckNext, CacheCheck, ofCache, everything
<1>3. CacheInv /\ [CheckNext]_everything
        => [\A v \in Views :
              view[v].of = view[v].key /\ view'[v].key = view[v].key
                => view'[v].shown >= view[v].shown]_(Cache!cacheVars)
  <2> SUFFICES ASSUME CacheInv, [CheckNext]_everything
               PROVE  Forward
    BY DEF Forward
  <2>1. [Cache!CacheNext]_ofCache
    BY DEF CheckNext, CacheCheck, ofCache, everything
  <2>. QED
    BY <2>1, CacheKeeps
<1>. QED
  BY <1>1, <1>2, <1>3, PTL DEF CheckSpec, NeverGoesBack, Cache!NeverGoesBack

(***************************************************************************)
(* Sums.  A sum over a finite set is an iteration that chooses an element  *)
(* at a time; what it adds up to does not depend on the choices.           *)
(***************************************************************************)

One(s) == CHOOSE x \in s : TRUE

LEMMA Chosen ==
  ASSUME NEW s, s # {}
  PROVE  \E x \in s : x = One(s)
  BY DEF One

LEMMA Growing ==
  ASSUME NEW S, IsFiniteSet(S), NEW X, {} \in X,
         \A s \in SUBSET S, x \in S : s \in X => s \cup {x} \in X
  PROVE  SUBSET S \subseteq X
<1> SUFFICES ASSUME (SUBSET S) \ X # {} PROVE FALSE
  OBVIOUS
<1>1. PICK Y : Y = (SUBSET S) \ X
  OBVIOUS
<1>2. PICK m \in Y : \A y \in Y : ~(y \subseteq m /\ y # m)
  BY <1>1, LeastSet
<1>3. PICK x \in m : TRUE
  <2>1. m # {}
    BY <1>1, <1>2
  <2>. QED
    BY <2>1, Chosen
<1>4. PICK s \in SUBSET S : s = m \ {x} /\ s \cup {x} = m
  <2>1. m \ {x} \in SUBSET S /\ (m \ {x}) \cup {x} = m
    BY <1>1, <1>2, <1>3
  <2>. QED
    BY <2>1
<1>5. s \notin Y
  BY <1>2, <1>3, <1>4
<1>6. s \in X /\ x \in S
  BY <1>1, <1>2, <1>3, <1>4, <1>5
<1>. QED
  BY <1>1, <1>2, <1>4, <1>6

(* What MapThenSumSet computes.                                            *)
Iter(f, S, g) ==
  g = [s \in SUBSET S |->
         IF s = {} THEN 0
         ELSE f[One(s)] + g[s \ {One(s)}]]
SumIn(f, S) == (CHOOSE g : Iter(f, S, g))[S]

LEMMA IterAt ==
  ASSUME NEW f, NEW S, NEW g, Iter(f, S, g)
  PROVE  /\ g[{}] = 0
         /\ \A s \in SUBSET S : s # {} =>
              \E x \in s : x = One(s) /\ g[s] = f[x] + g[s \ {x}]
<1>0. {} \in SUBSET S
  OBVIOUS
<1>1. g[{}] = 0
  BY <1>0 DEF Iter
<1>2. ASSUME NEW s \in SUBSET S, s # {}
      PROVE  \E x \in s : x = One(s) /\ g[s] = f[x] + g[s \ {x}]
  <2>1. PICK x \in s : x = One(s)
    BY <1>2, Chosen
  <2>2. g[s] = f[x] + g[s \ {x}]
    BY <1>2, <2>1 DEF Iter
  <2>. QED
    BY <2>1, <2>2
<1>. QED
  BY <1>1, <1>2

LEMMA IterStep ==
  ASSUME NEW f, NEW S, NEW g, Iter(f, S, g), NEW s \in SUBSET S,
         NEW x \in s, x = One(s)
  PROVE  g[s] = f[x] + g[s \ {x}]
  BY DEF Iter

LEMMA IterAgree ==
  ASSUME NEW f, NEW S, IsFiniteSet(S), NEW g, Iter(f, S, g),
         NEW t \in SUBSET S, NEW h, Iter(f, t, h)
  PROVE  \A u \in SUBSET t : g[u] = h[u]
<1> SUFFICES ASSUME \E u \in SUBSET t : g[u] # h[u] PROVE FALSE
  OBVIOUS
<1>1. PICK X : X = {u \in SUBSET t : g[u] # h[u]}
  OBVIOUS
<1>2. PICK u \in X : \A y \in X : ~(y \subseteq u /\ y # u)
  <2>1. X \subseteq SUBSET S /\ X # {}
    BY <1>1
  <2>. QED
    BY <2>1, LeastSet
<1>3. u # {} /\ u \in SUBSET S /\ u \in SUBSET t /\ g[u] # h[u]
  <2>1. g[{}] = h[{}]
    BY IterAt
  <2>. QED
    BY <1>1, <1>2, <2>1
<1>4. PICK x \in u : x = One(u)
  BY <1>3, Chosen
<1>5. g[u] = f[x] + g[u \ {x}] /\ h[u] = f[x] + h[u \ {x}]
  BY <1>3, <1>4, IterStep
<1>6. g[u \ {x}] # h[u \ {x}]
  BY <1>3, <1>5
<1>7. u \ {x} \in X
  BY <1>1, <1>3, <1>6
<1>. QED
  BY <1>2, <1>4, <1>7

LEMMA IterExists ==
  ASSUME NEW f, NEW S, IsFiniteSet(S)
  PROVE  \E g : Iter(f, S, g)
<1> SUFFICES ASSUME ~\E g : Iter(f, S, g) PROVE FALSE
  OBVIOUS
<1>1. PICK X : X = {u \in SUBSET S : ~\E g : Iter(f, u, g)}
  OBVIOUS
<1>2. PICK t \in X : \A y \in X : ~(y \subseteq t /\ y # t)
  <2>1. X \subseteq SUBSET S /\ X # {}
    BY <1>1
  <2>. QED
    BY <2>1, LeastSet
<1>3. t \in SUBSET S /\ ~\E g : Iter(f, t, g)
  BY <1>1, <1>2
<1>4. \A u \in SUBSET t : u # t => \E h : Iter(f, u, h)
  BY <1>1, <1>2, <1>3
<1>5. ASSUME NEW u \in SUBSET t, u # t
      PROVE  Iter(f, u, CHOOSE h : Iter(f, u, h)) /\ IsFiniteSet(u)
  BY <1>3, <1>4, <1>5, FS_Subset
<1>6. PICK g : g = [u \in SUBSET t |->
                     IF u = t
                     THEN IF t = {} THEN 0
                          ELSE f[One(t)] + SumIn(f, t \ {One(t)})
                     ELSE SumIn(f, u)]
  OBVIOUS
<1>7. ASSUME NEW u \in SUBSET t
      PROVE  g[u] = IF u = {} THEN 0
                    ELSE f[One(u)] + g[u \ {One(u)}]
  <2>1. CASE u = {}
    <3>1. CASE u = t
      BY <1>6, <2>1, <3>1
    <3>2. CASE u # t
      <4>1. g[u] = SumIn(f, u)
        BY <1>6, <3>2
      <4>2. SumIn(f, u) = 0
        BY <1>5, <2>1, <3>2, IterAt DEF SumIn
      <4>. QED
        BY <2>1, <4>1, <4>2
    <3>. QED
      BY <3>1, <3>2
  <2>2. CASE u # {}
    <3>1. PICK x \in u : x = One(u)
      BY <2>2, Chosen
    <3>2. PICK w : w = u \ {x}
      OBVIOUS
    <3>3. w \in SUBSET t /\ w # t /\ w \in SUBSET u
      BY <3>1, <3>2
    <3>4. g[w] = SumIn(f, w)
      BY <1>6, <3>3
    <3>5. CASE u = t
      <4>1. g[u] = f[x] + SumIn(f, w)
        BY <1>6, <2>2, <3>1, <3>2, <3>5
      <4>. QED
        BY <2>2, <3>1, <3>2, <3>4, <4>1
    <3>6. CASE u # t
      <4>1. PICK h : h = CHOOSE k : Iter(f, u, k)
        OBVIOUS
      <4>2. Iter(f, u, h) /\ IsFiniteSet(u) /\ g[u] = h[u]
        BY <1>5, <1>6, <3>6, <4>1 DEF SumIn
      <4>3. PICK k : k = CHOOSE j : Iter(f, w, j)
        OBVIOUS
      <4>4. Iter(f, w, k) /\ SumIn(f, w) = k[w]
        BY <1>5, <3>3, <4>3 DEF SumIn
      <4>5. h[w] = k[w]
        <5>1. w \in SUBSET w
          OBVIOUS
        <5>2. \A v \in SUBSET w : h[v] = k[v]
          BY <3>3, <4>2, <4>4, IterAgree
        <5>. QED
          BY <5>1, <5>2
      <4>6. h[u] = f[x] + h[w]
        <5>1. u \in SUBSET u
          OBVIOUS
        <5>. QED
          BY <3>1, <3>2, <4>2, <5>1, IterStep
      <4>. QED
        BY <2>2, <3>1, <3>2, <3>4, <4>2, <4>4, <4>5, <4>6
    <3>. QED
      BY <3>5, <3>6
  <2>. QED
    BY <2>1, <2>2
<1>8. Iter(f, t, g)
  <2>1. g = [u \in SUBSET t |-> g[u]]
    BY <1>6
  <2>. QED
    BY <1>7, <2>1 DEF Iter
<1>. QED
  BY <1>3, <1>8

LEMMA SumOfIter ==
  ASSUME NEW f, NEW S, IsFiniteSet(S), NEW g, Iter(f, S, g)
  PROVE  SumIn(f, S) = g[S]
<1>1. PICK h : h = CHOOSE k : Iter(f, S, k)
  OBVIOUS
<1>2. Iter(f, S, h)
  BY <1>1
<1>3. S \in SUBSET S
  OBVIOUS
<1>4. g[S] = h[S]
  BY <1>2, <1>3, IterAgree
<1>. QED
  BY <1>1, <1>4 DEF SumIn

LEMMA SumStep ==
  ASSUME NEW f, NEW S, IsFiniteSet(S)
  PROVE  /\ S = {} => SumIn(f, S) = 0
         /\ S # {} => \E x \in S : /\ x = One(S)
                                   /\ SumIn(f, S) = f[x] + SumIn(f, S \ {x})
<1>1. PICK g : Iter(f, S, g)
  BY IterExists
<1>2. SumIn(f, S) = g[S]
  BY <1>1, SumOfIter
<1>3. CASE S = {}
  BY <1>1, <1>2, <1>3, IterAt
<1>4. CASE S # {}
  <2>1. S \in SUBSET S
    OBVIOUS
  <2>2. PICK x \in S : x = One(S)
    BY <1>4, Chosen
  <2>3. g[S] = f[x] + g[S \ {x}]
    BY <1>1, <2>1, <2>2, IterStep
  <2>4. PICK w \in SUBSET S : w = S \ {x}
    OBVIOUS
  <2>5. IsFiniteSet(w)
    BY FS_Subset
  <2>6. PICK h : Iter(f, w, h)
    BY <2>5, IterExists
  <2>7. SumIn(f, w) = h[w] /\ g[w] = h[w]
    <3>1. w \in SUBSET w
      OBVIOUS
    <3>2. SumIn(f, w) = h[w]
      BY <2>5, <2>6, SumOfIter
    <3>. QED
      BY <1>1, <2>6, <3>1, <3>2, IterAgree
  <2>. QED
    BY <1>2, <1>4, <2>2, <2>3, <2>4, <2>7
<1>. QED
  BY <1>3, <1>4

(***************************************************************************)
(* Sums of integers, one element more, and sums that are the same, are     *)
(* multiplied, are bounded or are divided among the rows' owners.          *)
(***************************************************************************)

Ints(f, S) == \A x \in S : f[x] \in Int

LEMMA SumIsInt ==
  ASSUME NEW f, NEW S, IsFiniteSet(S), Ints(f, S)
  PROVE  SumIn(f, S) \in Int
<1> SUFFICES ASSUME SumIn(f, S) \notin Int PROVE FALSE
  OBVIOUS
<1>1. PICK X : X = {s \in SUBSET S : SumIn(f, s) \notin Int}
  OBVIOUS
<1>2. PICK s \in X : \A y \in X : ~(y \subseteq s /\ y # s)
  <2>1. X \subseteq SUBSET S /\ X # {}
    BY <1>1
  <2>. QED
    BY <2>1, LeastSet
<1>3. s \in SUBSET S /\ SumIn(f, s) \notin Int /\ IsFiniteSet(s)
  BY <1>1, <1>2, FS_Subset
<1>4. s # {}
  BY <1>3, SumStep
<1>5. PICK x \in s : SumIn(f, s) = f[x] + SumIn(f, s \ {x})
  BY <1>3, <1>4, SumStep
<1>6. SumIn(f, s \ {x}) \in Int
  BY <1>1, <1>2, <1>3, <1>5
<1>. QED
  BY <1>3, <1>5, <1>6 DEF Ints

LEMMA SumWith ==
  ASSUME NEW f, NEW S, IsFiniteSet(S), Ints(f, S), NEW s \in SUBSET S, NEW x \in S, x \notin s
  PROVE  SumIn(f, s \cup {x}) = f[x] + SumIn(f, s)
<1> SUFFICES ASSUME SumIn(f, s \cup {x}) # f[x] + SumIn(f, s) PROVE FALSE
  OBVIOUS
<1>1. PICK X : X = {u \in SUBSET S : \E y \in S \ u : SumIn(f, u \cup {y}) # f[y] + SumIn(f, u)}
  OBVIOUS
<1>2. PICK u \in X : \A w \in X : ~(w \subseteq u /\ w # u)
  <2>1. X \subseteq SUBSET S /\ X # {}
    BY <1>1
  <2>. QED
    BY <2>1, LeastSet
<1>3. PICK y \in S \ u : SumIn(f, u \cup {y}) # f[y] + SumIn(f, u)
  BY <1>1, <1>2
<1>4. PICK t \in SUBSET S : t = u \cup {y} /\ t # {}
  BY <1>1, <1>2, <1>3
<1>5. IsFiniteSet(t) /\ IsFiniteSet(u) /\ u \in SUBSET S
  BY <1>1, <1>2, <1>4, FS_Subset
<1>6. PICK c \in t : SumIn(f, t) = f[c] + SumIn(f, t \ {c})
  BY <1>4, <1>5, SumStep
<1>7. CASE c = y
  <2>1. t \ {c} = u
    BY <1>3, <1>4, <1>7
  <2>. QED
    BY <1>3, <1>4, <1>6, <1>7, <2>1
<1>8. CASE c # y
  <2>1. PICK w \in SUBSET S : w = u \ {c}
    BY <1>5
  <2>2. c \in u /\ w # u /\ w \subseteq u /\ w \notin X
    BY <1>2, <1>4, <1>8, <2>1
  <2>3. \A z \in S \ w : SumIn(f, w \cup {z}) = f[z] + SumIn(f, w)
    BY <1>1, <2>1, <2>2
  <2>4. t \ {c} = w \cup {y} /\ u = w \cup {c} /\ y \in S \ w /\ c \in S \ w
    BY <1>3, <1>4, <1>5, <1>8, <2>1, <2>2
  <2>5. SumIn(f, t) = f[c] + (f[y] + SumIn(f, w)) /\ SumIn(f, u) = f[c] + SumIn(f, w)
    BY <1>6, <2>3, <2>4
  <2>6. SumIn(f, w) \in Int /\ f[c] \in Int /\ f[y] \in Int
    <3>1. IsFiniteSet(w) /\ Ints(f, w)
      BY <2>1, FS_Subset DEF Ints
    <3>. QED
      BY <2>4, <3>1, SumIsInt DEF Ints
  <2>. QED
    BY <1>3, <1>4, <2>5, <2>6
<1>. QED
  BY <1>7, <1>8

(* A function that adds up as the sum does is the sum.                     *)
LEMMA SumUnique ==
  ASSUME NEW f, NEW S, IsFiniteSet(S), Ints(f, S),
         NEW g, g[{}] = 0,
         \A s \in SUBSET S, x \in S : x \notin s => g[s \cup {x}] = f[x] + g[s]
  PROVE  SumIn(f, S) = g[S]
<1>1. PICK X : X = {s \in SUBSET S : SumIn(f, s) = g[s]}
  OBVIOUS
<1>2. {} \in X
  BY <1>1, FS_EmptySet, SumStep
<1>3. ASSUME NEW s \in SUBSET S, NEW x \in S, s \in X
      PROVE  s \cup {x} \in X
  <2>1. CASE x \in s
    <3>1. s \cup {x} = s
      BY <2>1
    <3>. QED
      BY <1>3, <3>1
  <2>2. CASE x \notin s
    <3>1. SumIn(f, s \cup {x}) = f[x] + SumIn(f, s)
      BY <2>2, SumWith
    <3>. QED
      BY <1>1, <1>3, <2>2, <3>1
  <2>. QED
    BY <2>1, <2>2
<1>4. SUBSET S \subseteq X
  BY <1>2, <1>3, Growing
<1>. QED
  BY <1>1, <1>4

LEMMA SumEmpty ==
  ASSUME NEW f
  PROVE  SumIn(f, {}) = 0
  BY FS_EmptySet, SumStep

LEMMA SumSame ==
  ASSUME NEW f, NEW g, NEW S, IsFiniteSet(S), Ints(f, S), \A x \in S : f[x] = g[x]
  PROVE  SumIn(f, S) = SumIn(g, S)
<1>. Ints(g, S)
  BY DEF Ints
<1>1. PICK h : h = [s \in SUBSET S |-> SumIn(g, s)]
  OBVIOUS
<1>2. h[{}] = 0
  BY <1>1, SumEmpty
<1>3. ASSUME NEW s \in SUBSET S, NEW x \in S, x \notin s
      PROVE  h[s \cup {x}] = f[x] + h[s]
  <2>1. h[s] = SumIn(g, s) /\ h[s \cup {x}] = SumIn(g, s \cup {x})
    BY <1>1
  <2>2. SumIn(g, s \cup {x}) = g[x] + SumIn(g, s)
    BY <1>3, SumWith
  <2>. QED
    BY <2>1, <2>2
<1>4. SumIn(f, S) = h[S]
  BY <1>2, <1>3, SumUnique
<1>. QED
  BY <1>1, <1>4

(* Parts of a finite set, and the sums over them.                          *)
LEMMA Parted ==
  ASSUME NEW f, NEW S, IsFiniteSet(S), Ints(f, S), NEW s \in SUBSET S
  PROVE  IsFiniteSet(s) /\ Ints(f, s) /\ SumIn(f, s) \in Int
  BY FS_Subset, SumIsInt DEF Ints

LEMMA SumPlus ==
  ASSUME NEW f, NEW g, NEW h, NEW S, IsFiniteSet(S), Ints(f, S), Ints(g, S),
         \A x \in S : h[x] = f[x] + g[x]
  PROVE  SumIn(h, S) = SumIn(f, S) + SumIn(g, S)
<1>1. Ints(h, S)
  BY DEF Ints
<1>2. PICK k : k = [s \in SUBSET S |-> SumIn(f, s) + SumIn(g, s)]
  OBVIOUS
<1>3. k[{}] = 0
  BY <1>2, SumEmpty
<1>4. ASSUME NEW s \in SUBSET S, NEW x \in S, x \notin s
      PROVE  k[s \cup {x}] = h[x] + k[s]
  <2>1. /\ k[s] = SumIn(f, s) + SumIn(g, s)
        /\ k[s \cup {x}] = SumIn(f, s \cup {x}) + SumIn(g, s \cup {x})
    BY <1>2
  <2>2. /\ SumIn(f, s \cup {x}) = f[x] + SumIn(f, s)
        /\ SumIn(g, s \cup {x}) = g[x] + SumIn(g, s)
    BY <1>4, SumWith
  <2>3. SumIn(f, s) \in Int /\ SumIn(g, s) \in Int /\ f[x] \in Int /\ g[x] \in Int
    BY Parted DEF Ints
  <2>. QED
    BY <2>1, <2>2, <2>3
<1>5. SumIn(h, S) = k[S]
  BY <1>1, <1>3, <1>4, SumUnique
<1>. QED
  BY <1>2, <1>5

LEMMA SumTimes ==
  ASSUME NEW f, NEW p \in Int, NEW h, NEW S, IsFiniteSet(S), Ints(f, S),
         \A x \in S : h[x] = p * f[x]
  PROVE  SumIn(h, S) = p * SumIn(f, S)
<1>1. Ints(h, S)
  BY DEF Ints
<1>2. PICK k : k = [s \in SUBSET S |-> p * SumIn(f, s)]
  OBVIOUS
<1>3. k[{}] = 0
  BY <1>2, SumEmpty
<1>4. ASSUME NEW s \in SUBSET S, NEW x \in S, x \notin s
      PROVE  k[s \cup {x}] = h[x] + k[s]
  <2>1. k[s] = p * SumIn(f, s) /\ k[s \cup {x}] = p * SumIn(f, s \cup {x})
    BY <1>2
  <2>2. SumIn(f, s \cup {x}) = f[x] + SumIn(f, s)
    BY <1>4, SumWith
  <2>3. PICK u \in Int, v \in Int : u = f[x] /\ v = SumIn(f, s)
    BY Parted DEF Ints
  <2>4. p * (u + v) = p * u + p * v
    OBVIOUS
  <2>. QED
    BY <2>1, <2>2, <2>3, <2>4
<1>5. SumIn(h, S) = k[S]
  BY <1>1, <1>3, <1>4, SumUnique
<1>. QED
  BY <1>2, <1>5

LEMMA SumAtMost ==
  ASSUME NEW f, NEW g, NEW S, IsFiniteSet(S), Ints(f, S), Ints(g, S),
         \A x \in S : f[x] <= g[x]
  PROVE  SumIn(f, S) <= SumIn(g, S)
<1>1. PICK X : X = {s \in SUBSET S : SumIn(f, s) <= SumIn(g, s)}
  OBVIOUS
<1>2. {} \in X
  BY <1>1, SumEmpty
<1>3. ASSUME NEW s \in SUBSET S, NEW x \in S, s \in X
      PROVE  s \cup {x} \in X
  <2>1. CASE x \in s
    <3>1. s \cup {x} = s
      BY <2>1
    <3>. QED
      BY <1>3, <3>1
  <2>2. CASE x \notin s
    <3>1. /\ SumIn(f, s \cup {x}) = f[x] + SumIn(f, s)
          /\ SumIn(g, s \cup {x}) = g[x] + SumIn(g, s)
      BY <2>2, SumWith
    <3>2. SumIn(f, s) \in Int /\ SumIn(g, s) \in Int /\ f[x] \in Int /\ g[x] \in Int
      BY Parted DEF Ints
    <3>3. SumIn(f, s) <= SumIn(g, s) /\ f[x] <= g[x]
      BY <1>1, <1>3
    <3>. QED
      BY <1>1, <3>1, <3>2, <3>3
  <2>. QED
    BY <2>1, <2>2
<1>4. SUBSET S \subseteq X
  BY <1>2, <1>3, Growing
<1>. QED
  BY <1>1, <1>4

LEMMA SumOfSame ==
  ASSUME NEW n \in Int, NEW f, NEW S, IsFiniteSet(S), \A x \in S : f[x] = n
  PROVE  SumIn(f, S) = n * Cardinality(S)
<1>1. Ints(f, S)
  BY DEF Ints
<1>2. PICK k : k = [s \in SUBSET S |-> n * Cardinality(s)]
  OBVIOUS
<1>3. k[{}] = 0
  BY <1>2, FS_EmptySet
<1>4. ASSUME NEW s \in SUBSET S, NEW x \in S, x \notin s
      PROVE  k[s \cup {x}] = f[x] + k[s]
  <2>1. k[s] = n * Cardinality(s) /\ k[s \cup {x}] = n * Cardinality(s \cup {x})
    BY <1>2
  <2>2. IsFiniteSet(s)
    BY FS_Subset
  <2>3. PICK c \in Nat : c = Cardinality(s) /\ Cardinality(s \cup {x}) = c + 1
    BY <1>4, <2>2, FS_AddElement, FS_CardinalityType
  <2>4. n * (c + 1) = n + n * c
    OBVIOUS
  <2>. QED
    BY <2>1, <2>3, <2>4
<1>5. SumIn(f, S) = k[S]
  BY <1>1, <1>3, <1>4, SumUnique
<1>. QED
  BY <1>2, <1>5

LEMMA SumOfNone ==
  ASSUME NEW f, NEW S, IsFiniteSet(S), Ints(f, S), NEW t \in SUBSET S,
         \A x \in S \ t : f[x] = 0
  PROVE  SumIn(f, S) = SumIn(f, t)
<1>1. PICK k : k = [s \in SUBSET S |-> SumIn(f, s \cap t)]
  OBVIOUS
<1>2. k[{}] = 0
  <2>1. {} \cap t = {}
    OBVIOUS
  <2>. QED
    BY <1>1, <2>1, SumEmpty
<1>3. ASSUME NEW s \in SUBSET S, NEW x \in S, x \notin s
      PROVE  k[s \cup {x}] = f[x] + k[s]
  <2>1. k[s] = SumIn(f, s \cap t) /\ k[s \cup {x}] = SumIn(f, (s \cup {x}) \cap t)
    BY <1>1
  <2>2. PICK w \in SUBSET S : w = s \cap t /\ x \notin w
    BY <1>3
  <2>3. SumIn(f, w) \in Int
    BY Parted
  <2>4. CASE x \in t
    <3>1. (s \cup {x}) \cap t = w \cup {x}
      BY <2>2, <2>4
    <3>2. SumIn(f, w \cup {x}) = f[x] + SumIn(f, w)
      BY <2>2, SumWith
    <3>. QED
      BY <2>1, <2>2, <3>1, <3>2
  <2>5. CASE x \notin t
    <3>1. (s \cup {x}) \cap t = w
      BY <2>2, <2>5
    <3>2. f[x] = 0
      BY <2>5
    <3>3. k[s] = SumIn(f, w) /\ k[s \cup {x}] = SumIn(f, w)
      BY <2>1, <2>2, <3>1
    <3>. QED
      BY <2>3, <3>2, <3>3
  <2>. QED
    BY <2>4, <2>5
<1>4. SumIn(f, S) = k[S] /\ S \cap t = t
  BY <1>2, <1>3, SumUnique
<1>. QED
  BY <1>1, <1>4

(* A sum is made of the sums over the parts that a key divides its rows in.*)
PartSum(f, key, s, C) == [c \in C |-> SumIn(f, {x \in s : key[x] = c})]

LEMMA SumOfParts ==
  ASSUME NEW f, NEW S, IsFiniteSet(S), Ints(f, S),
         NEW C, IsFiniteSet(C), NEW key, \A x \in S : key[x] \in C
  PROVE  SumIn(PartSum(f, key, S, C), C) = SumIn(f, S)
<1>1. PICK k : k = [s \in SUBSET S |-> SumIn(PartSum(f, key, s, C), C)]
  OBVIOUS
<1>2. ASSUME NEW s \in SUBSET S
      PROVE  /\ Ints(PartSum(f, key, s, C), C)
             /\ \A c \in C : PartSum(f, key, s, C)[c] = SumIn(f, {x \in s : key[x] = c})
  <2> SUFFICES ASSUME NEW c \in C
               PROVE  /\ PartSum(f, key, s, C)[c] \in Int
                      /\ PartSum(f, key, s, C)[c] = SumIn(f, {x \in s : key[x] = c})
    BY DEF Ints
  <2>1. PICK w \in SUBSET S : w = {x \in s : key[x] = c}
    OBVIOUS
  <2>2. SumIn(f, w) \in Int
    BY Parted
  <2>. QED
    BY <2>1, <2>2 DEF PartSum
<1>3. k[{}] = 0
  <2>1. PICK F : F = PartSum(f, key, {}, C)
    OBVIOUS
  <2>2. Ints(F, C)
    BY <1>2, <2>1
  <2>3. \A c \in C : F[c] = 0
    <3>1. \A c \in C : {x \in {} : key[x] = c} = {}
      OBVIOUS
    <3>2. \A c \in C : F[c] = SumIn(f, {})
      BY <2>1, <3>1 DEF PartSum
    <3>. QED
      BY <3>2, SumEmpty
  <2>4. {} \in SUBSET C
    OBVIOUS
  <2>5. SumIn(F, C) = SumIn(F, {})
    BY <2>2, <2>3, <2>4, SumOfNone
  <2>. QED
    BY <1>1, <2>1, <2>5, SumEmpty
<1>4. ASSUME NEW s \in SUBSET S, NEW x \in S, x \notin s
      PROVE  k[s \cup {x}] = f[x] + k[s]
  <2>1. PICK F, G : F = PartSum(f, key, s, C) /\ G = PartSum(f, key, s \cup {x}, C)
    OBVIOUS
  <2>2. k[s] = SumIn(F, C) /\ k[s \cup {x}] = SumIn(G, C)
    BY <1>1, <2>1
  <2>3. PICK t \in SUBSET S : t = s \cup {x}
    OBVIOUS
  <2>4. Ints(F, C) /\ Ints(G, C) /\ \A c \in C :
          /\ F[c] = SumIn(f, {y \in s : key[y] = c})
          /\ G[c] = SumIn(f, {y \in t : key[y] = c})
    BY <1>2, <2>1, <2>3
  <2>5. PICK d \in C : d = key[x]
    OBVIOUS
  <2>6. PICK rest \in SUBSET C : rest = C \ {d} /\ rest \cup {d} = C /\ d \notin rest
    <3>1. C \ {d} \in SUBSET C /\ (C \ {d}) \cup {d} = C /\ d \notin C \ {d}
      OBVIOUS
    <3>. QED
      BY <3>1
  <2>7. G[d] = f[x] + F[d]
    <3>1. PICK w \in SUBSET S : w = {y \in s : key[y] = d} /\ x \notin w
      BY <1>4
    <3>2. {y \in t : key[y] = d} = w \cup {x}
      BY <2>3, <2>5, <3>1
    <3>3. SumIn(f, w \cup {x}) = f[x] + SumIn(f, w)
      BY <3>1, SumWith
    <3>. QED
      BY <2>4, <3>1, <3>2, <3>3
  <2>8. \A c \in rest : G[c] = F[c]
    <3> SUFFICES ASSUME NEW c \in rest PROVE G[c] = F[c]
      OBVIOUS
    <3>1. {y \in t : key[y] = c} = {y \in s : key[y] = c}
      BY <2>3, <2>5, <2>6
    <3>. QED
      BY <2>4, <2>6, <3>1
  <2>9. SumIn(F, rest) = SumIn(G, rest)
    <3>1. IsFiniteSet(rest) /\ Ints(F, rest)
      BY <2>4, <2>6, Parted
    <3>. QED
      BY <2>8, <3>1, SumSame
  <2>10. SumIn(F, C) = F[d] + SumIn(F, rest) /\ SumIn(G, C) = G[d] + SumIn(G, rest)
    <3>1. SumIn(F, rest \cup {d}) = F[d] + SumIn(F, rest)
      BY <2>4, <2>6, SumWith
    <3>2. SumIn(G, rest \cup {d}) = G[d] + SumIn(G, rest)
      BY <2>4, <2>6, SumWith
    <3>. QED
      BY <2>6, <3>1, <3>2
  <2>11. f[x] \in Int /\ F[d] \in Int /\ SumIn(F, rest) \in Int
    BY <2>4, <2>6, Parted DEF Ints
  <2>. QED
    BY <2>2, <2>7, <2>9, <2>10, <2>11
<1>5. SumIn(f, S) = k[S]
  BY <1>3, <1>4, SumUnique
<1>. QED
  BY <1>1, <1>5

(***************************************************************************)
(* The sums of the reports are such sums: of amounts, of commissions and   *)
(* of payouts.                                                             *)
(***************************************************************************)

LEMMA CardinalityInReports ==
  ASSUME NEW S
  PROVE  L!Cardinality(S) = Cardinality(S)
  BY Zenon DEF L!Cardinality, Cardinality

AmountOf == [a \in Payouts |-> L!Amount(a)]
AmountIter(S, g) ==
  g = [s \in SUBSET S |->
         IF s = {} THEN 0 ELSE L!Amount(One(s)) + g[s \ {One(s)}]]

LEMMA AmountSum ==
  ASSUME NEW S \in SUBSET Payouts
  PROVE  L!SumOf(S).amount = SumIn(AmountOf, S)
<1>1. IsFiniteSet(S)
  BY ReportsAssumption, FS_Subset
<1>2. ASSUME NEW g
      PROVE  AmountIter(S, g) <=> Iter(AmountOf, S, g)
  <2>1. \A s \in SUBSET S : s # {} => AmountOf[One(s)] = L!Amount(One(s))
    BY Chosen DEF AmountOf
  <2>. QED
    BY <2>1 DEF AmountIter, Iter
<1>3. PICK h : h = CHOOSE g : AmountIter(S, g)
  OBVIOUS
<1>4. L!SumOf(S).amount = h[S]
  <2>1. L!SumOf(S).amount = L!MapThenSumSet(L!Amount, S)
    BY Zenon DEF L!SumOf
  <2>2. L!MapThenSumSet(L!Amount, S) = (CHOOSE g : AmountIter(S, g))[S]
    BY Zenon DEF L!MapThenSumSet, L!MapThenFoldSet, AmountIter, One
  <2>. QED
    BY <1>3, <2>1, <2>2
<1>5. Iter(AmountOf, S, h)
  BY <1>1, <1>2, <1>3, IterExists
<1>. QED
  BY <1>1, <1>4, <1>5, SumOfIter

CommissionOf == [a \in Payouts |-> L!Commission(a)]
CommissionIter(S, g) ==
  g = [s \in SUBSET S |->
         IF s = {} THEN 0 ELSE L!Commission(One(s)) + g[s \ {One(s)}]]

LEMMA CommissionSum ==
  ASSUME NEW S \in SUBSET Payouts
  PROVE  L!SumOf(S).commission = SumIn(CommissionOf, S)
<1>1. IsFiniteSet(S)
  BY ReportsAssumption, FS_Subset
<1>2. ASSUME NEW g
      PROVE  CommissionIter(S, g) <=> Iter(CommissionOf, S, g)
  <2>1. \A s \in SUBSET S : s # {} => CommissionOf[One(s)] = L!Commission(One(s))
    BY Chosen DEF CommissionOf
  <2>. QED
    BY <2>1 DEF CommissionIter, Iter
<1>3. PICK h : h = CHOOSE g : CommissionIter(S, g)
  OBVIOUS
<1>4. L!SumOf(S).commission = h[S]
  <2>1. L!SumOf(S).commission = L!MapThenSumSet(L!Commission, S)
    BY Zenon DEF L!SumOf
  <2>2. L!MapThenSumSet(L!Commission, S) = (CHOOSE g : CommissionIter(S, g))[S]
    BY Zenon DEF L!MapThenSumSet, L!MapThenFoldSet, CommissionIter, One
  <2>. QED
    BY <1>3, <2>1, <2>2
<1>5. Iter(CommissionOf, S, h)
  BY <1>1, <1>2, <1>3, IterExists
<1>. QED
  BY <1>1, <1>4, <1>5, SumOfIter

PayoutOf == [a \in Payouts |-> L!Payout(a)]
PayoutIter(S, g) ==
  g = [s \in SUBSET S |->
         IF s = {} THEN 0 ELSE L!Payout(One(s)) + g[s \ {One(s)}]]

LEMMA PayoutSum ==
  ASSUME NEW S \in SUBSET Payouts
  PROVE  L!SumOf(S).payout = SumIn(PayoutOf, S)
<1>1. IsFiniteSet(S)
  BY ReportsAssumption, FS_Subset
<1>2. ASSUME NEW g
      PROVE  PayoutIter(S, g) <=> Iter(PayoutOf, S, g)
  <2>1. \A s \in SUBSET S : s # {} => PayoutOf[One(s)] = L!Payout(One(s))
    BY Chosen DEF PayoutOf
  <2>. QED
    BY <2>1 DEF PayoutIter, Iter
<1>3. PICK h : h = CHOOSE g : PayoutIter(S, g)
  OBVIOUS
<1>4. L!SumOf(S).payout = h[S]
  <2>1. L!SumOf(S).payout = L!MapThenSumSet(L!Payout, S)
    BY Zenon DEF L!SumOf
  <2>2. L!MapThenSumSet(L!Payout, S) = (CHOOSE g : PayoutIter(S, g))[S]
    BY Zenon DEF L!MapThenSumSet, L!MapThenFoldSet, PayoutIter, One
  <2>. QED
    BY <1>3, <2>1, <2>2
<1>5. Iter(PayoutOf, S, h)
  BY <1>1, <1>2, <1>3, IterExists
<1>. QED
  BY <1>1, <1>4, <1>5, SumOfIter

(***************************************************************************)
(* What the figures of a payout and of a set of payouts add up to.         *)
(***************************************************************************)

TermsTyped == terms \in [Payouts -> Nat \X (0 .. 60)]

LEMMA RoundedIs ==
  ASSUME NEW n \in Nat, NEW p \in 0 .. 60
  PROVE  L!Rounded(n, p) \in Nat /\ L!Rounded(n, p) <= n
<1>1. PICK m \in Nat : m = n * p /\ m <= 60 * n
  OBVIOUS
<1>2. 2 * n * p = 2 * m
  BY <1>1
<1>3. L!Rounded(n, p) = (2 * m + 100) \div 200
  BY <1>2 DEF L!Rounded
<1>. QED
  BY <1>1, <1>3

LEMMA FiguresOf ==
  ASSUME TermsTyped, NEW a \in Payouts
  PROVE  /\ AmountOf[a] \in Nat /\ CommissionOf[a] \in Nat /\ PayoutOf[a] \in Nat
         /\ AmountOf[a] = PayoutOf[a] + CommissionOf[a]
<1>1. terms[a][1] \in Nat /\ terms[a][2] \in 0 .. 60
  BY DEF TermsTyped
<1>2. L!Commission(a) \in Nat /\ L!Commission(a) <= L!Amount(a)
  BY <1>1, RoundedIs DEF L!Commission, L!Amount
<1>3. L!Amount(a) \in Nat /\ L!Payout(a) = L!Amount(a) - L!Commission(a)
  BY <1>1 DEF L!Amount, L!Payout
<1>. QED
  BY <1>2, <1>3 DEF AmountOf, CommissionOf, PayoutOf

AddsUp(sum) ==
  /\ sum.amount \in Nat /\ sum.commission \in Nat /\ sum.payout \in Nat
  /\ sum.payout + sum.commission = sum.amount
  /\ sum.count \in Nat

LEMMA FiguresAreInts ==
  ASSUME TermsTyped, NEW S \in SUBSET Payouts
  PROVE  IsFiniteSet(S) /\ Ints(AmountOf, S) /\ Ints(CommissionOf, S) /\ Ints(PayoutOf, S)
  BY FiguresOf, ReportsAssumption, FS_Subset DEF Ints

LEMMA SumNotNegative ==
  ASSUME NEW f, NEW S, IsFiniteSet(S), \A x \in S : f[x] \in Nat
  PROVE  SumIn(f, S) \in Nat
<1>1. PICK z : z = [x \in S |-> 0]
  OBVIOUS
<1>2. Ints(f, S) /\ Ints(z, S)
  BY <1>1 DEF Ints
<1>3. SumIn(z, S) <= SumIn(f, S)
  BY <1>1, <1>2, SumAtMost
<1>4. SumIn(z, S) = 0 * Cardinality(S)
  BY <1>1, SumOfSame
<1>5. SumIn(f, S) \in Int /\ Cardinality(S) \in Nat
  BY <1>2, SumIsInt, FS_CardinalityType
<1>. QED
  BY <1>3, <1>4, <1>5

LEMMA SumsAddUp ==
  ASSUME TermsTyped, NEW S \in SUBSET Payouts
  PROVE  AddsUp(L!SumOf(S)) /\ L!SumOf(S).count = Cardinality(S)
<1>1. IsFiniteSet(S)
  BY ReportsAssumption, FS_Subset
<1>2. L!SumOf(S).count = Cardinality(S)
  BY CardinalityInReports DEF L!SumOf
<1>3. SumIn(AmountOf, S) = SumIn(PayoutOf, S) + SumIn(CommissionOf, S)
  <2>1. \A x \in S : AmountOf[x] = PayoutOf[x] + CommissionOf[x]
    BY FiguresOf
  <2>. QED
    BY <2>1, FiguresAreInts, SumPlus
<1>4. SumIn(AmountOf, S) \in Nat /\ SumIn(PayoutOf, S) \in Nat /\ SumIn(CommissionOf, S) \in Nat
  BY <1>1, FiguresOf, SumNotNegative
<1>. QED
  BY <1>1, <1>2, <1>3, <1>4, AmountSum, PayoutSum, CommissionSum, FS_CardinalityType DEF AddsUp

(***************************************************************************)
(* What holds of the reports: a paid payout has its bill paid, and what a  *)
(* report has read differs from the payouts by the moves made since.       *)
(***************************************************************************)

LStages == {"NONE", "PENDING", "APPROVED", "PAID", "FAILED", "CANCELLED", "REFUNDED"}
Queries == {"paid", "paid count", "net", "open", "open count", "to approve", "to release",
            "billed", "unpaid", "all", "count", "invoices"}
Sums == {s \in [amount : Nat, commission : Nat, payout : Nat, count : Nat] :
           s.payout + s.commission = s.amount}
Gots == UNION {[D -> Sums] : D \in SUBSET Queries}

PayoutsTyped ==
  /\ stage \in [Payouts -> LStages] /\ TermsTyped
  /\ bill \in [Payouts -> {"NONE", "DRAFT", "PAID"}] /\ moves \in Nat
PaidAreBilled == \A a \in Payouts : stage[a] = "PAID" => bill[a] = "PAID"
ReportShaped ==
  report # None =>
    /\ report \in [of : L!Kinds, got : Gots]
    /\ DOMAIN report.got \subseteq L!Aggregates(report.of[1])

Counted(q) ==
  IF q \in DOMAIN report.got THEN report.got[q].count ELSE Cardinality(L!Selected(q))
Off == Counted("to approve") + Counted("to release") - Counted("open")
OffByMoves ==
  report # None /\ report.of[1] = "finance" =>
    Off \in Int /\ -moves <= Off /\ Off <= moves
CountedLast ==
  report # None /\ report.of[1] = "operator" =>
    /\ \A q \in DOMAIN report.got : report.got[q].count <= Counted("count")
    /\ "count" \in DOMAIN report.got => L!Left = {}
ReportsInv == PayoutsTyped /\ PaidAreBilled /\ ReportShaped /\ OffByMoves /\ CountedLast

LEMMA SelectedAre ==
  /\ \A q \in {"paid", "paid count", "net"} : L!Selected(q) = {a \in Payouts : stage[a] = "PAID"}
  /\ \A q \in {"open", "open count"} :
       L!Selected(q) = {a \in Payouts : stage[a] \in {"PENDING", "APPROVED"}}
  /\ L!Selected("to approve") = {a \in Payouts : stage[a] = "PENDING"}
  /\ L!Selected("to release") = {a \in Payouts : stage[a] = "APPROVED"}
  /\ L!Selected("billed") = {a \in Payouts : bill[a] = "PAID"}
  /\ L!Selected("unpaid") = {a \in Payouts : bill[a] = "DRAFT"}
  /\ \A q \in {"all", "count", "invoices"} :
       L!Selected(q) = {a \in Payouts : stage[a] # "NONE"}
  BY DEF L!Selected, L!Open

LEMMA AggregatesAre ==
  /\ L!Aggregates("creator") = {"paid", "paid count", "open", "open count"}
  /\ L!Aggregates("brand") = {"paid", "billed", "unpaid", "invoices"}
  /\ L!Aggregates("operator") = {"paid", "net", "open", "all", "count"}
  /\ L!Aggregates("finance") = {"paid", "open", "to approve", "to release", "invoices"}
  /\ L!Aggregates("console") = {"all", "count"}
  BY DEF L!Aggregates

LEMMA KindsAre ==
  /\ \A k \in L!Kinds : k[1] \in {"creator", "brand", "operator", "finance", "console"}
  /\ \A k \in L!Kinds : L!Aggregates(k[1]) \subseteq Queries
<1>1. \A k \in L!Kinds : k[1] \in {"creator", "brand", "operator", "finance", "console"}
  BY DEF L!Kinds
<1>. QED
  BY <1>1, AggregatesAre DEF Queries

LEMMA SelectedRows ==
  ASSUME NEW q \in Queries
  PROVE  L!Selected(q) \subseteq Payouts
  BY SelectedAre DEF Queries

LEMMA SumIsSum ==
  ASSUME TermsTyped, NEW S \in SUBSET Payouts
  PROVE  L!SumOf(S) \in Sums
<1>1. PICK s : s = L!SumOf(S)
  OBVIOUS
<1>2. AddsUp(s)
  BY <1>1, SumsAddUp
<1>3. \E a, b, c, d : s = [amount |-> a, commission |-> b, payout |-> c, count |-> d]
  BY <1>1 DEF L!SumOf
<1>. QED
  BY <1>1, <1>2, <1>3 DEF AddsUp, Sums

LEMMA AggregateIs ==
  ASSUME TermsTyped, NEW k \in L!Kinds, NEW q \in Queries
  PROVE  /\ L!Aggregate(k, q) \in Sums
         /\ k[1] \in {"operator", "finance", "console"} =>
              L!Aggregate(k, q).count = Cardinality(L!Selected(q))
<1>1. PICK S : S = {a \in L!Selected(q) : L!BelongsTo(k, a)}
  OBVIOUS
<1>2. S \in SUBSET Payouts /\ L!Aggregate(k, q) = L!SumOf(S)
  BY <1>1, SelectedRows DEF L!Aggregate
<1>3. L!SumOf(S) \in Sums /\ L!SumOf(S).count = Cardinality(S)
  BY <1>2, SumIsSum, SumsAddUp
<1>4. k[1] \in {"operator", "finance", "console"} => S = L!Selected(q)
  BY <1>1 DEF L!BelongsTo
<1>. QED
  BY <1>2, <1>3, <1>4

LEMMA ReportsStart == L!Init => ReportsInv
<1> SUFFICES ASSUME L!Init PROVE ReportsInv
  OBVIOUS
<1>1. /\ stage = [a \in Payouts |-> "NONE"] /\ terms = [a \in Payouts |-> <<0, 0>>]
      /\ bill = [a \in Payouts |-> "NONE"] /\ report = None /\ moves = 0
  BY DEF L!Init, L!Life!Init
<1>2. PayoutsTyped /\ PaidAreBilled
  BY <1>1 DEF PayoutsTyped, PaidAreBilled, TermsTyped, LStages
<1>3. ReportShaped /\ OffByMoves /\ CountedLast
  BY <1>1 DEF ReportShaped, OffByMoves, CountedLast
<1>. QED
  BY <1>2, <1>3 DEF ReportsInv

LEMMA OneMoves ==
  ASSUME PayoutsTyped, L!Life!Next
  PROVE  /\ \E a \in Payouts, s \in LStages \ {"NONE"} :
              stage' = [stage EXCEPT ![a] = s]
         /\ TermsTyped'
<1>. stage \in [Payouts -> LStages] /\ terms \in [Payouts -> Nat \X (0 .. 60)]
  BY DEF PayoutsTyped, TermsTyped
<1>1. PICK a \in Payouts :
        \/ \E u : \E t \in ReportedAmounts \X {ReportedPercent} : L!Life!Prepare(a, u, t)
        \/ \E u : L!Life!Approve(a, u) \/ L!Life!Release(a, u)
        \/ \E s \in {"FAILED", "CANCELLED", "REFUNDED"} :
             L!Life!Undo(a, s) \/ L!Life!Correct(a, s)
  BY Zenon DEF L!Life!Next, L!Life!HeaderNext, L!Life!Undone
<1>2. CASE \E u : \E t \in ReportedAmounts \X {ReportedPercent} : L!Life!Prepare(a, u, t)
  <2>1. PICK t \in ReportedAmounts \X {ReportedPercent} : \E u : L!Life!Prepare(a, u, t)
    BY <1>2
  <2>2. stage' = [stage EXCEPT ![a] = "PENDING"] /\ terms' = [terms EXCEPT ![a] = t]
    BY <2>1 DEF L!Life!Prepare
  <2>3. t \in Nat \X (0 .. 60)
    BY ReportsAssumption
  <2>. QED
    BY <2>2, <2>3 DEF TermsTyped, LStages
<1>3. CASE \E u : L!Life!Approve(a, u) \/ L!Life!Release(a, u)
  <2>1. PICK s \in {"APPROVED", "PAID"} : stage' = [stage EXCEPT ![a] = s] /\ terms' = terms
    BY <1>3 DEF L!Life!Approve, L!Life!Release
  <2>. QED
    BY <2>1 DEF TermsTyped, LStages
<1>4. CASE \E s \in {"FAILED", "CANCELLED", "REFUNDED"} :
             L!Life!Undo(a, s) \/ L!Life!Correct(a, s)
  <2>1. PICK s \in {"FAILED", "CANCELLED", "REFUNDED"} :
          stage' = [stage EXCEPT ![a] = s] /\ terms' = terms
    BY <1>4 DEF L!Life!Undo, L!Life!Correct
  <2>. QED
    BY <2>1 DEF TermsTyped, LStages
<1>. QED
  BY <1>1, <1>2, <1>3, <1>4

(***************************************************************************)
(* The steps of a report keep it.                                          *)
(***************************************************************************)

(* The size of a set in which one element may come or go.                  *)
LEMMA OneInOrOut ==
  ASSUME NEW S, IsFiniteSet(S), NEW a
  PROVE  /\ Cardinality(S \ {a}) \in Nat
         /\ Cardinality(S) = Cardinality(S \ {a}) + (IF a \in S THEN 1 ELSE 0)
<1>1. IsFiniteSet(S \ {a}) /\ Cardinality(S \ {a}) \in Nat
  BY FS_RemoveElement, FS_CardinalityType
<1>2. CASE a \in S
  <2>1. Cardinality(S \ {a}) = Cardinality(S) - 1 /\ Cardinality(S) \in Nat
    BY <1>2, FS_RemoveElement, FS_CardinalityType
  <2>. QED
    BY <1>1, <1>2, <2>1
<1>3. CASE a \notin S
  <2>1. PICK t : t = S \ {a} /\ t = S
    BY <1>3
  <2>2. Cardinality(t) = Cardinality(S) /\ Cardinality(t) = Cardinality(S \ {a})
    BY <2>1
  <2>. QED
    BY <1>1, <1>3, <2>2
<1>. QED
  BY <1>2, <1>3

In(s, S) == IF s \in S THEN 1 ELSE 0

LEMMA RowsMove ==
  ASSUME stage \in [Payouts -> LStages], NEW a \in Payouts, NEW s,
         stage' = [stage EXCEPT ![a] = s], NEW S
  PROVE  LET before == Cardinality({b \in Payouts : stage[b] \in S})
             after == Cardinality({b \in Payouts : stage'[b] \in S})
         IN before \in Nat /\ after \in Nat /\ after - before = In(s, S) - In(stage[a], S)
<1>1. PICK B, A : B = {b \in Payouts : stage[b] \in S} /\ A = {b \in Payouts : stage'[b] \in S}
  OBVIOUS
<1>2. IsFiniteSet(B) /\ IsFiniteSet(A)
  BY <1>1, ReportsAssumption, FS_Subset
<1>3. B \ {a} = A \ {a} /\ (a \in B <=> stage[a] \in S) /\ (a \in A <=> s \in S)
  BY <1>1
<1>4. PICK n \in Nat : n = Cardinality(B \ {a})
  BY <1>2, OneInOrOut
<1>5. Cardinality(B) = n + In(stage[a], S) /\ Cardinality(A) = n + In(s, S)
  BY <1>2, <1>3, <1>4, OneInOrOut DEF In
<1>. QED
  BY <1>1, <1>4, <1>5 DEF In

LEMMA AskKeeps ==
  ASSUME ReportsInv, NEW k \in L!Kinds, L!Ask(k)
  PROVE  ReportsInv'
<1>. PayoutsTyped /\ PaidAreBilled
  BY DEF ReportsInv
<1>1. /\ report' = [of |-> k, got |-> <<>>] /\ moves' = 0
      /\ stage' = stage /\ terms' = terms /\ bill' = bill
  BY DEF L!Ask, L!payouts
<1>2. PICK e : e = <<>>
  OBVIOUS
<1>3. DOMAIN e = {} /\ e \in Gots
  <2>1. e \in [{} -> Sums]
    BY <1>2
  <2>. QED
    BY <2>1 DEF Gots
<1>4. report' \in [of : L!Kinds, got : Gots] /\ report'.of = k /\ DOMAIN report'.got = {}
  BY <1>1, <1>2, <1>3
<1>5. PayoutsTyped' /\ PaidAreBilled' /\ ReportShaped'
  BY <1>1, <1>4 DEF PayoutsTyped, TermsTyped, PaidAreBilled, ReportShaped
<1>6. CountedLast'
  BY <1>4 DEF CountedLast
<1>7. OffByMoves'
  <2>1. \A q : Counted(q)' = Cardinality(L!Selected(q)')
    BY <1>4 DEF Counted
  <2>2. PICK O, P, R : /\ P = {a \in Payouts : stage[a] = "PENDING"}
                       /\ R = {a \in Payouts : stage[a] = "APPROVED"}
                       /\ O = {a \in Payouts : stage[a] \in {"PENDING", "APPROVED"}}
    OBVIOUS
  <2>3. L!Selected("to approve")' = P /\ L!Selected("to release")' = R /\ L!Selected("open")' = O
    BY <1>1, <2>2 DEF L!Selected, L!Open
  <2>4. IsFiniteSet(P) /\ IsFiniteSet(R) /\ P \cap R = {} /\ O = P \cup R
    BY <2>2, ReportsAssumption, FS_Subset
  <2>5. /\ Cardinality(P) \in Nat /\ Cardinality(R) \in Nat
        /\ Cardinality(O) = Cardinality(P) + Cardinality(R)
    <3>1. Cardinality(P \cup R) = Cardinality(P) + Cardinality(R) - Cardinality(P \cap R)
      BY <2>4, FS_Union
    <3>2. Cardinality(P \cap R) = 0
      BY <2>4, FS_EmptySet
    <3>. QED
      BY <2>4, <3>1, <3>2, FS_CardinalityType
  <2>6. /\ Counted("to approve")' = Cardinality(P)
        /\ Counted("to release")' = Cardinality(R)
        /\ Counted("open")' = Cardinality(O)
    BY <2>1, <2>3
  <2>7. Off' \in Int /\ Off' = 0
    <3>1. PICK p \in Int, r \in Int :
            p = Cardinality(P) /\ r = Cardinality(R) /\ Cardinality(O) = p + r
      BY <2>5
    <3>2. PICK p1, r1, o1 : /\ p1 = Counted("to approve")' /\ r1 = Counted("to release")'
                            /\ o1 = Counted("open")'
      OBVIOUS
    <3>3. Off' = p1 + r1 - o1
      BY <3>2 DEF Off
    <3>4. p1 = p /\ r1 = r /\ o1 = p + r
      BY <2>6, <3>1, <3>2
    <3>. QED
      BY <3>1, <3>3, <3>4
  <2>. QED
    BY <1>1, <2>7 DEF OffByMoves
<1>. QED
  BY <1>5, <1>6, <1>7 DEF ReportsInv

LEMMA CloseKeeps ==
  ASSUME ReportsInv, L!Close
  PROVE  ReportsInv'
<1>1. /\ report' = None /\ moves' = 0 /\ stage' = stage /\ terms' = terms /\ bill' = bill
  BY DEF L!Close, L!payouts
<1>. QED
  BY <1>1 DEF ReportsInv, PayoutsTyped, TermsTyped, PaidAreBilled, ReportShaped, OffByMoves,
              CountedLast

LEMMA ReadKeeps ==
  ASSUME ReportsInv, report # None, NEW q \in L!Aggregates(report.of[1]), L!Read(q)
  PROVE  ReportsInv'
<1>. PayoutsTyped /\ PaidAreBilled /\ ReportShaped /\ OffByMoves /\ CountedLast
  BY DEF ReportsInv
<1>1. PICK k \in L!Kinds, known \in Gots : report = [of |-> k, got |-> known]
  BY DEF ReportShaped
<1>2. report.of = k /\ report.got = known
  BY <1>1
<1>3. /\ q \in Queries /\ q \notin DOMAIN known /\ DOMAIN known \subseteq L!Aggregates(k[1])
      /\ L!Aggregates(k[1]) \subseteq Queries
      /\ (k[1] = "operator" /\ q = "count" => L!Left = {"count"})
  BY <1>2, KindsAre DEF ReportShaped, L!Read, L!Left, L!InTurn
<1>4. PICK sum \in Sums : sum = L!Aggregate(k, q)
  BY <1>3, AggregateIs DEF PayoutsTyped
<1>5. PICK now2 : now2 = [p \in DOMAIN known \cup {q} |-> IF p = q THEN sum ELSE known[p]]
  OBVIOUS
<1>6. /\ report' = [of |-> k, got |-> now2] /\ UNCHANGED <<stage, terms, bill, moves>>
  BY <1>1, <1>2, <1>4, <1>5 DEF L!Read, L!payouts
<1>7. /\ DOMAIN now2 = DOMAIN known \cup {q} /\ now2[q] = sum
      /\ \A p \in DOMAIN known : now2[p] = known[p]
  BY <1>3, <1>5
<1>8. now2 \in Gots
  <2>1. PICK D \in SUBSET Queries : known \in [D -> Sums]
    BY DEF Gots
  <2>2. now2 \in [D \cup {q} -> Sums]
    BY <1>4, <1>5, <2>1
  <2>3. D \cup {q} \in SUBSET Queries
    BY <1>3
  <2>. QED
    BY <2>2, <2>3 DEF Gots
<1>9. report'.of = k /\ report'.got = now2
  BY <1>6
<1>10. PayoutsTyped' /\ PaidAreBilled' /\ ReportShaped'
  BY <1>2, <1>3, <1>6, <1>7, <1>8, <1>9
  DEF PayoutsTyped, TermsTyped, PaidAreBilled, ReportShaped
<1>11. \A p : L!Selected(p)' = L!Selected(p)
  BY <1>6 DEF L!Selected, L!Open
<1>12. k[1] \in {"operator", "finance"} => sum.count = Cardinality(L!Selected(q))
  BY <1>3, <1>4, AggregateIs DEF PayoutsTyped
<1>13. k[1] \in {"operator", "finance"} => \A p : Counted(p)' = Counted(p)
  <2> SUFFICES ASSUME k[1] \in {"operator", "finance"}, NEW p
               PROVE  Counted(p)' = Counted(p)
    OBVIOUS
  <2>1. CASE p = q
    <3>1. Counted(p)' = sum.count
      BY <1>7, <1>9, <2>1 DEF Counted
    <3>2. Counted(p) = Cardinality(L!Selected(q))
      BY <1>2, <1>3, <2>1 DEF Counted
    <3>. QED
      BY <1>12, <3>1, <3>2
  <2>2. CASE p # q
    BY <1>2, <1>7, <1>9, <1>11, <2>2 DEF Counted
  <2>. QED
    BY <2>1, <2>2
<1>14. OffByMoves'
  <2> SUFFICES ASSUME k[1] = "finance"
               PROVE  Off' \in Int /\ -moves' <= Off' /\ Off' <= moves'
    BY <1>9 DEF OffByMoves
  <2>1. Off \in Int /\ -moves <= Off /\ Off <= moves
    BY <1>2 DEF OffByMoves
  <2>2. /\ Counted("to approve")' = Counted("to approve")
        /\ Counted("to release")' = Counted("to release")
        /\ Counted("open")' = Counted("open")
    BY <1>13
  <2>3. Off' = Off
    BY <2>2 DEF Off
  <2>. QED
    BY <1>6, <2>1, <2>3
<1>15. CountedLast'
  <2> SUFFICES ASSUME k[1] = "operator"
               PROVE  /\ \A p \in DOMAIN now2 : now2[p].count <= Counted("count")'
                      /\ "count" \in DOMAIN now2 => L!Left' = {}
    BY <1>9 DEF CountedLast
  <2>1. Counted("count")' = Counted("count")
    BY <1>13
  <2>2. /\ \A p \in DOMAIN known : known[p].count <= Counted("count")
        /\ "count" \in DOMAIN known => L!Left = {}
    BY <1>2 DEF CountedLast
  <2>3. "count" \notin DOMAIN known
    <3>1. q \in L!Left
      BY DEF L!Read
    <3>. QED
      BY <2>2, <3>1
  <2>4. L!Left = L!Aggregates("operator") \ DOMAIN known
        /\ L!Left' = L!Aggregates("operator") \ DOMAIN now2
    BY <1>2, <1>9 DEF L!Left, L!Aggregates
  <2>5. "count" \in DOMAIN now2 => L!Left' = {}
    BY <1>3, <1>7, <2>3, <2>4
  <2>6. sum.count <= Counted("count")
    <3>1. Counted("count") = Cardinality({a \in Payouts : stage[a] # "NONE"})
      BY <1>2, <2>3, SelectedAre DEF Counted
    <3>2. q \in {"paid", "net", "open", "all", "count"}
      BY <1>2, AggregatesAre
    <3>3. L!Selected(q) \subseteq {a \in Payouts : stage[a] # "NONE"}
      BY <3>2, SelectedAre
    <3>4. PICK All : All = {a \in Payouts : stage[a] # "NONE"} /\ IsFiniteSet(All)
      BY ReportsAssumption, FS_Subset
    <3>5. Cardinality(L!Selected(q)) <= Cardinality(All)
      BY <3>3, <3>4, FS_Subset
    <3>. QED
      BY <1>12, <3>1, <3>4, <3>5
  <2>. QED
    BY <1>7, <2>1, <2>2, <2>5, <2>6
<1>. QED
  BY <1>10, <1>14, <1>15 DEF ReportsInv

(***************************************************************************)
(* The moves of a payout keep it.                                          *)
(***************************************************************************)

LEMMA SelectedMove ==
  ASSUME PayoutsTyped, NEW a \in Payouts, NEW s,
         stage' = [stage EXCEPT ![a] = s]
  PROVE  /\ Cardinality(L!Selected("open")) \in Nat /\ Cardinality(L!Selected("open")') \in Nat
         /\ Cardinality(L!Selected("to approve")) \in Nat
         /\ Cardinality(L!Selected("to approve")') \in Nat
         /\ Cardinality(L!Selected("to release")) \in Nat
         /\ Cardinality(L!Selected("to release")') \in Nat
         /\ Cardinality(L!Selected("open")') - Cardinality(L!Selected("open"))
              = In(s, {"PENDING", "APPROVED"}) - In(stage[a], {"PENDING", "APPROVED"})
         /\ Cardinality(L!Selected("to approve")') - Cardinality(L!Selected("to approve"))
              = In(s, {"PENDING"}) - In(stage[a], {"PENDING"})
         /\ Cardinality(L!Selected("to release")') - Cardinality(L!Selected("to release"))
              = In(s, {"APPROVED"}) - In(stage[a], {"APPROVED"})
<1>. stage \in [Payouts -> LStages]
  BY DEF PayoutsTyped
<1>1. PICK S, P, R : /\ S = {"PENDING", "APPROVED"} /\ P = {"PENDING"} /\ R = {"APPROVED"}
  OBVIOUS
<1>2. stage' \in [Payouts -> LStages \cup {s}]
  OBVIOUS
<1>3. /\ L!Selected("open") = {b \in Payouts : stage[b] \in S}
      /\ L!Selected("open")' = {b \in Payouts : stage'[b] \in S}
      /\ L!Selected("to approve") = {b \in Payouts : stage[b] \in P}
      /\ L!Selected("to approve")' = {b \in Payouts : stage'[b] \in P}
      /\ L!Selected("to release") = {b \in Payouts : stage[b] \in R}
      /\ L!Selected("to release")' = {b \in Payouts : stage'[b] \in R}
  BY <1>1 DEF L!Selected, L!Open
<1>6. PICK o, p, r, o1, p1, r1 :
        /\ o = Cardinality({b \in Payouts : stage[b] \in S})
        /\ o1 = Cardinality({b \in Payouts : stage'[b] \in S})
        /\ p = Cardinality({b \in Payouts : stage[b] \in P})
        /\ p1 = Cardinality({b \in Payouts : stage'[b] \in P})
        /\ r = Cardinality({b \in Payouts : stage[b] \in R})
        /\ r1 = Cardinality({b \in Payouts : stage'[b] \in R})
  OBVIOUS
<1>7. o \in Nat /\ o1 \in Nat /\ o1 - o = In(s, S) - In(stage[a], S)
  BY <1>6, RowsMove
<1>8. p \in Nat /\ p1 \in Nat /\ p1 - p = In(s, P) - In(stage[a], P)
  BY <1>6, RowsMove
<1>9. r \in Nat /\ r1 \in Nat /\ r1 - r = In(s, R) - In(stage[a], R)
  BY <1>6, RowsMove
<1>10. /\ Cardinality(L!Selected("open")) = o /\ Cardinality(L!Selected("open")') = o1
       /\ Cardinality(L!Selected("to approve")) = p /\ Cardinality(L!Selected("to approve")') = p1
       /\ Cardinality(L!Selected("to release")) = r /\ Cardinality(L!Selected("to release")') = r1
  BY <1>3, <1>6
<1>. QED
  BY <1>1, <1>7, <1>8, <1>9, <1>10

LEMMA PayoutMovesKeep ==
  ASSUME ReportsInv, L!PayoutMoves
  PROVE  ReportsInv'
<1>. PayoutsTyped /\ PaidAreBilled /\ ReportShaped /\ OffByMoves /\ CountedLast
  BY DEF ReportsInv
<1>1. L!Life!Next /\ report' = report /\ bill' = [b \in Payouts |-> L!BillAfter(b)]
      /\ moves' = IF report = None \/ L!Made THEN moves ELSE moves + 1
  BY DEF L!PayoutMoves
<1>2. PICK a \in Payouts, s \in LStages \ {"NONE"} : stage' = [stage EXCEPT ![a] = s]
  BY <1>1, OneMoves
<1>3. TermsTyped'
  BY <1>1, OneMoves
<1>4. PayoutsTyped' /\ PaidAreBilled'
  <2>1. stage' \in [Payouts -> LStages] /\ stage \in [Payouts -> LStages] /\ moves \in Nat
        /\ bill \in [Payouts -> {"NONE", "DRAFT", "PAID"}]
    BY <1>2 DEF PayoutsTyped
  <2>2. \A b \in Payouts : /\ L!BillAfter(b) \in {"NONE", "DRAFT", "PAID"}
                           /\ stage'[b] = "PAID" => L!BillAfter(b) = "PAID"
    BY <2>1 DEF L!BillAfter, PaidAreBilled
  <2>3. moves' \in Nat
    BY <1>1, <2>1
  <2>. QED
    BY <1>1, <1>3, <2>1, <2>2, <2>3 DEF PayoutsTyped, PaidAreBilled
<1>5. ReportShaped'
  BY <1>1 DEF ReportShaped
<1>6. \A q : /\ q \in DOMAIN report.got => Counted(q)' = Counted(q)
             /\ q \notin DOMAIN report.got =>
                  Counted(q) = Cardinality(L!Selected(q)) /\ Counted(q)' = Cardinality(L!Selected(q)')
  BY <1>1 DEF Counted
<1>7. OffByMoves'
  <2> SUFFICES ASSUME report # None, report.of[1] = "finance"
               PROVE  Off' \in Int /\ -moves' <= Off' /\ Off' <= moves'
    BY <1>1 DEF OffByMoves
  <2>1. Off \in Int /\ -moves <= Off /\ Off <= moves /\ moves \in Nat
    BY DEF OffByMoves, PayoutsTyped
  <2>2. PICK known : known = report.got
    OBVIOUS
  <2>3. PICK p, r, o, p1, r1, o1 :
          /\ p = Counted("to approve") /\ p1 = Counted("to approve")'
          /\ r = Counted("to release") /\ r1 = Counted("to release")'
          /\ o = Counted("open") /\ o1 = Counted("open")'
    OBVIOUS
  <2>4. Off = p + r - o /\ Off' = p1 + r1 - o1
    BY <2>3 DEF Off
  <2>5. p \in Int /\ r \in Int /\ o \in Int /\ p1 \in Int /\ r1 \in Int /\ o1 \in Int
    <3>1. \A q \in DOMAIN known : known[q].count \in Nat
      BY <2>2 DEF ReportShaped, Gots, Sums
    <3>2. \A q \in DOMAIN known : Counted(q) \in Int
      BY <2>2, <3>1 DEF Counted
    <3>3. /\ Cardinality(L!Selected("open")) \in Nat /\ Cardinality(L!Selected("open")') \in Nat
          /\ Cardinality(L!Selected("to approve")) \in Nat
          /\ Cardinality(L!Selected("to approve")') \in Nat
          /\ Cardinality(L!Selected("to release")) \in Nat
          /\ Cardinality(L!Selected("to release")') \in Nat
      <4>1. \A S \in SUBSET Payouts : Cardinality(S) \in Nat
        BY ReportsAssumption, FS_Subset, FS_CardinalityType
      <4>2. /\ L!Selected("open") \in SUBSET Payouts /\ L!Selected("open")' \in SUBSET Payouts
            /\ L!Selected("to approve") \in SUBSET Payouts
            /\ L!Selected("to approve")' \in SUBSET Payouts
            /\ L!Selected("to release") \in SUBSET Payouts
            /\ L!Selected("to release")' \in SUBSET Payouts
        BY DEF L!Selected
      <4>. QED
        BY <4>1, <4>2
    <3>4. p \in Int /\ p1 \in Int
      <4>1. CASE "to approve" \in DOMAIN known
        <5>1. p1 = p
          BY <1>6, <2>2, <2>3, <4>1
        <5>. QED
          BY <2>3, <3>2, <4>1, <5>1
      <4>2. CASE "to approve" \notin DOMAIN known
        <5>1. p = Cardinality(L!Selected("to approve")) /\ p1 = Cardinality(L!Selected("to approve")')
          BY <1>6, <2>2, <2>3, <4>2
        <5>2. p \in Nat /\ p1 \in Nat
          BY Zenon, <3>3, <5>1
        <5>. QED
          BY <5>2
      <4>. QED
        BY <4>1, <4>2
    <3>5. r \in Int /\ r1 \in Int
      <4>1. CASE "to release" \in DOMAIN known
        <5>1. r1 = r
          BY <1>6, <2>2, <2>3, <4>1
        <5>. QED
          BY <2>3, <3>2, <4>1, <5>1
      <4>2. CASE "to release" \notin DOMAIN known
        <5>1. r = Cardinality(L!Selected("to release")) /\ r1 = Cardinality(L!Selected("to release")')
          BY <1>6, <2>2, <2>3, <4>2
        <5>2. r \in Nat /\ r1 \in Nat
          BY Zenon, <3>3, <5>1
        <5>. QED
          BY <5>2
      <4>. QED
        BY <4>1, <4>2
    <3>6. o \in Int /\ o1 \in Int
      <4>1. CASE "open" \in DOMAIN known
        <5>1. o1 = o
          BY <1>6, <2>2, <2>3, <4>1
        <5>. QED
          BY <2>3, <3>2, <4>1, <5>1
      <4>2. CASE "open" \notin DOMAIN known
        <5>1. o = Cardinality(L!Selected("open")) /\ o1 = Cardinality(L!Selected("open")')
          BY <1>6, <2>2, <2>3, <4>2
        <5>2. o \in Nat /\ o1 \in Nat
          BY Zenon, <3>3, <5>1
        <5>. QED
          BY <5>2
      <4>. QED
        BY <4>1, <4>2
    <3>. QED
      BY <3>4, <3>5, <3>6
  <2>6. CASE L!Made
    <3>1. {"open", "to approve", "to release"} \subseteq DOMAIN known
      BY <2>2, <2>6, AggregatesAre DEF L!Made, L!Left
    <3>2. p1 = p /\ r1 = r /\ o1 = o
      BY <1>6, <2>2, <2>3, <3>1
    <3>. QED
      BY <1>1, <2>1, <2>4, <2>6, <3>2
  <2>7. CASE ~L!Made
    <3>1. moves' = moves + 1
      BY <1>1, <2>7
    <3>2. p1 = p \/ p1 - p = In(s, {"PENDING"}) - In(stage[a], {"PENDING"})
      BY <1>2, <1>6, <2>2, <2>3, SelectedMove
    <3>3. r1 = r \/ r1 - r = In(s, {"APPROVED"}) - In(stage[a], {"APPROVED"})
      BY <1>2, <1>6, <2>2, <2>3, SelectedMove
    <3>4. \/ o1 = o
          \/ o1 - o = In(s, {"PENDING", "APPROVED"}) - In(stage[a], {"PENDING", "APPROVED"})
      BY <1>2, <1>6, <2>2, <2>3, SelectedMove
    <3>5. /\ In(s, {"PENDING", "APPROVED"}) = In(s, {"PENDING"}) + In(s, {"APPROVED"})
          /\ In(stage[a], {"PENDING", "APPROVED"})
               = In(stage[a], {"PENDING"}) + In(stage[a], {"APPROVED"})
      BY DEF In
    <3>6. PICK x \in 0 .. 1, y \in 0 .. 1, z \in 0 .. 1, w \in 0 .. 1 :
            /\ x = In(s, {"PENDING"}) /\ y = In(s, {"APPROVED"}) /\ x + y <= 1
            /\ z = In(stage[a], {"PENDING"}) /\ w = In(stage[a], {"APPROVED"}) /\ z + w <= 1
      <4>1. \A t : /\ In(t, {"PENDING"}) \in 0 .. 1 /\ In(t, {"APPROVED"}) \in 0 .. 1
                   /\ In(t, {"PENDING"}) + In(t, {"APPROVED"}) <= 1
        BY DEF In
      <4>. QED
        BY <4>1
    <3>7. /\ p1 = p \/ p1 - p = x - z
          /\ r1 = r \/ r1 - r = y - w
          /\ o1 = o \/ o1 - o = (x + y) - (z + w)
      BY <3>2, <3>3, <3>4, <3>5, <3>6
    <3>8. (p1 + r1 - o1) - (p + r - o) \in -1 .. 1
      BY <2>5, <3>6, <3>7
    <3>. QED
      BY <2>1, <2>4, <2>5, <3>1, <3>8
  <2>. QED
    BY <2>6, <2>7
<1>8. CountedLast'
  <2> SUFFICES ASSUME report # None, report.of[1] = "operator"
               PROVE  /\ \A q \in DOMAIN report.got : report.got[q].count <= Counted("count")'
                      /\ "count" \in DOMAIN report.got => L!Left' = {}
    BY <1>1 DEF CountedLast
  <2>1. /\ \A q \in DOMAIN report.got : report.got[q].count <= Counted("count")
        /\ "count" \in DOMAIN report.got => L!Left = {}
    BY DEF CountedLast
  <2>2. L!Left' = L!Left
    BY <1>1 DEF L!Left, L!Aggregates
  <2>3. CASE "count" \in DOMAIN report.got
    BY <1>6, <2>1, <2>2, <2>3
  <2>4. CASE "count" \notin DOMAIN report.got
    <3>1. PICK All, U : /\ All = {b \in Payouts : stage[b] # "NONE"}
                      /\ U = {b \in Payouts : stage'[b] # "NONE"}
      OBVIOUS
    <3>2. L!Selected("count") = All /\ L!Selected("count")' = U
      BY <3>1 DEF L!Selected
    <3>3. All \subseteq U /\ IsFiniteSet(U)
      BY <1>2, <3>1, ReportsAssumption, FS_Subset DEF PayoutsTyped
    <3>4. /\ Cardinality(All) <= Cardinality(U)
          /\ Cardinality(All) \in Nat /\ Cardinality(U) \in Nat
      BY <3>3, FS_Subset, FS_CardinalityType
    <3>5. Counted("count") = Cardinality(All) /\ Counted("count")' = Cardinality(U)
      BY <1>6, <2>4, <3>2
    <3>6. \A q \in DOMAIN report.got : report.got[q].count \in Nat
      BY DEF ReportShaped, Gots, Sums
    <3>. QED
      BY <2>1, <2>4, <3>4, <3>5, <3>6
  <2>. QED
    BY <2>3, <2>4
<1>. QED
  BY <1>4, <1>5, <1>7, <1>8 DEF ReportsInv

(***************************************************************************)
(* What follows from it about figures read late; and the five totals that  *)
(* ReportsAgree compares, as sums.                                         *)
(***************************************************************************)

LEMMA LedgerKeeps ==
  ASSUME ReportsInv, [L!Next]_ofLedger
  PROVE  ReportsInv'
<1>1. CASE L!Next
  BY <1>1, AskKeeps, ReadKeeps, CloseKeeps, PayoutMovesKeep DEF L!Next
<1>2. CASE UNCHANGED ofLedger
  <2>1. UNCHANGED <<stage, terms, bill, report, moves>>
    BY <1>2 DEF ofLedger
  <2>2. \A q : Counted(q)' = Counted(q)
    BY <2>1 DEF Counted, L!Selected, L!Open
  <2>3. Off' = Off
    BY <2>1 DEF Off, Counted, L!Selected, L!Open
  <2>. QED
    BY <2>1, <2>2, <2>3 DEF ReportsInv, PayoutsTyped, TermsTyped, PaidAreBilled, ReportShaped,
      OffByMoves, CountedLast, L!Left, L!Aggregates
<1>. QED
  BY <1>1, <1>2

LEMMA LateFigures == ReportsInv => L!OffByMovesAtMost
<1> SUFFICES ASSUME ReportsInv, L!Made PROVE
      LET known == report.got IN
      /\ report.of[1] = "finance" =>
           L!FinanceFigures(known).queue - known["open"].count \in (-moves) .. moves
      /\ report.of[1] = "operator" =>
           \A q \in DOMAIN known : known[q].count <= known["count"].count
  BY DEF L!OffByMovesAtMost
<1>. PayoutsTyped /\ ReportShaped /\ OffByMoves /\ CountedLast /\ report # None
  BY DEF ReportsInv, L!Made
<1>0. PICK known : known = report.got
  OBVIOUS
<1>1. CASE report.of[1] = "finance"
  <2>1. {"open", "to approve", "to release"} \subseteq DOMAIN known
    BY <1>0, <1>1, AggregatesAre DEF L!Made, L!Left
  <2>2. PICK p, r, o : /\ p = known["to approve"].count /\ r = known["to release"].count
                       /\ o = known["open"].count
    OBVIOUS
  <2>3. Counted("to approve") = p /\ Counted("to release") = r /\ Counted("open") = o
    BY <1>0, <2>1, <2>2 DEF Counted
  <2>4. Off = p + r - o
    BY <2>3 DEF Off
  <2>5. L!FinanceFigures(known).queue = p + r
    BY <2>2 DEF L!FinanceFigures
  <2>6. Off \in Int /\ -moves <= Off /\ Off <= moves /\ moves \in Nat
    BY <1>1 DEF OffByMoves, PayoutsTyped
  <2>7. L!FinanceFigures(known).queue - known["open"].count = Off
    <3>1. p \in Nat /\ r \in Nat /\ o \in Nat
      BY <1>0, <2>1, <2>2 DEF ReportShaped, Gots, Sums
    <3>2. (p + r) - o = p + r - o
      BY <3>1
    <3>. QED
      BY Zenon, <2>2, <2>4, <2>5, <3>2
  <2>8. Off \in (-moves) .. moves
    BY <2>6
  <2>. QED
    BY <1>0, <1>1, <2>7, <2>8
<1>2. CASE report.of[1] = "operator"
  <2>1. "count" \in DOMAIN known
    BY <1>0, <1>2, AggregatesAre DEF L!Made, L!Left
  <2>. QED
    BY <1>0, <1>2, <2>1 DEF CountedLast, Counted
<1>3. CASE report.of[1] \notin {"finance", "operator"}
  BY <1>3
<1>. QED
  BY <1>1, <1>2, <1>3

LEMMA SumsInReports == ReportsInv => L!AggregatesAddUp
<1> SUFFICES ASSUME ReportsInv, report # None, NEW q \in DOMAIN report.got
             PROVE  LET sum == report.got[q] IN
                    /\ sum.payout + sum.commission = sum.amount
                    /\ sum.payout >= 0 /\ sum.commission >= 0
  BY DEF L!AggregatesAddUp
<1>1. report.got[q] \in Sums
  BY DEF ReportsInv, ReportShaped, Gots
<1>. QED
  BY <1>1 DEF Sums

EarnedIter(S, g) ==
  g = [s \in SUBSET S |->
         IF s = {} THEN 0 ELSE L!OfCreator(One(s)).earned + g[s \ {One(s)}]]
OwedIter(S, g) ==
  g = [s \in SUBSET S |->
         IF s = {} THEN 0 ELSE L!OfCreator(One(s)).outstanding + g[s \ {One(s)}]]
FeesIter(S, g) ==
  g = [s \in SUBSET S |->
         IF s = {} THEN 0 ELSE L!OfBrand(One(s)).fees + g[s \ {One(s)}]]
BillsIter(S, g) ==
  g = [s \in SUBSET S |->
         IF s = {} THEN 0 ELSE L!OfBrand(One(s)).invoices + g[s \ {One(s)}]]
VatIter(S, g) ==
  g = [s \in SUBSET S |->
         IF s = {} THEN 0 ELSE L!OfBrand(One(s)).vat + g[s \ {One(s)}]]

EarnedTotal == (CHOOSE g : EarnedIter(L!Creators, g))[L!Creators]
OwedTotal == (CHOOSE g : OwedIter(L!Creators, g))[L!Creators]
FeesTotal == (CHOOSE g : FeesIter(L!Brands, g))[L!Brands]
BillsTotal == (CHOOSE g : BillsIter(L!Brands, g))[L!Brands]
VatTotal == (CHOOSE g : VatIter(L!Brands, g))[L!Brands]

LEMMA AgreementIs ==
  ASSUME /\ EarnedTotal = L!OfFinance.paidOut
         /\ OwedTotal = L!OfFinance.dues
         /\ FeesTotal = L!OfFinance.fees
         /\ BillsTotal = L!Quiet(<<"console", None>>)["count"].count
         /\ L!OfFinance.volume = L!OfFinance.paidOut + L!OfFinance.fees
         /\ L!OfFinance.queue = L!OfFinance.dueCount
         /\ \A b \in L!Brands : L!OfBrand(b).billed >= L!OfBrand(b).paidOut + L!OfBrand(b).fees
  PROVE  L!ReportsAgree
  BY Zenon DEF L!ReportsAgree, L!MapThenSumSet, L!MapThenFoldSet, EarnedTotal, OwedTotal,
     FeesTotal, BillsTotal, EarnedIter, OwedIter, FeesIter, BillsIter, One

LEMMA VatIs ==
  ASSUME LET off == VatTotal - L!OfFinance.vat IN
         2 * off <= Cardinality(L!Brands) + 1 /\ 2 * off >= -(Cardinality(L!Brands) + 1)
  PROVE  L!VatRoundsOncePerBrand
  BY Zenon, CardinalityInReports
  DEF L!VatRoundsOncePerBrand, L!MapThenSumSet, L!MapThenFoldSet, VatTotal, VatIter, One

LEMMA EarnedSum ==
  ASSUME NEW f, \A x \in L!Creators : f[x] = L!OfCreator(x).earned, IsFiniteSet(L!Creators)
  PROVE  EarnedTotal = SumIn(f, L!Creators)
<1>1. PICK S : S = L!Creators
  OBVIOUS
<1>2. ASSUME NEW g
      PROVE  EarnedIter(S, g) <=> Iter(f, S, g)
  <2>1. \A s \in SUBSET S : s # {} => f[One(s)] = L!OfCreator(One(s)).earned
    BY <1>1, Chosen
  <2>. QED
    BY <2>1 DEF EarnedIter, Iter
<1>3. PICK h : h = CHOOSE g : EarnedIter(S, g)
  OBVIOUS
<1>4. EarnedTotal = h[S]
  BY <1>1, <1>3 DEF EarnedTotal
<1>5. Iter(f, S, h)
  BY <1>1, <1>2, <1>3, IterExists
<1>. QED
  BY <1>1, <1>4, <1>5, SumOfIter

LEMMA OwedSum ==
  ASSUME NEW f, \A x \in L!Creators : f[x] = L!OfCreator(x).outstanding, IsFiniteSet(L!Creators)
  PROVE  OwedTotal = SumIn(f, L!Creators)
<1>1. PICK S : S = L!Creators
  OBVIOUS
<1>2. ASSUME NEW g
      PROVE  OwedIter(S, g) <=> Iter(f, S, g)
  <2>1. \A s \in SUBSET S : s # {} => f[One(s)] = L!OfCreator(One(s)).outstanding
    BY <1>1, Chosen
  <2>. QED
    BY <2>1 DEF OwedIter, Iter
<1>3. PICK h : h = CHOOSE g : OwedIter(S, g)
  OBVIOUS
<1>4. OwedTotal = h[S]
  BY <1>1, <1>3 DEF OwedTotal
<1>5. Iter(f, S, h)
  BY <1>1, <1>2, <1>3, IterExists
<1>. QED
  BY <1>1, <1>4, <1>5, SumOfIter

LEMMA FeesSum ==
  ASSUME NEW f, \A x \in L!Brands : f[x] = L!OfBrand(x).fees, IsFiniteSet(L!Brands)
  PROVE  FeesTotal = SumIn(f, L!Brands)
<1>1. PICK S : S = L!Brands
  OBVIOUS
<1>2. ASSUME NEW g
      PROVE  FeesIter(S, g) <=> Iter(f, S, g)
  <2>1. \A s \in SUBSET S : s # {} => f[One(s)] = L!OfBrand(One(s)).fees
    BY <1>1, Chosen
  <2>. QED
    BY <2>1 DEF FeesIter, Iter
<1>3. PICK h : h = CHOOSE g : FeesIter(S, g)
  OBVIOUS
<1>4. FeesTotal = h[S]
  BY <1>1, <1>3 DEF FeesTotal
<1>5. Iter(f, S, h)
  BY <1>1, <1>2, <1>3, IterExists
<1>. QED
  BY <1>1, <1>4, <1>5, SumOfIter

LEMMA BillsSum ==
  ASSUME NEW f, \A x \in L!Brands : f[x] = L!OfBrand(x).invoices, IsFiniteSet(L!Brands)
  PROVE  BillsTotal = SumIn(f, L!Brands)
<1>1. PICK S : S = L!Brands
  OBVIOUS
<1>2. ASSUME NEW g
      PROVE  BillsIter(S, g) <=> Iter(f, S, g)
  <2>1. \A s \in SUBSET S : s # {} => f[One(s)] = L!OfBrand(One(s)).invoices
    BY <1>1, Chosen
  <2>. QED
    BY <2>1 DEF BillsIter, Iter
<1>3. PICK h : h = CHOOSE g : BillsIter(S, g)
  OBVIOUS
<1>4. BillsTotal = h[S]
  BY <1>1, <1>3 DEF BillsTotal
<1>5. Iter(f, S, h)
  BY <1>1, <1>2, <1>3, IterExists
<1>. QED
  BY <1>1, <1>4, <1>5, SumOfIter

LEMMA VatSum ==
  ASSUME NEW f, \A x \in L!Brands : f[x] = L!OfBrand(x).vat, IsFiniteSet(L!Brands)
  PROVE  VatTotal = SumIn(f, L!Brands)
<1>1. PICK S : S = L!Brands
  OBVIOUS
<1>2. ASSUME NEW g
      PROVE  VatIter(S, g) <=> Iter(f, S, g)
  <2>1. \A s \in SUBSET S : s # {} => f[One(s)] = L!OfBrand(One(s)).vat
    BY <1>1, Chosen
  <2>. QED
    BY <2>1 DEF VatIter, Iter
<1>3. PICK h : h = CHOOSE g : VatIter(S, g)
  OBVIOUS
<1>4. VatTotal = h[S]
  BY <1>1, <1>3 DEF VatTotal
<1>5. Iter(f, S, h)
  BY <1>1, <1>2, <1>3, IterExists
<1>. QED
  BY <1>1, <1>4, <1>5, SumOfIter

(***************************************************************************)
(* The people of the reports and the payouts that each is told about.      *)
(***************************************************************************)

CreatorKey == [a \in Payouts |-> Creator]
BrandKey == [a \in Payouts |-> IF a = FirstPayout THEN BrandUser ELSE OtherBrand]

LEMMA PeopleInReports ==
  /\ \A a \in Payouts : CreatorKey[a] \in L!Creators /\ BrandKey[a] \in L!Brands
  /\ IsFiniteSet(L!Creators) /\ IsFiniteSet(L!Brands)
<1>1. \A a \in Payouts : CreatorKey[a] \in L!Creators /\ BrandKey[a] \in L!Brands
  BY DEF L!Creators, L!Brands, CreatorKey, BrandKey
<1>2. L!Creators \subseteq {Creator} /\ L!Brands \subseteq {BrandUser, OtherBrand}
  BY DEF L!Creators, L!Brands
<1>3. IsFiniteSet({Creator}) /\ IsFiniteSet({BrandUser, OtherBrand})
  <2>1. IsFiniteSet({BrandUser} \cup {OtherBrand})
    BY FS_Singleton, FS_Union
  <2>2. {BrandUser, OtherBrand} = {BrandUser} \cup {OtherBrand}
    OBVIOUS
  <2>. QED
    BY <2>1, <2>2, FS_Singleton
<1>. QED
  BY <1>1, <1>2, <1>3, FS_Subset

LEMMA RowsOfPerson ==
  ASSUME NEW q \in Queries
  PROVE  /\ \A c \in L!Creators :
              L!Aggregate(<<"creator", c>>, q)
                = L!SumOf({a \in L!Selected(q) : CreatorKey[a] = c})
         /\ \A b \in L!Brands :
              L!Aggregate(<<"brand", b>>, q)
                = L!SumOf({a \in L!Selected(q) : BrandKey[a] = b})
         /\ \A k \in {"finance", "console"} :
              L!Aggregate(<<k, None>>, q) = L!SumOf(L!Selected(q))
<1>0. L!Selected(q) \subseteq Payouts
  BY SelectedRows
<1>1. ASSUME NEW c \in L!Creators
      PROVE  {a \in L!Selected(q) : L!BelongsTo(<<"creator", c>>, a)}
               = {a \in L!Selected(q) : CreatorKey[a] = c}
  BY <1>0 DEF L!BelongsTo, CreatorKey
<1>2. ASSUME NEW b \in L!Brands
      PROVE  {a \in L!Selected(q) : L!BelongsTo(<<"brand", b>>, a)}
               = {a \in L!Selected(q) : BrandKey[a] = b}
  BY <1>0 DEF L!BelongsTo, BrandKey
<1>3. ASSUME NEW k \in {"finance", "console"}
      PROVE  {a \in L!Selected(q) : L!BelongsTo(<<k, None>>, a)} = L!Selected(q)
  BY DEF L!BelongsTo
<1>. QED
  BY <1>1, <1>2, <1>3 DEF L!Aggregate

LEMMA QuietAre ==
  /\ \A c \in L!Creators :
       /\ L!OfCreator(c).earned = L!Aggregate(<<"creator", c>>, "paid").payout
       /\ L!OfCreator(c).outstanding = L!Aggregate(<<"creator", c>>, "open").payout
  /\ \A b \in L!Brands :
       /\ L!OfBrand(b).fees = L!Aggregate(<<"brand", b>>, "paid").commission
       /\ L!OfBrand(b).paidOut = L!Aggregate(<<"brand", b>>, "paid").payout
       /\ L!OfBrand(b).billed = L!Aggregate(<<"brand", b>>, "billed").amount
       /\ L!OfBrand(b).invoices = L!Aggregate(<<"brand", b>>, "invoices").count
       /\ L!OfBrand(b).vat = L!Rounded(L!Aggregate(<<"brand", b>>, "paid").commission, Vat)
  /\ L!OfFinance.paidOut = L!SumOf(L!Selected("paid")).payout
  /\ L!OfFinance.fees = L!SumOf(L!Selected("paid")).commission
  /\ L!OfFinance.volume = L!SumOf(L!Selected("paid")).amount
  /\ L!OfFinance.vat = L!Rounded(L!SumOf(L!Selected("paid")).commission, Vat)
  /\ L!OfFinance.dues = L!SumOf(L!Selected("open")).payout
  /\ L!OfFinance.dueCount = L!SumOf(L!Selected("open")).count
  /\ L!OfFinance.queue
       = L!SumOf(L!Selected("to approve")).count + L!SumOf(L!Selected("to release")).count
  /\ L!Quiet(<<"console", None>>)["count"].count = L!SumOf(L!Selected("count")).count
<1>1. ASSUME NEW c \in L!Creators
      PROVE  /\ L!OfCreator(c).earned = L!Aggregate(<<"creator", c>>, "paid").payout
             /\ L!OfCreator(c).outstanding = L!Aggregate(<<"creator", c>>, "open").payout
  <2>1. \A q \in {"paid", "paid count", "open", "open count"} :
          L!Quiet(<<"creator", c>>)[q] = L!Aggregate(<<"creator", c>>, q)
    BY AggregatesAre DEF L!Quiet
  <2>. QED
    BY <2>1 DEF L!OfCreator, L!CreatorFigures
<1>2. ASSUME NEW b \in L!Brands
      PROVE  /\ L!OfBrand(b).fees = L!Aggregate(<<"brand", b>>, "paid").commission
             /\ L!OfBrand(b).paidOut = L!Aggregate(<<"brand", b>>, "paid").payout
             /\ L!OfBrand(b).billed = L!Aggregate(<<"brand", b>>, "billed").amount
             /\ L!OfBrand(b).invoices = L!Aggregate(<<"brand", b>>, "invoices").count
             /\ L!OfBrand(b).vat
                  = L!Rounded(L!Aggregate(<<"brand", b>>, "paid").commission, Vat)
  <2>1. \A q \in {"paid", "billed", "unpaid", "invoices"} :
          L!Quiet(<<"brand", b>>)[q] = L!Aggregate(<<"brand", b>>, q)
    BY AggregatesAre DEF L!Quiet
  <2>. QED
    BY <2>1 DEF L!OfBrand, L!BrandFigures, L!BrandVat, L!VatOn
<1>3. /\ \A q \in {"paid", "open", "to approve", "to release", "invoices"} :
           L!Quiet(<<"finance", None>>)[q] = L!SumOf(L!Selected(q))
      /\ L!Quiet(<<"console", None>>)["count"] = L!SumOf(L!Selected("count"))
  <2>1. /\ \A q \in {"paid", "open", "to approve", "to release", "invoices"} :
             L!Quiet(<<"finance", None>>)[q] = L!Aggregate(<<"finance", None>>, q)
        /\ L!Quiet(<<"console", None>>)["count"] = L!Aggregate(<<"console", None>>, "count")
    BY AggregatesAre DEF L!Quiet
  <2>2. \A q \in Queries : /\ L!Aggregate(<<"finance", None>>, q) = L!SumOf(L!Selected(q))
                           /\ L!Aggregate(<<"console", None>>, q) = L!SumOf(L!Selected(q))
    BY RowsOfPerson
  <2>. QED
    BY <2>1, <2>2 DEF Queries
<1>4. /\ L!OfFinance.paidOut = L!SumOf(L!Selected("paid")).payout
      /\ L!OfFinance.fees = L!SumOf(L!Selected("paid")).commission
      /\ L!OfFinance.volume = L!SumOf(L!Selected("paid")).amount
      /\ L!OfFinance.vat = L!Rounded(L!SumOf(L!Selected("paid")).commission, Vat)
      /\ L!OfFinance.dues = L!SumOf(L!Selected("open")).payout
      /\ L!OfFinance.dueCount = L!SumOf(L!Selected("open")).count
      /\ L!OfFinance.queue
           = L!SumOf(L!Selected("to approve")).count + L!SumOf(L!Selected("to release")).count
  BY <1>3 DEF L!OfFinance, L!FinanceFigures, L!VatOn
<1>. QED
  BY <1>1, <1>2, <1>3, <1>4

(***************************************************************************)
(* What all people are told adds up to what the console is told.           *)
(***************************************************************************)

RowsOf(some, key, c) == {a \in some : key[a] = c}

(* What the persons a key stands for are told adds up to what all are told.*)
LEMMA FiguresSplit ==
  ASSUME NEW f, Ints(f, Payouts), NEW some \in SUBSET Payouts,
         NEW C, IsFiniteSet(C), NEW key, \A a \in Payouts : key[a] \in C,
         NEW told, \A c \in C : told[c] = SumIn(f, RowsOf(some, key, c))
  PROVE  SumIn(told, C) = SumIn(f, some) /\ Ints(told, C)
<1>1. IsFiniteSet(some) /\ Ints(f, some)
  BY ReportsAssumption, Parted
<1>2. PICK g : g = PartSum(f, key, some, C)
  OBVIOUS
<1>3. SumIn(g, C) = SumIn(f, some)
  BY <1>1, <1>2, SumOfParts
<1>4. \A c \in C : g[c] = told[c]
  BY <1>2 DEF PartSum, RowsOf
<1>5. Ints(g, C)
  <2> SUFFICES ASSUME NEW c \in C PROVE g[c] \in Int
    BY DEF Ints
  <2>1. RowsOf(some, key, c) \in SUBSET some
    BY DEF RowsOf
  <2>2. SumIn(f, RowsOf(some, key, c)) \in Int
    BY <1>1, <2>1, Parted
  <2>. QED
    BY <1>4, <2>2
<1>6. SumIn(g, C) = SumIn(told, C)
  BY <1>4, <1>5, SumSame
<1>7. Ints(told, C)
  BY <1>4, <1>5 DEF Ints
<1>. QED
  BY <1>3, <1>6, <1>7

LEMMA RowSums ==
  ASSUME TermsTyped
  PROVE  /\ Ints(AmountOf, Payouts) /\ Ints(CommissionOf, Payouts) /\ Ints(PayoutOf, Payouts)
         /\ \A S \in SUBSET Payouts :
              /\ L!SumOf(S).amount = SumIn(AmountOf, S)
              /\ L!SumOf(S).commission = SumIn(CommissionOf, S)
              /\ L!SumOf(S).payout = SumIn(PayoutOf, S)
              /\ L!SumOf(S).count = Cardinality(S)
              /\ AddsUp(L!SumOf(S))
  BY FiguresAreInts, AmountSum, CommissionSum, PayoutSum, SumsAddUp

CountOne == [a \in Payouts |-> 1]

LEMMA CountIsSum ==
  ASSUME NEW S \in SUBSET Payouts
  PROVE  Cardinality(S) = SumIn(CountOne, S) /\ Cardinality(S) \in Nat
<1>1. IsFiniteSet(S)
  BY ReportsAssumption, FS_Subset
<1>2. SumIn(CountOne, S) = 1 * Cardinality(S) /\ Cardinality(S) \in Nat
  BY <1>1, SumOfSame, FS_CardinalityType DEF CountOne
<1>. QED
  BY <1>2

LEMMA EarningsAgree ==
  ASSUME PayoutsTyped
  PROVE  EarnedTotal = L!OfFinance.paidOut /\ OwedTotal = L!OfFinance.dues
<1>. TermsTyped
  BY DEF PayoutsTyped
<1>0. "paid" \in Queries /\ "open" \in Queries
  BY DEF Queries
<1>1. PICK paid \in SUBSET Payouts, open \in SUBSET Payouts :
        paid = L!Selected("paid") /\ open = L!Selected("open")
  BY <1>0, SelectedRows
<1>2. PICK e, o : /\ e = [c \in L!Creators |-> L!OfCreator(c).earned]
                  /\ o = [c \in L!Creators |-> L!OfCreator(c).outstanding]
  OBVIOUS
<1>3. \A c \in L!Creators : e[c] = SumIn(PayoutOf, RowsOf(paid, CreatorKey, c))
  <2> SUFFICES ASSUME NEW c \in L!Creators
               PROVE  e[c] = SumIn(PayoutOf, RowsOf(paid, CreatorKey, c))
    OBVIOUS
  <2>1. PICK w \in SUBSET Payouts : w = RowsOf(paid, CreatorKey, c)
    BY DEF RowsOf
  <2>2. e[c] = L!SumOf(w).payout
    BY <1>0, <1>1, <1>2, <2>1, QuietAre, RowsOfPerson DEF RowsOf
  <2>. QED
    BY <2>1, <2>2, RowSums
<1>4. \A c \in L!Creators : o[c] = SumIn(PayoutOf, RowsOf(open, CreatorKey, c))
  <2> SUFFICES ASSUME NEW c \in L!Creators
               PROVE  o[c] = SumIn(PayoutOf, RowsOf(open, CreatorKey, c))
    OBVIOUS
  <2>1. PICK w \in SUBSET Payouts : w = RowsOf(open, CreatorKey, c)
    BY DEF RowsOf
  <2>2. o[c] = L!SumOf(w).payout
    BY <1>0, <1>1, <1>2, <2>1, QuietAre, RowsOfPerson DEF RowsOf
  <2>. QED
    BY <2>1, <2>2, RowSums
<1>5. /\ SumIn(e, L!Creators) = SumIn(PayoutOf, paid)
      /\ SumIn(o, L!Creators) = SumIn(PayoutOf, open)
  BY <1>3, <1>4, PeopleInReports, RowSums, FiguresSplit
<1>6. EarnedTotal = SumIn(e, L!Creators) /\ OwedTotal = SumIn(o, L!Creators)
  BY <1>2, PeopleInReports, EarnedSum, OwedSum
<1>7. /\ L!OfFinance.paidOut = SumIn(PayoutOf, paid)
      /\ L!OfFinance.dues = SumIn(PayoutOf, open)
  BY <1>1, QuietAre, RowSums
<1>. QED
  BY <1>5, <1>6, <1>7

LEMMA BrandsAgree ==
  ASSUME PayoutsTyped
  PROVE  /\ FeesTotal = L!OfFinance.fees
         /\ BillsTotal = L!Quiet(<<"console", None>>)["count"].count
<1>. TermsTyped
  BY DEF PayoutsTyped
<1>0. "paid" \in Queries /\ "invoices" \in Queries /\ "count" \in Queries
  BY DEF Queries
<1>1. PICK paid \in SUBSET Payouts, all \in SUBSET Payouts :
        paid = L!Selected("paid") /\ all = L!Selected("invoices")
  BY <1>0, SelectedRows
<1>2. PICK e, o : /\ e = [b \in L!Brands |-> L!OfBrand(b).fees]
                  /\ o = [b \in L!Brands |-> L!OfBrand(b).invoices]
  OBVIOUS
<1>3. \A b \in L!Brands : e[b] = SumIn(CommissionOf, RowsOf(paid, BrandKey, b))
  <2> SUFFICES ASSUME NEW b \in L!Brands
               PROVE  e[b] = SumIn(CommissionOf, RowsOf(paid, BrandKey, b))
    OBVIOUS
  <2>1. PICK w \in SUBSET Payouts : w = RowsOf(paid, BrandKey, b)
    BY DEF RowsOf
  <2>2. e[b] = L!SumOf(w).commission
    BY <1>0, <1>1, <1>2, <2>1, QuietAre, RowsOfPerson DEF RowsOf
  <2>. QED
    BY <2>1, <2>2, RowSums
<1>4. \A b \in L!Brands : o[b] = SumIn(CountOne, RowsOf(all, BrandKey, b))
  <2> SUFFICES ASSUME NEW b \in L!Brands
               PROVE  o[b] = SumIn(CountOne, RowsOf(all, BrandKey, b))
    OBVIOUS
  <2>1. PICK w \in SUBSET Payouts : w = RowsOf(all, BrandKey, b)
    BY DEF RowsOf
  <2>2. o[b] = L!SumOf(w).count
    BY <1>0, <1>1, <1>2, <2>1, QuietAre, RowsOfPerson DEF RowsOf
  <2>. QED
    BY <2>1, <2>2, RowSums, CountIsSum
<1>5. SumIn(e, L!Brands) = SumIn(CommissionOf, paid)
  BY <1>3, PeopleInReports, RowSums, FiguresSplit
<1>6. SumIn(o, L!Brands) = SumIn(CountOne, all)
  <2>1. Ints(CountOne, Payouts)
    BY DEF Ints, CountOne
  <2>. QED
    BY <1>4, <2>1, PeopleInReports, FiguresSplit
<1>7. FeesTotal = SumIn(e, L!Brands) /\ BillsTotal = SumIn(o, L!Brands)
  BY <1>2, PeopleInReports, FeesSum, BillsSum
<1>8. L!OfFinance.fees = SumIn(CommissionOf, paid)
  BY <1>1, QuietAre, RowSums
<1>9. L!Quiet(<<"console", None>>)["count"].count = SumIn(CountOne, all)
  <2>1. L!Selected("count") = all
    BY <1>1, SelectedAre
  <2>. QED
    BY <2>1, QuietAre, RowSums, CountIsSum
<1>. QED
  BY <1>5, <1>6, <1>7, <1>8, <1>9

(***************************************************************************)
(* Rounding tax per brand and once for all; the work queue; the theorems.  *)
(***************************************************************************)

LEMMA RoundedClose ==
  ASSUME NEW n \in Nat, NEW p \in Nat
  PROVE  /\ L!Rounded(n, p) \in Nat
         /\ 2 * (p * n) - 100 <= 200 * L!Rounded(n, p)
         /\ 200 * L!Rounded(n, p) <= 2 * (p * n) + 100
<1>1. PICK m \in Nat : m = p * n
  OBVIOUS
<1>2. 2 * n * p = 2 * m
  BY <1>1
<1>3. L!Rounded(n, p) = (2 * m + 100) \div 200
  BY <1>2 DEF L!Rounded
<1>4. PICK r \in Nat : r = (2 * m + 100) \div 200 /\ 200 * r <= 2 * m + 100 /\ 2 * m + 100 < 200 * r + 200
  OBVIOUS
<1>. QED
  BY <1>1, <1>3, <1>4

LEMMA VatAgrees ==
  ASSUME PayoutsTyped
  PROVE  L!VatRoundsOncePerBrand
<1>. TermsTyped /\ Vat \in Nat
  BY ReportsAssumption DEF PayoutsTyped
<1>0. "paid" \in Queries
  BY DEF Queries
<1>1. PICK paid \in SUBSET Payouts : paid = L!Selected("paid")
  BY <1>0, SelectedRows
<1>2. PICK B : B = L!Brands /\ IsFiniteSet(B) /\ \A a \in Payouts : BrandKey[a] \in B
  BY PeopleInReports
<1>3. PICK e, v : /\ e = [b \in B |-> L!OfBrand(b).fees]
                  /\ v = [b \in B |-> L!OfBrand(b).vat]
  OBVIOUS
<1>4. \A b \in B : /\ e[b] = SumIn(CommissionOf, RowsOf(paid, BrandKey, b))
                   /\ e[b] \in Nat /\ v[b] = L!Rounded(e[b], Vat)
  <2> SUFFICES ASSUME NEW b \in B
               PROVE  /\ e[b] = SumIn(CommissionOf, RowsOf(paid, BrandKey, b))
                      /\ e[b] \in Nat /\ v[b] = L!Rounded(e[b], Vat)
    OBVIOUS
  <2>1. PICK w \in SUBSET Payouts : w = RowsOf(paid, BrandKey, b)
    BY DEF RowsOf
  <2>2. e[b] = L!SumOf(w).commission /\ v[b] = L!Rounded(L!SumOf(w).commission, Vat)
    BY <1>0, <1>1, <1>2, <1>3, <2>1, QuietAre, RowsOfPerson DEF RowsOf
  <2>3. AddsUp(L!SumOf(w)) /\ L!SumOf(w).commission = SumIn(CommissionOf, w)
    BY RowSums
  <2>. QED
    BY <2>1, <2>2, <2>3 DEF AddsUp
<1>5. PICK F \in Nat : F = L!SumOf(paid).commission /\ F = SumIn(CommissionOf, paid)
  BY RowSums DEF AddsUp
<1>6. SumIn(e, B) = F
  BY <1>2, <1>4, <1>5, RowSums, FiguresSplit
<1>7. PICK R \in Nat : /\ L!OfFinance.vat = R
                       /\ 2 * (Vat * F) - 100 <= 200 * R /\ 200 * R <= 2 * (Vat * F) + 100
  <2>1. PICK R : R = L!Rounded(F, Vat)
    OBVIOUS
  <2>2. L!OfFinance.vat = R
    BY <1>1, <1>5, <2>1, QuietAre, Zenon
  <2>3. /\ R \in Nat /\ 2 * (Vat * F) - 100 <= 200 * R
        /\ 200 * R <= 2 * (Vat * F) + 100
    BY <2>1, RoundedClose, ReportsAssumption
  <2>. QED
    BY <2>2, <2>3
<1>8. Ints(e, B) /\ Ints(v, B)
  BY <1>4, RoundedClose DEF Ints
<1>9. VatTotal = SumIn(v, B)
  BY <1>2, <1>3, VatSum
<1>10. PICK total \in Int : total = SumIn(v, B)
  BY <1>2, <1>8, SumIsInt
<1>11. PICK N \in Nat : N = Cardinality(B)
  BY <1>2, FS_CardinalityType
<1>12. PICK g, h, up, down :
         /\ g = [b \in B |-> 200 * v[b]] /\ h = [b \in B |-> (2 * Vat) * e[b]]
         /\ up = [b \in B |-> 100] /\ down = [b \in B |-> -100]
  OBVIOUS
<1>13. Ints(g, B) /\ Ints(h, B) /\ Ints(up, B) /\ Ints(down, B)
  <2>1. \A b \in B : (2 * Vat) * e[b] \in Int
    BY <1>4
  <2>. QED
    BY <1>8, <1>12, <2>1 DEF Ints
<1>14. SumIn(g, B) = 200 * total
  BY <1>2, <1>8, <1>10, <1>12, SumTimes
<1>15. SumIn(h, B) = (2 * Vat) * F
  <2>1. 2 * Vat \in Int
    OBVIOUS
  <2>. QED
    BY <1>2, <1>6, <1>8, <1>12, <2>1, SumTimes
<1>16. SumIn(up, B) = 100 * N /\ SumIn(down, B) = (-100) * N
  BY <1>2, <1>11, <1>12, SumOfSame
<1>17. PICK most, least : /\ most = [b \in B |-> h[b] + up[b]]
                          /\ least = [b \in B |-> h[b] + down[b]]
  OBVIOUS
<1>18. Ints(most, B) /\ Ints(least, B)
  BY <1>13, <1>17 DEF Ints
<1>19. /\ SumIn(most, B) = SumIn(h, B) + SumIn(up, B)
       /\ SumIn(least, B) = SumIn(h, B) + SumIn(down, B)
  BY <1>2, <1>13, <1>17, SumPlus
<1>20. \A b \in B : least[b] <= g[b] /\ g[b] <= most[b]
  <2> SUFFICES ASSUME NEW b \in B PROVE least[b] <= g[b] /\ g[b] <= most[b]
    OBVIOUS
  <2>1. PICK n \in Nat, r \in Nat : n = e[b] /\ r = v[b] /\ r = L!Rounded(n, Vat)
    BY <1>4, RoundedClose
  <2>2. 2 * (Vat * n) - 100 <= 200 * r /\ 200 * r <= 2 * (Vat * n) + 100
    BY <2>1, RoundedClose
  <2>3. PICK m \in Nat : m = Vat * n /\ (2 * Vat) * n = 2 * m
    OBVIOUS
  <2>4. g[b] = 200 * r /\ most[b] = 2 * m + 100 /\ least[b] = 2 * m - 100
    BY <1>12, <1>17, <2>1, <2>3
  <2>. QED
    BY <2>2, <2>3, <2>4
<1>21. SumIn(least, B) <= 200 * total /\ 200 * total <= SumIn(most, B)
  BY <1>2, <1>13, <1>14, <1>18, <1>20, SumAtMost
<1>22. PICK m \in Nat : m = Vat * F /\ (2 * Vat) * F = 2 * m
  OBVIOUS
<1>23. /\ 2 * m - 100 * N <= 200 * total /\ 200 * total <= 2 * m + 100 * N
       /\ 2 * m - 100 <= 200 * R /\ 200 * R <= 2 * m + 100
  BY <1>7, <1>15, <1>16, <1>19, <1>21, <1>22
<1>24. 2 * (total - R) <= N + 1 /\ 2 * (total - R) >= -(N + 1)
  BY <1>23
<1>. QED
  BY <1>2, <1>7, <1>9, <1>10, <1>11, <1>24, VatIs

LEMMA BillsCover ==
  ASSUME PayoutsTyped, PaidAreBilled
  PROVE  \A b \in L!Brands : L!OfBrand(b).billed >= L!OfBrand(b).paidOut + L!OfBrand(b).fees
<1> SUFFICES ASSUME NEW b \in L!Brands
             PROVE  L!OfBrand(b).billed >= L!OfBrand(b).paidOut + L!OfBrand(b).fees
  OBVIOUS
<1>. TermsTyped
  BY DEF PayoutsTyped
<1>0. "paid" \in Queries /\ "billed" \in Queries
  BY DEF Queries
<1>1. PICK P \in SUBSET Payouts, B \in SUBSET Payouts :
        /\ P = {a \in L!Selected("paid") : BrandKey[a] = b}
        /\ B = {a \in L!Selected("billed") : BrandKey[a] = b}
  BY <1>0, SelectedRows
<1>2. P \subseteq B /\ IsFiniteSet(B)
  BY <1>1, SelectedAre, ReportsAssumption, FS_Subset DEF PaidAreBilled
<1>3. /\ L!OfBrand(b).billed = L!SumOf(B).amount
      /\ L!OfBrand(b).paidOut = L!SumOf(P).payout /\ L!OfBrand(b).fees = L!SumOf(P).commission
  BY <1>0, <1>1, QuietAre, RowsOfPerson
<1>4. L!SumOf(P).payout + L!SumOf(P).commission = SumIn(AmountOf, P)
  BY RowSums DEF AddsUp
<1>5. L!SumOf(B).amount = SumIn(AmountOf, B)
  BY RowSums
<1>6. SumIn(AmountOf, P) <= SumIn(AmountOf, B)
  <2>1. PICK f : f = [a \in B |-> IF a \in P THEN AmountOf[a] ELSE 0]
    OBVIOUS
  <2>2. \A a \in B : AmountOf[a] \in Nat
    BY FiguresOf
  <2>3. Ints(f, B) /\ Ints(AmountOf, B) /\ \A a \in B : f[a] <= AmountOf[a]
    BY <2>1, <2>2 DEF Ints
  <2>4. SumIn(f, B) <= SumIn(AmountOf, B)
    BY <1>2, <2>3, SumAtMost
  <2>5. SumIn(f, B) = SumIn(f, P)
    <3>1. P \in SUBSET B /\ \A a \in B \ P : f[a] = 0
      BY <1>2, <2>1
    <3>. QED
      BY <1>2, <2>3, <3>1, SumOfNone
  <2>6. SumIn(f, P) = SumIn(AmountOf, P)
    <3>1. IsFiniteSet(P) /\ Ints(f, P) /\ \A a \in P : f[a] = AmountOf[a]
      BY <1>2, <2>1, <2>3, FS_Subset DEF Ints
    <3>. QED
      BY <3>1, SumSame
  <2>. QED
    BY <2>4, <2>5, <2>6
<1>7. SumIn(AmountOf, P) \in Int /\ SumIn(AmountOf, B) \in Int
  BY RowSums, ReportsAssumption, Parted
<1>. QED
  BY <1>3, <1>4, <1>5, <1>6, <1>7

LEMMA QueueIsDue ==
  ASSUME PayoutsTyped
  PROVE  /\ L!OfFinance.volume = L!OfFinance.paidOut + L!OfFinance.fees
         /\ L!OfFinance.queue = L!OfFinance.dueCount
<1>. TermsTyped
  BY DEF PayoutsTyped
<1>0. {"paid", "open", "to approve", "to release"} \subseteq Queries
  BY DEF Queries
<1>1. PICK D \in SUBSET Payouts, O \in SUBSET Payouts, P \in SUBSET Payouts, R \in SUBSET Payouts :
        /\ D = L!Selected("paid") /\ O = L!Selected("open")
        /\ P = L!Selected("to approve") /\ R = L!Selected("to release")
  BY <1>0, SelectedRows
<1>2. L!OfFinance.volume = L!OfFinance.paidOut + L!OfFinance.fees
  <2>1. AddsUp(L!SumOf(D))
    BY RowSums
  <2>. QED
    BY <1>1, <2>1, QuietAre DEF AddsUp
<1>3. P \cap R = {} /\ O = P \cup R /\ IsFiniteSet(P) /\ IsFiniteSet(R)
  BY <1>1, SelectedAre, ReportsAssumption, FS_Subset
<1>4. Cardinality(O) = Cardinality(P) + Cardinality(R)
  <2>1. Cardinality(P \cup R) = Cardinality(P) + Cardinality(R) - Cardinality(P \cap R)
    BY <1>3, FS_Union
  <2>2. Cardinality(P \cap R) = 0 /\ Cardinality(P) \in Nat /\ Cardinality(R) \in Nat
    BY <1>3, FS_EmptySet, FS_CardinalityType
  <2>. QED
    BY <1>3, <2>1, <2>2
<1>5. L!OfFinance.queue = L!OfFinance.dueCount
  BY <1>1, <1>4, QuietAre, RowSums
<1>. QED
  BY <1>2, <1>5

LEMMA ReportsTell ==
  ReportsInv => L!AggregatesAddUp /\ L!ReportsAgree /\ L!VatRoundsOncePerBrand
<1> SUFFICES ASSUME ReportsInv
             PROVE  L!AggregatesAddUp /\ L!ReportsAgree /\ L!VatRoundsOncePerBrand
  OBVIOUS
<1>. PayoutsTyped /\ PaidAreBilled
  BY DEF ReportsInv
<1>1. L!ReportsAgree
  BY EarningsAgree, BrandsAgree, BillsCover, QueueIsDue, AgreementIs
<1>. QED
  BY <1>1, SumsInReports, VatAgrees

LEMMA ReportsStep ==
  (part = "reports" => ReportsInv) /\ [CheckNext]_everything
    => (part = "reports" => ReportsInv)'
<1> SUFFICES ASSUME part = "reports" => ReportsInv, part' = "reports",
                    [CheckNext]_everything
             PROVE  ReportsInv'
  OBVIOUS
<1>1. part = "reports" /\ [L!Next]_ofLedger
  BY DEF CheckNext, LedgerCheck, everything
<1>. QED
  BY <1>1, LedgerKeeps

\* What holds of the reports holds in every state of the part for reports.
THEOREM ReportsChecked == CheckSpec => [](part = "reports" => ReportsInv)
<1>1. CheckInit => (part = "reports" => ReportsInv)
  BY ReportsStart DEF CheckInit
<1>. QED
  BY <1>1, ReportsStep, PTL DEF CheckSpec

\* ReportsAgree for any payouts, amounts and rates: what creators and brands are
\* told adds up to what the console is told, up to the rounding of tax.
THEOREM FiguresAgree == CheckSpec => []ReportsAgree
<1>1. (part = "reports" => ReportsInv) => ReportsAgree
  BY ReportsTell DEF ReportsAgree
<1>. QED
  BY <1>1, ReportsChecked, PTL

\* OffByMovesAtMost: a work queue read in three queries is off by no more than
\* the payouts that moved while it was read.
THEOREM LateBy == CheckSpec => []OffByMovesAtMost
<1>1. (part = "reports" => ReportsInv) => OffByMovesAtMost
  BY LateFigures DEF OffByMovesAtMost
<1>. QED
  BY <1>1, ReportsChecked, PTL

(***************************************************************************)
(* The daily chart: dividing hours into days, and what is drawn of a range *)
(* of them.                                                                *)
(***************************************************************************)

LEMMA DivisionIs ==
  ASSUME NEW n \in Int, NEW d \in Nat \ {0}
  PROVE  /\ n \div d \in Int /\ n % d \in 0 .. (d - 1)
         /\ n = d * (n \div d) + (n % d)
  BY Z3

LEMMA DivisionAt ==
  ASSUME NEW n \in Int, NEW d \in Nat \ {0}, NEW m \in Int,
         d * m <= n, n < d * m + d
  PROVE  n \div d = m
<1>1. PICK q \in Int : q = n \div d /\ d * q <= n /\ n < d * q + d
  BY DivisionIs
<1>2. CASE q < m
  <2>1. PICK k \in Nat : m = q + 1 + k
    BY <1>2
  <2>2. d * m = d * q + d + d * k /\ d * k >= 0
    BY <2>1
  <2>. QED
    BY <1>1, <2>2
<1>3. CASE m < q
  <2>1. PICK k \in Nat : q = m + 1 + k
    BY <1>3
  <2>2. d * q = d * m + d + d * k /\ d * k >= 0
    BY <2>1
  <2>. QED
    BY <1>1, <2>2
<1>. QED
  BY <1>1, <1>2, <1>3

(* The server's day of hour h: when it begins, and that hours keep order.  *)
LEMMA MidnightIs == T!Midnight \in 0 .. (Day - 1)
<1>1. Day \in Nat \ {0} /\ 0 - Offset \in Int
  BY SeriesAssumption
<1>. QED
  BY <1>1, DivisionIs DEF T!Midnight

LEMMA DayBegins ==
  ASSUME NEW h \in Nat
  PROVE  /\ T!DayOf(h) \in Int
         /\ ((h + Offset) \div Day) * Day - Offset = Day * T!DayOf(h) + T!Midnight
         /\ Day * T!DayOf(h) + T!Midnight <= h
         /\ h < Day * T!DayOf(h) + T!Midnight + Day
<1>0. Day \in Nat \ {0} /\ Offset \in Int
  BY SeriesAssumption
<1>a. PICK o \in Int : o = 0 - Offset
  BY <1>0
<1>b. /\ o \div Day \in Int /\ o % Day \in 0 .. (Day - 1)
      /\ o = Day * (o \div Day) + (o % Day)
  BY <1>0, DivisionIs
<1>1. PICK k \in Int, m \in 0 .. (Day - 1) : m = T!Midnight /\ 0 - Offset = Day * k + m
  BY <1>a, <1>b DEF T!Midnight
<1>c. /\ h \div Day \in Int /\ h % Day \in 0 .. (Day - 1)
      /\ h = Day * (h \div Day) + (h % Day)
  BY <1>0, DivisionIs
<1>2. PICK q \in Int, x \in 0 .. (Day - 1) : q = h \div Day /\ x = h % Day /\ h = Day * q + x
  BY <1>c
<1>3. PICK d \in Int : d = (IF x < m THEN q - 1 ELSE q)
  BY <1>2
<1>4. T!DayOf(h) = d
  BY <1>1, <1>2, <1>3 DEF T!DayOf, T!DateOf
<1>5. Day * d + m <= h /\ h < Day * d + m + Day
  <2>1. CASE x < m
    <3>1. Day * d = Day * q - Day
      BY <1>0, <1>2, <1>3, <2>1
    <3>. QED
      BY <1>0, <1>1, <1>2, <2>1, <3>1
  <2>2. CASE ~(x < m)
    BY <1>0, <1>1, <1>2, <1>3, <2>2
  <2>. QED
    BY <2>1, <2>2
<1>6. (h + Offset) \div Day = d - k
  <2>1. PICK n, l \in Int : n = h + Offset /\ l = d - k
    BY <1>0
  <2>2. Day * l = Day * d - Day * k
    BY <1>0, <2>1
  <2>3. Day * l <= n /\ n < Day * l + Day
    BY <1>0, <1>1, <1>5, <2>1, <2>2
  <2>. QED
    BY <1>0, <2>1, <2>3, DivisionAt
<1>7. (d - k) * Day = Day * d - Day * k
  BY <1>0
<1>. QED
  BY <1>0, <1>1, <1>4, <1>5, <1>6, <1>7

LEMMA DaysKeepOrder ==
  ASSUME NEW n \in Nat, NEW h \in Nat, n <= h
  PROVE  T!DayOf(n) <= T!DayOf(h)
<1>0. Day \in Nat \ {0} /\ T!Midnight \in Nat
  BY SeriesAssumption, MidnightIs
<1>1. PICK q \in Int, p \in Int :
        q = T!DayOf(n) /\ p = T!DayOf(h)
        /\ Day * q + T!Midnight <= n /\ h < Day * p + T!Midnight + Day
  BY DayBegins
<1>2. SUFFICES ASSUME p < q PROVE FALSE
  BY <1>1
<1>3. PICK k \in Nat : q = p + 1 + k
  BY <1>2
<1>4. Day * q = Day * p + Day + Day * k /\ Day * k >= 0
  BY <1>0, <1>3
<1>. QED
  BY <1>0, <1>1, <1>4

(* The server's day of an hour begins on its date or the one before.       *)
LEMMA DateIsReached ==
  ASSUME NEW n \in Nat, NEW h \in Nat, n <= h
  PROVE  h \div Day \in Int /\ T!DayOf(n) <= h \div Day
<1>1. h \div Day \in Int /\ T!DayOf(h) <= h \div Day
  BY SeriesAssumption, DivisionIs DEF T!DayOf, T!DateOf
<1>2. T!DayOf(n) \in Int /\ T!DayOf(h) \in Int
  BY DayBegins
<1>. QED
  BY <1>1, <1>2, DaysKeepOrder

(* The chart that is drawn for a range: a slot a day, with what the        *)
(* queries found of that date.                                             *)
OfDay(t, date) == SumIn(got[t], {h \in 0 .. MaxTime : h \div Day = date})
Chart(first, last) ==
  [i \in 1 .. (last - first + 1) |->
     [date |-> first + i - 1, slot |-> [t \in Tables |-> OfDay(t, first + i - 1)]]]

RowsTyped == now \in 0 .. MaxTime /\ rows \in [Tables -> [0 .. MaxTime -> Nat]]
WindowTyped ==
  window # None =>
    \E s, e \in 0 .. MaxTime : s <= e /\ window = <<s, e>>
FoundInWindow ==
  /\ DOMAIN got \subseteq Tables
  /\ \A t \in DOMAIN got :
       /\ got[t] \in [0 .. MaxTime -> Nat]
       /\ \A h \in 0 .. MaxTime :
            got[t][h] # 0 => window # None /\ window[1] <= h /\ h <= window[2]
AsDrawn ==
  series # None =>
    /\ window # None /\ DOMAIN got = Tables
    /\ series = Chart(T!DayOf(window[1]), T!DayOf(window[2]))
SeriesInv == RowsTyped /\ WindowTyped /\ FoundInWindow /\ AsDrawn

CountIter(t, S, g) ==
  g = [s \in SUBSET S |->
         IF s = {} THEN 0 ELSE got[t][One(s)] + g[s \ {One(s)}]]

LEMMA SlotIs ==
  ASSUME NEW date
  PROVE  T!Slot(date) = [t \in Tables |-> OfDay(t, date)]
<1>1. \A t, S, g : CountIter(t, S, g) <=> Iter(got[t], S, g)
  BY Zenon DEF CountIter, Iter
<1>2. ASSUME NEW t \in Tables
      PROVE  T!Slot(date)[t] = OfDay(t, date)
  <2>1. PICK S : S = {h \in 0 .. MaxTime : h \div Day = date}
    OBVIOUS
  <2>2. T!Slot(date)[t] = (CHOOSE g : CountIter(t, S, g))[S]
    BY <2>1, Zenon DEF T!Slot, T!MapThenSumSet, T!MapThenFoldSet, T!Times, T!DateOf, CountIter, One
  <2>3. (CHOOSE g : CountIter(t, S, g)) = (CHOOSE g : Iter(got[t], S, g))
    BY <1>1, Zenon
  <2>. QED
    BY <2>1, <2>2, <2>3 DEF SumIn, OfDay
<1>3. \A t \in Tables : T!Slot(date)[t] = OfDay(t, date)
  BY <1>2
<1>. QED
  BY <1>3, Zenon DEF T!Slot

LEMMA DrawnIs ==
  ASSUME NEW s \in 0 .. MaxTime, NEW e \in 0 .. MaxTime, s <= e, window = <<s, e>>
  PROVE  T!Drawn = Chart(T!DayOf(s), T!DayOf(e))
<1>0. Day \in Nat \ {0} /\ Offset \in Int /\ s \in Nat /\ e \in Nat
  BY SeriesAssumption
<1>1. PICK m \in 0 .. (Day - 1) : m = T!Midnight
  BY MidnightIs
<1>2. PICK q \in Int, p \in Int :
        /\ q = T!DayOf(s) /\ p = T!DayOf(e)
        /\ ((s + Offset) \div Day) * Day - Offset = Day * q + m
        /\ Day * p + m <= e /\ e < Day * p + m + Day
  BY <1>0, <1>1, DayBegins
<1>3. T!First = Day * q + m
  BY <1>2 DEF T!First
<1>4. T!Steps = p - q + 1
  <2>1. PICK n, l \in Int : n = e - (Day * q + m) /\ l = p - q
    BY <1>0, <1>1
  <2>2. Day * l = Day * p - Day * q
    BY <1>0, <2>1
  <2>3. Day * l <= n /\ n < Day * l + Day
    BY <1>0, <1>1, <1>2, <2>1, <2>2
  <2>4. n \div Day = l
    BY <1>0, <2>1, <2>3, DivisionAt
  <2>. QED
    BY <1>3, <2>1, <2>4 DEF T!Steps
<1>5. ASSUME NEW i \in 1 .. (p - q + 1)
      PROVE  T!DateOf(T!First + (i - 1) * Day) = q + i - 1
  <2>1. PICK k \in Int : k = q + i - 1
    OBVIOUS
  <2>2. Day * k = Day * q + (i - 1) * Day
    BY <1>0, <2>1
  <2>3. PICK n \in Int : n = Day * k + m
    BY <1>0, <1>1
  <2>4. n \div Day = k
    BY <1>0, <1>1, <2>3, DivisionAt
  <2>5. T!First + (i - 1) * Day = n
    BY <1>0, <1>1, <1>3, <2>2, <2>3
  <2>. QED
    BY <2>1, <2>4, <2>5 DEF T!DateOf
<1>6. PICK C, D : C = Chart(q, p) /\ D = T!Drawn
  OBVIOUS
<1>7. D = [i \in 1 .. (p - q + 1) |->
             [date |-> q + i - 1, slot |-> T!Slot(q + i - 1)]]
  BY <1>4, <1>5, <1>6 DEF T!Drawn
<1>. QED
  BY <1>2, <1>6, <1>7, SlotIs, Zenon DEF Chart

DrawnIter(t, S, g) ==
  g = [s \in SUBSET S |->
         IF s = {} THEN 0 ELSE series[One(s)].slot[t] + g[s \ {One(s)}]]

LEMMA DrawnSum ==
  ASSUME NEW t, NEW S, IsFiniteSet(S), S = DOMAIN series,
         NEW k, \A i \in S : series[i].slot[t] = k[i]
  PROVE  T!DrawnOf(t) = SumIn(k, S)
<1>1. ASSUME NEW g
      PROVE  DrawnIter(t, S, g) <=> Iter(k, S, g)
  <2>1. \A s \in SUBSET S : s # {} => k[One(s)] = series[One(s)].slot[t]
    BY Chosen
  <2>. QED
    BY <2>1 DEF DrawnIter, Iter
<1>2. PICK h : h = CHOOSE g : DrawnIter(t, S, g)
  OBVIOUS
<1>3. T!DrawnOf(t) = h[S]
  BY <1>2, Zenon DEF T!DrawnOf, T!MapThenSumSet, T!MapThenFoldSet, DrawnIter, One
<1>4. Iter(k, S, h)
  BY <1>1, <1>2, IterExists
<1>. QED
  BY <1>3, <1>4, SumOfIter

LEMMA FoundSum ==
  ASSUME NEW t, NEW S
  PROVE  T!Total(got[t], S) = SumIn(got[t], S)
<1>1. \A g : CountIter(t, S, g) <=> Iter(got[t], S, g)
  BY Zenon DEF CountIter, Iter
<1>2. T!Total(got[t], S) = (CHOOSE g : CountIter(t, S, g))[S]
  BY Zenon DEF T!Total, T!MapThenSumSet, T!MapThenFoldSet, CountIter, One
<1>3. (CHOOSE g : CountIter(t, S, g)) = (CHOOSE g : Iter(got[t], S, g))
  BY <1>1, Zenon
<1>. QED
  BY <1>2, <1>3 DEF SumIn

LEMMA ChartsTell ==
  ASSUME SeriesInv
  PROVE  T!ChartAccountsForRows
<1>. WindowTyped /\ FoundInWindow /\ AsDrawn
  BY DEF SeriesInv
<1>. SUFFICES ASSUME series # None
              PROVE  T!ChartAccountsForRows
  BY DEF T!ChartAccountsForRows
<1>0. Day \in Nat \ {0} /\ MaxTime \in Nat
  BY SeriesAssumption
<1>1. PICK s, e \in 0 .. MaxTime : s <= e /\ window = <<s, e>>
  BY DEF AsDrawn, WindowTyped
<1>2. PICK q \in Int, p \in Int : q = T!DayOf(s) /\ p = T!DayOf(e) /\ q <= p
  <2>1. s \in Nat /\ e \in Nat /\ s <= e
    BY <1>0, <1>1
  <2>. QED
    BY <2>1, DayBegins, DaysKeepOrder
<1>4. PICK n \in Nat : n = p - q + 1
  BY <1>2
<1>5. series = Chart(q, p) /\ DOMAIN got = Tables
  BY <1>1, <1>2 DEF AsDrawn
<1>6. /\ DOMAIN series = 1 .. n /\ Len(series) = n
      /\ \A i \in 1 .. n :
           /\ series[i].date = q + i - 1
           /\ \A t \in Tables : series[i].slot[t] = OfDay(t, q + i - 1)
  BY <1>4, <1>5 DEF Chart
<1>7. ASSUME NEW t \in Tables
      PROVE  T!DrawnOf(t) = T!Total(got[t], {h \in T!Times : T!DateOf(h) <= p})
  <2>1. PICK f : f = got[t]
    OBVIOUS
  <2>2. PICK H : H = 0 .. MaxTime
    OBVIOUS
  <2>3. IsFiniteSet(H) /\ Ints(f, H)
    <3>1. f \in [H -> Nat]
      BY <1>5, <2>1, <2>2 DEF FoundInWindow
    <3>2. IsFiniteSet(H)
      BY <1>0, <2>2, FS_Interval
    <3>. QED
      BY <3>1, <3>2 DEF Ints
  <2>4. PICK days : days = [h \in H |-> h \div Day]
    OBVIOUS
  <2>a. \A h \in H : days[h] \in Int /\ days[h] = h \div Day
    BY <1>0, <2>2, <2>4, DivisionIs
  <2>5. PICK S \in SUBSET H : S = {h \in H : q <= days[h] /\ days[h] <= p}
    OBVIOUS
  <2>b. PICK W \in SUBSET H : W = {h \in H : days[h] <= p}
    OBVIOUS
  <2>c. IsFiniteSet(W) /\ Ints(f, W) /\ S \in SUBSET W
    BY <2>3, <2>5, <2>b, Parted
  <2>6. SumIn(f, W) = SumIn(f, S)
    <3>1. ASSUME NEW h \in W \ S
          PROVE  f[h] = 0
      <4>1. h \in Nat /\ h \in H /\ ~(s <= h)
        <5>1. h \in Nat /\ h \in H /\ s \in Nat
          BY <1>0, <2>2, <2>b
        <5>2. ~(q <= days[h])
          BY <2>5, <2>b
        <5>3. s <= h => q <= h \div Day
          BY <1>2, <5>1, DateIsReached
        <5>. QED
          BY <2>a, <5>1, <5>2, <5>3
      <4>. QED
        BY <1>1, <1>5, <2>1, <2>2, <4>1 DEF FoundInWindow
    <3>. QED
      BY <2>c, <3>1, SumOfNone
  <2>7. PICK key : key = [h \in S |-> days[h] - q + 1]
    OBVIOUS
  <2>8. IsFiniteSet(1 .. n) /\ \A h \in S : key[h] \in 1 .. n
    <3>2. \A h \in S : key[h] \in 1 .. n
      BY <1>2, <1>4, <2>5, <2>7, <2>a
    <3>. QED
      BY <3>2, FS_Interval
  <2>9. PICK k : k = PartSum(f, key, S, 1 .. n)
    OBVIOUS
  <2>10. SumIn(k, 1 .. n) = SumIn(f, S)
    <3>1. IsFiniteSet(S) /\ Ints(f, S)
      BY <2>3, Parted
    <3>. QED
      BY <2>8, <2>9, <3>1, SumOfParts
  <2>11. \A i \in 1 .. n : series[i].slot[t] = k[i]
    <3> SUFFICES ASSUME NEW i \in 1 .. n
                 PROVE  series[i].slot[t] = k[i]
      OBVIOUS
    <3>2. {h \in S : key[h] = i} = {h \in H : h \div Day = q + i - 1}
      BY <1>2, <1>4, <2>5, <2>7, <2>a
    <3>3. k[i] = SumIn(f, {h \in S : key[h] = i})
      BY <2>9 DEF PartSum
    <3>. QED
      BY <1>6, <2>1, <2>2, <3>2, <3>3 DEF OfDay
  <2>12. T!DrawnOf(t) = SumIn(k, 1 .. n)
    BY <1>6, <2>8, <2>11, DrawnSum
  <2>13. T!Total(got[t], W) = SumIn(f, W)
    BY <2>1, FoundSum
  <2>14. W = {h \in T!Times : T!DateOf(h) <= p}
    BY <2>2, <2>a, <2>b DEF T!Times, T!DateOf
  <2>. QED
    BY <2>6, <2>10, <2>12, <2>13, <2>14, Zenon
<1>8. DOMAIN series = 1 .. n /\ window[1] = s /\ window[2] = e
  BY <1>1, <1>6
<1>. QED
  BY <1>2, <1>4, <1>6, <1>7, <1>8 DEF T!ChartAccountsForRows

(***************************************************************************)
(* The steps of the chart keep that, and so every row is accounted for.    *)
(***************************************************************************)

LEMMA SeriesStarts == T!Init => SeriesInv
<1> SUFFICES ASSUME T!Init PROVE SeriesInv
  OBVIOUS
<1>1. RowsTyped
  BY SeriesAssumption DEF T!Init, T!Nothing, T!Times, RowsTyped
<1>2. WindowTyped /\ AsDrawn
  BY DEF T!Init, WindowTyped, AsDrawn
<1>3. DOMAIN got = {}
  BY DEF T!Init
<1>. QED
  BY <1>1, <1>2, <1>3 DEF SeriesInv, FoundInWindow

LEMMA SeriesKeeps ==
  ASSUME SeriesInv, T!Next \/ UNCHANGED ofSeries
  PROVE  SeriesInv'
<1>. RowsTyped /\ WindowTyped /\ FoundInWindow /\ AsDrawn
  BY DEF SeriesInv
<1>0. Day \in Nat \ {0} /\ MaxTime \in Nat
  BY SeriesAssumption
<1>1. ASSUME UNCHANGED <<window, got, series>>
      PROVE  WindowTyped' /\ FoundInWindow' /\ AsDrawn'
  <2>1. WindowTyped' /\ FoundInWindow'
    BY <1>1 DEF WindowTyped, FoundInWindow
  <2>2. PICK C : C = Chart(T!DayOf(window[1]), T!DayOf(window[2]))
    OBVIOUS
  <2>3. C = Chart(T!DayOf(window[1]), T!DayOf(window[2]))'
    BY <1>1, <2>2 DEF Chart, OfDay, SumIn, Iter, T!DayOf, T!DateOf, T!Midnight
  <2>. QED
    BY <1>1, <2>1, <2>2, <2>3 DEF AsDrawn
<1>2. CASE UNCHANGED ofSeries
  BY <1>1, <1>2 DEF ofSeries, RowsTyped, SeriesInv
<1>3. CASE T!Tick
  BY <1>0, <1>1, <1>3 DEF T!Tick, RowsTyped, SeriesInv
<1>4. ASSUME NEW t \in Tables, T!Create(t)
      PROVE  SeriesInv'
  <2>1. RowsTyped'
    BY <1>0, <1>4 DEF T!Create, RowsTyped
  <2>. QED
    BY <1>1, <1>4, <2>1 DEF T!Create, SeriesInv
<1>5. ASSUME NEW start \in T!Times, NEW end \in T!Times, T!Ask(start, end)
      PROVE  SeriesInv'
  <2>1. /\ window = None /\ start <= end /\ window' = <<start, end>> /\ DOMAIN got' = {}
        /\ UNCHANGED <<now, rows, series>>
    BY <1>5 DEF T!Ask
  <2>2. RowsTyped' /\ WindowTyped' /\ FoundInWindow'
    BY <2>1 DEF RowsTyped, WindowTyped, FoundInWindow, T!Times
  <2>3. AsDrawn'
    BY <2>1 DEF AsDrawn
  <2>. QED
    BY <2>2, <2>3 DEF SeriesInv
<1>6. ASSUME NEW t \in Tables, T!Read(t)
      PROVE  SeriesInv'
  <2>1. /\ window # None /\ series = None
        /\ UNCHANGED <<now, rows, window, series>>
    BY <1>6 DEF T!Read
  <2>2. PICK s, e \in 0 .. MaxTime : s <= e /\ window = <<s, e>>
    BY <2>1 DEF WindowTyped
  <2>3. PICK f : f = [h \in 0 .. MaxTime |-> IF s <= h /\ h <= e THEN rows[t][h] ELSE 0]
    OBVIOUS
  <2>4. f \in [0 .. MaxTime -> Nat]
    BY <2>3 DEF RowsTyped
  <2>5. got' = [u \in DOMAIN got \cup {t} |-> IF u = t THEN f ELSE got[u]]
    BY <1>6, <2>2, <2>3 DEF T!Read, T!Within, T!Times
  <2>6. FoundInWindow'
    <3>1. DOMAIN got' = DOMAIN got \cup {t} /\ got'[t] = f
          /\ \A u \in DOMAIN got \ {t} : got'[u] = got[u]
      BY <2>5
    <3>2. \A h \in 0 .. MaxTime : f[h] # 0 => window[1] <= h /\ h <= window[2]
      BY <2>2, <2>3
    <3>. QED
      BY <2>1, <2>4, <3>1, <3>2 DEF FoundInWindow
  <2>7. RowsTyped' /\ WindowTyped' /\ AsDrawn'
    BY <2>1 DEF RowsTyped, WindowTyped, AsDrawn
  <2>. QED
    BY <2>6, <2>7 DEF SeriesInv
<1>7. CASE T!Draw
  <2>1. /\ window # None /\ DOMAIN got = Tables /\ series' = T!Drawn
        /\ UNCHANGED <<now, rows, window, got>>
    BY <1>7 DEF T!Draw
  <2>2. PICK s, e \in 0 .. MaxTime : s <= e /\ window = <<s, e>>
    BY <2>1 DEF WindowTyped
  <2>3. PICK C : C = Chart(T!DayOf(s), T!DayOf(e))
    OBVIOUS
  <2>4. series' = C
    BY <2>1, <2>2, <2>3, DrawnIs
  <2>5. C = Chart(T!DayOf(s), T!DayOf(e))'
    BY <2>1, <2>3 DEF Chart, OfDay, SumIn, Iter
  <2>6. AsDrawn'
    <3>1. window'[1] = s /\ window'[2] = e
      BY <2>1, <2>2
    <3>. QED
      BY <2>1, <2>4, <2>5, <3>1 DEF AsDrawn
  <2>7. RowsTyped' /\ WindowTyped' /\ FoundInWindow'
    BY <2>1 DEF RowsTyped, WindowTyped, FoundInWindow
  <2>. QED
    BY <2>6, <2>7 DEF SeriesInv
<1>8. CASE T!Close
  <2>1. /\ window' = None /\ DOMAIN got' = {} /\ series' = None /\ UNCHANGED <<now, rows>>
    BY <1>8 DEF T!Close
  <2>. QED
    BY <2>1 DEF SeriesInv, RowsTyped, WindowTyped, FoundInWindow, AsDrawn
<1>. QED
  BY <1>2, <1>3, <1>4, <1>5, <1>6, <1>7, <1>8 DEF T!Next

LEMMA SeriesStep ==
  ASSUME part = "series" => SeriesInv,
         [CheckNext]_everything
  PROVE  (part = "series" => SeriesInv)'
<1>1. SUFFICES ASSUME part' = "series" PROVE SeriesInv'
  OBVIOUS
<1>2. part = "series" /\ (T!Next \/ UNCHANGED ofSeries)
  BY <1>1 DEF CheckNext, SeriesCheck, everything
<1>. QED
  BY <1>2, SeriesKeeps

(* ChartAccountsForRows for any tables, length of the day, range and       *)
(* time zone of the server: one slot a date, and a row that a query found  *)
(* is counted in one of them, unless its date had not begun there.         *)
THEOREM RowsAccountedFor == CheckSpec => []ChartAccountsForRows
<1>1. CheckInit => (part = "series" => SeriesInv)
  BY SeriesStarts DEF CheckInit
<1>2. (part = "series" => SeriesInv) /\ [CheckNext]_everything
        => (part = "series" => SeriesInv)'
  BY SeriesStep
<1>3. (part = "series" => SeriesInv) => ChartAccountsForRows
  BY ChartsTell DEF ChartAccountsForRows
<1>. QED
  BY <1>1, <1>2, <1>3, PTL DEF CheckSpec
=============================================================================
