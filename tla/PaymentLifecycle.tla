-------------------------- MODULE PaymentLifecycle --------------------------
(***************************************************************************)
(* What the payment service promises for each payout, with every decision  *)
(* taken in one step: the maker-checker lifecycle of the comments at the   *)
(* top of backend/src/payment/payment.service.ts.  One person prepares, a  *)
(* second approves, a third releases; what is pending or approved may fail *)
(* or be cancelled or refunded, and may then be prepared again, on new     *)
(* terms and by anyone entitled to.  HeaderSpec is that lifecycle.         *)
(*                                                                         *)
(* The service also corrects what the header calls final; Spec is the      *)
(* lifecycle with these corrections, the one that the service implements.  *)
(***************************************************************************)
CONSTANTS
  Apps,       \* what is paid for
  Ops,        \* the operators
  Owner,      \* Owner[a]: the brand user who may also prepare a's payout
  Terms,      \* what a preparation can settle: amount and commission
  NoTerms,
  None

VARIABLES
  stage,      \* where the payout of each application stands
  terms,      \* what was agreed when it was prepared
  maker, checker, payer   \* who prepared, approved and released it

lifecycle == <<stage, terms, maker, checker, payer>>

Undone == {"FAILED", "CANCELLED", "REFUNDED"}

Init ==
  /\ stage = [a \in Apps |-> "NONE"]
  /\ terms = [a \in Apps |-> NoTerms]
  /\ maker = [a \in Apps |-> None]
  /\ checker = [a \in Apps |-> None]
  /\ payer = [a \in Apps |-> None]

(* What each decision needs, and of whom.                                  *)
CanPrepare(a, u) == u \in Ops \cup {Owner[a]} /\ stage[a] \in Undone \cup {"NONE"}
CanApprove(a, u) == u \in Ops /\ stage[a] = "PENDING" /\ u # maker[a]
CanRelease(a, u) == u \in Ops /\ stage[a] = "APPROVED" /\ u \notin {maker[a], checker[a]}

Prepare(a, u, t) ==
  /\ CanPrepare(a, u)
  /\ stage' = [stage EXCEPT ![a] = "PENDING"]
  /\ terms' = [terms EXCEPT ![a] = t]
  /\ maker' = [maker EXCEPT ![a] = u]
  /\ checker' = [checker EXCEPT ![a] = None]
  /\ payer' = [payer EXCEPT ![a] = None]

Approve(a, u) ==
  /\ CanApprove(a, u)
  /\ stage' = [stage EXCEPT ![a] = "APPROVED"]
  /\ checker' = [checker EXCEPT ![a] = u]
  /\ UNCHANGED <<terms, maker, payer>>

Release(a, u) ==
  /\ CanRelease(a, u)
  /\ stage' = [stage EXCEPT ![a] = "PAID"]
  /\ payer' = [payer EXCEPT ![a] = u]
  /\ UNCHANGED <<terms, maker, checker>>

(* A disbursement that fails, or an operator's decision.                   *)
Undo(a, s) ==
  /\ stage[a] \in {"PENDING", "APPROVED"}
  /\ s \in Undone
  /\ stage' = [stage EXCEPT ![a] = s]
  /\ UNCHANGED <<terms, maker, checker, payer>>

(* An operator's correction of what was paid, or undone before: the header *)
(* knows no such move, and the service asks for no stage.                  *)
Correct(a, s) ==
  /\ stage[a] \in Undone \cup {"PAID"}
  /\ s \in Undone
  /\ stage' = [stage EXCEPT ![a] = s]
  /\ UNCHANGED <<terms, maker, checker, payer>>

HeaderNext ==
  \E a \in Apps :
    \/ \E u \in Ops \cup {Owner[a]}, t \in Terms : Prepare(a, u, t)
    \/ \E u \in Ops : Approve(a, u) \/ Release(a, u)
    \/ \E s \in Undone : Undo(a, s)
HeaderSpec == Init /\ [][HeaderNext]_lifecycle

Next == HeaderNext \/ \E a \in Apps, s \in Undone : Correct(a, s)
Spec == Init /\ [][Next]_lifecycle

=============================================================================
