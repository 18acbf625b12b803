----------------------------- MODULE MCPayments -----------------------------
(***************************************************************************)
(* Payments on small instances: operators o1, o2 and a brand user b who    *)
(* owns every campaign.  Three people are the fewest who can prepare,      *)
(* approve and release.  10 NPR at 14 or 15 percent falls on both sides of *)
(* a half: the commission is 1 or 2.                                       *)
(***************************************************************************)
EXTENDS Payments, TLC

CONSTANTS o1, o2, b

OpsModel == {o1, o2}
OwnerModel == [a \in Apps |-> b]

OpsSymmetry == Permutations(OpsModel) \cup Permutations(Requests)

(***************************************************************************)
(* Claims of the source that the code breaks: the first one where requests *)
(* overlap, the second one without any overlap.                            *)
(***************************************************************************)

(* payment.service.ts:15 "A single operator can never both prepare and     *)
(* approve/release a payment."                                             *)
NeverPreparerAndApprover ==
  \A a \in Apps : payment[a].approvedBy # None =>
    payment[a].approvedBy # payment[a].preparedBy


=============================================================================
