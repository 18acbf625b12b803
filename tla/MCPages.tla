------------------------------ MODULE MCPages ------------------------------
(***************************************************************************)
(* The portals' pages on a small instance: one row of each kind, with the  *)
(* things a page shows changing under it (PortalPages); and the pages that *)
(* edit a record (FormPages).  Either part is a behaviour of its own.      *)
(***************************************************************************)
EXTENDS PortalPages, TLC

CONSTANTS
  Parts,        \* which of "portal" and "forms"
  Fields, Sticky, Values, Default, Empty,
  MaxWork,      \* how often work is submitted
  MaxSends      \* how many calls of forms are under way

VARIABLES
  part,
  kind, stored, flag, kept, progress, badge, form, sends, typed, foreign, recalled, told

Forms == INSTANCE FormPages WITH Kinds <- {"creator", "brand", "settings"}

portal == vars
formSide == <<kind, stored, flag, kept, progress, badge, form, sends,
              typed, foreign, recalled, told>>

(* A campaign whose payouts are worked on is still recruiting: what it     *)
(* does afterwards changes none of them.  An application that is not       *)
(* accepted is one in two ways: not yet, and no longer.                    *)
Paying == page \in {"payouts", "finance"}

Elsewhere ==
  \/ page \in {"discover", "campaigns", "applications", "received"} /\ ElsewhereCampaigns
  \/ Paying /\ (ElsewhereCampaigns \/ ElsewherePayouts)
  \/ page = "users" /\ ElsewhereAccounts
  \/ page = "verifications" /\ ElsewhereQueue

PortalCheck ==
  /\ part = "portal"
  /\ PageSteps \/ Elsewhere
  /\ \A k \in calls' : k.button.do = "role" => k.button.to \in {"creator", "brand"}
  /\ \A a \in Accounts : rank'[a] \in {"creator", "brand"}
  /\ \A p \in Pairs : work'[p] <= IF Paying THEN 0 ELSE MaxWork
  /\ Paying =>
       /\ \A c \in Campaigns : stage'[c] \in {"NONE", "DRAFT", "RECRUITING"}
       /\ \A p \in Pairs : application'[p] \in {"NONE", "PENDING", "ACCEPTED", "REJECTED"}
  /\ UNCHANGED <<part, formSide>>

FormsCheck ==
  /\ part = "forms"
  /\ Forms!FormNext
  /\ Cardinality(sends') <= MaxSends
  /\ Cardinality({k \in sends' : ~k.here}) <= 1
  /\ flag' # "REJECTED"                        \* as UNVERIFIED, to the pages
  /\ Sticky \cap foreign' = {} \/ foreign' = Fields
  /\ kind # "settings" /\ stored' # stored => sends' # sends   \* no other page of theirs
  /\ UNCHANGED <<part, portal>>

(* The part that does not run stays in one of its initial states.          *)
CheckInit ==
  /\ part \in Parts
  /\ Init /\ Forms!FormInit
  /\ part # "forms" => kind = "creator" /\ stored = [f \in Fields |-> Empty]
  /\ part # "portal" =>
       /\ role = CHOOSE r \in Roles : TRUE
       /\ page = CHOOSE p \in Pages : role \in Allowed(p)

CheckNext == PortalCheck \/ FormsCheck
CheckSpec == CheckInit /\ [][CheckNext]_<<part, portal, formSide>>

(* Calls differ by their slot only.                                        *)
AnySlot == Permutations(Slots)

(* What belongs together is checked as one.                                *)
PagesFollowTheServer ==
  /\ PagesTypeOK /\ PagesMayRead /\ OffersAreAccepted
  /\ role \in ADMIN_CONSOLE_ROLES => NavigationLeadsIn
FormTellsRecord ==
  Forms!FormsTypeOK /\ Forms!FormTellsRecord /\ Forms!BadgeFollowsSubmission

=============================================================================
