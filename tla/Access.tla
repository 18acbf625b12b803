------------------------------- MODULE Access -------------------------------
(***************************************************************************)
(* Who may see and do what.  It is written down four times: the permission *)
(* table of packages/shared/src/domain.ts with RolesGuard and the role     *)
(* checks of the services, which decide; and the guards and the navigation *)
(* of the portals, which only follow.                                      *)
(***************************************************************************)
UserRoles == {"creator", "brand", "admin", "manager", "qa", "finance"}
ADMIN_CONSOLE_ROLES == {"admin", "manager", "qa", "finance"}
INTERNAL_ROLES == ADMIN_CONSOLE_ROLES

-----------------------------------------------------------------------------
(* The server.                                                             *)
MessagePermissions == {"messages.read", "messages.write"}
ReviewPermissions ==
  {"applications.read", "applications.review", "submissions.review", "submissions.approve"}
CampaignPermissions ==
  {"campaigns.read", "campaigns.write", "campaigns.review", "campaigns.publish"}
TaskPermissions == {"tasks.read", "tasks.write"}
PaymentPermissions == {"payments.read", "payments.write", "payments.approve"}
ProfilePermissions == {"creators.read", "creators.write", "brands.read", "brands.write"}

PERMISSIONS ==
  {"users.read", "users.write", "creators.verify", "brands.verify", "settings.read",
   "settings.write", "reports.read", "audit.read"}
    \cup MessagePermissions \cup ReviewPermissions \cup CampaignPermissions
    \cup TaskPermissions \cup PaymentPermissions \cup ProfilePermissions

ROLE_PERMISSIONS ==
  [creator |-> {"creators.write", "campaigns.read", "applications.read", "payments.read"}
                 \cup MessagePermissions,
   brand   |-> {"brands.write", "creators.read", "payments.read"}
                 \cup CampaignPermissions \cup ReviewPermissions \cup MessagePermissions,
   manager |-> {"users.read", "payments.read", "messages.read", "reports.read"}
                 \cup ProfilePermissions \cup CampaignPermissions
                 \cup ReviewPermissions \cup TaskPermissions,
   qa      |-> {"campaigns.read", "applications.read", "submissions.review",
                "submissions.approve", "messages.read", "reports.read"} \cup TaskPermissions,
   finance |-> {"campaigns.read", "reports.read", "messages.read", "tasks.read"}
                 \cup PaymentPermissions,
   admin   |-> PERMISSIONS]

(* An endpoint's decorators, and the roles its service serves.             *)
Endpoint(roles, permissions, served) ==
  [roles |-> roles, permissions |-> permissions, served |-> served]
Undecorated(served) == Endpoint(UserRoles, {}, served)
ofAdmin(permission) == Endpoint(INTERNAL_ROLES, {permission}, UserRoles)

canActivate(r, e) == r \in e.roles /\ e.permissions \subseteq ROLE_PERMISSIONS[r]
Serves(e, r) == canActivate(r, e) /\ r \in e.served

(* The lists that pages ask for.                                           *)
EndpointOf(l) ==
  CASE l = "my_applications"          -> Undecorated({"creator"})
    [] l \in {"received", "payable"}  -> Undecorated({"brand", "admin", "manager"})
    [] l = "received_payments"        -> Undecorated({"creator"})
    [] l = "payments"                 -> Undecorated({"creator", "brand", "admin", "finance"})
    [] l = "invoices"                 -> Undecorated({"brand", "admin", "finance", "manager"})
    [] l = "queued_payments"          -> Undecorated({"admin", "finance", "manager"})
    [] l \in {"platform", "series"}   -> Undecorated({"admin", "manager"})
    [] l = "totals"                   -> Endpoint({"admin", "finance"}, {"payments.read"}, UserRoles)
    [] l = "users"                    -> ofAdmin("users.read")
    [] l = "all_campaigns"            -> ofAdmin("campaigns.read")
    [] l = "queue"                    -> ofAdmin("creators.verify")
    [] l = "report"                   -> ofAdmin("reports.read")
    [] l = "settings"                 -> ofAdmin("settings.read")
    [] l = "audit_log"                -> ofAdmin("audit.read")
    [] OTHER                          -> Undecorated(UserRoles)

MayRead(r, l) == Serves(EndpointOf(l), r)

(* What an administrator does to accounts and verification requests.       *)
MayDo(r, do) ==
  CASE do \in {"status", "role"} -> Serves(ofAdmin("users.write"), r)
    [] do = "verify_creator"     -> Serves(ofAdmin("creators.verify"), r)
    [] do = "verify_brand"       -> Serves(ofAdmin("brands.verify"), r)

-----------------------------------------------------------------------------
(* The portals: whom RequireAuth lets onto a page, and what it asks for.   *)
CreatorPages ==
  {"creator_home", "discover", "applications", "earnings", "creator_inbox", "creator_profile"}
BrandPages ==
  {"brand_home", "campaigns", "received", "payouts", "brand_inbox", "brand_profile"}
AdminPages ==
  {"console", "analytics", "users", "all_campaigns", "verifications", "finance",
   "settings", "audit"}
Pages == CreatorPages \cup BrandPages \cup AdminPages

FinanceRolesWider == {"admin", "finance", "manager"}   \* a mutant
FinanceRoles == {"admin", "finance"}

Allowed(p) ==
  CASE p \in CreatorPages                               -> {"creator"}
    [] p \in BrandPages                                 -> {"brand"}
    [] p = "users"                                      -> {"admin", "manager"}
    [] p \in {"verifications", "settings", "audit"}     -> {"admin"}
    [] p = "finance"                                    -> FinanceRoles
    [] p \in {"console", "analytics", "all_campaigns"}  -> ADMIN_CONSOLE_ROLES

(* The console asks for the totals only where it thinks they are given.    *)
canSeeFinance(r) == r \in {"admin", "finance"}

Lists(p, r) ==
  CASE p = "creator_home"  -> {"my_applications", "open_campaigns", "summary", "activity"}
    [] p = "discover"      -> {"open_campaigns"}
    [] p = "applications"  -> {"my_applications"}
    [] p = "earnings"      -> {"received_payments", "summary"}
    [] p = "brand_home"    -> {"my_campaigns", "my_brand", "received", "summary", "activity"}
    [] p = "campaigns"     -> {"my_campaigns", "summary"}
    [] p = "received"      -> {"received"}
    [] p = "payouts"       -> {"summary", "payments", "invoices", "payable"}
    [] p \in {"creator_inbox", "brand_inbox"} -> {"conversations"}
    [] p = "creator_profile" -> {"my_profile"}
    [] p = "brand_profile" -> {"my_brand"}
    [] p = "console"       -> {"report"} \cup {l \in {"totals"} : canSeeFinance(r)}
    [] p = "analytics"     -> {"platform", "series"}
    [] p = "users"         -> {"users"}
    [] p = "all_campaigns" -> {"all_campaigns"}
    [] p = "verifications" -> {"queue"}
    [] p = "finance"       -> {"totals", "queued_payments"}
    [] p = "settings"      -> {"settings"}
    [] p = "audit"         -> {"audit_log"}

(* The entries of the console's navigation that carry roles of their own;  *)
(* the others are everybody's.                                             *)
ADMIN_NAV ==
  [users |-> {"admin", "manager"}, verifications |-> {"admin"},
   finance |-> {"admin", "finance"}, settings |-> {"admin"}, audit |-> {"admin"}]
adminNavFor(r) ==
  {p \in AdminPages : p \in DOMAIN ADMIN_NAV => r \in ADMIN_NAV[p]}

=============================================================================
