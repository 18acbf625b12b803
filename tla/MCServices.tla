----------------------------- MODULE MCServices -----------------------------
(***************************************************************************)
(* Three of the API's services on small instances: accounts and their      *)
(* codes (Codes), disputes and tasks (Disputes), profiles and their        *)
(* verification (Profiles).  They keep tables of their own, so a run       *)
(* explores the behaviours of one of them at a time.                       *)
(***************************************************************************)
EXTENDS Codes, Disputes, Profiles, TLC

CONSTANT Parts
VARIABLE part

ofCodes == <<users, codes, history>>
ofDisputes == <<disputes, audited, tasks, disputesPast>>
ofProfiles == <<profiles, reviews, profilesPast>>

Symmetry == Permutations(Requests)

-----------------------------------------------------------------------------
CheckInit == part \in Parts /\ Init /\ DisputesInit /\ ProfilesInit

CheckNext ==
  \/ part = "codes" /\ Next /\ UNCHANGED <<part, ofDisputes, ofProfiles>>
  \/ part = "disputes" /\ DisputesNext /\ UNCHANGED <<part, ofCodes, ofProfiles>>
  \/ part = "profiles" /\ ProfilesNext /\ UNCHANGED <<part, ofCodes, ofDisputes>>

CheckSpec == CheckInit /\ [][CheckNext]_<<part, vars, ofDisputes, ofProfiles>>

-----------------------------------------------------------------------------
(* The properties of disputes and of profiles, each where it is explained, *)
(* those that belong together as one, in the part they are about; those of *)
(* Codes are checked as they are.                                          *)
DisputesAreDue == part = "disputes" => DisputesTypeOK /\ OneOpenDispute /\ OpenIsDue
ResolvedAreDone == part = "disputes" => ResolvedIsDone /\ CompletedIsDone
ProfilesAreLinked == part = "profiles" => ProfilesTypeOK /\ LinksMatchProfile
VerdictsAreTold == part = "profiles" => OneQueued /\ FlagTellsVerdict

=============================================================================
