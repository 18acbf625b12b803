------------------------------ MODULE MCTurns ------------------------------
(***************************************************************************)
(* Campaigns on small instances whose requests take turns.  In one part    *)
(* there is one applicant, and what a handler does after its last write,   *)
(* such as its notices, may overlap with the next request.  In the other,  *)
(* "reliable", one request at a time is served for two applicants and      *)
(* nothing fails.                                                          *)
(***************************************************************************)
EXTENDS Campaigns

CONSTANT Parts
VARIABLE part

SerialEndpoints ==
  {"update", "transition", "apply", "withdraw", "review", "submit"}

R == INSTANCE Campaigns
  WITH MaxSubmissions <- 0, Moves <- {"RECRUITING", "SHORTLISTING", "PRODUCTION"},
       Endpoints <- {"update", "transition", "apply", "review"}

Applicant == CHOOSE k \in Creators : TRUE
Turn == CHOOSE r \in Requests : TRUE

TurnsCheck ==
  SerialNext /\ \A r \in Requests : request'[r].who \in {None, Applicant}
ReliableCheck ==
  R!ReliableNext /\ \A r \in Requests \ {Turn} : request'[r].at = "idle"

CheckInit == part \in Parts /\ Init

CheckNext ==
  /\ UNCHANGED part
  /\ \/ part = "turns" /\ TurnsCheck
     \/ part = "reliable" /\ ReliableCheck

(* The fairness is that of ReliableSpec: a handler whose await is done     *)
(* goes on.                                                                *)
CheckSpec ==
  /\ CheckInit /\ [][CheckNext]_<<part, vars>>
  /\ WF_vars(part = "reliable" /\ R!Continue(Turn))

(* A move that is not cut short tells everyone it found; stated by         *)
(* EveryoneTold for transition(), where nothing fails.                     *)
ApplicantsAreTold == part = "reliable" => EveryoneTold

=============================================================================
