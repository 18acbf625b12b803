----------------------------- MODULE MCBrowser -----------------------------
(***************************************************************************)
(* What runs in a browser, on small instances: a tab with its session      *)
(* (ApiClient over Sessions) and the messages page (MessagesPage); and,    *)
(* beneath the tab, overlapping requests of any kind about the sessions of *)
(* one user (Sessions).  A run explores one part at a time.                *)
(***************************************************************************)
EXTENDS ApiClient, Sequences, FiniteSets, TLC

CONSTANTS
  Parts,
  Convs, Calls,
  MaxWork,       \* how many pairs are issued, and versions passed, when they do
  MaxRows        \* how many messages there are

ASSUME MessagesAssumption == None \notin Convs \cup Seq(Convs \X Nat)

VARIABLES
  part,
  linked, opened, list, active, messages, loading, loadError, text, sending,
  flight, stored, choice, skewed

Messages == INSTANCE MessagesPage

ofMessages ==
  <<linked, opened, list, active, messages, loading, loadError, text, sending,
    flight, stored, choice, skewed>>
everything == <<part, all, ofMessages>>

-----------------------------------------------------------------------------
(* Every pair of tokens that a request might issue has to be there.        *)
Left == Cardinality({t \in Tokens : ~Issued(t)})
InFlight == Cardinality({r \in Requests : call[r] # NoCall \/ request[r] # Idle})

CheckStart(r) == InFlight < Left /\ Start(r)
CheckElsewhere == InFlight <= Left /\ Elsewhere

ClientCheck ==
  \/ Mount \/ Reload
  \/ \E r \in Requests : CheckStart(r) \/ Proceed(r) \/ ServeFails(r)
  \/ CheckElsewhere

(* One pair at most grows old: a token's age bears on no other.            *)
SessionsCheck ==
  /\ Next
  /\ \A u \in Users : Cardinality({t \in Tokens : owner'[t] # None}) + version'[u] <= MaxWork
  /\ \A s, t \in Tokens : age'[s] # "fresh" /\ age'[t] # "fresh" => s = t

MessagesCheck == Messages!PageNext /\ Cardinality(Messages!AllStored') <= MaxRows

CheckInit ==
  /\ part \in Parts
  /\ ClientInit /\ Messages!PageInit
  /\ part # "messages" => linked = None

CheckNext ==
  \/ part = "sessions" /\ SessionsCheck
     /\ UNCHANGED <<part, tab, past, ofMessages>>
  \/ part = "client" /\ ClientCheck /\ UNCHANGED <<part, ofMessages>>
  \/ part = "messages" /\ MessagesCheck /\ UNCHANGED <<part, all>>

CheckSpec ==
  /\ CheckInit /\ [][CheckNext]_everything
  /\ \A r \in Requests : WF_all(part = "client" /\ Proceed(r))

-----------------------------------------------------------------------------
(* The properties of the modules, the type invariants and some that belong *)
(* together as one.                                                        *)
ShowsTheThread ==
  Messages!PageTypeOK /\ Messages!NothingUnfetched /\ Messages!ShowsTheThread
KeepsTheChoice == Messages!KeepsTheChoice

=============================================================================
