---------------------------- MODULE MCCampaigns ----------------------------
(***************************************************************************)
(* Campaigns and the conversations about them on small instances: the two  *)
(* overlapping requests that an interference takes, around one campaign    *)
(* and its applicant (Campaigns) or among three members (Messaging).  The  *)
(* two share no state; a run explores one of them at a time.               *)
(***************************************************************************)
EXTENDS Campaigns, FiniteSets, TLC

CONSTANTS
  Parts, Rows, Subjects,
  Members,       \* the users of Messaging
  MaxMessages    \* how many messages a member gets

ASSUME MembersAssumption ==
  Rows \subseteq Nat /\ IsFiniteSet(Requests) /\ None \notin Members \cup Rows

VARIABLES
  part, handling,
  members, subject, incoming, seen, unread, noticed, twinned, skewed, untold

M == INSTANCE Messaging WITH Users <- Members, request <- handling

ofMessaging ==
  <<handling, members, subject, incoming, seen, unread, noticed,
    twinned, skewed, untold>>

Symmetry == Permutations(Requests)

-----------------------------------------------------------------------------
(* One member only reads; the others talk to each other, with or without   *)
(* it.  Messages are sent while there is one conversation and no other is  *)
(* being created: conversations leave each other alone.                    *)
Listener == CHOOSE u \in Members : TRUE
Talker(q) ==
  /\ q.at \in {"creating", "bumping"} => q.who # Listener
  /\ q.at = "creating" => q.val \in {Members, Members \ {Listener}}
Talked == \E u \in Members : incoming[1][u] > 0
Alone == members[2] = {} /\ \A r \in Requests : handling[r].at # "creating"

MessagingCheck ==
  /\ M!Next
  /\ \A c \in Rows, u \in Members : incoming'[c][u] <= MaxMessages
  /\ \A r \in Requests : Talker(handling'[r])
  /\ Talked' => Alone'

(* An edit touches nothing that an application has: the brand edits, in    *)
(* time or late, as long as nobody has applied.                            *)
Edited ==
  \E c \in Campaigns : late[c] > 0 \/ EditsOf(c) # {}
CampaignsCheck ==
  /\ Next
  /\ Edited' => \A p \in DOMAIN application : application'[p] = "NONE"

CheckInit == part \in Parts /\ Init /\ M!Init

CheckNext ==
  \/ part = "campaigns" /\ CampaignsCheck /\ UNCHANGED <<part, ofMessaging>>
  \/ part = "messaging" /\ MessagingCheck /\ UNCHANGED <<part, vars>>

CheckSpec == CheckInit /\ [][CheckNext]_<<part, vars, ofMessaging>>

-----------------------------------------------------------------------------
(* The properties of Messaging, its type invariant with them.              *)
UnreadTellsUnseen == part = "messaging" => M!TypeOK /\ M!UnreadTellsUnseen
OnePerPair == part = "messaging" => M!OnePerPair /\ M!OneNoticeEach

=============================================================================
