----------------------------- MODULE Messaging -----------------------------
(***************************************************************************)
(* Conversations, messages, unread counters and the notices of messages:   *)
(* backend/src/messaging/messaging.service.ts with notify() of             *)
(* notification.service.ts, used the way the messages page uses them.      *)
(*                                                                         *)
(* A conversation's members never change, so the reads that check and list *)
(* them are no steps of their own.  Messages are counted, by whom they are *)
(* for.  The socket gateway relays what is stored, to no page that listens.*)
(***************************************************************************)
EXTENDS Serving

CONSTANT Subjects   \* a campaign, or none

VARIABLES
  members,    \* who takes part in a conversation, {} before it is inserted
  subject,    \* the campaign it is about
  incoming,   \* how many messages of others a member has got
  seen,       \* how many of them a page that marked them read had shown
  unread,     \* the member's unreadCount
  noticed,    \* how many NEW_MESSAGE notices the member has got
  twinned,    \* history: <<g, m>> that two requests were creating at once
  skewed,     \* history: <<c, u>> whose last reading overlapped a sending
  untold      \* history: <<c, u>> whom a sending that died left untold

conversations == <<members, subject>>
counters == <<incoming, seen, unread, noticed>>
history == <<twinned, skewed, untold>>
vars == <<conversations, counters, history, request>>

Zero == [c \in Rows |-> [u \in Users |-> 0]]

Init ==
  /\ members = [c \in Rows |-> {}]
  /\ subject = [c \in Rows |-> None]
  /\ incoming = Zero /\ seen = Zero /\ unread = Zero /\ noticed = Zero
  /\ twinned = {} /\ skewed = {} /\ untold = {}
  /\ NoneServed

Created == {c \in Rows : members[c] # {}}
Others(c, u) == members[c] \ {u}
Raised(counter, c, us) ==
  [counter EXCEPT ![c] = [u \in Users |-> IF u \in us THEN @[u] + 1 ELSE @[u]]]

-----------------------------------------------------------------------------
(***************************************************************************)
(* POST /conversations: find one about the campaign with nobody but these  *)
(* people.  The query returns one of those, and if it lacks somebody a new *)
(* conversation is created, also when another one has them all.            *)
(***************************************************************************)
AlwaysNew(g, m) == TRUE               \* a mutant: no look at what there is
NotFound(g, m) ==
  LET some == {c \in Created : subject[c] = g /\ members[c] \subseteq m}
  IN some = {} \/ \E c \in some : members[c] # m

CreateFind(r, u, g, m) ==
  /\ Starts(r)
  /\ u \in m /\ m # {u}
  /\ NotFound(g, m)
  /\ twinned' = IF \E s \in Requests : request[s].at = "creating"
                                       /\ request[s].on = g /\ request[s].val = m
                THEN twinned \cup {<<g, m>>} ELSE twinned
  /\ Becomes(r, Waiting("creating", u, g, m))
  /\ UNCHANGED <<conversations, counters, skewed, untold>>

CreateWrite(r) ==
  LET q == request[r] IN
  /\ q.at = "creating"
  /\ \E c \in Rows :
       /\ IsNext(c, Created)
       /\ members' = [members EXCEPT ![c] = q.val]
       /\ subject' = [subject EXCEPT ![c] = q.on]
  /\ Ends(r)
  /\ UNCHANGED <<counters, history>>

-----------------------------------------------------------------------------
(***************************************************************************)
(* POST /conversations/:id/messages: the message, one await later the      *)
(* counters of the others in a transaction, then a notice to each of them. *)
(***************************************************************************)
Sending(c) == {r \in Requests : request[r].at = "bumping" /\ request[r].on = c}

SendMessage(r, u, c) ==
  /\ Starts(r)
  /\ u \in members[c]
  /\ incoming' = Raised(incoming, c, Others(c, u))
  /\ Becomes(r, Waiting("bumping", u, c, None))
  /\ UNCHANGED <<conversations, seen, unread, noticed, history>>

BumpedAll(c, u) == Raised(unread, c, members[c])  \* a mutant: the sender's too
Bumped(c, u) == Raised(unread, c, Others(c, u))

BumpWrite(r) ==
  LET q == request[r] IN
  /\ q.at = "bumping"
  /\ unread' = Bumped(q.on, q.who)
  /\ Becomes(r, Waiting("telling", q.who, q.on, Others(q.on, q.who)))
  /\ UNCHANGED <<conversations, incoming, seen, noticed, history>>

LeftAfterOne(us, u) == {}             \* a mutant: leaves the loop early
LeftAfter(us, u) == us \ {u}

Tell(r) ==
  LET q == request[r] IN
  /\ q.at = "telling"
  /\ \E u \in q.val :
       /\ noticed' = Raised(noticed, q.on, {u})
       /\ IF LeftAfter(q.val, u) = {} THEN Ends(r)
          ELSE Becomes(r, Waiting("telling", q.who, q.on, LeftAfter(q.val, u)))
  /\ UNCHANGED <<conversations, incoming, seen, unread, history>>

-----------------------------------------------------------------------------
(***************************************************************************)
(* The page opens a conversation: GET its messages, show them, and then    *)
(* PATCH /conversations/:id/read, which resets the counter.                *)
(***************************************************************************)
Show(r, u, c) ==
  /\ Starts(r)
  /\ u \in members[c]
  /\ Becomes(r, Waiting("showing", u, c, incoming[c][u]))
  /\ UNCHANGED <<conversations, counters, history>>

MarkRead(r) ==
  LET q == request[r]
      late == {s \in Sending(q.on) : request[s].who # q.who}
  IN
  /\ q.at = "showing"
  /\ unread' = [unread EXCEPT ![q.on][q.who] = 0]
  /\ seen' = [seen EXCEPT ![q.on][q.who] = IF @ < q.val THEN q.val ELSE @]
  /\ skewed' = IF late = {} /\ q.val = incoming[q.on][q.who]
               THEN skewed \ {<<q.on, q.who>>} ELSE skewed \cup {<<q.on, q.who>>}
  /\ Ends(r)
  /\ UNCHANGED <<conversations, incoming, noticed, twinned, untold>>

(* A statement fails, or the process dies.                                 *)
RequestFails(r) ==
  LET q == request[r]
      missed == CASE q.at = "bumping" -> Others(q.on, q.who)
                  [] q.at = "telling" -> q.val
                  [] OTHER            -> {}
  IN
  /\ q # Idle
  /\ untold' = untold \cup {<<q.on, u>> : u \in missed}
  /\ skewed' = IF q.at = "bumping" THEN skewed \cup {<<q.on, u>> : u \in missed}
                                   ELSE skewed
  /\ Ends(r)
  /\ UNCHANGED <<conversations, counters, twinned>>

-----------------------------------------------------------------------------
Creating(r) ==
  \/ \E u \in Users, g \in Subjects, m \in SUBSET Users : CreateFind(r, u, g, m)
  \/ CreateWrite(r)

Talking(r) ==
  \/ \E u \in Users, c \in Rows : SendMessage(r, u, c) \/ Show(r, u, c)
  \/ BumpWrite(r) \/ Tell(r) \/ MarkRead(r)

Next == \E r \in Requests : Creating(r) \/ Talking(r) \/ RequestFails(r)

Spec == Init /\ [][Next]_vars

-----------------------------------------------------------------------------
(***************************************************************************)
(* Properties                                                              *)
(***************************************************************************)

(* Conversations, counters and requests have the shape the schema gives    *)
(* them; whoever sends or reads takes part, and nobody tells himself.      *)
TypeOK ==
  /\ members \in [Rows -> SUBSET Users]
  /\ subject \in [Rows -> Subjects \cup {None}]
  /\ incoming \in [Rows -> [Users -> Nat]]
  /\ seen \in [Rows -> [Users -> Nat]]
  /\ unread \in [Rows -> [Users -> Nat]]
  /\ noticed \in [Rows -> [Users -> Nat]]
  /\ twinned \subseteq Subjects \X SUBSET Users
  /\ skewed \subseteq Rows \X Users
  /\ untold \subseteq Rows \X Users
  /\ request = [r \in Requests |-> request[r]]
  /\ \A r \in Requests :
       LET q == request[r] IN
       \/ q = Idle
       \/ q.at = "creating" /\ q.who \in q.val /\ q.on \in Subjects /\ q.val \subseteq Users
       \/ /\ q.on \in Rows /\ q.who \in members[q.on]
          /\ \/ q.at = "bumping"
             \/ q.at = "showing" /\ q.val \in Nat
             \/ q.at = "telling" /\ q.val # {} /\ q.val \subseteq Others(q.on, q.who)

(* Two people have one conversation about a campaign, unless two requests  *)
(* were creating it at the same time.                                      *)
OnePerPair ==
  \A c, d \in Created :
    c # d /\ members[c] = members[d] /\ subject[c] = subject[d]
          /\ (\E u, v \in Users : members[c] = {u, v})
      => <<subject[c], members[c]>> \in twinned

(* The unread counter is the number of messages of others that the member  *)
(* has not been shown, once their senders are done with the counters.  If  *)
(* reading overlapped a sending the two may differ, until the conversation *)
(* is read again.                                                          *)
UnreadTellsUnseen ==
  \A c \in Rows, u \in Users :
    \/ <<c, u>> \in skewed
    \/ LET coming == {r \in Sending(c) : request[r].who # u /\ u \in members[c]} IN
       unread[c][u] + Cardinality(coming) = incoming[c][u] - seen[c][u]

(* A member gets one notice of every message of another: no more, and no   *)
(* fewer unless a sending died first.                                      *)
OneNoticeEach ==
  \A c \in Rows, u \in Users :
    LET coming == {r \in Requests :
          /\ request[r].at \in {"bumping", "telling"} /\ request[r].on = c
          /\ IF request[r].at = "bumping" THEN u \in Others(c, request[r].who)
                                          ELSE u \in request[r].val}
    IN \/ noticed[c][u] + Cardinality(coming) = incoming[c][u]
       \/ <<c, u>> \in untold /\ noticed[c][u] + Cardinality(coming) < incoming[c][u]

=============================================================================
