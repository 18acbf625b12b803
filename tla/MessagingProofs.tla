--------------------------- MODULE MessagingProofs ---------------------------
(***************************************************************************)
(* Theorems about Messaging, for every set of users and requests and for   *)
(* any number of conversations and messages.                               *)
(***************************************************************************)
EXTENDS Messaging, FiniteSetTheorems, TLAPS

LEMMA IdleIs == Idle.at = "idle"
BY DEF Idle, Waiting

(* Request r carries these parts now, and the others what they did.        *)
Moved(r, at, who, on, val) ==
  /\ request' = [s \in Requests |-> request'[s]]
  /\ request'[r].at = at /\ request'[r].who = who
  /\ request'[r].on = on /\ request'[r].val = val
  /\ \A s \in Requests \ {r} : request'[s] = request[s]

Over(r) == Moved(r, "idle", None, None, None) /\ request'[r] = Idle

LEMMA MovedOn ==
  ASSUME TypeOK, NEW r \in Requests, NEW at, NEW who, NEW on, NEW val,
         Becomes(r, Waiting(at, who, on, val))
  PROVE  Moved(r, at, who, on, val)
<1> DEFINE w == Waiting(at, who, on, val)
<1>1. w.at = at /\ w.who = who /\ w.on = on /\ w.val = val
  BY DEF Waiting
<1>2. request' = [request EXCEPT ![r] = w] /\ request = [s \in Requests |-> request[s]]
  BY DEF Becomes, TypeOK
<1> HIDE DEF w
<1>. QED
  BY <1>1, <1>2 DEF Moved

LEMMA Ended ==
  ASSUME TypeOK, NEW r \in Requests, Ends(r)
  PROVE  Over(r)
BY DEF Over, Moved, Ends, Becomes, Idle, Waiting, TypeOK

LEMMA RaisedIs ==
  ASSUME NEW counter \in [Rows -> [Users -> Nat]], NEW c \in Rows, NEW us
  PROVE  /\ Raised(counter, c, us) \in [Rows -> [Users -> Nat]]
         /\ \A d \in Rows, u \in Users :
              Raised(counter, c, us)[d][u] =
                IF d = c /\ u \in us THEN counter[d][u] + 1 ELSE counter[d][u]
<1> DEFINE up == [u \in Users |-> IF u \in us THEN counter[c][u] + 1 ELSE counter[c][u]]
<1>1. up \in [Users -> Nat]
  OBVIOUS
<1>2. Raised(counter, c, us) = [counter EXCEPT ![c] = up]
  BY DEF Raised
<1>3. \A u \in Users : up[u] = IF u \in us THEN counter[c][u] + 1 ELSE counter[c][u]
  OBVIOUS
<1> HIDE DEF up
<1>. QED
  BY <1>1, <1>2, <1>3

(***************************************************************************)
(* The steps, each with what it does to requests and rows.                 *)
(***************************************************************************)
Found(r, u, g, m) ==
  /\ Moved(r, "creating", u, g, m) /\ request[r] = Idle
  /\ m \subseteq Users /\ u \in m /\ m # {u} /\ NotFound(g, m)
  /\ twinned' = IF \E s \in Requests : request[s].at = "creating"
                                       /\ request[s].on = g /\ request[s].val = m
                THEN twinned \cup {<<g, m>>} ELSE twinned
  /\ UNCHANGED <<conversations, counters, skewed, untold>>

Inserted(r, c) ==
  /\ Over(r) /\ request[r].at = "creating"
  /\ members[c] = {}
  /\ members' = [members EXCEPT ![c] = request[r].val]
  /\ subject' = [subject EXCEPT ![c] = request[r].on]
  /\ UNCHANGED <<counters, history>>

Sent(r, u, c) ==
  /\ Moved(r, "bumping", u, c, None) /\ request[r] = Idle
  /\ u \in members[c]
  /\ incoming' = Raised(incoming, c, Others(c, u))
  /\ UNCHANGED <<conversations, seen, unread, noticed, history>>

Counted(r, u, c) ==
  /\ Moved(r, "telling", u, c, Others(c, u))
  /\ request[r].at = "bumping" /\ request[r].who = u /\ request[r].on = c
  /\ unread' = Raised(unread, c, Others(c, u))
  /\ UNCHANGED <<conversations, incoming, seen, noticed, history>>

Told(r, c, u) ==
  /\ request[r].at = "telling" /\ request[r].on = c /\ u \in request[r].val
  /\ \/ /\ request[r].val \ {u} = {}
        /\ Over(r)
     \/ /\ request[r].val \ {u} # {}
        /\ Moved(r, "telling", request[r].who, c, request[r].val \ {u})
  /\ noticed' = Raised(noticed, c, {u})
  /\ UNCHANGED <<conversations, incoming, seen, unread, history>>

Shown(r, u, c) ==
  /\ Moved(r, "showing", u, c, incoming[c][u]) /\ request[r] = Idle
  /\ u \in members[c]
  /\ UNCHANGED <<conversations, counters, history>>

IsRead(r, u, c, n) ==
  /\ Over(r)
  /\ request[r].at = "showing" /\ request[r].who = u
  /\ request[r].on = c /\ request[r].val = n
  /\ unread' = [unread EXCEPT ![c][u] = 0]
  /\ seen' = [seen EXCEPT ![c][u] = IF seen[c][u] < n THEN n ELSE seen[c][u]]
  /\ \/ /\ n = incoming[c][u]
        /\ \A s \in Sending(c) : request[s].who = u
        /\ skewed' = skewed \ {<<c, u>>}
     \/ skewed' = skewed \cup {<<c, u>>}
  /\ UNCHANGED <<conversations, incoming, noticed, twinned, untold>>

Missed(r) ==
  LET q == request[r] IN
  CASE q.at = "bumping" -> Others(q.on, q.who)
    [] q.at = "telling" -> q.val
    [] OTHER            -> {}

Failed(r) ==
  /\ Over(r) /\ request[r] # Idle
  /\ untold' = untold \cup {<<request[r].on, u>> : u \in Missed(r)}
  /\ skewed' = IF request[r].at = "bumping"
               THEN skewed \cup {<<request[r].on, u>> : u \in Missed(r)} ELSE skewed
  /\ UNCHANGED <<conversations, counters, twinned>>

LEMMA Steps ==
  ASSUME TypeOK, Next
  PROVE  \E r \in Requests :
           \/ \E u \in Users, g \in Subjects, m \in SUBSET Users : Found(r, u, g, m)
           \/ \E c \in Rows : Inserted(r, c)
           \/ \E u \in Users, c \in Rows :
                \/ Sent(r, u, c) \/ Counted(r, u, c) \/ Told(r, c, u) \/ Shown(r, u, c)
                \/ \E n \in Nat : IsRead(r, u, c, n)
           \/ Failed(r)
<1>0. PICK r \in Requests : Creating(r) \/ Talking(r) \/ RequestFails(r)
  BY DEF Next
<1>1. ASSUME NEW u \in Users, NEW g \in Subjects, NEW m \in SUBSET Users, CreateFind(r, u, g, m)
      PROVE  Found(r, u, g, m)
  BY <1>1, MovedOn DEF CreateFind, Found, Starts
<1>2. ASSUME CreateWrite(r)
      PROVE  \E c \in Rows : Inserted(r, c)
  <2>1. Over(r)
    BY <1>2, Ended DEF CreateWrite
  <2>2. PICK c \in Rows :
          /\ IsNext(c, Created)
          /\ members' = [members EXCEPT ![c] = request[r].val]
          /\ subject' = [subject EXCEPT ![c] = request[r].on]
    BY <1>2 DEF CreateWrite
  <2>3. members[c] = {}
    BY <2>2 DEF IsNext, Created
  <2>. QED
    BY <1>2, <2>1, <2>2, <2>3 DEF CreateWrite, Inserted
<1>3. ASSUME NEW u \in Users, NEW c \in Rows, SendMessage(r, u, c)
      PROVE  Sent(r, u, c)
  BY <1>3, MovedOn DEF SendMessage, Sent, Starts
<1>4. ASSUME NEW u \in Users, NEW c \in Rows, Show(r, u, c)
      PROVE  Shown(r, u, c)
  BY <1>4, MovedOn DEF Show, Shown, Starts
<1>5. ASSUME request[r].at \in {"bumping", "showing", "telling"}
      PROVE  /\ request[r].on \in Rows /\ request[r].who \in members[request[r].on]
             /\ request[r].who \in Users
             /\ request[r].at = "showing" => request[r].val \in Nat
             /\ request[r].at = "telling" => request[r].val \subseteq Users
  BY <1>5, IdleIs DEF TypeOK, Others
<1>6. ASSUME BumpWrite(r)
      PROVE  Counted(r, request[r].who, request[r].on)
  BY <1>6, MovedOn DEF BumpWrite, Counted, Bumped
<1>7. ASSUME Tell(r)
      PROVE  \E u \in Users : Told(r, request[r].on, u)
  <2>1. PICK u \in request[r].val :
          /\ noticed' = Raised(noticed, request[r].on, {u})
          /\ IF request[r].val \ {u} = {} THEN Ends(r)
             ELSE Becomes(r, Waiting("telling", request[r].who, request[r].on,
                                     request[r].val \ {u}))
    BY <1>7 DEF Tell, LeftAfter
  <2>2. u \in Users
    BY <1>5, <1>7 DEF Tell
  <2>. QED
    BY <1>7, <2>1, <2>2, MovedOn, Ended DEF Tell, Told
<1>8. ASSUME MarkRead(r)
      PROVE  IsRead(r, request[r].who, request[r].on, request[r].val)
  <2>1. Over(r)
    BY <1>8, Ended DEF MarkRead
  <2>. QED
    BY <1>8, <2>1 DEF MarkRead, IsRead
<1>9. ASSUME RequestFails(r)
      PROVE  Failed(r)
  BY <1>9, Ended DEF RequestFails, Failed, Missed
<1>10. CASE BumpWrite(r) \/ Tell(r) \/ MarkRead(r)
  BY <1>5, <1>6, <1>7, <1>8, <1>10 DEF BumpWrite, Tell, MarkRead
<1>. QED
  BY <1>0, <1>1, <1>2, <1>3, <1>4, <1>9, <1>10 DEF Creating, Talking

-----------------------------------------------------------------------------
(***************************************************************************)
(* Type correctness.  Its induction needs that nobody is alone in a        *)
(* conversation: whoever sends has somebody to tell.                       *)
(***************************************************************************)
NotAlone ==
  /\ \A c \in Rows, u \in Users : members[c] # {u}
  /\ \A r \in Requests, u \in Users : request[r].at = "creating" => request[r].val # {u}

(* What TypeOK says of one request.                                        *)
Shaped(q) ==
  \/ q = Idle
  \/ q.at = "creating" /\ q.who \in q.val /\ q.on \in Subjects /\ q.val \subseteq Users
  \/ /\ q.on \in Rows /\ q.who \in members[q.on]
     /\ \/ q.at = "bumping"
        \/ q.at = "showing" /\ q.val \in Nat
        \/ q.at = "telling" /\ q.val # {} /\ q.val \subseteq Others(q.on, q.who)

Rowed ==
  /\ members \in [Rows -> SUBSET Users]
  /\ subject \in [Rows -> Subjects \cup {None}]
  /\ incoming \in [Rows -> [Users -> Nat]]
  /\ seen \in [Rows -> [Users -> Nat]]
  /\ unread \in [Rows -> [Users -> Nat]]
  /\ noticed \in [Rows -> [Users -> Nat]]
  /\ twinned \subseteq Subjects \X SUBSET Users
  /\ skewed \subseteq Rows \X Users
  /\ untold \subseteq Rows \X Users

LEMMA TypeIs ==
  TypeOK <=> /\ Rowed
             /\ request = [r \in Requests |-> request[r]]
             /\ \A r \in Requests : Shaped(request[r])
BY DEF TypeOK, Rowed, Shaped

LEMMA TypeIsNext ==
  ASSUME Rowed', request' = [r \in Requests |-> request'[r]],
         \A r \in Requests : Shaped(request[r])'
  PROVE  TypeOK'
BY DEF TypeOK, Rowed, Shaped

(* Requests that stay where they are stay in shape, in conversations that  *)
(* keep their members.                                                     *)
LEMMA OthersKeep ==
  ASSUME TypeOK, NEW s \in Requests, request'[s] = request[s],
         \A c \in Rows : members[c] # {} => members'[c] = members[c]
  PROVE  Shaped(request[s])'
<1>1. Shaped(request[s])
  BY TypeIs
<1>2. request[s].at \in {"bumping", "showing", "telling"} =>
        /\ request[s].on \in Rows
        /\ members'[request[s].on] = members[request[s].on]
  BY <1>1, IdleIs DEF Shaped
<1>. QED
  BY <1>1, <1>2, IdleIs DEF Shaped, Others

LEMMA TypeInit == Init => TypeOK /\ NotAlone
BY IdleIs DEF Init, NoneServed, TypeOK, NotAlone, Zero

LEMMA TypeNext ==
  ASSUME TypeOK, NotAlone, Next
  PROVE  TypeOK' /\ NotAlone'
<1>0. PICK r \in Requests :
           \/ \E u \in Users, g \in Subjects, m \in SUBSET Users : Found(r, u, g, m)
           \/ \E c \in Rows : Inserted(r, c)
           \/ \E u \in Users, c \in Rows :
                \/ Sent(r, u, c) \/ Counted(r, u, c) \/ Told(r, c, u) \/ Shown(r, u, c)
                \/ \E n \in Nat : IsRead(r, u, c, n)
           \/ Failed(r)
  BY Steps
<1>1. Rowed /\ Shaped(request[r])
  BY TypeIs
<1>2. ASSUME Rowed', NEW at, NEW who, NEW on, NEW val, Moved(r, at, who, on, val),
             Shaped(request[r])',
             \A c \in Rows : members[c] # {} => members'[c] = members[c]
      PROVE  TypeOK'
  <2>1. \A s \in Requests : Shaped(request[s])'
    BY <1>2, OthersKeep DEF Moved
  <2>. QED
    BY <1>2, <2>1, TypeIsNext DEF Moved
<1>3. ASSUME NEW at, NEW who, NEW on, NEW val, Moved(r, at, who, on, val),
             at # "creating", UNCHANGED members
      PROVE  NotAlone'
  BY <1>3 DEF NotAlone, Moved
<1>4. ASSUME Over(r), Rowed', UNCHANGED members
      PROVE  TypeOK' /\ NotAlone'
  <2>1. Shaped(request[r])'
    BY <1>4 DEF Shaped, Over
  <2>. QED
    BY <1>2, <1>3, <1>4, <2>1 DEF Over
<1>5. ASSUME NEW u \in Users, NEW g \in Subjects, NEW m \in SUBSET Users, Found(r, u, g, m)
      PROVE  TypeOK' /\ NotAlone'
  <2>1. Shaped(request[r])'
    BY <1>5 DEF Found, Moved, Shaped
  <2>2. Rowed'
    BY <1>1, <1>5 DEF Found, Rowed, conversations, counters
  <2>3. NotAlone'
    <3>1. ~\E w \in Users : m = {w}
      BY <1>5 DEF Found
    <3>. QED
      BY <1>5, <3>1 DEF Found, Moved, NotAlone, conversations
  <2>. QED
    BY <1>2, <1>5, <2>1, <2>2, <2>3 DEF Found, conversations
<1>6. ASSUME NEW c \in Rows, Inserted(r, c)
      PROVE  TypeOK' /\ NotAlone'
  <2>1. request[r].val \in SUBSET Users /\ request[r].on \in Subjects
    BY <1>1, <1>6, IdleIs DEF Inserted, Shaped
  <2>2. Rowed'
    BY <1>1, <1>6, <2>1 DEF Inserted, Rowed, counters, history
  <2>3. Shaped(request[r])'
    BY <1>6 DEF Inserted, Over, Shaped
  <2>4. NotAlone'
    BY <1>1, <1>6 DEF Inserted, Over, Moved, NotAlone, Rowed
  <2>. QED
    BY <1>1, <1>2, <1>6, <2>2, <2>3, <2>4 DEF Inserted, Over, Rowed
<1>7. ASSUME NEW u \in Users, NEW c \in Rows, Sent(r, u, c)
      PROVE  TypeOK' /\ NotAlone'
  <2>1. Shaped(request[r])'
    BY <1>7 DEF Sent, Moved, Shaped, conversations
  <2>2. Rowed'
    BY <1>1, <1>7, RaisedIs DEF Sent, Rowed, conversations, history
  <2>. QED
    BY <1>2, <1>3, <1>7, <2>1, <2>2 DEF Sent, conversations
<1>8. ASSUME NEW u \in Users, NEW c \in Rows, Counted(r, u, c)
      PROVE  TypeOK' /\ NotAlone'
  <2>0. u \in members[c] /\ members[c] # {u}
    BY <1>1, <1>8, IdleIs DEF Counted, Shaped, NotAlone
  <2>1. Shaped(request[r])'
    BY <1>8, <2>0 DEF Counted, Moved, Shaped, Others, conversations
  <2>2. Rowed'
    <3>0. unread \in [Rows -> [Users -> Nat]]
      BY <1>1 DEF Rowed
    <3>1. Raised(unread, c, Others(c, u)) \in [Rows -> [Users -> Nat]]
      BY <3>0, RaisedIs
    <3>. QED
      BY <1>1, <1>8, <3>1 DEF Counted, Rowed, conversations, history
  <2>. QED
    BY <1>2, <1>3, <1>8, <2>1, <2>2 DEF Counted, conversations
<1>9. ASSUME NEW u \in Users, NEW c \in Rows, Told(r, c, u)
      PROVE  TypeOK' /\ NotAlone'
  <2>1. Rowed'
    <3>0. noticed \in [Rows -> [Users -> Nat]]
      BY <1>1 DEF Rowed
    <3>1. Raised(noticed, c, {u}) \in [Rows -> [Users -> Nat]]
      BY <3>0, RaisedIs
    <3>. QED
      BY <1>1, <1>9, <3>1 DEF Told, Rowed, conversations, history
  <2>2. CASE Over(r)
    BY <1>4, <1>9, <2>1, <2>2 DEF Told, conversations
  <2>3. CASE /\ request[r].val \ {u} # {}
             /\ Moved(r, "telling", request[r].who, c, request[r].val \ {u})
    <3>1. Shaped(request[r])'
      BY <1>1, <1>9, <2>3, IdleIs DEF Told, Moved, Shaped, Others, conversations
    <3>. QED
      BY <1>2, <1>3, <1>9, <2>1, <2>3, <3>1 DEF Told, conversations
  <2>. QED
    BY <1>9, <2>2, <2>3 DEF Told
<1>10. ASSUME NEW u \in Users, NEW c \in Rows, Shown(r, u, c)
       PROVE  TypeOK' /\ NotAlone'
  <2>1. Rowed'
    BY <1>1, <1>10 DEF Shown, Rowed, conversations, counters, history
  <2>2. Shaped(request[r])'
    BY <1>1, <1>10 DEF Shown, Moved, Shaped, Rowed, conversations
  <2>. QED
    BY <1>2, <1>3, <1>10, <2>1, <2>2 DEF Shown, conversations
<1>11. ASSUME NEW u \in Users, NEW c \in Rows, NEW n \in Nat, IsRead(r, u, c, n)
       PROVE  TypeOK' /\ NotAlone'
  <2>1. Rowed'
    <3>1. /\ unread' \in [Rows -> [Users -> Nat]] /\ seen' \in [Rows -> [Users -> Nat]]
          /\ skewed' \subseteq Rows \X Users
      BY <1>1, <1>11 DEF IsRead, Rowed
    <3>. QED
      BY <1>1, <1>11, <3>1 DEF IsRead, Rowed, conversations
  <2>. QED
    BY <1>4, <1>11, <2>1 DEF IsRead, conversations
<1>12. ASSUME Failed(r)
       PROVE  TypeOK' /\ NotAlone'
  <2>1. \A u \in Missed(r) : <<request[r].on, u>> \in Rows \X Users
    BY <1>1, IdleIs DEF Missed, Shaped, Rowed, Others
  <2>2. Rowed'
    BY <1>1, <1>12, <2>1 DEF Failed, Rowed, conversations, counters
  <2>. QED
    BY <1>4, <1>12, <2>2 DEF Failed, conversations
<1>. QED
  BY <1>0, <1>5, <1>6, <1>7, <1>8, <1>9, <1>10, <1>11, <1>12

LEMMA TypeStutter == TypeOK /\ NotAlone /\ UNCHANGED vars => TypeOK' /\ NotAlone'
BY DEF TypeOK, NotAlone, Others, vars, conversations, counters, history

(* Rows and requests keep their shape; nobody is alone in a conversation,  *)
(* and whoever sends or reads takes part in it.                            *)
THEOREM Typing == Spec => [](TypeOK /\ NotAlone)
<1>1. TypeOK /\ NotAlone /\ [Next]_vars => (TypeOK /\ NotAlone)'
  BY TypeNext, TypeStutter
<1>. QED
  BY <1>1, TypeInit, PTL DEF Spec

-----------------------------------------------------------------------------
(***************************************************************************)
(* One conversation per pair.  The invariant for a campaign and a pair no  *)
(* two requests were creating at once: one request is past the look for a  *)
(* conversation, none while there is one.                                  *)
(***************************************************************************)
Makes(r, g, m) == request[r].at = "creating" /\ request[r].on = g /\ request[r].val = m
Is(c, g, m) == members[c] = m /\ subject[c] = g

Untwinned(g, m) ==
  /\ \A r, s \in Requests : Makes(r, g, m) /\ Makes(s, g, m) => r = s
  /\ \A r \in Requests, c \in Rows : Makes(r, g, m) => ~Is(c, g, m)
  /\ \A c, d \in Rows : Is(c, g, m) /\ Is(d, g, m) => c = d

PairInv ==
  /\ \A c \in Created : subject[c] \in Subjects
  /\ \A g \in Subjects, u, v \in Users :
       <<g, {u, v}>> \notin twinned => Untwinned(g, {u, v})

LEMMA PairInit == Init => PairInv
BY IdleIs DEF Init, NoneServed, PairInv, Created, Untwinned, Makes, Is

(* Steps that create nothing leave conversations and creations alone.      *)
LEMMA NotCreating ==
  ASSUME PairInv, UNCHANGED <<conversations, twinned>>,
         \A r \in Requests : request'[r].at = "creating" => request'[r] = request[r]
  PROVE  PairInv'
BY DEF PairInv, Created, Untwinned, Makes, Is, conversations

LEMMA PairStep ==
  ASSUME TypeOK, NotAlone, PairInv, Next
  PROVE  PairInv'
<1>0. PICK r \in Requests :
           \/ \E u \in Users, g \in Subjects, m \in SUBSET Users : Found(r, u, g, m)
           \/ \E c \in Rows : Inserted(r, c)
           \/ \E u \in Users, c \in Rows :
                \/ Sent(r, u, c) \/ Counted(r, u, c) \/ Told(r, c, u) \/ Shown(r, u, c)
                \/ \E n \in Nat : IsRead(r, u, c, n)
           \/ Failed(r)
  BY Steps
<1>1. ASSUME NEW w \in Users, NEW h \in Subjects, NEW m \in SUBSET Users, Found(r, w, h, m)
      PROVE  PairInv'
  <2>1. ASSUME NEW g \in Subjects, NEW u \in Users, NEW v \in Users,
               <<g, {u, v}>> \notin twinned'
        PROVE  Untwinned(g, {u, v})'
    <3>1. Untwinned(g, {u, v}) /\ UNCHANGED <<members, subject>>
      BY <1>1, <2>1 DEF Found, PairInv, conversations
    <3>2. \A s \in Requests : Makes(s, g, {u, v})' =>
            (Makes(s, g, {u, v}) /\ s # r) \/ (s = r /\ g = h /\ m = {u, v})
      BY <1>1 DEF Found, Moved, Makes
    <3>3. CASE g = h /\ m = {u, v}
      <4>1. \A s \in Requests : ~Makes(s, g, m)
        BY <1>1, <2>1, <3>3 DEF Found, Makes
      <4>2. ASSUME NEW c \in Rows, Is(c, g, m)
            PROVE  FALSE
        <5>1. c \in Created /\ subject[c] = g /\ members[c] \subseteq m
          BY <3>3, <4>2 DEF Created, Is
        <5>2. ASSUME NEW d \in Created, members[d] \subseteq m
              PROVE  members[d] = m
          BY <3>3, <5>2 DEF Created, NotAlone
        <5>. QED
          BY <1>1, <3>3, <5>1, <5>2 DEF Found, NotFound
      <4>. QED
        BY <3>1, <3>2, <3>3, <4>1, <4>2 DEF Untwinned, Is
    <3>4. CASE ~(g = h /\ m = {u, v})
      BY <3>1, <3>2, <3>4 DEF Untwinned, Is
    <3>. QED
      BY <3>3, <3>4
  <2>2. UNCHANGED <<members, subject>>
    BY <1>1 DEF Found, conversations
  <2>. QED
    BY <2>1, <2>2 DEF PairInv, Created
<1>2. ASSUME NEW n \in Rows, Inserted(r, n)
      PROVE  PairInv'
  <2>0. /\ request[r].on \in Subjects
        /\ members \in [Rows -> SUBSET Users] /\ subject \in [Rows -> Subjects \cup {None}]
    BY <1>2, TypeIs, IdleIs DEF Inserted, Shaped, Rowed
  <2>1. ASSUME NEW g \in Subjects, NEW u \in Users, NEW v \in Users,
               <<g, {u, v}>> \notin twinned'
        PROVE  Untwinned(g, {u, v})'
    <3>1. Untwinned(g, {u, v})
      BY <1>2, <2>1 DEF Inserted, PairInv, history
    <3>2. \A s \in Requests : Makes(s, g, {u, v})' => Makes(s, g, {u, v}) /\ s # r
      BY <1>2 DEF Inserted, Over, Moved, Makes
    <3>3. \A c \in Rows : Is(c, g, {u, v})' =>
            (c # n /\ Is(c, g, {u, v})) \/ (c = n /\ Makes(r, g, {u, v}))
      BY <1>2, <2>0 DEF Inserted, Is, Makes
    <3>. QED
      BY <3>1, <3>2, <3>3 DEF Untwinned
  <2>2. \A c \in Created' : subject'[c] \in Subjects
    BY <1>2, <2>0 DEF Inserted, PairInv, Created
  <2>. QED
    BY <2>1, <2>2 DEF PairInv
<1>3. ASSUME UNCHANGED <<conversations, twinned>>,
             NEW at, NEW who, NEW on, NEW val, Moved(r, at, who, on, val), at # "creating"
      PROVE  PairInv'
  BY <1>3, NotCreating DEF Moved
<1>4. ASSUME UNCHANGED <<conversations, twinned>>, Over(r)
      PROVE  PairInv'
  BY <1>3, <1>4 DEF Over
<1>5. ASSUME NEW u \in Users, NEW c \in Rows,
             Sent(r, u, c) \/ Counted(r, u, c) \/ Told(r, c, u) \/ Shown(r, u, c)
      PROVE  PairInv'
  BY <1>3, <1>4, <1>5 DEF Sent, Counted, Told, Shown, history
<1>6. ASSUME NEW u \in Users, NEW c \in Rows, NEW n \in Nat, IsRead(r, u, c, n)
      PROVE  PairInv'
  BY <1>4, <1>6 DEF IsRead
<1>7. ASSUME Failed(r)
      PROVE  PairInv'
  BY <1>4, <1>7 DEF Failed
<1>. QED
  BY <1>0, <1>1, <1>2, <1>5, <1>6, <1>7

LEMMA PairStutter == PairInv /\ UNCHANGED vars => PairInv'
BY DEF PairInv, Created, Untwinned, Makes, Is, vars, conversations, history

LEMMA PairEnough == PairInv => OnePerPair
<1> SUFFICES ASSUME PairInv, NEW c \in Created, NEW d \in Created, NEW u \in Users,
                    NEW v \in Users, c # d, members[c] = members[d],
                    subject[c] = subject[d], members[c] = {u, v},
                    <<subject[c], members[c]>> \notin twinned
             PROVE  FALSE
  BY DEF OnePerPair
<1>1. Untwinned(subject[c], {u, v})
  BY DEF PairInv
<1>. QED
  BY <1>1 DEF Untwinned, Is, Created

(* Two people have one conversation about a campaign, unless two requests  *)
(* were creating it at once.                                               *)
THEOREM OneForPair == Spec => []OnePerPair
<1>1. TypeOK /\ NotAlone /\ PairInv /\ [Next]_vars => PairInv'
  BY PairStep, PairStutter
<1>. QED
  BY <1>1, PairInit, PairEnough, Typing, PTL DEF Spec

-----------------------------------------------------------------------------
(***************************************************************************)
(* Unread counters.  The invariant adds that nobody has seen more than     *)
(* there was, so that a reading which nothing overlaps sets things even.   *)
(***************************************************************************)
SeenInv ==
  /\ \A c \in Rows, u \in Users : seen[c][u] <= incoming[c][u]
  /\ \A r \in Requests :
       request[r].at = "showing" => request[r].val <= incoming[request[r].on][request[r].who]

Coming(c, u) == {r \in Sending(c) : request[r].who # u /\ u \in members[c]}
Even(c, u) ==
  \/ <<c, u>> \in skewed
  \/ unread[c][u] + Cardinality(Coming(c, u)) = incoming[c][u] - seen[c][u]

LEMMA Counts ==
  ASSUME TypeOK, NEW c \in Rows, NEW u \in Users
  PROVE  /\ incoming[c][u] \in Nat /\ seen[c][u] \in Nat
         /\ unread[c][u] \in Nat /\ noticed[c][u] \in Nat
BY DEF TypeOK

LEMMA SeenStep ==
  ASSUME TypeOK, NotAlone, SeenInv, Next
  PROVE  SeenInv'
<1>0. PICK r \in Requests :
           \/ \E u \in Users, g \in Subjects, m \in SUBSET Users : Found(r, u, g, m)
           \/ \E c \in Rows : Inserted(r, c)
           \/ \E u \in Users, c \in Rows :
                \/ Sent(r, u, c) \/ Counted(r, u, c) \/ Told(r, c, u) \/ Shown(r, u, c)
                \/ \E n \in Nat : IsRead(r, u, c, n)
           \/ Failed(r)
  BY Steps
<1>1. \A s \in Requests : request[s].at = "showing" =>
         request[s].on \in Rows /\ request[s].who \in Users /\ request[s].val \in Nat
  BY TypeIs, IdleIs DEF Shaped, Rowed
<1>2. ASSUME UNCHANGED <<incoming, seen>>,
             \A s \in Requests : request'[s].at = "showing" => request'[s] = request[s]
      PROVE  SeenInv'
  BY <1>2 DEF SeenInv
<1>3. ASSUME Over(r), UNCHANGED <<incoming, seen>>
      PROVE  SeenInv'
  BY <1>2, <1>3 DEF Over, Moved
<1>4. ASSUME NEW u \in Users, NEW g \in Subjects, NEW m \in SUBSET Users, Found(r, u, g, m)
      PROVE  SeenInv'
  BY <1>2, <1>4 DEF Found, Moved, counters
<1>5. ASSUME NEW c \in Rows, Inserted(r, c)
      PROVE  SeenInv'
  BY <1>3, <1>5 DEF Inserted, counters
<1>6. ASSUME NEW u \in Users, NEW c \in Rows, Sent(r, u, c)
      PROVE  SeenInv'
  <2>1. incoming \in [Rows -> [Users -> Nat]]
    BY DEF TypeOK
  <2>2. \A d \in Rows, v \in Users : incoming'[d][v] \in Nat /\ incoming[d][v] <= incoming'[d][v]
    BY <1>6, <2>1, RaisedIs DEF Sent
  <2>3. \A d \in Rows, v \in Users : seen'[d][v] <= incoming'[d][v]
    BY <1>6, <2>1, <2>2, Counts DEF Sent, SeenInv
  <2>4. ASSUME NEW s \in Requests, request'[s].at = "showing"
        PROVE  request'[s].val <= incoming'[request'[s].on][request'[s].who]
    <3>1. request'[s] = request[s]
      BY <1>6, <2>4 DEF Sent, Moved
    <3>. QED
      BY <1>1, <2>1, <2>2, <2>4, <3>1 DEF SeenInv
  <2>. QED
    BY <2>3, <2>4 DEF SeenInv
<1>7. ASSUME NEW u \in Users, NEW c \in Rows, Counted(r, u, c)
      PROVE  SeenInv'
  BY <1>2, <1>7 DEF Counted, Moved
<1>8. ASSUME NEW u \in Users, NEW c \in Rows, Told(r, c, u)
      PROVE  SeenInv'
  BY <1>2, <1>8 DEF Told, Over, Moved
<1>9. ASSUME NEW u \in Users, NEW c \in Rows, Shown(r, u, c)
      PROVE  SeenInv'
  BY <1>9, Counts DEF Shown, Moved, SeenInv, counters
<1>10. ASSUME NEW u \in Users, NEW c \in Rows, NEW n \in Nat, IsRead(r, u, c, n)
       PROVE  SeenInv'
  <2>1. n <= incoming[c][u]
    BY <1>10 DEF IsRead, SeenInv
  <2>2. \A s \in Requests : request'[s].at = "showing" => request'[s] = request[s]
    BY <1>10 DEF IsRead, Over, Moved
  <2>3. \A d \in Rows, v \in Users :
          seen'[d][v] = seen[d][v] \/ (d = c /\ v = u /\ seen'[d][v] = n)
    BY <1>10 DEF IsRead, TypeOK
  <2>. QED
    BY <1>10, <2>1, <2>2, <2>3 DEF IsRead, SeenInv
<1>11. ASSUME Failed(r)
       PROVE  SeenInv'
  BY <1>3, <1>11 DEF Failed, counters
<1>. QED
  BY <1>0, <1>4, <1>5, <1>6, <1>7, <1>8, <1>9, <1>10, <1>11

LEMMA EvenSame ==
  ASSUME NEW c \in Rows, NEW u \in Users, Even(c, u),
         Coming(c, u)' = Coming(c, u), unread'[c][u] = unread[c][u],
         incoming'[c][u] = incoming[c][u], seen'[c][u] = seen[c][u],
         <<c, u>> \in skewed => <<c, u>> \in skewed'
  PROVE  Even(c, u)'
BY DEF Even

LEMMA EvenStep ==
  ASSUME TypeOK, NotAlone, SeenInv, Next, NEW c \in Rows, NEW u \in Users, Even(c, u)
  PROVE  Even(c, u)'
<1>0. PICK r \in Requests :
           \/ \E w \in Users, g \in Subjects, m \in SUBSET Users : Found(r, w, g, m)
           \/ \E d \in Rows : Inserted(r, d)
           \/ \E w \in Users, d \in Rows :
                \/ Sent(r, w, d) \/ Counted(r, w, d) \/ Told(r, d, w) \/ Shown(r, w, d)
                \/ \E n \in Nat : IsRead(r, w, d, n)
           \/ Failed(r)
  BY Steps
<1>1. /\ \A s \in Sending(c) : request[s].who \in members[c]
      /\ IsFiniteSet(Coming(c, u)) /\ Cardinality(Coming(c, u)) \in Nat
  <2>1. IsFiniteSet(Coming(c, u))
    BY RequestsAssumption, FS_Subset DEF Coming, Sending
  <2>. QED
    BY <2>1, TypeIs, IdleIs, FS_CardinalityType DEF Sending, Shaped
<1>2. ASSUME NEW at, NEW who, NEW on, NEW val, Moved(r, at, who, on, val),
             at # "bumping", request[r].at # "bumping", UNCHANGED members
      PROVE  Coming(c, u)' = Coming(c, u)
  BY <1>2 DEF Coming, Sending, Moved
<1>3. ASSUME NEW w \in Users, NEW g \in Subjects, NEW m \in SUBSET Users, Found(r, w, g, m)
      PROVE  Even(c, u)'
  BY <1>2, <1>3, EvenSame, IdleIs DEF Found, conversations, counters
<1>4. ASSUME NEW n \in Rows, Inserted(r, n)
      PROVE  Even(c, u)'
  <2>1. members \in [Rows -> SUBSET Users]
    BY DEF TypeOK
  <2>2. \A s \in Requests : s \in Sending(c)' <=> s \in Sending(c)
    BY <1>4 DEF Inserted, Over, Moved, Sending
  <2>3. Coming(c, u)' = Coming(c, u)
    <3>1. CASE c = n
      <4>1. Sending(c) = {}
        BY <1>1, <1>4, <3>1 DEF Inserted
      <4>. QED
        BY <2>2, <4>1 DEF Coming, Sending
    <3>2. CASE c # n
      <4>1. members'[c] = members[c]
        BY <1>4, <2>1, <3>2 DEF Inserted
      <4>. QED
        BY <1>4, <4>1 DEF Coming, Sending, Inserted, Over, Moved
    <3>. QED
      BY <3>1, <3>2
  <2>. QED
    BY <1>4, <2>3, EvenSame DEF Inserted, counters, history
<1>5. ASSUME NEW w \in Users, NEW d \in Rows, Sent(r, w, d)
      PROVE  Even(c, u)'
  <2>0. incoming \in [Rows -> [Users -> Nat]]
    BY DEF TypeOK
  <2>1. incoming'[c][u] = IF c = d /\ u \in Others(d, w) THEN incoming[c][u] + 1
                                                       ELSE incoming[c][u]
    BY <1>5, <2>0, RaisedIs DEF Sent
  <2>2. CASE c = d /\ u \in Others(d, w)
    <3>1. r \notin Coming(c, u)
      BY <1>5, IdleIs DEF Sent, Coming, Sending
    <3>2. Coming(c, u)' = Coming(c, u) \cup {r}
      BY <1>5, <2>2 DEF Sent, Moved, Coming, Sending, Others, conversations
    <3>3. Cardinality(Coming(c, u)') = Cardinality(Coming(c, u)) + 1
      BY <1>1, <3>1, <3>2, FS_AddElement
    <3>. QED
      BY <1>1, <1>5, <2>1, <2>2, <3>3, Counts DEF Sent, Even, history
  <2>3. CASE ~(c = d /\ u \in Others(d, w))
    <3>1. Coming(c, u)' = Coming(c, u)
      BY <1>5, <2>3, IdleIs DEF Sent, Moved, Coming, Sending, Others, conversations
    <3>. QED
      BY <1>5, <2>1, <2>3, <3>1, EvenSame DEF Sent, history
  <2>. QED
    BY <2>2, <2>3
<1>6. ASSUME NEW w \in Users, NEW d \in Rows, Counted(r, w, d)
      PROVE  Even(c, u)'
  <2>0. unread \in [Rows -> [Users -> Nat]]
    BY DEF TypeOK
  <2>1. unread'[c][u] = IF c = d /\ u \in Others(d, w) THEN unread[c][u] + 1
                                                     ELSE unread[c][u]
    BY <1>6, <2>0, RaisedIs DEF Counted
  <2>2. CASE c = d /\ u \in Others(d, w)
    <3>1. r \in Coming(c, u)
      BY <1>6, <2>2 DEF Counted, Coming, Sending, Others
    <3>2. Coming(c, u)' = Coming(c, u) \ {r}
      BY <1>6, <2>2 DEF Counted, Moved, Coming, Sending, conversations
    <3>3. Cardinality(Coming(c, u)') = Cardinality(Coming(c, u)) - 1
      BY <1>1, <3>1, <3>2, FS_RemoveElement
    <3>. QED
      BY <1>1, <1>6, <2>1, <2>2, <3>3, Counts DEF Counted, Even, history
  <2>3. CASE ~(c = d /\ u \in Others(d, w))
    <3>1. Coming(c, u)' = Coming(c, u)
      BY <1>6, <2>3 DEF Counted, Moved, Coming, Sending, Others, conversations
    <3>. QED
      BY <1>6, <2>1, <2>3, <3>1, EvenSame DEF Counted, history
  <2>. QED
    BY <2>2, <2>3
<1>7. ASSUME NEW w \in Users, NEW d \in Rows, Told(r, d, w)
      PROVE  Even(c, u)'
  <2>1. Coming(c, u)' = Coming(c, u)
    BY <1>2, <1>7 DEF Told, Over, conversations
  <2>. QED
    BY <1>7, <2>1, EvenSame DEF Told, history
<1>8. ASSUME NEW w \in Users, NEW d \in Rows, Shown(r, w, d)
      PROVE  Even(c, u)'
  <2>1. Coming(c, u)' = Coming(c, u)
    BY <1>2, <1>8, IdleIs DEF Shown, conversations
  <2>. QED
    BY <1>8, <2>1, EvenSame DEF Shown, counters, history
<1>9. ASSUME NEW w \in Users, NEW d \in Rows, NEW n \in Nat, IsRead(r, w, d, n)
      PROVE  Even(c, u)'
  <2>1. Coming(c, u)' = Coming(c, u)
    BY <1>2, <1>9 DEF IsRead, Over, conversations
  <2>2. CASE c = d /\ u = w
    <3>1. CASE <<c, u>> \in skewed'
      BY <3>1 DEF Even
    <3>2. CASE /\ n = incoming[c][u]
               /\ \A s \in Sending(c) : request[s].who = u
      <4>1. Coming(c, u) = {}
        BY <3>2 DEF Coming
      <4>2. Cardinality(Coming(c, u)') = 0
        BY <2>1, <4>1, FS_EmptySet
      <4>3. unread'[c][u] = 0
        BY <1>9, <2>2 DEF IsRead, TypeOK
      <4>4. seen'[c][u] = IF seen[c][u] < n THEN n ELSE seen[c][u]
        BY <1>9, <2>2 DEF IsRead, TypeOK
      <4>5. incoming'[c][u] = n /\ seen[c][u] <= n
        BY <1>9, <3>2 DEF IsRead, SeenInv
      <4>. QED
        BY <4>2, <4>3, <4>4, <4>5, Counts DEF Even
    <3>. QED
      BY <1>9, <2>2, <3>1, <3>2 DEF IsRead
  <2>3. CASE ~(c = d /\ u = w)
    <3>1. unread'[c][u] = unread[c][u] /\ seen'[c][u] = seen[c][u]
      BY <1>9, <2>3 DEF IsRead, TypeOK
    <3>2. <<c, u>> \in skewed => <<c, u>> \in skewed'
      BY <1>9, <2>3 DEF IsRead
    <3>. QED
      BY <1>9, <2>1, <3>1, <3>2, EvenSame DEF IsRead
  <2>. QED
    BY <2>2, <2>3
<1>10. ASSUME Failed(r)
       PROVE  Even(c, u)'
  <2>1. CASE request[r].at = "bumping" /\ request[r].on = c /\ u \in Others(c, request[r].who)
    BY <1>10, <2>1 DEF Failed, Missed, Even
  <2>2. CASE ~(request[r].at = "bumping" /\ request[r].on = c /\ u \in Others(c, request[r].who))
    <3>1. Coming(c, u)' = Coming(c, u)
      BY <1>10, <2>2 DEF Failed, Over, Moved, Coming, Sending, Others, conversations
    <3>. QED
      BY <1>10, <3>1, EvenSame DEF Failed, counters
  <2>. QED
    BY <2>1, <2>2
<1>. QED
  BY <1>0, <1>3, <1>4, <1>5, <1>6, <1>7, <1>8, <1>9, <1>10

EvenInv == SeenInv /\ \A c \in Rows, u \in Users : Even(c, u)

LEMMA EvenInit == Init => EvenInv
<1> SUFFICES ASSUME Init PROVE EvenInv
  OBVIOUS
<1>1. \A c \in Rows, u \in Users : Coming(c, u) = {}
  BY IdleIs DEF Init, NoneServed, Coming, Sending
<1>2. \A c \in Rows, u \in Users :
        incoming[c][u] = 0 /\ seen[c][u] = 0 /\ unread[c][u] = 0
  BY DEF Init, Zero
<1>3. SeenInv
  BY <1>2, IdleIs DEF Init, NoneServed, SeenInv
<1>. QED
  BY <1>1, <1>2, <1>3, FS_EmptySet DEF EvenInv, Even

LEMMA EvenNext ==
  ASSUME TypeOK, NotAlone, EvenInv, Next
  PROVE  EvenInv'
BY SeenStep, EvenStep DEF EvenInv

LEMMA EvenStutter == EvenInv /\ UNCHANGED vars => EvenInv'
BY DEF EvenInv, SeenInv, Even, Coming, Sending, vars, conversations, counters, history

LEMMA EvenEnough == EvenInv => UnreadTellsUnseen
BY DEF EvenInv, Even, Coming, UnreadTellsUnseen

(* The unread counter is what the member has not seen, once the senders    *)
(* are done and unless a reading overlapped a sending.                     *)
THEOREM UnreadUnseen == Spec => []UnreadTellsUnseen
<1>1. TypeOK /\ NotAlone /\ EvenInv /\ [Next]_vars => EvenInv'
  BY EvenNext, EvenStutter
<1>. QED
  BY <1>1, EvenInit, EvenEnough, Typing, PTL DEF Spec

-----------------------------------------------------------------------------
(***************************************************************************)
(* Notices.                                                                *)
(***************************************************************************)
ToTell(r, c, u) ==
  /\ request[r].at \in {"bumping", "telling"} /\ request[r].on = c
  /\ IF request[r].at = "bumping" THEN u \in Others(c, request[r].who)
                                  ELSE u \in request[r].val
Awaited(c, u) == {r \in Requests : ToTell(r, c, u)}

ToldRight(c, u) ==
  \/ noticed[c][u] + Cardinality(Awaited(c, u)) = incoming[c][u]
  \/ <<c, u>> \in untold /\ noticed[c][u] + Cardinality(Awaited(c, u)) < incoming[c][u]

NoticeInv == \A c \in Rows, u \in Users : ToldRight(c, u)

LEMMA RightSame ==
  ASSUME NEW c \in Rows, NEW u \in Users, ToldRight(c, u),
         Awaited(c, u)' = Awaited(c, u), noticed'[c][u] = noticed[c][u],
         incoming'[c][u] = incoming[c][u], untold \subseteq untold'
  PROVE  ToldRight(c, u)'
BY DEF ToldRight

LEMMA RightStep ==
  ASSUME TypeOK, NotAlone, Next, NEW c \in Rows, NEW u \in Users, ToldRight(c, u)
  PROVE  ToldRight(c, u)'
<1>0. PICK r \in Requests :
           \/ \E w \in Users, g \in Subjects, m \in SUBSET Users : Found(r, w, g, m)
           \/ \E d \in Rows : Inserted(r, d)
           \/ \E w \in Users, d \in Rows :
                \/ Sent(r, w, d) \/ Counted(r, w, d) \/ Told(r, d, w) \/ Shown(r, w, d)
                \/ \E n \in Nat : IsRead(r, w, d, n)
           \/ Failed(r)
  BY Steps
<1>1. IsFiniteSet(Awaited(c, u)) /\ Cardinality(Awaited(c, u)) \in Nat
  BY RequestsAssumption, FS_Subset, FS_CardinalityType DEF Awaited
(* Where request r is the only one to move, it decides who is awaited.     *)
<1>2. ASSUME \A s \in Requests \ {r} : ToTell(s, c, u)' <=> ToTell(s, c, u)
      PROVE  /\ (ToTell(r, c, u)' <=> ToTell(r, c, u)) => Awaited(c, u)' = Awaited(c, u)
             /\ ToTell(r, c, u)' /\ ~ToTell(r, c, u) =>
                  Cardinality(Awaited(c, u)') = Cardinality(Awaited(c, u)) + 1
             /\ ~ToTell(r, c, u)' /\ ToTell(r, c, u) =>
                  Cardinality(Awaited(c, u)') = Cardinality(Awaited(c, u)) - 1
  <2>1. (ToTell(r, c, u)' <=> ToTell(r, c, u)) => Awaited(c, u)' = Awaited(c, u)
    BY <1>2 DEF Awaited
  <2>2. ASSUME ToTell(r, c, u)', ~ToTell(r, c, u)
        PROVE  Cardinality(Awaited(c, u)') = Cardinality(Awaited(c, u)) + 1
    <3>1. Awaited(c, u)' = Awaited(c, u) \cup {r} /\ r \notin Awaited(c, u)
      BY <1>2, <2>2 DEF Awaited
    <3>. QED
      BY <1>1, <3>1, FS_AddElement
  <2>3. ASSUME ~ToTell(r, c, u)', ToTell(r, c, u)
        PROVE  Cardinality(Awaited(c, u)') = Cardinality(Awaited(c, u)) - 1
    <3>1. Awaited(c, u)' = Awaited(c, u) \ {r} /\ r \in Awaited(c, u)
      BY <1>2, <2>3 DEF Awaited
    <3>. QED
      BY <1>1, <3>1, FS_RemoveElement
  <2>. QED
    BY <2>1, <2>2, <2>3
<1>3. ASSUME NEW at, NEW who, NEW on, NEW val, Moved(r, at, who, on, val), UNCHANGED members
      PROVE  \A s \in Requests \ {r} : ToTell(s, c, u)' <=> ToTell(s, c, u)
  BY <1>3 DEF Moved, ToTell, Others
<1>4. ASSUME NEW at, NEW who, NEW on, NEW val, Moved(r, at, who, on, val), UNCHANGED members,
             ToTell(r, c, u)' <=> ToTell(r, c, u),
             noticed'[c][u] = noticed[c][u], incoming'[c][u] = incoming[c][u],
             untold \subseteq untold'
      PROVE  ToldRight(c, u)'
  BY <1>2, <1>3, <1>4, RightSame
<1>5. ASSUME NEW w \in Users, NEW g \in Subjects, NEW m \in SUBSET Users, Found(r, w, g, m)
      PROVE  ToldRight(c, u)'
  <2>1. ~ToTell(r, c, u)' /\ ~ToTell(r, c, u)
    BY <1>5, IdleIs DEF Found, Moved, ToTell
  <2>. QED
    BY <1>4, <1>5, <2>1 DEF Found, conversations, counters
<1>6. ASSUME NEW n \in Rows, Inserted(r, n)
      PROVE  ToldRight(c, u)'
  <2>1. ASSUME NEW s \in Requests
        PROVE  ToTell(s, c, u)' <=> ToTell(s, c, u)
    <3>1. CASE s = r
      BY <1>6, <3>1 DEF Inserted, Over, Moved, ToTell
    <3>2. CASE s # r
      <4>1. request'[s] = request[s]
        BY <1>6, <3>2 DEF Inserted, Over, Moved
      <4>2. request[s].at = "bumping" =>
              request[s].on \in Rows /\ request[s].who \in members[request[s].on]
        BY TypeIs, IdleIs DEF Shaped
      <4>3. request[s].at = "bumping" => members'[request[s].on] = members[request[s].on]
        BY <1>6, <4>2 DEF Inserted, TypeOK
      <4>. QED
        BY <4>1, <4>3 DEF ToTell, Others
    <3>. QED
      BY <3>1, <3>2
  <2>. QED
    BY <1>2, <1>6, <2>1, RightSame DEF Inserted, counters, history
<1>7. ASSUME NEW w \in Users, NEW d \in Rows, Sent(r, w, d)
      PROVE  ToldRight(c, u)'
  <2>0. incoming \in [Rows -> [Users -> Nat]]
    BY DEF TypeOK
  <2>1. incoming'[c][u] = IF c = d /\ u \in Others(d, w) THEN incoming[c][u] + 1
                                                       ELSE incoming[c][u]
    BY <1>7, <2>0, RaisedIs DEF Sent
  <2>2. ~ToTell(r, c, u) /\ (ToTell(r, c, u)' <=> c = d /\ u \in Others(d, w))
    BY <1>7, IdleIs DEF Sent, Moved, ToTell, Others, conversations
  <2>3. CASE c = d /\ u \in Others(d, w)
    <3>1. Cardinality(Awaited(c, u)') = Cardinality(Awaited(c, u)) + 1
      BY <1>2, <1>3, <1>7, <2>2, <2>3 DEF Sent, conversations
    <3>. QED
      BY <1>1, <1>7, <2>1, <2>3, <3>1, Counts DEF Sent, ToldRight, history
  <2>4. CASE ~(c = d /\ u \in Others(d, w))
    BY <1>4, <1>7, <2>1, <2>2, <2>4 DEF Sent, conversations, history
  <2>. QED
    BY <2>3, <2>4
<1>8. ASSUME NEW w \in Users, NEW d \in Rows, Counted(r, w, d)
      PROVE  ToldRight(c, u)'
  <2>1. ToTell(r, c, u)' <=> ToTell(r, c, u)
    BY <1>8 DEF Counted, Moved, ToTell, Others, conversations
  <2>. QED
    BY <1>4, <1>8, <2>1 DEF Counted, conversations, history
<1>9. ASSUME NEW w \in Users, NEW d \in Rows, Told(r, d, w)
      PROVE  ToldRight(c, u)'
  <2>0. noticed \in [Rows -> [Users -> Nat]]
    BY DEF TypeOK
  <2>1. noticed'[c][u] = IF c = d /\ u = w THEN noticed[c][u] + 1 ELSE noticed[c][u]
    BY <1>9, <2>0, RaisedIs DEF Told
  <2>2. ToTell(r, c, u)' <=> ToTell(r, c, u) /\ ~(c = d /\ u = w)
    BY <1>9 DEF Told, Over, Moved, ToTell
  <2>3. \A s \in Requests \ {r} : ToTell(s, c, u)' <=> ToTell(s, c, u)
    BY <1>3, <1>9 DEF Told, Over, conversations
  <2>4. CASE c = d /\ u = w
    <3>1. ToTell(r, c, u)
      BY <1>9, <2>4 DEF Told, ToTell
    <3>2. Cardinality(Awaited(c, u)') = Cardinality(Awaited(c, u)) - 1
      BY <1>2, <2>2, <2>3, <2>4, <3>1
    <3>. QED
      BY <1>1, <1>9, <2>1, <2>4, <3>2, Counts DEF Told, ToldRight, history
  <2>5. CASE ~(c = d /\ u = w)
    BY <1>2, <1>9, <2>1, <2>2, <2>3, <2>5, RightSame DEF Told, history
  <2>. QED
    BY <2>4, <2>5
<1>10. ASSUME NEW w \in Users, NEW d \in Rows, Shown(r, w, d)
       PROVE  ToldRight(c, u)'
  <2>1. ~ToTell(r, c, u)' /\ ~ToTell(r, c, u)
    BY <1>10, IdleIs DEF Shown, Moved, ToTell
  <2>. QED
    BY <1>4, <1>10, <2>1 DEF Shown, conversations, counters, history
<1>11. ASSUME NEW w \in Users, NEW d \in Rows, NEW n \in Nat, IsRead(r, w, d, n)
       PROVE  ToldRight(c, u)'
  <2>1. ~ToTell(r, c, u)' /\ ~ToTell(r, c, u)
    BY <1>11 DEF IsRead, Over, Moved, ToTell
  <2>. QED
    BY <1>4, <1>11, <2>1 DEF IsRead, Over, conversations
<1>12. ASSUME Failed(r)
       PROVE  ToldRight(c, u)'
  <2>1. ~ToTell(r, c, u)'
    BY <1>12 DEF Failed, Over, Moved, ToTell
  <2>2. untold \subseteq untold' /\ (ToTell(r, c, u) => <<c, u>> \in untold')
    BY <1>12 DEF Failed, Missed, ToTell
  <2>3. \A s \in Requests \ {r} : ToTell(s, c, u)' <=> ToTell(s, c, u)
    BY <1>3, <1>12 DEF Failed, Over, conversations
  <2>4. CASE ToTell(r, c, u)
    <3>1. Cardinality(Awaited(c, u)') = Cardinality(Awaited(c, u)) - 1
      BY <1>2, <2>1, <2>3, <2>4
    <3>. QED
      BY <1>1, <1>12, <2>2, <2>4, <3>1, Counts DEF Failed, ToldRight, counters
  <2>5. CASE ~ToTell(r, c, u)
    BY <1>2, <1>12, <2>1, <2>2, <2>3, <2>5, RightSame DEF Failed, counters
  <2>. QED
    BY <2>4, <2>5
<1>. QED
  BY <1>0, <1>5, <1>6, <1>7, <1>8, <1>9, <1>10, <1>11, <1>12

LEMMA NoticeInit == Init => NoticeInv
<1> SUFFICES ASSUME Init, NEW c \in Rows, NEW u \in Users
             PROVE  ToldRight(c, u)
  BY DEF NoticeInv
<1>1. Awaited(c, u) = {} /\ noticed[c][u] = 0 /\ incoming[c][u] = 0
  BY IdleIs DEF Init, NoneServed, Zero, Awaited, ToTell
<1>. QED
  BY <1>1, FS_EmptySet DEF ToldRight

LEMMA NoticeStutter == NoticeInv /\ UNCHANGED vars => NoticeInv'
BY DEF NoticeInv, ToldRight, Awaited, ToTell, Others, vars, conversations, counters, history

LEMMA NoticeEnough == NoticeInv => OneNoticeEach
BY DEF NoticeInv, ToldRight, Awaited, ToTell, OneNoticeEach

(* A member gets one notice of every message of another, and misses one    *)
(* only where a sender died before telling him.                            *)
THEOREM OneNotice == Spec => []OneNoticeEach
<1>1. TypeOK /\ NotAlone /\ NoticeInv /\ [Next]_vars => NoticeInv'
  <2>1. TypeOK /\ NotAlone /\ NoticeInv /\ Next => NoticeInv'
    BY RightStep DEF NoticeInv
  <2>. QED
    BY <2>1, NoticeStutter
<1>. QED
  BY <1>1, NoticeInit, NoticeEnough, Typing, PTL DEF Spec

=============================================================================
