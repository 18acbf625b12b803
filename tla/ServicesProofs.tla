--------------------------- MODULE ServicesProofs ---------------------------
(***************************************************************************)
(* Theorems about disputes and about profiles, for every set of users,     *)
(* engagements, platforms and requests and for any number of rows: of each *)
(* service by itself, and of the two as MCServices puts them together.     *)
(***************************************************************************)
EXTENDS MCServices, TLAPS

-----------------------------------------------------------------------------
(***************************************************************************)
(* Disputes and tasks.                                                     *)
(***************************************************************************)
LEMMA DisputeIdleIs == Idle.at = "idle" /\ Idle \in DisputesRequest
BY DEF Idle, Waiting, DisputesRequest

(* Request r is at this stage now, about this, and the others stay.        *)
DisputeMoved(r, at, who, on) ==
  /\ request' \in [Requests -> DisputesRequest]
  /\ request'[r].at = at /\ request'[r].who = who /\ request'[r].on = on
  /\ \A s \in Requests \ {r} : request'[s] = request[s]

LEMMA DisputeMovedOn ==
  ASSUME request \in [Requests -> DisputesRequest], NEW r \in Requests,
         NEW at \in {"raising", "auditing"}, NEW who \in Users \cup {None},
         NEW on \in Engagements \cup Disputes,
         Becomes(r, Waiting(at, who, on, None))
  PROVE  DisputeMoved(r, at, who, on)
<1> DEFINE w == Waiting(at, who, on, None)
<1>1. w \in DisputesRequest /\ w.at = at /\ w.who = who /\ w.on = on
  BY DEF Waiting, DisputesRequest
<1>2. request' = [request EXCEPT ![r] = w]
  BY DEF Becomes
<1> HIDE DEF w
<1>. QED
  BY <1>1, <1>2 DEF DisputeMoved

LEMMA DisputeEnded ==
  ASSUME request \in [Requests -> DisputesRequest], NEW r \in Requests, Ends(r)
  PROVE  DisputeMoved(r, "idle", None, None)
BY DisputeIdleIs DEF DisputeMoved, Ends, Becomes, Idle, Waiting

(***************************************************************************)
(* The steps, each with what it does to requests and rows.                 *)
(***************************************************************************)
Unmoved == UNCHANGED <<disputes, audited, tasks, disputesPast>>

Checked(r, u, e) ==
  /\ DisputeMoved(r, "raising", u, e) /\ request[r] = Idle
  /\ MayRaise(u, e)
  /\ \/ crossed' = crossed \cup {<<u, e>>}
     \/ crossed' = crossed /\ \A s \in Requests : ~Raising(s, u, e)
  /\ UNCHANGED <<disputes, audited, tasks, touched>>

Written(r, d) ==
  /\ DisputeMoved(r, "idle", None, None) /\ request[r].at = "raising"
  /\ raisedBy[d] = None
  /\ raisedBy' = [raisedBy EXCEPT ![d] = request[r].who]
  /\ about' = [about EXCEPT ![d] = request[r].on]
  /\ due' = [due EXCEPT ![d] = TRUE]
  /\ todo' = [todo EXCEPT ![d] = "TODO"]
  /\ UNCHANGED <<state, audited, completed, disputesPast>>

Resolved(r, d) ==
  /\ DisputeMoved(r, "auditing", None, d) /\ Raised(d)
  /\ state' = [state EXCEPT ![d] = "RESOLVED"]
  /\ due' = [due EXCEPT ![d] = FALSE]
  /\ todo' = [todo EXCEPT ![d] = "DONE"]
  /\ completed' = [completed EXCEPT ![d] = TRUE]
  /\ UNCHANGED <<raisedBy, about, audited, disputesPast>>

Audited(r) ==
  /\ DisputeMoved(r, "idle", None, None) /\ request[r].at = "auditing"
  /\ audited' = [audited EXCEPT ![request[r].on] = TRUE]
  /\ UNCHANGED <<disputes, tasks, disputesPast>>

Edited(t, to) ==
  /\ UNCHANGED <<disputes, audited, crossed, request>>
  /\ \/ /\ todo[t] = "NONE" /\ t \notin Disputes /\ to = "TODO"
        /\ UNCHANGED <<completed, touched>>
     \/ /\ todo[t] # "NONE"
        /\ completed' = [completed EXCEPT ![t] = to = "DONE"]
        /\ touched' = IF t \in Disputes /\ state[t] = "RESOLVED"
                      THEN touched \cup {t} ELSE touched
     \/ /\ todo[t] = to /\ to # "NONE"
        /\ completed' = [completed EXCEPT ![t] = FALSE]
        /\ touched' = IF t \in Disputes /\ state[t] = "RESOLVED"
                      THEN touched \cup {t} ELSE touched
  /\ todo' = [todo EXCEPT ![t] = to]

LEMMA DisputeSteps ==
  ASSUME DisputesTypeOK, DisputesNext
  PROVE  \/ \E r \in Requests, u \in Users, e \in Engagements : Checked(r, u, e)
         \/ \E r \in Requests, d \in Disputes : Written(r, d) \/ Resolved(r, d)
         \/ \E r \in Requests : Audited(r) \/ (DisputeMoved(r, "idle", None, None) /\ Unmoved)
         \/ \E t \in Tasks, to \in TASK_STATUSES : Edited(t, to)
<1>0. request \in [Requests -> DisputesRequest]
  BY DEF DisputesTypeOK
<1>1. ASSUME NEW r \in Requests, NEW u \in Users, NEW e \in Engagements, RaiseCheck(r, u, e)
      PROVE  Checked(r, u, e)
  <2>1. DisputeMoved(r, "raising", u, e)
    BY <1>0, <1>1, DisputeMovedOn DEF RaiseCheck
  <2>. QED
    BY <1>1, <2>1 DEF RaiseCheck, Checked, Starts
<1>2. ASSUME NEW r \in Requests, RaiseWrite(r)
      PROVE  \E d \in Disputes : Written(r, d)
  <2>1. DisputeMoved(r, "idle", None, None)
    BY <1>0, <1>2, DisputeEnded DEF RaiseWrite
  <2>2. PICK d \in Disputes :
          /\ IsNext(d, {c \in Disputes : Raised(c)})
          /\ raisedBy' = [raisedBy EXCEPT ![d] = request[r].who]
          /\ about' = [about EXCEPT ![d] = request[r].on]
          /\ due' = [due EXCEPT ![d] = TRUE]
          /\ todo' = [todo EXCEPT ![d] = "TODO"]
    BY <1>2 DEF RaiseWrite
  <2>. QED
    BY <1>2, <2>1, <2>2 DEF RaiseWrite, Written, IsNext, Raised
<1>3. ASSUME NEW r \in Requests, NEW d \in Disputes, Resolve(r, d)
      PROVE  Resolved(r, d)
  <2>1. DisputeMoved(r, "auditing", None, d)
    BY <1>0, <1>3, DisputeMovedOn DEF Resolve
  <2>. QED
    BY <1>3, <2>1 DEF Resolve, Resolved, TaskResolved, DeadlineMet
<1>4. ASSUME NEW r \in Requests, ResolveAudit(r)
      PROVE  Audited(r)
  BY <1>0, <1>4, DisputeEnded DEF ResolveAudit, Audited
<1>5. ASSUME NEW r \in Requests, HandlingFails(r)
      PROVE  DisputeMoved(r, "idle", None, None) /\ Unmoved
  BY <1>0, <1>5, DisputeEnded DEF HandlingFails, Unmoved
<1>6. ASSUME NEW t \in Tasks, createTask(t)
      PROVE  Edited(t, "TODO")
  BY <1>6 DEF createTask, Edited, disputesPast
<1>7. ASSUME NEW t \in Tasks, NEW to \in TASK_STATUSES \cup {"NONE"}, updateTask(t, to)
      PROVE  \E u \in TASK_STATUSES : Edited(t, u)
  <2>1. CASE to # "NONE"
    <3>1. to \in TASK_STATUSES
      BY <2>1
    <3>2. Edited(t, to)
      BY <1>7, <2>1 DEF updateTask, Edited, CompletedBy
    <3>. QED
      BY <3>1, <3>2
  <2>2. CASE to = "NONE"
    <3>1. todo[t] \in TASK_STATUSES /\ todo[t] # "NONE"
      BY <1>7 DEF updateTask, DisputesTypeOK
    <3>2. Edited(t, todo[t])
      BY <1>7, <2>2, <3>1 DEF updateTask, Edited, CompletedBy
    <3>. QED
      BY <3>1, <3>2
  <2>. QED
    BY <2>1, <2>2
<1>8. "TODO" \in TASK_STATUSES
  BY DEF TASK_STATUSES
<1>. QED
  BY <1>1, <1>2, <1>3, <1>4, <1>5, <1>6, <1>7, <1>8 DEF DisputesNext, Handling

(***************************************************************************)
(* Type correctness.                                                       *)
(***************************************************************************)
LEMMA DisputesTypeInit == DisputesInit => DisputesTypeOK
BY DisputeIdleIs DEF DisputesInit, DisputesTypeOK, NoneServed, Raised,
   DISPUTE_STATUSES, Open, Tasks

LEMMA DisputesTypeNext ==
  ASSUME DisputesTypeOK, DisputesNext
  PROVE  DisputesTypeOK'
<1> USE DEF Raised
<1>0. None \notin Users
  BY NoneAssumption
<1>1. ASSUME NEW r \in Requests, NEW u \in Users, NEW e \in Engagements, Checked(r, u, e)
      PROVE  DisputesTypeOK'
  BY <1>1 DEF Checked, DisputeMoved, DisputesTypeOK, disputes, tasks
<1>2. ASSUME NEW r \in Requests, NEW d \in Disputes, Written(r, d)
      PROVE  DisputesTypeOK'
  <2>1. request[r].who \in Users /\ request[r].on \in Engagements
    BY <1>2 DEF Written, DisputesTypeOK
  <2>. QED
    BY <1>0, <1>2, <2>1 DEF Written, DisputeMoved, DisputesTypeOK, Tasks,
       TASK_STATUSES, disputesPast
<1>3. ASSUME NEW r \in Requests, NEW d \in Disputes, Resolved(r, d)
      PROVE  DisputesTypeOK'
  BY <1>3 DEF Resolved, DisputeMoved, DisputesTypeOK, Tasks, TASK_STATUSES,
     DISPUTE_STATUSES, disputesPast
<1>4. ASSUME NEW r \in Requests, Audited(r)
      PROVE  DisputesTypeOK'
  BY <1>4 DEF Audited, DisputeMoved, DisputesTypeOK, disputes, tasks, disputesPast
<1>5. ASSUME NEW r \in Requests, DisputeMoved(r, "idle", None, None), Unmoved
      PROVE  DisputesTypeOK'
  BY <1>5 DEF Unmoved, DisputeMoved, DisputesTypeOK, disputes, tasks, disputesPast
<1>6. ASSUME NEW t \in Tasks, NEW to \in TASK_STATUSES, Edited(t, to)
      PROVE  DisputesTypeOK'
  <2>1. to # "NONE"
    BY DEF TASK_STATUSES
  <2>2. todo' = [todo EXCEPT ![t] = to] /\ (t \in Disputes => todo[t] # "NONE")
    BY <1>6, <2>1 DEF Edited
  <2>3. completed' \in [Tasks -> BOOLEAN] /\ touched' \subseteq Disputes
    BY <1>6 DEF Edited, DisputesTypeOK
  <2>4. UNCHANGED <<disputes, audited, crossed, request>>
    BY <1>6 DEF Edited
  <2>. QED
    BY <2>1, <2>2, <2>3, <2>4 DEF DisputesTypeOK, Tasks, disputes
<1>. QED
  BY <1>1, <1>2, <1>3, <1>4, <1>5, <1>6, DisputeSteps

LEMMA DisputesTypeStutter == DisputesTypeOK /\ UNCHANGED disputesVars => DisputesTypeOK'
BY DEF DisputesTypeOK, Raised, disputesVars, disputes, tasks, disputesPast

(* Rows and requests keep their shape, and every dispute that has been     *)
(* raised has its task, whatever overlaps.                                 *)
THEOREM DisputesTyping == DisputesSpec => []DisputesTypeOK
<1>1. DisputesTypeOK /\ [DisputesNext]_disputesVars => DisputesTypeOK'
  BY DisputesTypeNext, DisputesTypeStutter
<1>. QED
  BY <1>1, DisputesTypeInit, PTL DEF DisputesSpec

-----------------------------------------------------------------------------
(***************************************************************************)
(* Resolved disputes and completed tasks.  The invariant adds that nobody  *)
(* resolves what is not raised, and that a request that is to write the    *)
(* audit entry has resolved the dispute.                                   *)
(***************************************************************************)
DoneInv ==
  /\ \A d \in Disputes : ~Raised(d) => state[d] = "OPEN"
  /\ \A r \in Requests : request[r].at = "auditing" => state[request[r].on] = "RESOLVED"
  /\ ResolvedIsDone
  /\ CompletedIsDone

LEMMA DoneInit == DisputesInit => DoneInv
BY DisputeIdleIs DEF DisputesInit, NoneServed, DoneInv, ResolvedIsDone, CompletedIsDone

LEMMA DoneStep ==
  ASSUME DisputesTypeOK, DoneInv, DisputesNext
  PROVE  DoneInv'
<1> USE DEF Raised
<1>0. None \notin Users
  BY NoneAssumption
<1>1. ASSUME NEW r \in Requests, NEW u \in Users, NEW e \in Engagements, Checked(r, u, e)
      PROVE  DoneInv'
  BY <1>1 DEF Checked, DisputeMoved, DoneInv, ResolvedIsDone, CompletedIsDone,
     disputes, tasks
<1>2. ASSUME NEW r \in Requests, NEW d \in Disputes, Written(r, d)
      PROVE  DoneInv'
  <2>1. request[r].who \in Users /\ todo[d] = "NONE" /\ state[d] = "OPEN" /\ ~completed[d]
    BY <1>2 DEF Written, DisputesTypeOK, DoneInv, CompletedIsDone, Tasks
  <2>. QED
    BY <1>0, <1>2, <2>1 DEF Written, DisputeMoved, DisputesTypeOK, Tasks,
       disputesPast, DoneInv, ResolvedIsDone, CompletedIsDone
<1>3. ASSUME NEW r \in Requests, NEW d \in Disputes, Resolved(r, d)
      PROVE  DoneInv'
  BY <1>3 DEF Resolved, DisputeMoved, DisputesTypeOK, Tasks, disputesPast, DoneInv,
     ResolvedIsDone, CompletedIsDone
<1>4. ASSUME NEW r \in Requests, Audited(r)
      PROVE  DoneInv'
  BY <1>4 DEF Audited, DisputeMoved, DisputesTypeOK, disputes, tasks, disputesPast,
     DoneInv, ResolvedIsDone, CompletedIsDone
<1>5. ASSUME NEW r \in Requests, DisputeMoved(r, "idle", None, None), Unmoved
      PROVE  DoneInv'
  BY <1>5 DEF Unmoved, DisputeMoved, disputes, tasks, disputesPast, DoneInv,
     ResolvedIsDone, CompletedIsDone
<1>6. ASSUME NEW t \in Tasks, NEW to \in TASK_STATUSES, Edited(t, to)
      PROVE  DoneInv'
  <2>0. /\ UNCHANGED <<raisedBy, about, state, due, audited, crossed, request>>
        /\ todo' = [todo EXCEPT ![t] = to]
    BY <1>6 DEF Edited, disputes
  <2>1. /\ completed' = completed \/ \E b \in BOOLEAN : completed' = [completed EXCEPT ![t] = b]
        /\ completed'[t] => to = "DONE"
    BY <1>6 DEF Edited, DisputesTypeOK, DoneInv, CompletedIsDone
  <2>2. \A d \in Disputes :
          state[d] = "RESOLVED" /\ d \notin touched' => d # t /\ d \notin touched
    <3>1. \A d \in Disputes : state[d] = "RESOLVED" => Raised(d)
      BY DEF DoneInv
    <3>2. \A d \in Disputes : state[d] = "RESOLVED" => todo[d] # "NONE"
      BY <3>1 DEF DisputesTypeOK
    <3>. QED
      BY <1>6, <3>2 DEF Edited
  <2>3. CompletedIsDone'
    BY <2>0, <2>1 DEF DoneInv, CompletedIsDone, DisputesTypeOK
  <2>4. ResolvedIsDone'
    BY <2>0, <2>1, <2>2 DEF DoneInv, ResolvedIsDone, DisputesTypeOK, Tasks
  <2>. QED
    BY <2>0, <2>3, <2>4 DEF DoneInv
<1>. QED
  BY <1>1, <1>2, <1>3, <1>4, <1>5, <1>6, DisputeSteps

LEMMA DoneStutter == DoneInv /\ UNCHANGED disputesVars => DoneInv'
BY DEF DoneInv, ResolvedIsDone, CompletedIsDone, Raised, disputesVars, disputes,
   tasks, disputesPast

(* A dispute that is resolved has a task that is done, until somebody      *)
(* edits that task by hand, and the audit log names resolved disputes only.*)
THEOREM ResolvedDone == DisputesSpec => []ResolvedIsDone
<1>1. DisputesTypeOK /\ DoneInv /\ [DisputesNext]_disputesVars => DoneInv'
  BY DoneStep, DoneStutter
<1>2. DoneInv => ResolvedIsDone
  BY DEF DoneInv
<1>. QED
  BY <1>1, <1>2, DoneInit, DisputesTyping, PTL DEF DisputesSpec

(* No task that is not done has a completion date.                         *)
THEOREM CompletedDone == DisputesSpec => []CompletedIsDone
<1>1. DisputesTypeOK /\ DoneInv /\ [DisputesNext]_disputesVars => DoneInv'
  BY DoneStep, DoneStutter
<1>2. DoneInv => CompletedIsDone
  BY DEF DoneInv
<1>. QED
  BY <1>1, <1>2, DoneInit, DisputesTyping, PTL DEF DisputesSpec

-----------------------------------------------------------------------------
(***************************************************************************)
(* Open disputes.  The invariant for a user and an engagement no two       *)
(* requests were raising at once: one request is past the look at what is  *)
(* open, none while a dispute is.                                          *)
(***************************************************************************)
Uncrossed(u, e) ==
  /\ \A r, s \in Requests : Raising(r, u, e) /\ Raising(s, u, e) => r = s
  /\ \A r \in Requests, d \in Disputes : Raising(r, u, e) => ~OpenFor(d, u, e)
  /\ \A c, d \in Disputes : OpenFor(c, u, e) /\ OpenFor(d, u, e) => c = d

OpenInv ==
  \A u \in Users, e \in Engagements : <<u, e>> \notin crossed => Uncrossed(u, e)

AboutInv == \A d \in Disputes : Raised(d) => about[d] \in Engagements

LEMMA AboutStep ==
  ASSUME DisputesTypeOK, AboutInv, DisputesNext
  PROVE  AboutInv'
<1> USE DEF Raised
<1>1. UNCHANGED <<raisedBy, about>> => AboutInv'
  BY DEF AboutInv
<1>2. ASSUME NEW r \in Requests, NEW d \in Disputes, Written(r, d)
      PROVE  AboutInv'
  <2>1. request[r].on \in Engagements
    BY <1>2 DEF Written, DisputesTypeOK
  <2>. QED
    BY <1>2, <2>1 DEF Written, DisputesTypeOK, AboutInv
<1>. QED
  BY <1>1, <1>2, DisputeSteps DEF Checked, Resolved, Audited, Unmoved, Edited, disputes

LEMMA OpenInit == DisputesInit => OpenInv
BY DisputeIdleIs, NoneAssumption
   DEF DisputesInit, NoneServed, OpenInv, Uncrossed, Raising, OpenFor

LEMMA OpenStep ==
  ASSUME DisputesTypeOK, OpenInv, DisputesNext
  PROVE  OpenInv'
<1> SUFFICES ASSUME NEW u \in Users, NEW e \in Engagements, <<u, e>> \notin crossed'
             PROVE  Uncrossed(u, e)'
  BY DEF OpenInv
<1>0. None \notin Users /\ DisputesTypeOK
  BY NoneAssumption
<1>1. ASSUME NEW r \in Requests, NEW v \in Users, NEW f \in Engagements, Checked(r, v, f)
      PROVE  Uncrossed(u, e)'
  <2>1. Uncrossed(u, e)
    BY <1>1 DEF Checked, OpenInv
  <2>2. /\ \A d \in Disputes : OpenFor(d, u, e)' <=> OpenFor(d, u, e)
        /\ \A s \in Requests \ {r} : Raising(s, u, e)' <=> Raising(s, u, e)
        /\ Raising(r, u, e)' => u = v /\ e = f
    BY <1>1 DEF Checked, DisputeMoved, disputes, OpenFor, Raising
  <2>3. CASE u = v /\ e = f
    <3>1. \A s \in Requests : ~Raising(s, u, e)
      BY <1>1, <2>3 DEF Checked
    <3>2. \A d \in Disputes : ~OpenFor(d, u, e)
      BY <1>1, <2>3 DEF Checked, MayRaise
    <3>. QED
      BY <2>2, <3>1, <3>2 DEF Uncrossed
  <2>4. CASE ~(u = v /\ e = f)
    BY <2>1, <2>2, <2>4 DEF Uncrossed
  <2>. QED
    BY <2>3, <2>4
<1>2. ASSUME NEW r \in Requests, NEW d \in Disputes, Written(r, d)
      PROVE  Uncrossed(u, e)'
  <2>1. Uncrossed(u, e)
    BY <1>2 DEF Written, OpenInv, disputesPast
  <2>2. /\ \A s \in Requests : Raising(s, u, e)' => s # r /\ Raising(s, u, e)
        /\ \A c \in Disputes : c # d => (OpenFor(c, u, e)' <=> OpenFor(c, u, e))
        /\ OpenFor(d, u, e)' => Raising(r, u, e)
    BY <1>0, <1>2 DEF Written, DisputeMoved, OpenFor, Raising, DisputesTypeOK
  <2>. QED
    BY <2>1, <2>2 DEF Uncrossed
<1>3. ASSUME \A s \in Requests : Raising(s, u, e)' => Raising(s, u, e),
             \A c \in Disputes : OpenFor(c, u, e)' => OpenFor(c, u, e),
             crossed' = crossed
      PROVE  Uncrossed(u, e)'
  BY <1>3 DEF OpenInv, Uncrossed
<1>4. ASSUME NEW r \in Requests, NEW d \in Disputes, Resolved(r, d)
      PROVE  Uncrossed(u, e)'
  BY <1>0, <1>3, <1>4 DEF Resolved, DisputeMoved, OpenFor, Raising, DisputesTypeOK,
     Open, disputesPast
<1>5. ASSUME NEW r \in Requests, Audited(r) \/ (DisputeMoved(r, "idle", None, None) /\ Unmoved)
      PROVE  Uncrossed(u, e)'
  BY <1>3, <1>5 DEF Audited, Unmoved, DisputeMoved, OpenFor, Raising, disputes,
     disputesPast
<1>6. ASSUME NEW t \in Tasks, NEW to \in TASK_STATUSES, Edited(t, to)
      PROVE  Uncrossed(u, e)'
  BY <1>3, <1>6 DEF Edited, OpenFor, Raising, disputes
<1>. QED
  BY <1>1, <1>2, <1>4, <1>5, <1>6, DisputeSteps

LEMMA OpenStutter == OpenInv /\ UNCHANGED disputesVars => OpenInv'
BY DEF OpenInv, Uncrossed, Raising, OpenFor, disputesVars, disputes, disputesPast

LEMMA OpenEnough == DisputesTypeOK /\ AboutInv /\ OpenInv => OneOpenDispute
<1> SUFFICES ASSUME DisputesTypeOK, AboutInv, OpenInv, NEW c \in Disputes, NEW d \in Disputes,
                    c # d, Raised(c), OpenFor(c, raisedBy[c], about[c]),
                    OpenFor(d, raisedBy[c], about[c]),
                    <<raisedBy[c], about[c]>> \notin crossed
             PROVE  FALSE
  BY DEF OneOpenDispute
<1>1. raisedBy[c] \in Users /\ about[c] \in Engagements
  BY DEF DisputesTypeOK, AboutInv, Raised
<1>2. Uncrossed(raisedBy[c], about[c])
  BY <1>1 DEF OpenInv
<1>. QED
  BY <1>2 DEF Uncrossed

(* Nobody has two open disputes about one engagement, unless two requests  *)
(* were raising it at once.                                                *)
THEOREM OneOpen == DisputesSpec => []OneOpenDispute
<1>1. DisputesTypeOK /\ OpenInv /\ [DisputesNext]_disputesVars => OpenInv'
  BY OpenStep, OpenStutter
<1>2. DisputesTypeOK /\ AboutInv /\ [DisputesNext]_disputesVars => AboutInv'
  <2>1. AboutInv /\ UNCHANGED disputesVars => AboutInv'
    BY DEF AboutInv, Raised, disputesVars, disputes
  <2>. QED
    BY <2>1, AboutStep
<1>3. DisputesInit => AboutInv
  BY DEF DisputesInit, AboutInv, Raised
<1>. QED
  BY <1>1, <1>2, <1>3, OpenInit, OpenEnough, DisputesTyping, PTL DEF DisputesSpec

(***************************************************************************)
(* The deadline.                                                           *)
(***************************************************************************)
LEMMA DueStep ==
  ASSUME DisputesTypeOK, DoneInv, OpenIsDue, DisputesNext
  PROVE  OpenIsDue'
<1> USE DEF Raised
<1>1. ASSUME NEW r \in Requests, NEW d \in Disputes, Written(r, d)
      PROVE  OpenIsDue'
  <2>1. request[r].who \in Users /\ request[r].who # None /\ state[d] = "OPEN"
    BY <1>1, NoneAssumption DEF Written, DisputesTypeOK, DoneInv
  <2>. QED
    BY <1>1, <2>1 DEF Written, DisputesTypeOK, OpenIsDue, Open
<1>2. ASSUME NEW r \in Requests, NEW d \in Disputes, Resolved(r, d)
      PROVE  OpenIsDue'
  BY <1>2 DEF Resolved, DisputesTypeOK, OpenIsDue, Open
<1>3. UNCHANGED disputes => OpenIsDue'
  BY DEF disputes, OpenIsDue
<1>. QED
  BY <1>1, <1>2, <1>3, DisputeSteps DEF Checked, Audited, Unmoved, Edited

(* A dispute has a deadline exactly while it is open.                      *)
THEOREM DueWhileOpen == DisputesSpec => []OpenIsDue
<1>1. DisputesTypeOK /\ DoneInv /\ [DisputesNext]_disputesVars => DoneInv'
  BY DoneStep, DoneStutter
<1>2. DisputesTypeOK /\ DoneInv /\ OpenIsDue /\ [DisputesNext]_disputesVars => OpenIsDue'
  <2>1. OpenIsDue /\ UNCHANGED disputesVars => OpenIsDue'
    BY DEF OpenIsDue, Raised, disputesVars, disputes
  <2>. QED
    BY <2>1, DueStep
<1>3. DisputesInit => OpenIsDue
  BY DEF DisputesInit, OpenIsDue, Raised
<1>. QED
  BY <1>1, <1>2, <1>3, DoneInit, DisputesTyping, PTL DEF DisputesSpec

-----------------------------------------------------------------------------
(***************************************************************************)
(* Profiles, their links and their verification.                           *)
(***************************************************************************)
LEMMA ProfileIdleIs == Idle.at = "idle" /\ Idle \in ProfilesRequest
BY DEF Idle, Waiting, ProfilesRequest

(* Request r carries these parts now, and the others what they did.        *)
ProfileMoved(r, at, who, on, val) ==
  /\ request' \in [Requests -> ProfilesRequest]
  /\ request'[r].at = at /\ request'[r].who = who
  /\ request'[r].on = on /\ request'[r].val = val
  /\ \A s \in Requests \ {r} : request'[s] = request[s]

Over(r) == ProfileMoved(r, "idle", None, None, None) /\ request'[r] = Idle

ProfileStages == {"idle", "ensuring", "submitting", "queueing"} \cup Saves \cup Reviews

LEMMA ProfileMovedOn ==
  ASSUME request \in [Requests -> ProfilesRequest], NEW r \in Requests,
         NEW at \in ProfileStages, NEW who \in Users \cup {None},
         NEW on \in Rows \cup {None}, NEW val \in Forms \cup {None},
         Becomes(r, Waiting(at, who, on, val))
  PROVE  ProfileMoved(r, at, who, on, val)
<1> DEFINE w == Waiting(at, who, on, val)
<1>1. w \in ProfilesRequest /\ w.at = at /\ w.who = who /\ w.on = on /\ w.val = val
  BY DEF Waiting, ProfilesRequest, ProfileStages
<1>2. request' = [request EXCEPT ![r] = w]
  BY DEF Becomes
<1> HIDE DEF w
<1>. QED
  BY <1>1, <1>2 DEF ProfileMoved

LEMMA ProfileEnded ==
  ASSUME request \in [Requests -> ProfilesRequest], NEW r \in Requests, Ends(r)
  PROVE  Over(r)
BY ProfileIdleIs DEF Over, ProfileMoved, Ends, Becomes, Idle, Waiting

(***************************************************************************)
(* The steps, each with what it does to requests and rows.                 *)
(***************************************************************************)
Stepped(r, from, at, on, val) ==
  /\ request[r].at = from /\ request[r].who \in Users
  /\ ProfileMoved(r, at, request[r].who, on, val)

Begun(r, u, form) ==
  /\ request[r] = Idle
  /\ \/ ProfileMoved(r, "ensuring", u, None, form)
     \/ there[u] /\ ProfileMoved(r, First(form), u, None, form)
  /\ UNCHANGED <<profiles, reviews, profilesPast>>

Ensured(r) ==
  /\ \/ Over(r) /\ UNCHANGED there
     \/ /\ Stepped(r, "ensuring", First(request[r].val), None, request[r].val)
        /\ there' = [there EXCEPT ![request[r].who] = TRUE]
  /\ request[r].at = "ensuring"
  /\ UNCHANGED <<handles, links, flag, reviews, profilesPast>>

Saved(r) ==
  LET q == request[r] IN
  /\ Stepped(r, "saving", "unlinking", None, q.val) /\ q.val \in Forms
  /\ handles' = [handles EXCEPT ![q.who] = q.val]
  /\ torn' = IF SomeAt(Requests, Linking, q.who) THEN torn \cup {q.who}
                                                 ELSE torn \ {q.who}
  /\ UNCHANGED <<there, links, flag, reviews, doubled, overruled>>

AllUnlinked(r) ==
  LET q == request[r] IN
  /\ q.at = "unlinking" /\ q.who \in Users /\ q.val \in Forms
  /\ \/ q.val = Empty /\ Over(r)
     \/ ProfileMoved(r, "linking", q.who, None, q.val)
  /\ links' = [links EXCEPT ![q.who] = Empty]
  /\ UNCHANGED <<there, handles, flag, reviews, profilesPast>>

AllLinked(r) ==
  LET q == request[r] IN
  /\ Over(r) /\ q.at = "linking" /\ q.who \in Users /\ q.val \in Forms
  /\ links' = [links EXCEPT ![q.who] =
       [p \in Platforms |-> IF q.val[p] = None THEN links[q.who][p] ELSE q.val[p]]]
  /\ UNCHANGED <<there, handles, flag, reviews, profilesPast>>

Looked(r) ==
  LET u == request[r].who IN
  /\ request[r].at = "submitting"
  /\ \/ Over(r) /\ UNCHANGED doubled
     \/ /\ Stepped(r, "submitting", "queueing", None, None)
        /\ Queued(u) = {}
        /\ doubled' = IF SomeAt(Requests, {"queueing"}, u) THEN doubled \cup {u}
                                                           ELSE doubled
  /\ UNCHANGED <<profiles, reviews, torn, overruled>>

Submitted(r, v) ==
  LET u == request[r].who IN
  /\ Over(r) /\ request[r].at = "queueing" /\ u \in Users
  /\ IsNext(v, {w \in Rows : submitter[w] # None})
  /\ submitter' = [submitter EXCEPT ![v] = u]
  /\ flag' = [flag EXCEPT ![u] = "PENDING"]
  /\ overruled' = overruled \ {u}
  /\ UNCHANGED <<there, handles, links, verdict, logged, torn, doubled>>

Listed(r, v) ==
  LET u == submitter[v] IN
  /\ request[r] = Idle /\ u \in Users
  /\ ProfileMoved(r, "deciding", u, v, None)
  /\ UNCHANGED <<profiles, reviews, profilesPast>>

Decided(r, s) ==
  LET q == request[r] IN
  /\ Stepped(r, "deciding", "logging", q.on, None)
  /\ q.on \in Rows /\ submitter[q.on] = q.who
  /\ verdict' = [verdict EXCEPT ![q.on] = s]
  /\ flag' = [flag EXCEPT ![q.who] = s]
  /\ overruled' = Overruled(q.who, q.on)
  /\ UNCHANGED <<there, handles, links, submitter, logged, torn, doubled>>

Recorded(r) ==
  /\ Over(r) /\ request[r].at = "logging" /\ request[r].on \in Rows
  /\ logged' = logged \cup {request[r].on}
  /\ UNCHANGED <<profiles, submitter, verdict, profilesPast>>

Failed(r) ==
  LET q == request[r] IN
  /\ Over(r) /\ q.who \in Users
  /\ torn' = IF q.at \in Linking THEN torn \cup {q.who} ELSE torn
  /\ UNCHANGED <<profiles, reviews, doubled, overruled>>

Step(r) ==
  \/ \E u \in Users, f \in Forms \cup {None} : Begun(r, u, f)
  \/ Ensured(r) \/ Saved(r) \/ AllUnlinked(r) \/ AllLinked(r) \/ Looked(r)
  \/ \E v \in Rows : Submitted(r, v) \/ Listed(r, v)
  \/ \E s \in {"VERIFIED", "REJECTED"} : Decided(r, s)
  \/ Recorded(r) \/ Failed(r)

LEMMA ProfileSteps ==
  ASSUME ProfilesTypeOK, ProfilesNext
  PROVE  \E r \in Requests : Step(r)
<1>0. PICK r \in Requests : EnsureWrite(r) \/ Saving(r) \/ Verifying(r) \/ SavingFails(r)
  BY DEF ProfilesNext
<1> DEFINE q == request[r]
<1>1. /\ request \in [Requests -> ProfilesRequest] /\ q \in ProfilesRequest
      /\ q.at # "idle" => q.who \in Users
      /\ q.at \in Saves => q.val \in Forms
      /\ q.at \in Reviews => q.on \in Rows /\ submitter[q.on] = q.who
  BY ProfileIdleIs DEF ProfilesTypeOK
<1>2. q.who \in Users \cup {None} /\ q.on \in Rows \cup {None} /\ q.val \in Forms \cup {None}
  BY <1>1 DEF ProfilesRequest
<1>3. /\ \A f : First(f) \in ProfileStages
      /\ {"ensuring", "unlinking", "linking", "queueing", "deciding", "logging"} \subseteq ProfileStages
      /\ None \in Users \cup {None} /\ None \in Rows \cup {None} /\ None \in Forms \cup {None}
  BY DEF First, ProfileStages, Saves, Linking, Reviews
<1> HIDE DEF q
<1>4. ASSUME NEW u \in Users, NEW f \in Forms \cup {None}, Begin(r, u, f)
      PROVE  Begun(r, u, f)
  <2>1. CASE there[u]
    BY <1>1, <1>3, <1>4, <2>1, ProfileMovedOn DEF Begin, Begun, Starts
  <2>2. CASE ~there[u]
    BY <1>1, <1>3, <1>4, <2>2, ProfileMovedOn DEF Begin, Begun, Starts
  <2>. QED
    BY <2>1, <2>2
<1>5. ASSUME EnsureWrite(r)
      PROVE  Ensured(r)
  <2>1. CASE there[q.who]
    BY <1>1, <1>5, <2>1, ProfileEnded DEF EnsureWrite, Ensured, q
  <2>2. CASE ~there[q.who]
    <3>1. ProfileMoved(r, First(q.val), q.who, None, q.val)
      BY <1>1, <1>2, <1>3, <1>5, <2>2, ProfileMovedOn DEF EnsureWrite, q
    <3>. QED
      BY <1>1, <1>5, <2>2, <3>1 DEF EnsureWrite, Ensured, Stepped, q
  <2>. QED
    BY <2>1, <2>2
<1>6. ASSUME SaveProfile(r)
      PROVE  Saved(r)
  <2>1. ProfileMoved(r, "unlinking", q.who, None, q.val)
    BY <1>1, <1>2, <1>3, <1>6, ProfileMovedOn DEF SaveProfile, q
  <2>. QED
    BY <1>1, <1>6, <2>1 DEF SaveProfile, Saved, Stepped, Saves, q
<1>7. ASSUME UnlinkAll(r)
      PROVE  AllUnlinked(r)
  <2>1. (q.val = Empty /\ Over(r)) \/ ProfileMoved(r, "linking", q.who, None, q.val)
    BY <1>1, <1>2, <1>3, <1>7, ProfileMovedOn, ProfileEnded DEF UnlinkAll, q
  <2>. QED
    BY <1>1, <1>7, <2>1 DEF UnlinkAll, AllUnlinked, Unlinked, Saves, Linking, q
<1>8. ASSUME LinkAll(r)
      PROVE  AllLinked(r)
  BY <1>1, <1>8, ProfileEnded DEF LinkAll, AllLinked, Saves, Linking, q
<1>9. ASSUME SubmitRead(r)
      PROVE  Looked(r)
  <2>1. CASE MaySubmit(q.who)
    <3>1. ProfileMoved(r, "queueing", q.who, None, None)
      BY <1>1, <1>2, <1>3, <1>9, <2>1, ProfileMovedOn DEF SubmitRead, q
    <3>. QED
      BY <1>1, <1>9, <2>1, <3>1 DEF SubmitRead, Looked, Stepped, MaySubmit, q
  <2>2. CASE ~MaySubmit(q.who)
    BY <1>1, <1>9, <2>2, ProfileEnded DEF SubmitRead, Looked, q
  <2>. QED
    BY <2>1, <2>2
<1>10. ASSUME SubmitWrite(r)
       PROVE  \E v \in Rows : Submitted(r, v)
  BY <1>1, <1>10, ProfileEnded DEF SubmitWrite, Submitted, Flagged, q
<1>11. ASSUME NEW v \in Rows, ReviewStart(r, v)
       PROVE  Listed(r, v)
  <2>1. submitter[v] \in Users
    BY <1>11 DEF ReviewStart, ProfilesTypeOK
  <2>2. ProfileMoved(r, "deciding", submitter[v], v, None)
    BY <1>1, <1>3, <1>11, <2>1, ProfileMovedOn DEF ReviewStart
  <2>. QED
    BY <1>11, <2>1, <2>2 DEF ReviewStart, Listed, Starts
<1>12. ASSUME NEW s \in {"VERIFIED", "REJECTED"}, ReviewWrite(r, s)
       PROVE  Decided(r, s)
  <2>1. ProfileMoved(r, "logging", q.who, q.on, None)
    BY <1>1, <1>2, <1>3, <1>12, ProfileMovedOn DEF ReviewWrite, q
  <2>. QED
    BY <1>1, <1>12, <2>1 DEF ReviewWrite, Decided, Stepped, Flagged, Reviews, q
<1>13. ASSUME ReviewLog(r)
       PROVE  Recorded(r)
  BY <1>1, <1>13, ProfileEnded DEF ReviewLog, Recorded, Reviews, q
<1>14. ASSUME SavingFails(r)
       PROVE  Failed(r)
  <2>1. q.who \in Users
    BY <1>14 DEF SavingFails, ProfilesTypeOK, q
  <2>. QED
    BY <1>1, <1>14, <2>1, ProfileEnded DEF SavingFails, Failed, q
<1>. QED
  BY <1>0, <1>4, <1>5, <1>6, <1>7, <1>8, <1>9, <1>10, <1>11, <1>12, <1>13, <1>14
     DEF Saving, Verifying, Step

(***************************************************************************)
(* Type correctness.                                                       *)
(***************************************************************************)
Shaped(q) ==
  /\ q # Idle => q.who \in Users
  /\ q.at \in Saves => q.val \in Forms
  /\ q.at \in Reviews => q.on \in Rows /\ submitter[q.on] = q.who
  /\ q.at \notin {"idle", "ensuring"} => there[q.who]

Rowed ==
  /\ there \in [Users -> BOOLEAN]
  /\ handles \in [Users -> Forms]
  /\ links \in [Users -> Forms]
  /\ flag \in [Users -> VERIFICATION_STATUSES]
  /\ submitter \in [Rows -> Users \cup {None}]
  /\ verdict \in [Rows -> VERIFICATION_STATUSES \ {"UNVERIFIED"}]
  /\ logged \subseteq Rows
  /\ torn \cup doubled \cup overruled \subseteq Users

LEMMA TypeIs ==
  ProfilesTypeOK <=> /\ Rowed
             /\ request \in [Requests -> ProfilesRequest]
             /\ \A r \in Requests : Shaped(request[r])
BY DEF ProfilesTypeOK, Rowed, Shaped

(* Profiles and submitters stay.                                           *)
Kept ==
  /\ \A u \in Users : there[u] => there'[u]
  /\ \A v \in Rows : submitter[v] # None => submitter'[v] = submitter[v]

LEMMA TypeMoves ==
  ASSUME ProfilesTypeOK, Rowed', Kept, NEW r \in Requests,
         NEW at, NEW who, NEW on, NEW val, ProfileMoved(r, at, who, on, val), Shaped(request[r])'
  PROVE  ProfilesTypeOK'
<1>1. ASSUME NEW s \in Requests, s # r
      PROVE  Shaped(request[s])'
  <2>1. request'[s] = request[s] /\ Shaped(request[s])
    BY <1>1, TypeIs DEF ProfileMoved
  <2>2. /\ request[s].at \in Reviews => request[s].on \in Rows /\ request[s] # Idle
        /\ request[s].at \notin {"idle", "ensuring"} => request[s] # Idle
    BY <2>1, ProfileIdleIs DEF Shaped, Reviews
  <2>3. request[s] # Idle => request[s].who \in Users /\ request[s].who # None
    BY <2>1, NoneAssumption DEF Shaped
  <2>. QED
    BY <2>1, <2>2, <2>3 DEF Shaped, Kept
<1>. QED
  BY <1>1 DEF ProfileMoved, ProfilesTypeOK, Rowed, Shaped

LEMMA TypeEnds ==
  ASSUME ProfilesTypeOK, Rowed', Kept, NEW r \in Requests, Over(r)
  PROVE  ProfilesTypeOK'
<1>1. Shaped(request[r])'
  BY ProfileIdleIs DEF Over, Shaped, Saves, Linking, Reviews
<1>. QED
  BY <1>1, TypeMoves DEF Over

(* Whoever has submitted has a profile.                                    *)
OwnersThere == \A v \in Rows : submitter[v] # None => there[submitter[v]]

LEMMA ProfilesTypeInit == ProfilesInit => ProfilesTypeOK /\ OwnersThere
BY ProfileIdleIs DEF ProfilesInit, NoneServed, ProfilesTypeOK, Saves, Linking,
   Reviews, Forms, Empty, VERIFICATION_STATUSES, OwnersThere

LEMMA ProfilesTypeNext ==
  ASSUME ProfilesTypeOK, OwnersThere, ProfilesNext
  PROVE  ProfilesTypeOK'
<1>0. PICK r \in Requests : Step(r)
  BY ProfileSteps
<1> DEFINE q == request[r]
<1>1. Rowed /\ Shaped(q)
  BY TypeIs
<1>2. ASSUME NEW u \in Users, NEW f \in Forms \cup {None}, Begun(r, u, f)
      PROVE  ProfilesTypeOK'
  <2>1. Rowed' /\ Kept /\ UNCHANGED <<there, submitter>>
    BY <1>1, <1>2 DEF Begun, Rowed, Kept, profiles, reviews, profilesPast
  <2>2. CASE ProfileMoved(r, "ensuring", u, None, f)
    <3>1. Shaped(request[r])'
      BY <2>2 DEF ProfileMoved, Shaped, Saves, Linking, Reviews
    <3>. QED
      BY <2>1, <2>2, <3>1, TypeMoves
  <2>3. CASE there[u] /\ ProfileMoved(r, First(f), u, None, f)
    <3>1. Shaped(request[r])'
      BY <2>1, <2>3 DEF ProfileMoved, First, Shaped, Saves, Linking, Reviews
    <3>. QED
      BY <2>1, <2>3, <3>1, TypeMoves
  <2>. QED
    BY <1>2, <2>2, <2>3 DEF Begun
<1>3. ASSUME Ensured(r)
      PROVE  ProfilesTypeOK'
  <2>1. Rowed' /\ Kept
    BY <1>1, <1>3 DEF Ensured, Stepped, Rowed, Kept, reviews, profilesPast
  <2>2. CASE Over(r)
    BY <2>1, <2>2, TypeEnds
  <2>3. CASE /\ Stepped(r, "ensuring", First(q.val), None, q.val)
             /\ there' = [there EXCEPT ![q.who] = TRUE]
    <3>1. q.val \in Forms \cup {None} /\ there'[q.who]
      BY <1>1, <2>3, ProfileIdleIs DEF Stepped, Rowed, ProfilesTypeOK, ProfilesRequest
    <3>2. Shaped(request[r])'
      BY <2>3, <3>1 DEF Stepped, ProfileMoved, First, Shaped, Saves, Linking, Reviews
    <3>. QED
      BY <2>1, <2>3, <3>2, TypeMoves DEF Stepped
  <2>. QED
    BY <1>3, <2>2, <2>3 DEF Ensured
<1>4. ASSUME Saved(r)
      PROVE  ProfilesTypeOK'
  <2>1. Rowed' /\ Kept /\ UNCHANGED <<there, submitter>>
    BY <1>1, <1>4 DEF Saved, Stepped, Rowed, Kept, reviews
  <2>2. Shaped(request[r])'
    BY <1>1, <1>4, <2>1 DEF Saved, Stepped, ProfileMoved, Shaped, Saves, Linking,
       Reviews
  <2>. QED
    BY <1>4, <2>1, <2>2, TypeMoves DEF Saved, Stepped
<1>5. ASSUME AllUnlinked(r)
      PROVE  ProfilesTypeOK'
  <2>1. Rowed' /\ Kept /\ UNCHANGED <<there, submitter>>
    <3>1. Empty \in Forms
      BY DEF Empty, Forms
    <3>. QED
      BY <1>1, <1>5, <3>1 DEF AllUnlinked, Rowed, Kept, reviews, profilesPast
  <2>2. CASE Over(r)
    BY <2>1, <2>2, TypeEnds
  <2>3. CASE ProfileMoved(r, "linking", q.who, None, q.val)
    <3>1. Shaped(request[r])'
      BY <1>1, <1>5, <2>1, <2>3 DEF AllUnlinked, ProfileMoved, Shaped, Saves,
         Linking, Reviews
    <3>. QED
      BY <2>1, <2>3, <3>1, TypeMoves
  <2>. QED
    BY <1>5, <2>2, <2>3 DEF AllUnlinked
<1>6. ASSUME AllLinked(r)
      PROVE  ProfilesTypeOK'
  <2>1. links' \in [Users -> Forms]
    <3> DEFINE l == [p \in Platforms |-> IF q.val[p] = None THEN links[q.who][p] ELSE q.val[p]]
    <3>1. links[q.who] \in Forms /\ q.val \in Forms /\ q.who \in Users
      BY <1>1, <1>6 DEF AllLinked, Rowed
    <3>2. l \in Forms
      BY <3>1 DEF Forms
    <3>3. links' = [links EXCEPT ![q.who] = l]
      BY <1>6 DEF AllLinked
    <3> HIDE DEF l
    <3>. QED
      BY <1>1, <3>2, <3>3 DEF Rowed
  <2>2. Rowed' /\ Kept
    BY <1>1, <1>6, <2>1 DEF AllLinked, Rowed, Kept, reviews, profilesPast
  <2>. QED
    BY <1>6, <2>2, TypeEnds DEF AllLinked
<1>7. ASSUME Looked(r)
      PROVE  ProfilesTypeOK'
  <2>1. Rowed' /\ Kept /\ UNCHANGED <<there, submitter>>
    BY <1>1, <1>7 DEF Looked, Stepped, Rowed, Kept, profiles, reviews
  <2>2. CASE Over(r)
    BY <2>1, <2>2, TypeEnds
  <2>3. CASE Stepped(r, "submitting", "queueing", None, None)
    <3>1. Shaped(request[r])'
      BY <1>1, <2>1, <2>3 DEF Stepped, ProfileMoved, Shaped, Saves, Linking, Reviews
    <3>. QED
      BY <2>1, <2>3, <3>1, TypeMoves DEF Stepped
  <2>. QED
    BY <1>7, <2>2, <2>3 DEF Looked
<1>8. ASSUME NEW v \in Rows, Submitted(r, v)
      PROVE  ProfilesTypeOK'
  <2>1. submitter[v] = None
    BY <1>8 DEF Submitted, IsNext
  <2>2. Rowed' /\ Kept
    BY <1>1, <1>8, <2>1 DEF Submitted, Rowed, Kept, VERIFICATION_STATUSES
  <2>. QED
    BY <1>8, <2>2, TypeEnds DEF Submitted
<1>9. ASSUME NEW v \in Rows, Listed(r, v)
      PROVE  ProfilesTypeOK'
  <2>1. Rowed' /\ Kept /\ UNCHANGED <<there, submitter>>
    BY <1>1, <1>9 DEF Listed, Rowed, Kept, profiles, reviews, profilesPast
  <2>2. Shaped(request[r])'
    BY <1>9, <2>1, NoneAssumption DEF OwnersThere, Listed, ProfileMoved, Shaped,
       Saves, Linking, Reviews
  <2>. QED
    BY <1>9, <2>1, <2>2, TypeMoves DEF Listed
<1>10. ASSUME NEW s \in {"VERIFIED", "REJECTED"}, Decided(r, s)
       PROVE  ProfilesTypeOK'
  <2>1. Rowed' /\ Kept /\ UNCHANGED <<there, submitter>>
    BY <1>1, <1>10 DEF Decided, Stepped, Rowed, Kept, Overruled, VERIFICATION_STATUSES
  <2>2. Shaped(request[r])'
    BY <1>1, <1>10, <2>1 DEF Decided, Stepped, ProfileMoved, Shaped, Saves, Linking,
       Reviews
  <2>. QED
    BY <1>10, <2>1, <2>2, TypeMoves DEF Decided, Stepped
<1>11. ASSUME Recorded(r)
       PROVE  ProfilesTypeOK'
  <2>1. Rowed' /\ Kept
    BY <1>1, <1>11 DEF Recorded, Rowed, Kept, profiles, profilesPast
  <2>. QED
    BY <1>11, <2>1, TypeEnds DEF Recorded
<1>12. ASSUME Failed(r)
       PROVE  ProfilesTypeOK'
  <2>1. Rowed' /\ Kept
    BY <1>1, <1>12 DEF Failed, Rowed, Kept, profiles, reviews
  <2>. QED
    BY <1>12, <2>1, TypeEnds DEF Failed
<1>. QED
  BY <1>0, <1>2, <1>3, <1>4, <1>5, <1>6, <1>7, <1>8, <1>9, <1>10, <1>11, <1>12 DEF Step

LEMMA OwnersStep ==
  ASSUME ProfilesTypeOK, OwnersThere, ProfilesNext
  PROVE  OwnersThere'
<1>0. PICK r \in Requests : Step(r)
  BY ProfileSteps
<1>1. ProfilesTypeOK' /\ Rowed /\ Shaped(request[r])
  BY ProfilesTypeNext, TypeIs
<1>2. CASE UNCHANGED <<there, submitter>>
  BY <1>2 DEF OwnersThere
<1>3. CASE Ensured(r)
  BY <1>1, <1>3 DEF Ensured, Rowed, OwnersThere, reviews
<1>4. ASSUME NEW v \in Rows, Submitted(r, v)
      PROVE  OwnersThere'
  BY <1>1, <1>4 DEF Submitted, Shaped, Rowed, OwnersThere
<1>. QED
  BY <1>0, <1>2, <1>3, <1>4 DEF Step, Begun, Saved, AllUnlinked, AllLinked, Looked,
     Listed, Decided, Recorded, Failed, profiles, reviews

LEMMA ProfilesTypeStutter == ProfilesTypeOK /\ OwnersThere /\ UNCHANGED profilesVars => ProfilesTypeOK' /\ OwnersThere'
BY DEF ProfilesTypeOK, OwnersThere, profilesVars, profiles, reviews, profilesPast

(* Rows and requests keep their shape, and whoever has submitted has a     *)
(* profile, whatever overlaps.                                             *)
THEOREM ProfilesTyping == ProfilesSpec => [](ProfilesTypeOK /\ OwnersThere)
<1>1. ProfilesTypeOK /\ OwnersThere /\ [ProfilesNext]_profilesVars => (ProfilesTypeOK /\ OwnersThere)'
  BY ProfilesTypeNext, OwnersStep, ProfilesTypeStutter
<1>. QED
  BY <1>1, ProfilesTypeInit, PTL DEF ProfilesSpec

-----------------------------------------------------------------------------
(***************************************************************************)
(* Links.  The invariant for a user whose saves neither overlapped nor     *)
(* were cut short: one request of his is replacing the links, with those   *)
(* of the handles just stored, and has deleted the old ones when it comes  *)
(* to insert.                                                              *)
(***************************************************************************)
Replaces(r, u) == request[r].at \in Linking /\ request[r].who = u

Untorn(u) ==
  /\ \A r, s \in Requests : Replaces(r, u) /\ Replaces(s, u) => r = s
  /\ \A r \in Requests : Replaces(r, u) => handles[u] = request[r].val
  /\ \A r \in Requests : Replaces(r, u) /\ request[r].at = "linking" => links[u] = Empty
  /\ links[u] = handles[u] \/ \E r \in Requests : Replaces(r, u)

LinkInv == \A u \in Users : u \notin torn => Untorn(u)

LEMMA LinkInit == ProfilesInit => LinkInv
BY ProfileIdleIs DEF ProfilesInit, NoneServed, LinkInv, Untorn, Replaces, Linking

LEMMA LinkStep ==
  ASSUME ProfilesTypeOK, LinkInv, ProfilesNext
  PROVE  LinkInv'
<1> SUFFICES ASSUME NEW u \in Users, u \notin torn'
             PROVE  Untorn(u)'
  BY DEF LinkInv
<1>0. PICK r \in Requests : Step(r)
  BY ProfileSteps
<1> DEFINE q == request[r]
<1>1. /\ handles \in [Users -> Forms] /\ links \in [Users -> Forms]
  BY DEF ProfilesTypeOK
(* Steps of requests that replace no links of u.                           *)
<1>2. ASSUME u \notin torn, NEW at, NEW who, NEW on, NEW val, ProfileMoved(r, at, who, on, val),
             ~Replaces(r, u), ~Replaces(r, u)',
             handles'[u] = handles[u], links'[u] = links[u]
      PROVE  Untorn(u)'
  <2>1. \A s \in Requests : Replaces(s, u)' => s # r
    BY <1>2
  <2>2. \A s \in Requests \ {r} : request'[s] = request[s]
    BY <1>2 DEF ProfileMoved
  <2>3. \A s \in Requests : Replaces(s, u)' <=> Replaces(s, u)
    BY <1>2, <2>2 DEF Replaces
  <2>. QED
    BY <1>2, <2>1, <2>2, <2>3 DEF LinkInv, Untorn
<1>3. ASSUME u \notin torn, NEW at, NEW who, NEW on, NEW val, ProfileMoved(r, at, who, on, val),
             at \notin Linking, q.at \notin Linking, UNCHANGED <<handles, links>>
      PROVE  Untorn(u)'
  BY <1>2, <1>3 DEF ProfileMoved, Replaces
<1>4. ASSUME NEW w \in Users, NEW f \in Forms \cup {None}, Begun(r, w, f)
      PROVE  Untorn(u)'
  BY <1>3, <1>4, ProfileIdleIs DEF Begun, First, Linking, profiles, profilesPast
<1>5. ASSUME Ensured(r)
      PROVE  Untorn(u)'
  BY <1>3, <1>5 DEF Ensured, Stepped, Over, First, Linking, profilesPast
<1>6. ASSUME Saved(r)
      PROVE  Untorn(u)'
  <2>1. CASE q.who = u
    <3>1. \A s \in Requests : ~Replaces(s, u)
      BY <1>6, <2>1 DEF Saved, SomeAt, At, Replaces
    <3>2. \A s \in Requests : Replaces(s, u)' => s = r
      BY <1>6, <3>1 DEF Saved, Stepped, ProfileMoved, Replaces
    <3>3. Replaces(r, u)' /\ request'[r].at = "unlinking"
      BY <1>6, <2>1 DEF Saved, Stepped, ProfileMoved, Replaces, Linking
    <3>4. handles'[u] = q.val /\ request'[r].val = q.val
      BY <1>1, <1>6, <2>1 DEF Saved, Stepped, ProfileMoved
    <3>. QED
      BY <3>2, <3>3, <3>4 DEF Untorn
  <2>2. CASE q.who # u
    <3>1. u \notin torn /\ handles'[u] = handles[u] /\ links'[u] = links[u]
      BY <1>1, <1>6, <2>2 DEF Saved
    <3>2. ~Replaces(r, u) /\ ~Replaces(r, u)'
      BY <1>6, <2>2 DEF Saved, Stepped, ProfileMoved, Replaces
    <3>. QED
      BY <1>2, <1>6, <3>1, <3>2 DEF Saved, Stepped
  <2>. QED
    BY <2>1, <2>2
<1>7. ASSUME AllUnlinked(r)
      PROVE  Untorn(u)'
  <2>0. u \notin torn /\ UNCHANGED handles
    BY <1>7 DEF AllUnlinked, profilesPast
  <2>1. CASE q.who = u
    <3>1. Untorn(u) /\ Replaces(r, u) /\ handles[u] = q.val /\ links'[u] = Empty
      BY <1>1, <1>7, <2>0, <2>1 DEF AllUnlinked, LinkInv, Untorn, Replaces, Linking
    <3>2. \A s \in Requests : Replaces(s, u)' => s = r
      BY <1>7, <3>1 DEF AllUnlinked, Untorn, Over, ProfileMoved, Replaces
    <3>3. CASE q.val = Empty /\ Over(r)
      <4>1. \A s \in Requests : ~Replaces(s, u)'
        BY <3>2, <3>3 DEF Over, ProfileMoved, Replaces, Linking
      <4>. QED
        BY <2>0, <3>1, <3>3, <4>1 DEF Untorn
    <3>4. CASE ProfileMoved(r, "linking", q.who, None, q.val)
      <4>1. Replaces(r, u)' /\ request'[r].val = q.val
        BY <2>1, <3>4 DEF ProfileMoved, Replaces, Linking
      <4>. QED
        BY <2>0, <3>1, <3>2, <4>1 DEF Untorn
    <3>. QED
      BY <1>7, <3>3, <3>4 DEF AllUnlinked
  <2>2. CASE q.who # u
    <3>1. links'[u] = links[u]
      BY <1>1, <1>7, <2>2 DEF AllUnlinked
    <3>2. ~Replaces(r, u) /\ ~Replaces(r, u)'
      BY <1>7, <2>2, NoneAssumption DEF AllUnlinked, Over, ProfileMoved, Replaces,
         Linking
    <3>. QED
      BY <1>2, <1>7, <2>0, <3>1, <3>2 DEF AllUnlinked, Over
  <2>. QED
    BY <2>1, <2>2
<1>8. ASSUME AllLinked(r)
      PROVE  Untorn(u)'
  <2>0. u \notin torn /\ UNCHANGED handles
    BY <1>8 DEF AllLinked, profilesPast
  <2>1. CASE q.who = u
    <3>1. /\ Untorn(u) /\ Replaces(r, u) /\ handles[u] = q.val /\ links[u] = Empty
      BY <1>8, <2>0, <2>1 DEF AllLinked, LinkInv, Untorn, Replaces, Linking
    <3>2. \A s \in Requests : ~Replaces(s, u)'
      BY <1>8, <3>1 DEF AllLinked, Untorn, Over, ProfileMoved, Replaces, Linking
    <3>3. links'[u] = [p \in Platforms |-> IF q.val[p] = None THEN Empty[p] ELSE q.val[p]]
      BY <1>1, <1>8, <2>1, <3>1 DEF AllLinked
    <3>4. q.val \in [Platforms -> Urls \cup {None}]
      BY <1>8 DEF AllLinked, Forms
    <3>5. links'[u] = q.val
      BY <3>3, <3>4 DEF Empty
    <3>. QED
      BY <2>0, <3>1, <3>2, <3>5 DEF Untorn
  <2>2. CASE q.who # u
    <3>1. links'[u] = links[u]
      BY <1>1, <1>8, <2>2 DEF AllLinked
    <3>2. ~Replaces(r, u) /\ ~Replaces(r, u)'
      BY <1>8, <2>2 DEF AllLinked, Over, ProfileMoved, Replaces, Linking
    <3>. QED
      BY <1>2, <1>8, <2>0, <3>1, <3>2 DEF AllLinked, Over
  <2>. QED
    BY <2>1, <2>2
<1>9. ASSUME Looked(r)
      PROVE  Untorn(u)'
  BY <1>3, <1>9 DEF Looked, Stepped, Over, Linking, profiles
<1>10. ASSUME NEW v \in Rows, Submitted(r, v)
       PROVE  Untorn(u)'
  BY <1>3, <1>10 DEF Submitted, Over, Linking, profilesPast
<1>11. ASSUME NEW v \in Rows, Listed(r, v)
       PROVE  Untorn(u)'
  BY <1>3, <1>11, ProfileIdleIs DEF Listed, Linking, profiles, profilesPast
<1>12. ASSUME NEW s \in {"VERIFIED", "REJECTED"}, Decided(r, s)
       PROVE  Untorn(u)'
  BY <1>3, <1>12 DEF Decided, Stepped, Linking, profilesPast
<1>13. ASSUME Recorded(r)
       PROVE  Untorn(u)'
  BY <1>3, <1>13 DEF Recorded, Over, Linking, profiles, profilesPast
<1>14. ASSUME Failed(r)
       PROVE  Untorn(u)'
  <2>1. u \notin torn /\ UNCHANGED <<handles, links>>
    BY <1>14 DEF Failed, profiles
  <2>2. ~Replaces(r, u) /\ ~Replaces(r, u)'
    BY <1>14 DEF Failed, Over, ProfileMoved, Replaces, Linking
  <2>. QED
    BY <1>2, <1>14, <2>1, <2>2 DEF Failed, Over
<1>. QED
  BY <1>0, <1>4, <1>5, <1>6, <1>7, <1>8, <1>9, <1>10, <1>11, <1>12, <1>13,
     <1>14 DEF Step

LEMMA LinkStutter == LinkInv /\ UNCHANGED profilesVars => LinkInv'
BY DEF LinkInv, Untorn, Replaces, profilesVars, profiles, profilesPast

LEMMA LinkEnough == LinkInv => LinksMatchProfile
BY DEF LinkInv, Untorn, Replaces, LinksMatchProfile, SomeAt, At

(* Once a creator's saves are done, the links are the handles saved last,  *)
(* unless saves overlapped or were cut short.                              *)
THEOREM LinksMatch == ProfilesSpec => []LinksMatchProfile
<1>1. ProfilesTypeOK /\ LinkInv /\ [ProfilesNext]_profilesVars => LinkInv'
  BY LinkStep, LinkStutter
<1>. QED
  BY <1>1, LinkInit, LinkEnough, ProfilesTyping, PTL DEF ProfilesSpec

-----------------------------------------------------------------------------
(***************************************************************************)
(* The review queue.  The invariant for a user without two submissions at  *)
(* a time: one request is past the look at the queue, none while there is  *)
(* a row in it; and a row in it is the newest of the user's.  So a         *)
(* decision on an older row is one on a row decided before.                *)
(***************************************************************************)
Queues(r, u) == At(r, {"queueing"}, u)

Single(u) ==
  /\ \A r, s \in Requests : Queues(r, u) /\ Queues(s, u) => r = s
  /\ \A r \in Requests : Queues(r, u) => Queued(u) = {}
  /\ \A v \in Queued(u), w \in RowsOf(u) : w <= v

Told(u) == \A v \in Rows : IsLatest(v, RowsOf(u)) => flag[u] = verdict[v]

ReviewInv ==
  /\ \A v \in Rows : submitter[v] = None => verdict[v] = "PENDING"
  /\ \A v \in logged : verdict[v] # "PENDING"
  /\ \A r \in Requests : request[r].at = "logging" => verdict[request[r].on] # "PENDING"
  /\ \A u \in Users : u \notin doubled => Single(u)
  /\ \A u \in Users : u \notin overruled => Told(u)

LEMMA ReviewInit == ProfilesInit => ReviewInv
BY ProfileIdleIs, NoneAssumption
   DEF ProfilesInit, NoneServed, ReviewInv, Single, Told, Queues, At, Queued,
      RowsOf, IsLatest

LEMMA RowsStay ==
  ASSUME NEW u, UNCHANGED submitter
  PROVE  RowsOf(u)' = RowsOf(u)
BY DEF RowsOf

(* Steps that neither submit nor decide.                                   *)
LEMMA NotReviewing ==
  ASSUME ReviewInv, NEW r \in Requests, NEW at, NEW who, NEW on, NEW val,
         ProfileMoved(r, at, who, on, val), at \notin {"queueing", "logging"},
         UNCHANGED <<submitter, verdict, logged, flag, doubled, overruled>>
  PROVE  ReviewInv'
<1>1. \A s \in Requests : request'[s].at \in {"queueing", "logging"} =>
         request'[s] = request[s]
  BY DEF ProfileMoved
<1>2. ASSUME NEW u \in Users, Single(u)
      PROVE  Single(u)'
  <2>1. \A s \in Requests : Queues(s, u)' => Queues(s, u)
    BY <1>1 DEF Queues, At
  <2>2. RowsOf(u)' = RowsOf(u) /\ Queued(u)' = Queued(u)
    BY DEF RowsOf, Queued
  <2>. QED
    BY <1>2, <2>1, <2>2 DEF Single
<1>3. ASSUME NEW u \in Users, Told(u)
      PROVE  Told(u)'
  BY <1>3, RowsStay DEF Told, IsLatest
<1>. QED
  BY <1>1, <1>2, <1>3 DEF ReviewInv

LEMMA ReviewStep ==
  ASSUME ProfilesTypeOK, ReviewInv, ProfilesNext
  PROVE  ReviewInv'
<1>0. PICK r \in Requests : Step(r)
  BY ProfileSteps
<1> DEFINE q == request[r]
<1>1. /\ \A v \in Rows : v \in Nat
      /\ None \notin Users
      /\ flag \in [Users -> VERIFICATION_STATUSES]
      /\ verdict \in [Rows -> VERIFICATION_STATUSES \ {"UNVERIFIED"}]
      /\ submitter \in [Rows -> Users \cup {None}]
      /\ logged \subseteq Rows
      /\ \A s \in Requests : request[s].at \in {"deciding", "logging"} =>
           request[s].on \in Rows /\ submitter[request[s].on] = request[s].who
  BY RowsAssumption, NoneAssumption DEF ProfilesTypeOK, Reviews
<1>2. ASSUME NEW w \in Users, NEW f \in Forms \cup {None}, Begun(r, w, f)
      PROVE  ReviewInv'
  BY <1>2, NotReviewing DEF Begun, First, profiles, reviews, profilesPast
<1>3. ASSUME Ensured(r)
      PROVE  ReviewInv'
  BY <1>3, NotReviewing DEF Ensured, Stepped, Over, First, reviews, profilesPast
<1>4. ASSUME Saved(r)
      PROVE  ReviewInv'
  BY <1>4, NotReviewing DEF Saved, Stepped, reviews
<1>5. ASSUME AllUnlinked(r)
      PROVE  ReviewInv'
  BY <1>5, NotReviewing DEF AllUnlinked, Over, reviews, profilesPast
<1>6. ASSUME AllLinked(r)
      PROVE  ReviewInv'
  BY <1>6, NotReviewing DEF AllLinked, Over, reviews, profilesPast
<1>7. ASSUME Looked(r)
      PROVE  ReviewInv'
  <2>0. UNCHANGED <<submitter, verdict, logged, flag, overruled>>
    BY <1>7 DEF Looked, profiles, reviews
  <2>1. CASE Over(r) /\ UNCHANGED doubled
    BY <2>0, <2>1, NotReviewing DEF Over
  <2>2. CASE /\ Stepped(r, "submitting", "queueing", None, None)
             /\ Queued(q.who) = {}
             /\ doubled' = IF SomeAt(Requests, {"queueing"}, q.who) THEN doubled \cup {q.who}
                                                                    ELSE doubled
    <3>1. ASSUME NEW u \in Users, u \notin doubled'
          PROVE  Single(u)'
      <4>1. Single(u) /\ RowsOf(u)' = RowsOf(u) /\ Queued(u)' = Queued(u)
        BY <2>0, <2>2, <3>1 DEF ReviewInv, RowsOf, Queued
      <4>2. \A s \in Requests : s # r => (Queues(s, u)' <=> Queues(s, u))
        BY <2>2 DEF Stepped, ProfileMoved, Queues, At
      <4>3. Queues(r, u)' => u = q.who
        BY <2>2 DEF Stepped, ProfileMoved, Queues, At
      <4>4. CASE u = q.who
        <5>1. \A s \in Requests : ~Queues(s, u)
          BY <2>2, <3>1, <4>4 DEF SomeAt, Queues
        <5>. QED
          BY <2>2, <4>1, <4>2, <4>4, <5>1 DEF Single
      <4>5. CASE u # q.who
        BY <4>1, <4>2, <4>3, <4>5 DEF Single
      <4>. QED
        BY <4>4, <4>5
    <3>2. \A s \in Requests : request'[s].at = "logging" => request'[s] = request[s]
      BY <2>2 DEF Stepped, ProfileMoved
    <3>3. \A u \in Users : Told(u) => Told(u)'
      BY <2>0, RowsStay DEF Told, IsLatest
    <3>. QED
      BY <2>0, <3>1, <3>2, <3>3 DEF ReviewInv
  <2>. QED
    BY <1>7, <2>1, <2>2 DEF Looked
<1>8. ASSUME NEW n \in Rows, Submitted(r, n)
      PROVE  ReviewInv'
  <2>0. /\ submitter[n] = None /\ verdict[n] = "PENDING"
        /\ \A v \in Rows : submitter[v] # None => v < n
        /\ UNCHANGED <<verdict, logged, doubled>> /\ overruled' = overruled \ {q.who}
        /\ q.who \in Users /\ submitter'[n] = q.who /\ flag'[q.who] = "PENDING"
        /\ \A v \in Rows : v # n => submitter'[v] = submitter[v]
        /\ \A u \in Users : u # q.who => flag'[u] = flag[u]
    BY <1>1, <1>8 DEF Submitted, IsNext, ReviewInv
  <2>1. ASSUME NEW u \in Users, u \notin doubled'
        PROVE  Single(u)'
    <3>1. Single(u)
      BY <2>0, <2>1 DEF ReviewInv
    <3>2. \A s \in Requests : Queues(s, u)' => Queues(s, u) /\ s # r
      BY <1>8 DEF Submitted, Over, ProfileMoved, Queues, At
    <3>3. CASE u = q.who
      <4>1. Queues(r, u)
        BY <1>8, <3>3 DEF Submitted, Queues, At
      <4>2. Queued(u) = {} /\ \A s \in Requests : ~Queues(s, u)'
        BY <3>1, <3>2, <4>1 DEF Single
      <4>3. RowsOf(u)' = RowsOf(u) \cup {n}
        BY <2>0, <3>3 DEF RowsOf
      <4>4. Queued(u)' = {n}
        BY <2>0, <4>2, <4>3 DEF Queued
      <4>5. \A v \in RowsOf(u) : v < n
        BY <1>1, <2>0 DEF RowsOf
      <4>7. \A v \in Queued(u)', w \in RowsOf(u)' : w <= v
        <5>0. n \in Nat /\ \A w \in RowsOf(u) : w \in Nat
          BY RowsAssumption DEF RowsOf
        <5>1. n <= n /\ \A w \in RowsOf(u) : w <= n
          BY <4>5, <5>0
        <5>. QED
          BY <4>3, <4>4, <5>1
      <4>. QED
        BY <4>2, <4>7 DEF Single
    <3>4. CASE u # q.who
      <4>1. RowsOf(u)' = RowsOf(u)
        BY <1>1, <2>0, <3>4 DEF RowsOf
      <4>2. Queued(u)' = Queued(u)
        BY <2>0, <4>1 DEF Queued
      <4>. QED
        BY <3>1, <3>2, <4>1, <4>2 DEF Single
    <3>. QED
      BY <3>3, <3>4
  <2>4. ASSUME NEW u \in Users, u \notin overruled'
        PROVE  Told(u)'
    <3>1. CASE u = q.who
      <4>1. \A v \in RowsOf(u) : v < n /\ v \in Nat
        BY <1>1, <2>0 DEF RowsOf
      <4>2. RowsOf(u)' = RowsOf(u) \cup {n} /\ n \in Nat
        BY <1>1, <2>0, <3>1 DEF RowsOf
      <4>3. \A v \in Rows : IsLatest(v, RowsOf(u))' => v = n
        BY <4>1, <4>2 DEF IsLatest
      <4>. QED
        BY <2>0, <3>1, <4>3 DEF Told
    <3>2. CASE u # q.who
      <4>1. RowsOf(u)' = RowsOf(u) /\ Told(u)
        BY <1>1, <2>0, <2>4, <3>2 DEF RowsOf, ReviewInv
      <4>. QED
        BY <2>0, <3>2, <4>1 DEF Told, IsLatest
    <3>. QED
      BY <3>1, <3>2
  <2>2. \A s \in Requests : request'[s].at = "logging" => request'[s] = request[s]
    BY <1>8 DEF Submitted, Over, ProfileMoved
  <2>3. \A v \in Rows : submitter'[v] = None => verdict'[v] = "PENDING"
    BY <2>0 DEF ReviewInv
  <2>. QED
    BY <2>0, <2>1, <2>2, <2>3, <2>4 DEF ReviewInv
<1>9. ASSUME NEW n \in Rows, Listed(r, n)
      PROVE  ReviewInv'
  BY <1>9, NotReviewing DEF Listed, profiles, reviews, profilesPast
<1>10. ASSUME NEW d \in {"VERIFIED", "REJECTED"}, Decided(r, d)
       PROVE  ReviewInv'
  <2> DEFINE n == q.on
  <2>0. /\ n \in Rows /\ submitter[n] = q.who /\ q.who \in Users
        /\ UNCHANGED <<submitter, logged, doubled>>
        /\ overruled' = Overruled(q.who, n)
        /\ verdict'[n] = d /\ flag'[q.who] = d /\ d # "PENDING"
        /\ \A v \in Rows : v # n => verdict'[v] = verdict[v]
        /\ \A u \in Users : u # q.who => flag'[u] = flag[u]
    BY <1>1, <1>10 DEF Decided, Stepped
  <2>1. ASSUME NEW u \in Users, u \notin doubled'
        PROVE  Single(u)'
    <3>1. Single(u) /\ RowsOf(u)' = RowsOf(u)
      BY <2>0, <2>1 DEF ReviewInv, RowsOf
    <3>2. \A s \in Requests : Queues(s, u)' => Queues(s, u)
      BY <1>10 DEF Decided, Stepped, ProfileMoved, Queues, At
    <3>3. Queued(u)' \subseteq Queued(u)
      BY <2>0, <3>1 DEF Queued, RowsOf
    <3>. QED
      BY <3>1, <3>2, <3>3 DEF Single
  <2>5. ASSUME NEW u \in Users, u \notin overruled'
        PROVE  Told(u)'
    <3>1. RowsOf(u)' = RowsOf(u)
      BY <2>0, RowsStay
    <3>2. CASE u = q.who
      <4>1. n \in RowsOf(u) /\ \A v \in RowsOf(u) : v \in Nat
        BY <1>1, <2>0, <3>2 DEF RowsOf
      <4>2. IsLatest(n, RowsOf(u))
        <5>1. IsLatest(n, RowsOf(u)) \/ (verdict[n] = "PENDING" /\ u \notin doubled)
          BY <2>0, <2>5, <3>2 DEF Overruled
        <5>2. verdict[n] = "PENDING" /\ u \notin doubled => \A w \in RowsOf(u) : w <= n
          BY <4>1 DEF ReviewInv, Single, Queued
        <5>. QED
          BY <4>1, <5>1, <5>2 DEF IsLatest
      <4>3. \A v \in Rows : IsLatest(v, RowsOf(u)) => v = n
        BY <4>1, <4>2 DEF IsLatest
      <4>. QED
        BY <2>0, <3>1, <3>2, <4>3 DEF Told, IsLatest
    <3>3. CASE u # q.who
      <4>1. Told(u)
        BY <2>0, <2>5, <3>3 DEF Overruled, ReviewInv
      <4>2. \A v \in RowsOf(u) : v # n
        BY <2>0, <3>3 DEF RowsOf
      <4>. QED
        BY <2>0, <3>1, <3>3, <4>1, <4>2 DEF Told, IsLatest
    <3>. QED
      BY <3>2, <3>3
  <2>2. ASSUME NEW s \in Requests, request'[s].at = "logging"
        PROVE  verdict'[request'[s].on] # "PENDING"
    <3>1. CASE s = r
      BY <1>10, <2>0, <3>1 DEF Decided, Stepped, ProfileMoved
    <3>2. CASE s # r
      <4>1. request'[s] = request[s]
        BY <1>10, <3>2 DEF Decided, Stepped, ProfileMoved
      <4>. QED
        BY <1>1, <2>0, <2>2, <4>1 DEF ReviewInv
    <3>. QED
      BY <3>1, <3>2
  <2>3. \A v \in Rows : submitter'[v] = None => verdict'[v] = "PENDING"
    BY <1>1, <2>0 DEF ReviewInv
  <2>4. \A v \in logged' : verdict'[v] # "PENDING"
    BY <1>1, <2>0 DEF ReviewInv
  <2>. QED
    BY <2>1, <2>2, <2>3, <2>4, <2>5 DEF ReviewInv
<1>11. ASSUME Recorded(r)
       PROVE  ReviewInv'
  <2>0. UNCHANGED <<submitter, verdict, flag, doubled, overruled>>
    BY <1>11 DEF Recorded, profiles, profilesPast
  <2>1. ASSUME NEW u \in Users, u \notin doubled'
        PROVE  Single(u)'
    <3>1. Single(u) /\ RowsOf(u)' = RowsOf(u) /\ Queued(u)' = Queued(u)
      BY <2>0, <2>1 DEF ReviewInv, RowsOf, Queued
    <3>2. \A s \in Requests : Queues(s, u)' => Queues(s, u)
      BY <1>11 DEF Recorded, Over, ProfileMoved, Queues, At
    <3>. QED
      BY <3>1, <3>2 DEF Single
  <2>2. \A s \in Requests : request'[s].at = "logging" => request'[s] = request[s]
    BY <1>11 DEF Recorded, Over, ProfileMoved
  <2>3. \A v \in logged' : verdict'[v] # "PENDING"
    BY <1>11, <2>0 DEF Recorded, ReviewInv
  <2>4. \A u \in Users : Told(u) => Told(u)'
    BY <2>0, RowsStay DEF Told, IsLatest
  <2>. QED
    BY <2>0, <2>1, <2>2, <2>3, <2>4 DEF ReviewInv
<1>12. ASSUME Failed(r)
       PROVE  ReviewInv'
  BY <1>12, NotReviewing DEF Failed, Over, profiles, reviews
<1>. QED
  BY <1>0, <1>2, <1>3, <1>4, <1>5, <1>6, <1>7, <1>8, <1>9, <1>10, <1>11, <1>12 DEF Step

LEMMA ReviewStutter == ReviewInv /\ UNCHANGED profilesVars => ReviewInv'
BY DEF ReviewInv, Single, Told, Queues, At, Queued, RowsOf, IsLatest,
   profilesVars, profiles, reviews, profilesPast

LEMMA ReviewEnough == ReviewInv => FlagTellsVerdict /\ OneQueued
<1> SUFFICES ASSUME ReviewInv PROVE FlagTellsVerdict /\ OneQueued
  OBVIOUS
<1>1. FlagTellsVerdict
  BY DEF ReviewInv, Told, FlagTellsVerdict
<1>2. ASSUME NEW u \in Users, u \notin doubled, NEW v \in Queued(u), NEW w \in Queued(u)
      PROVE  v = w
  <2>1. v <= w /\ w <= v
    BY <1>2 DEF ReviewInv, Single, Queued
  <2>2. v \in Nat /\ w \in Nat
    BY RowsAssumption DEF Queued, RowsOf
  <2>. QED
    BY <2>1, <2>2
<1>. QED
  BY <1>1, <1>2 DEF OneQueued

(* The flag is the verdict on the newest submission, until an older row is *)
(* decided that was decided before or queued next to it; and only          *)
(* decisions are on record.                                                *)
THEOREM FlagIsVerdict == ProfilesSpec => []FlagTellsVerdict
<1>1. ProfilesTypeOK /\ ReviewInv /\ [ProfilesNext]_profilesVars => ReviewInv'
  BY ReviewStep, ReviewStutter
<1>. QED
  BY <1>1, ReviewInit, ReviewEnough, ProfilesTyping, PTL DEF ProfilesSpec

(* Nobody has two rows in the queue, unless two submissions looked at once.*)
THEOREM OneInQueue == ProfilesSpec => []OneQueued
<1>1. ProfilesTypeOK /\ ReviewInv /\ [ProfilesNext]_profilesVars => ReviewInv'
  BY ReviewStep, ReviewStutter
<1>. QED
  BY <1>1, ReviewInit, ReviewEnough, ProfilesTyping, PTL DEF ProfilesSpec

-----------------------------------------------------------------------------
(***************************************************************************)
(* The services as they are put together: where a part is explored, its    *)
(* invariants hold.                                                        *)
(***************************************************************************)
DisputesInv == DisputesTypeOK /\ DoneInv /\ AboutInv /\ OpenInv /\ OpenIsDue
ProfilesInv == ProfilesTypeOK /\ OwnersThere /\ LinkInv /\ ReviewInv

LEMMA DisputesInvStarts == DisputesInit => DisputesInv
<1>1. DisputesInit => AboutInv /\ OpenIsDue
  BY DEF DisputesInit, AboutInv, OpenIsDue, Raised
<1>. QED
  BY <1>1, DisputesTypeInit, DoneInit, OpenInit DEF DisputesInv

LEMMA DisputesInvStep ==
  ASSUME DisputesInv, [DisputesNext]_disputesVars
  PROVE  DisputesInv'
<1>1. CASE DisputesNext
  BY <1>1, DisputesTypeNext, DoneStep, AboutStep, OpenStep, DueStep DEF DisputesInv
<1>2. CASE UNCHANGED disputesVars
  <2>1. AboutInv' /\ OpenIsDue'
    BY <1>2 DEF DisputesInv, AboutInv, OpenIsDue, Raised, disputesVars, disputes
  <2>. QED
    BY <1>2, <2>1, DisputesTypeStutter, DoneStutter, OpenStutter DEF DisputesInv
<1>. QED
  BY <1>1, <1>2

LEMMA ProfilesInvStarts == ProfilesInit => ProfilesInv
BY ProfilesTypeInit, LinkInit, ReviewInit DEF ProfilesInv

LEMMA ProfilesInvStep ==
  ASSUME ProfilesInv, [ProfilesNext]_profilesVars
  PROVE  ProfilesInv'
<1>1. CASE ProfilesNext
  BY <1>1, ProfilesTypeNext, OwnersStep, LinkStep, ReviewStep DEF ProfilesInv
<1>2. CASE UNCHANGED profilesVars
  BY <1>2, ProfilesTypeStutter, LinkStutter, ReviewStutter DEF ProfilesInv
<1>. QED
  BY <1>1, <1>2

(* A step of the composition is one of the part it explores.               *)
LEMMA PartSteps ==
  ASSUME [CheckNext]_<<part, vars, ofDisputes, ofProfiles>>
  PROVE  /\ part' = part
         /\ part = "disputes" => [DisputesNext]_disputesVars
         /\ part = "profiles" => [ProfilesNext]_profilesVars
BY DEF CheckNext, vars, ofDisputes, ofProfiles, disputesVars, profilesVars

ServicesInv ==
  /\ part = "disputes" => DisputesInv
  /\ part = "profiles" => ProfilesInv

(* Whichever part is explored keeps its inductive invariant.               *)
THEOREM PartsKeep == CheckSpec => []ServicesInv
<1>1. CheckInit => ServicesInv
  BY DisputesInvStarts, ProfilesInvStarts DEF CheckInit, ServicesInv
<1>2. ServicesInv /\ [CheckNext]_<<part, vars, ofDisputes, ofProfiles>> => ServicesInv'
  BY PartSteps, DisputesInvStep, ProfilesInvStep DEF ServicesInv
<1>. QED
  BY <1>1, <1>2, PTL DEF CheckSpec

(* However raise(), resolveDispute() and the edits of tasks overlap and    *)
(* fail: nobody has two open disputes about one engagement, unless two of  *)
(* his requests were raising it at once, and a dispute has a deadline      *)
(* exactly while it is open.                                               *)
THEOREM DisputesDue == CheckSpec => []DisputesAreDue
<1>1. ServicesInv => DisputesAreDue
  BY OpenEnough DEF ServicesInv, DisputesInv, DisputesAreDue
<1>. QED
  BY <1>1, PartsKeep, PTL

(* The task of a resolved dispute is done until somebody edits it by hand, *)
(* and no task has a completion date without being done.                   *)
THEOREM ResolvedStayDone == CheckSpec => []ResolvedAreDone
<1>1. ServicesInv => ResolvedAreDone
  BY DEF ServicesInv, DisputesInv, DoneInv, ResolvedAreDone
<1>. QED
  BY <1>1, PartsKeep, PTL

(* The links of a creator are the handles of the form upsertProfile() had  *)
(* last, unless saves overlapped or were cut short.                        *)
THEOREM ProfilesLinked == CheckSpec => []ProfilesAreLinked
<1>1. ServicesInv => ProfilesAreLinked
  BY LinkEnough DEF ServicesInv, ProfilesInv, ProfilesAreLinked
<1>. QED
  BY <1>1, PartsKeep, PTL

(* The flag of a profile is the verdict on its newest submission and the   *)
(* queue has one row of a user at most, unless submissions or reviews of   *)
(* his overlapped.                                                         *)
THEOREM VerdictsTold == CheckSpec => []VerdictsAreTold
<1>1. ServicesInv => VerdictsAreTold
  BY ReviewEnough DEF ServicesInv, ProfilesInv, VerdictsAreTold
<1>. QED
  BY <1>1, PartsKeep, PTL

=============================================================================
