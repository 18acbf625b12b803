------------------------------ MODULE Disputes ------------------------------
(***************************************************************************)
(* Disputes and the tasks of the operations desk:                          *)
(* backend/src/disputes/disputes.service.ts, and of admin.service.ts the   *)
(* tasks and resolveDispute.                                               *)
(*                                                                         *)
(* A dispute and its task are inserted together, so the task of dispute d  *)
(* is task d; the other tasks are Chores.  Whom a task is assigned to, and *)
(* the notice that manager gets, decide nothing and are left out.          *)
(***************************************************************************)
EXTENDS Serving

CONSTANTS
  Engagements,  \* a campaign, or an application to it
  Chores        \* tasks an administrator creates

Disputes == Rows
Tasks == Disputes \cup Chores
Open == {"OPEN", "UNDER_REVIEW"}
DISPUTE_STATUSES == Open \cup {"RESOLVED", "CLOSED"}
TASK_STATUSES == {"TODO", "IN_PROGRESS", "BLOCKED", "DONE"}

VARIABLES
  raisedBy,   \* by whom, None before the row is inserted
  about,      \* about which engagement
  state,      \* its status
  due,        \* whether slaDueAt is set
  audited,    \* whether dispute.resolve is in the audit log
  todo,       \* status of a task, "NONE" before it exists
  completed,  \* whether it has completedAt
  crossed,    \* history: <<u, e>> that two requests were raising at once
  touched     \* history: disputes whose task was edited after they were resolved

disputes == <<raisedBy, about, state, due>>
tasks == <<todo, completed>>
disputesPast == <<crossed, touched>>
disputesVars == <<disputes, audited, tasks, disputesPast, request>>

DisputesInit ==
  /\ raisedBy = [d \in Disputes |-> None]
  /\ about = [d \in Disputes |-> None]
  /\ state = [d \in Disputes |-> "OPEN"]
  /\ due = [d \in Disputes |-> FALSE]
  /\ audited = [d \in Disputes |-> FALSE]
  /\ todo = [t \in Tasks |-> "NONE"]
  /\ completed = [t \in Tasks |-> FALSE]
  /\ crossed = {} /\ touched = {}
  /\ NoneServed

Raised(d) == raisedBy[d] # None
OpenFor(d, u, e) == raisedBy[d] = u /\ about[d] = e /\ state[d] \in Open

-----------------------------------------------------------------------------
(***************************************************************************)
(* POST /disputes, by someone with standing in the engagement: look for an *)
(* open dispute and, awaits later, insert a dispute and its task.          *)
(***************************************************************************)
Raising(r, u, e) ==
  /\ request[r].at = "raising"
  /\ request[r].who = u /\ request[r].on = e

MayRaiseAgain(u, e) == TRUE       \* a mutant: no look at what is open
MayRaise(u, e) == \A d \in Disputes : ~OpenFor(d, u, e)

RaiseCheck(r, u, e) ==
  /\ Starts(r)
  /\ MayRaise(u, e)
  /\ Becomes(r, Waiting("raising", u, e, None))
  /\ crossed' = IF \E s \in Requests : Raising(s, u, e)
                THEN crossed \cup {<<u, e>>} ELSE crossed
  /\ UNCHANGED <<disputes, audited, tasks, touched>>

RaiseWrite(r) ==
  LET q == request[r] IN
  /\ q.at = "raising"
  /\ \E d \in Disputes :
       /\ IsNext(d, {c \in Disputes : Raised(c)})
       /\ raisedBy' = [raisedBy EXCEPT ![d] = q.who]
       /\ about' = [about EXCEPT ![d] = q.on]
       /\ due' = [due EXCEPT ![d] = TRUE]
       /\ todo' = [todo EXCEPT ![d] = "TODO"]
  /\ Ends(r)
  /\ UNCHANGED <<state, audited, completed, disputesPast>>

-----------------------------------------------------------------------------
(***************************************************************************)
(* PATCH /admin/disputes/:id/resolve, whatever the status: dispute and     *)
(* task in one transaction, the audit entry one await later.               *)
(***************************************************************************)
TaskResolvedNot(d) == UNCHANGED <<todo, completed>>  \* a mutant: forgets the task
TaskResolved(d) ==
  /\ todo' = [todo EXCEPT ![d] = "DONE"]
  /\ completed' = [completed EXCEPT ![d] = TRUE]

DeadlineMetNot(d) == due          \* a mutant: slaDueAt stays
DeadlineMet(d) == [due EXCEPT ![d] = FALSE]

Resolve(r, d) ==
  /\ Starts(r)
  /\ Raised(d)
  /\ state' = [state EXCEPT ![d] = "RESOLVED"]
  /\ due' = DeadlineMet(d)
  /\ TaskResolved(d)
  /\ Becomes(r, Waiting("auditing", None, d, None))
  /\ UNCHANGED <<raisedBy, about, audited, disputesPast>>

ResolveAudit(r) ==
  /\ request[r].at = "auditing"
  /\ audited' = [audited EXCEPT ![request[r].on] = TRUE]
  /\ Ends(r)
  /\ UNCHANGED <<disputes, tasks, disputesPast>>

(* POST /admin/tasks and PATCH /admin/tasks/:id: a field the body leaves   *)
(* out (status "NONE") stays as it is, except completedAt.                *)
createTask(t) ==
  /\ t \in Chores \ Disputes /\ todo[t] = "NONE"
  /\ todo' = [todo EXCEPT ![t] = "TODO"]
  /\ UNCHANGED <<disputes, audited, completed, disputesPast, request>>

CompletedByOwn(t, to) ==          \* a mutant: kept when status is left out
  IF to = "NONE" THEN completed[t] ELSE to = "DONE" \/ completed[t]
CompletedBy(t, to) == to = "DONE"

updateTask(t, to) ==
  /\ todo[t] # "NONE"
  /\ todo' = [todo EXCEPT ![t] = IF to = "NONE" THEN @ ELSE to]
  /\ completed' = [completed EXCEPT ![t] = CompletedBy(t, to)]
  /\ touched' = IF t \in Disputes /\ state[t] = "RESOLVED"
                THEN touched \cup {t} ELSE touched
  /\ UNCHANGED <<disputes, audited, crossed, request>>

(* A statement fails or the process dies.                                  *)
HandlingFails(r) ==
  /\ request[r] # Idle
  /\ Ends(r)
  /\ UNCHANGED <<disputes, audited, tasks, disputesPast>>

-----------------------------------------------------------------------------
Handling(r) ==
  \/ \E u \in Users, e \in Engagements : RaiseCheck(r, u, e)
  \/ RaiseWrite(r)
  \/ \E d \in Disputes : Resolve(r, d)
  \/ ResolveAudit(r) \/ HandlingFails(r)

DisputesNext ==
  \/ \E r \in Requests : Handling(r)
  \/ \E t \in Tasks :
       createTask(t) \/ \E to \in TASK_STATUSES \cup {"NONE"} : updateTask(t, to)

DisputesSpec == DisputesInit /\ [][DisputesNext]_disputesVars

-----------------------------------------------------------------------------
(***************************************************************************)
(* Properties                                                              *)
(***************************************************************************)

(* Disputes, tasks and requests have the shape the schema gives them; a    *)
(* request that audits is about a dispute that has been raised.            *)
DisputesRequest ==
  [at  : {"idle", "raising", "auditing"},
   who : Users \cup {None},
   on  : Engagements \cup Disputes \cup {None},
   val : {None}]
DisputesTypeOK ==
  /\ raisedBy \in [Disputes -> Users \cup {None}]
  /\ about \in [Disputes -> Engagements \cup {None}]
  /\ state \in [Disputes -> DISPUTE_STATUSES]
  /\ due \in [Disputes -> BOOLEAN]
  /\ audited \in [Disputes -> BOOLEAN]
  /\ todo \in [Tasks -> TASK_STATUSES \cup {"NONE"}]
  /\ completed \in [Tasks -> BOOLEAN]
  /\ crossed \subseteq Users \X Engagements
  /\ touched \subseteq Disputes
  /\ request \in [Requests -> DisputesRequest]
  /\ \A r \in Requests :
       LET q == request[r] IN
       /\ q.at = "raising" => q.who \in Users /\ q.on \in Engagements
       /\ q.at = "auditing" => q.on \in Disputes /\ Raised(q.on)
  /\ \A d \in Disputes : todo[d] # "NONE" <=> Raised(d)

(* Nobody has two open disputes about one engagement, unless two of their  *)
(* requests were raising it at the same time.                              *)
OneOpenDispute ==
  \A c, d \in Disputes :
    c # d /\ Raised(c) /\ OpenFor(c, raisedBy[c], about[c]) /\ OpenFor(d, raisedBy[c], about[c])
      => <<raisedBy[c], about[c]>> \in crossed

(* The clock of a dispute runs exactly while it is open.                   *)
OpenIsDue == \A d \in Disputes : due[d] <=> Raised(d) /\ state[d] \in Open

(* A resolved dispute leaves no work behind: its task is done, until       *)
(* someone edits it by hand; and only a resolved dispute is on record as   *)
(* one.                                                                    *)
ResolvedIsDone ==
  \A d \in Disputes :
    /\ state[d] = "RESOLVED" /\ d \notin touched => todo[d] = "DONE" /\ completed[d]
    /\ audited[d] => state[d] = "RESOLVED"

(* Whatever order edits and resolutions come in, no task has a completion  *)
(* date and a status that says otherwise.                                  *)
CompletedIsDone == \A t \in Tasks : completed[t] => todo[t] = "DONE"

=============================================================================
