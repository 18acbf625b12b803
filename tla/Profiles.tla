------------------------------ MODULE Profiles ------------------------------
(***************************************************************************)
(* Profiles of creators and brands, and their verification:                *)
(* backend/src/creator/creator.service.ts, brand/brand.service.ts, the     *)
(* reviews of admin.service.ts and the queue of the page                   *)
(* frontend/src/app/admin/verifications/page.tsx that they start from.     *)
(*                                                                         *)
(* A profile is a CreatorProfile or a Brand with the review rows of its    *)
(* own table; only a creator's has links.  Of what a form says the handles *)
(* are kept, since they are stored twice.                                  *)
(***************************************************************************)
EXTENDS Serving

CONSTANTS
  Platforms,
  Urls

VERIFICATION_STATUSES == {"UNVERIFIED", "PENDING", "VERIFIED", "REJECTED"}
Forms == [Platforms -> Urls \cup {None}]
Empty == [p \in Platforms |-> None]

VARIABLES
  there,      \* whether the user's profile row exists
  handles,    \* the columns instagram, tiktok, youtube and facebook
  links,      \* the profile's PlatformLink rows, at most one per platform
  flag,       \* the profile's verificationStatus
  submitter,  \* whose review row it is, None before it is inserted
  verdict,    \* its status
  logged,     \* review rows with an entry in the audit log
  torn,       \* history: users whose last saves overlapped or were cut short
  doubled,    \* history: users two of whose submissions found no row queued
  overruled   \* history: users whose last decision was one on an older row

profiles == <<there, handles, links, flag>>
reviews == <<submitter, verdict, logged>>
profilesPast == <<torn, doubled, overruled>>
profilesVars == <<profiles, reviews, profilesPast, request>>

ProfilesInit ==
  /\ there = [u \in Users |-> FALSE]
  /\ handles = [u \in Users |-> Empty]
  /\ links = [u \in Users |-> Empty]
  /\ flag = [u \in Users |-> "UNVERIFIED"]
  /\ submitter = [v \in Rows |-> None]
  /\ verdict = [v \in Rows |-> "PENDING"]
  /\ logged = {}
  /\ torn = {} /\ doubled = {} /\ overruled = {}
  /\ NoneServed

At(r, stages, u) == request[r].at \in stages /\ request[r].who = u
SomeAt(rs, stages, u) == \E s \in rs : At(s, stages, u)

RowsOf(u) == {v \in Rows : submitter[v] = u}
Queued(u) == {v \in RowsOf(u) : verdict[v] = "PENDING"}

-----------------------------------------------------------------------------
(***************************************************************************)
(* Every handler finds the user's profile first, or creates it.  Two that  *)
(* find none both insert; userId is unique, so the second one is refused.  *)
(***************************************************************************)
First(form) == IF form = None THEN "submitting" ELSE "saving"

Begin(r, u, form) ==
  /\ Starts(r)
  /\ Becomes(r, Waiting(IF there[u] THEN First(form) ELSE "ensuring", u, None, form))
  /\ UNCHANGED <<profiles, reviews, profilesPast>>

EnsureWrite(r) ==
  LET q == request[r] IN
  /\ q.at = "ensuring"
  /\ IF there[q.who]
     THEN Ends(r) /\ UNCHANGED there
     ELSE /\ there' = [there EXCEPT ![q.who] = TRUE]
          /\ Becomes(r, Waiting(First(q.val), q.who, None, q.val))
  /\ UNCHANGED <<handles, links, flag, reviews, profilesPast>>

-----------------------------------------------------------------------------
(***************************************************************************)
(* PUT /creator/me/profile: the columns in a transaction, then the links   *)
(* deleted, then those the form has inserted in one statement, which a     *)
(* link that is there again makes fail.                                    *)
(***************************************************************************)
Linking == {"unlinking", "linking"}

SaveProfile(r) ==
  LET q == request[r] IN
  /\ q.at = "saving"
  /\ handles' = [handles EXCEPT ![q.who] = q.val]
  /\ torn' = IF SomeAt(Requests, Linking, q.who) THEN torn \cup {q.who}
                                                 ELSE torn \ {q.who}
  /\ Becomes(r, Waiting("unlinking", q.who, None, q.val))
  /\ UNCHANGED <<there, links, flag, reviews, doubled, overruled>>

UnlinkedNot(u) == links               \* a mutant: the old links stay
Unlinked(u) == [links EXCEPT ![u] = Empty]

UnlinkAll(r) ==
  LET q == request[r] IN
  /\ q.at = "unlinking"
  /\ links' = Unlinked(q.who)
  /\ IF q.val = Empty THEN Ends(r)
                      ELSE Becomes(r, Waiting("linking", q.who, None, q.val))
  /\ UNCHANGED <<there, handles, flag, reviews, profilesPast>>

Fits(form, u) == \A p \in Platforms : form[p] # None => links[u][p] = None

LinkAll(r) ==
  LET q == request[r] IN
  /\ q.at = "linking"
  /\ Fits(q.val, q.who)
  /\ links' = [links EXCEPT ![q.who] =
       [p \in Platforms |-> IF q.val[p] = None THEN links[q.who][p] ELSE q.val[p]]]
  /\ Ends(r)
  /\ UNCHANGED <<there, handles, flag, reviews, profilesPast>>

-----------------------------------------------------------------------------
(***************************************************************************)
(* POST me/verification: in one transaction, look for a row in the queue;  *)
(* if there is none insert one and move the flag.  Two transactions may    *)
(* both look first.                                                        *)
(***************************************************************************)
MaySubmitAgain(u) == TRUE             \* a mutant: no look at the queue
MaySubmit(u) == Queued(u) = {}

SubmitRead(r) ==
  LET u == request[r].who IN
  /\ request[r].at = "submitting"
  /\ IF MaySubmit(u)
     THEN /\ Becomes(r, Waiting("queueing", u, None, None))
          /\ doubled' = IF SomeAt(Requests, {"queueing"}, u) THEN doubled \cup {u}
                                                             ELSE doubled
     ELSE Ends(r) /\ UNCHANGED doubled
  /\ UNCHANGED <<profiles, reviews, torn, overruled>>

FlaggedNot(u, s) == flag              \* a mutant: the review row alone
Flagged(u, s) == [flag EXCEPT ![u] = s]

SubmitWrite(r) ==
  LET u == request[r].who IN
  /\ request[r].at = "queueing"
  /\ \E v \in Rows :
       /\ IsNext(v, {w \in Rows : submitter[w] # None})
       /\ submitter' = [submitter EXCEPT ![v] = u]
  /\ flag' = Flagged(u, "PENDING")
  /\ overruled' = overruled \ {u}
  /\ Ends(r)
  /\ UNCHANGED <<there, handles, links, verdict, logged, torn, doubled>>

(***************************************************************************)
(* PATCH /admin/{creator,brand}-verifications/:id, from a page that listed *)
(* the queue any time before: the row is decided whatever became of it     *)
(* since, with the flag in one transaction; then the audit entry.          *)
(***************************************************************************)
ReviewStart(r, v) ==
  /\ Starts(r) /\ submitter[v] # None
  /\ Becomes(r, Waiting("deciding", submitter[v], v, None))
  /\ UNCHANGED <<profiles, reviews, profilesPast>>

(* A decision on an older row is one too many where that row was decided   *)
(* before, or where two rows were queued at a time.                        *)
Overruled(u, v) ==
  IF IsLatest(v, RowsOf(u)) THEN overruled \ {u}
  ELSE overruled \cup {w \in {u} : verdict[v] # "PENDING" \/ w \in doubled}

ReviewWrite(r, s) ==
  LET q == request[r] IN
  /\ q.at = "deciding"
  /\ verdict' = [verdict EXCEPT ![q.on] = s]
  /\ flag' = Flagged(q.who, s)
  /\ overruled' = Overruled(q.who, q.on)
  /\ Becomes(r, Waiting("logging", q.who, q.on, None))
  /\ UNCHANGED <<there, handles, links, submitter, logged, torn, doubled>>

ReviewLog(r) ==
  /\ request[r].at = "logging"
  /\ logged' = logged \cup {request[r].on}
  /\ Ends(r)
  /\ UNCHANGED <<profiles, submitter, verdict, profilesPast>>

(* A later check or a statement fails, the page is left, the process dies. *)
SavingFails(r) ==
  LET q == request[r] IN
  /\ q # Idle
  /\ torn' = IF q.at \in Linking THEN torn \cup {q.who} ELSE torn
  /\ Ends(r)
  /\ UNCHANGED <<profiles, reviews, doubled, overruled>>

-----------------------------------------------------------------------------
Saving(r) ==
  \/ \E u \in Users, f \in Forms : Begin(r, u, f)
  \/ SaveProfile(r) \/ UnlinkAll(r) \/ LinkAll(r)

Verifying(r) ==
  \/ \E u \in Users : Begin(r, u, None)
  \/ SubmitRead(r) \/ SubmitWrite(r)
  \/ \E v \in Rows : ReviewStart(r, v)
  \/ \E s \in {"VERIFIED", "REJECTED"} : ReviewWrite(r, s)
  \/ ReviewLog(r)

ProfilesNext ==
  \E r \in Requests : EnsureWrite(r) \/ Saving(r) \/ Verifying(r) \/ SavingFails(r)

ProfilesSpec == ProfilesInit /\ [][ProfilesNext]_profilesVars

-----------------------------------------------------------------------------
(***************************************************************************)
(* Properties                                                              *)
(***************************************************************************)

(* Profiles, links, reviews and requests have the shape the schema gives   *)
(* them; a request past the first step belongs to a user with a profile.   *)
Saves == {"saving"} \cup Linking
Reviews == {"deciding", "logging"}
ProfilesRequest ==
  [at  : {"idle", "ensuring", "submitting", "queueing"} \cup Saves \cup Reviews,
   who : Users \cup {None},
   on  : Rows \cup {None},
   val : Forms \cup {None}]
ProfilesTypeOK ==
  /\ there \in [Users -> BOOLEAN]
  /\ handles \in [Users -> Forms]
  /\ links \in [Users -> Forms]
  /\ flag \in [Users -> VERIFICATION_STATUSES]
  /\ submitter \in [Rows -> Users \cup {None}]
  /\ verdict \in [Rows -> VERIFICATION_STATUSES \ {"UNVERIFIED"}]
  /\ logged \subseteq Rows
  /\ torn \cup doubled \cup overruled \subseteq Users
  /\ request \in [Requests -> ProfilesRequest]
  /\ \A r \in Requests :
       LET q == request[r] IN
       /\ q # Idle => q.who \in Users
       /\ q.at \in Saves => q.val \in Forms
       /\ q.at \in Reviews => q.on \in Rows /\ submitter[q.on] = q.who
       /\ q.at \notin {"idle", "ensuring"} => there[q.who]

(* Once a creator's saves are done, the links discovery shows are the      *)
(* handles of the form saved last.  Saves that overlap or are cut short    *)
(* break this, and the next save on its own repairs it.                    *)
LinksMatchProfile ==
  \A u \in Users :
    links[u] = handles[u] \/ u \in torn \/ SomeAt(Requests, Linking, u)

(* Nobody has two rows in the review queue, whatever is decided meanwhile, *)
(* unless two submissions of theirs looked for one at the same time.       *)
OneQueued == \A u \in Users \ doubled : \A v, w \in Queued(u) : v = w

(* The flag that portals and discovery read is the verdict on the newest   *)
(* submission, also while decisions made from older lists arrive, until an *)
(* older row is decided that was decided already or was queued next to the *)
(* newest; the next submission, or a decision on the newest, repairs it.   *)
(* And only a decision is on record as one.                                *)
FlagTellsVerdict ==
  /\ \A u \in Users \ overruled :
       \A v \in Rows : IsLatest(v, RowsOf(u)) => flag[u] = verdict[v]
  /\ \A v \in logged : verdict[v] # "PENDING"

=============================================================================
