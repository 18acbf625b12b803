----------------------------- MODULE FormPages -----------------------------
(***************************************************************************)
(* The three pages that edit one record: frontend/src/app/creator/profile, *)
(* brand/profile and admin/settings, each with one load of the record, a   *)
(* form drawn from it, a save, and for profiles a submission for           *)
(* verification.                                                           *)
(*                                                                         *)
(* Fields come in two kinds: emptied, most are stored as empty, while some *)
(* are left out of the body or ignored by the service and keep their value.*)
(* An answer is shown when it is read; DataCache has the slow ones.        *)
(***************************************************************************)
EXTENDS Naturals, FiniteSets

CONSTANTS
  Kinds,      \* which of the pages "creator", "brand" and "settings"
  Fields,
  Sticky,     \* the fields that cannot be emptied
  Values,
  Default,    \* what the settings form shows before it is filled
  Empty, None

Contents == [Fields -> Values \cup {Empty}]

VARIABLES
  kind,       \* the page
  stored,     \* the record
  flag,       \* the profile's verificationStatus
  kept,       \* the cached answer, None when there is none or it expired
  progress,   \* "left", "loading", "failed" or "shown"
  badge,      \* the verificationStatus that the page shows
  form,       \* what is in the form
  sends,      \* calls that were sent and not answered yet
  typed,      \* history: fields typed into since the form was filled or saved
  foreign,    \* history: fields that others changed since the form was filled
  recalled,   \* history: was the form filled from the cache?
  told        \* history: was a submission answered on this page?

record == <<stored, flag>>
screen == <<kept, progress, badge, form>>
formHistory == <<typed, foreign, recalled, told>>
formVars == <<kind, record, screen, sends, formHistory>>

Record == [form |-> stored, flag |-> flag]
Send(what, body) == [what |-> what, body |-> body, at |-> "sent", here |-> TRUE]
SendsHere(what) == {k \in sends : k.here /\ k.what = what}

FormInit ==
  /\ kind \in Kinds
  /\ stored \in Contents /\ flag = "UNVERIFIED"
  /\ kept = None /\ progress = "left" /\ badge = "UNVERIFIED"
  /\ form = [f \in Fields |-> Default]
  /\ sends = {}
  /\ typed = {} /\ foreign = {} /\ recalled = FALSE /\ told = FALSE

-----------------------------------------------------------------------------
(***************************************************************************)
(* Loading.  The form of a profile is mounted with every answer, and gone  *)
(* while the next one is awaited; that of the settings stays, and an       *)
(* effect fills it with every answer.                                      *)
(***************************************************************************)
FilledNot(answer) == form         \* a mutant: the effect is missing
Filled(answer) == answer.form

ShowRecord(answer) ==
  /\ progress' = "shown"
  /\ badge' = answer.flag
  /\ form' = Filled(answer)
  /\ typed' = {} /\ foreign' = {}

Open ==
  /\ progress = "left"
  /\ IF kept # None
     THEN ShowRecord(kept) /\ recalled' = TRUE
     ELSE /\ progress' = "loading" /\ recalled' = FALSE
          /\ UNCHANGED <<badge, form, typed, foreign>>
  /\ told' = FALSE
  /\ UNCHANGED <<kind, record, kept, sends>>

Load ==
  /\ progress = "loading"
  /\ ShowRecord(Record)
  /\ kept' = Record
  /\ recalled' = FALSE
  /\ UNCHANGED <<kind, record, sends, told>>

LoadFails ==
  /\ progress = "loading"
  /\ progress' = "failed"
  /\ UNCHANGED <<kind, record, kept, badge, form, sends, formHistory>>

Again ==
  /\ progress = "failed"
  /\ progress' = "loading"
  /\ UNCHANGED <<kind, record, kept, badge, form, sends, formHistory>>

(* Leaving the page drops its load and the form, and stops no call.        *)
Leave ==
  /\ progress # "left"
  /\ progress' = "left"
  /\ form' = [f \in Fields |-> Default]
  /\ badge' = "UNVERIFIED"
  /\ sends' = {[k EXCEPT !.here = FALSE] : k \in sends}
  /\ typed' = {} /\ foreign' = {} /\ recalled' = FALSE /\ told' = FALSE
  /\ UNCHANGED <<kind, record, kept>>

CacheLapses ==
  /\ kept # None /\ kept' = None
  /\ UNCHANGED <<kind, record, progress, badge, form, sends, formHistory>>

-----------------------------------------------------------------------------
(* Typing, saving and submitting.                                          *)
Type(f, v) ==
  /\ progress = "shown" /\ form[f] # v
  /\ form' = [form EXCEPT ![f] = v]
  /\ typed' = typed \cup {f}
  /\ UNCHANGED <<kind, record, kept, progress, badge, sends, foreign, recalled, told>>

Save ==
  /\ progress = "shown" /\ SendsHere("save") = {}
  /\ kind = "brand" => SendsHere("submit") = {}
  /\ sends' = sends \cup {Send("save", form)}
  /\ UNCHANGED <<kind, record, screen, formHistory>>

(* A creator's page hides the button while a request is in the queue.      *)
Submit ==
  /\ progress = "shown" /\ SendsHere("submit") = {}
  /\ CASE kind = "creator"  -> badge \notin {"PENDING", "VERIFIED"}
       [] kind = "brand"    -> badge # "VERIFIED" /\ SendsHere("save") = {}
       [] kind = "settings" -> FALSE
  /\ sends' = sends \cup {Send("submit", None)}
  /\ UNCHANGED <<kind, record, screen, formHistory>>

(* A mutant: a field that is emptied is left out, whichever it is.         *)
WrittenWithoutEmpty(body) ==
  [f \in Fields |-> IF body[f] = Empty THEN stored[f] ELSE body[f]]
Written(body) ==
  [f \in Fields |-> IF f \in Sticky /\ body[f] = Empty THEN stored[f] ELSE body[f]]

(* The services; a save of a page that was left is somebody else's to the  *)
(* form that is open now.                                                  *)
Changes(next) == {f \in Fields : next[f] # stored[f]}

Serve(k) ==
  /\ k.at = "sent"
  /\ sends' = (sends \ {k}) \cup {[k EXCEPT !.at = "done"]}
  /\ IF k.what = "save"
     THEN /\ stored' = Written(k.body)
          /\ foreign' = IF k.here THEN foreign ELSE foreign \cup Changes(Written(k.body))
          /\ UNCHANGED flag
     ELSE flag' = "PENDING" /\ UNCHANGED <<stored, foreign>>
  /\ UNCHANGED <<kind, screen, typed, recalled, told>>

(* Only the settings are loaded again after a save; what was typed while   *)
(* it was under way is still to be saved.  Loading a profile again takes   *)
(* its form away, with whatever that form had sent.                        *)
ReloadsNever(what) == FALSE       \* a mutant: the badge is left as it is
Reloads(what) == what = "submit" \/ kind = "settings"

Done(k) ==
  /\ k.at = "done"
  /\ sends' = IF k.here /\ Reloads(k.what) /\ kind # "settings"
              THEN {[j EXCEPT !.here = FALSE] : j \in sends \ {k}} ELSE sends \ {k}
  /\ progress' = IF k.here /\ Reloads(k.what) THEN "loading" ELSE progress
  /\ typed' = IF k.here /\ k.what = "save"
              THEN {f \in typed : form[f] # k.body[f]} ELSE typed
  /\ told' = (told \/ (k.here /\ k.what = "submit"))
  /\ UNCHANGED <<kind, record, kept, badge, form, foreign, recalled>>

(* Refused or lost before it was served; an answer that is lost leaves the *)
(* form as it is, too.                                                     *)
Lost(k) ==
  /\ sends' = sends \ {k}
  /\ foreign' = IF k.at = "done" /\ k.here /\ k.what = "save" THEN Fields ELSE foreign
  /\ UNCHANGED <<kind, record, screen, typed, recalled, told>>

(* The same record from another page; an administrator's verdict.          *)
SavedElsewhere(f, v) ==
  /\ stored[f] # v
  /\ stored' = [stored EXCEPT ![f] = v]
  /\ foreign' = foreign \cup {f}
  /\ UNCHANGED <<kind, flag, screen, sends, typed, recalled, told>>

Verdict(s) ==
  /\ flag # "UNVERIFIED" /\ kind # "settings"
  /\ flag' = s
  /\ UNCHANGED <<kind, stored, screen, sends, formHistory>>

FormNext ==
  \/ Open \/ Load \/ LoadFails \/ Again \/ Leave \/ CacheLapses
  \/ Save \/ Submit
  \/ \E k \in sends : Serve(k) \/ Done(k) \/ Lost(k)
  \/ \E f \in Fields, v \in Values \cup {Empty} : Type(f, v) \/ SavedElsewhere(f, v)
  \/ \E s \in {"VERIFIED", "REJECTED"} : Verdict(s)

FormSpec == FormInit /\ [][FormNext]_formVars

-----------------------------------------------------------------------------
(***************************************************************************)
(* Properties                                                              *)
(***************************************************************************)

(* A page shows a record of its own shape and has at most one save and one *)
(* submission under way.                                                   *)
Statuses == {"UNVERIFIED", "PENDING", "VERIFIED", "REJECTED"}
FormsTypeOK ==
  /\ kind \in Kinds
  /\ stored \in Contents /\ flag \in Statuses /\ badge \in Statuses
  /\ kept # None => kept.form \in Contents /\ kept.flag \in Statuses
  /\ progress \in {"left", "loading", "failed", "shown"}
  /\ form \in [Fields -> Values \cup {Empty, Default}]
  /\ \A k \in sends : k.what = "save" => k.body \in Contents
  /\ Cardinality(SendsHere("save")) <= 1 /\ Cardinality(SendsHere("submit")) <= 1

(* What the form shows is what is stored, save for what was typed and not  *)
(* saved yet, what others changed meanwhile, and fields that cannot be     *)
(* emptied.  So saving the form overwrites nothing by mistake.  A form     *)
(* that was opened from the cache is another matter: profiles stay in it   *)
(* as they were before they were saved.                                    *)
FormTellsRecord ==
  progress = "shown" /\ SendsHere("save") = {} /\ ~recalled =>
    \A f \in Fields \ (typed \cup foreign) :
      form[f] = stored[f] \/ (f \in Sticky /\ form[f] = Empty)

(* brand/profile/page.tsx:92-93: "The status badge reads the profile, so   *)
(* refresh it or the page keeps claiming UNVERIFIED after a successful     *)
(* submission."                                                            *)
BadgeFollowsSubmission == told /\ progress = "shown" => badge # "UNVERIFIED"

=============================================================================
