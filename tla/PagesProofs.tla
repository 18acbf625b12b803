---------------------------- MODULE PagesProofs ----------------------------
(***************************************************************************)
(* Theorems about the pages of the portals, for every set of fields and    *)
(* values of a form, and of campaigns, payouts and accounts behind a page. *)
(***************************************************************************)
EXTENDS MCPages, FiniteSetTheorems, TLAPS

(***************************************************************************)
(* Pages that edit a record.  Calls of a form that is on the screen are at *)
(* most one of each kind, and there is none while there is no form.        *)
(***************************************************************************)
FormCalls == [what : {"save", "submit"}, body : Forms!Contents \cup {None},
           at : {"sent", "done"}, here : BOOLEAN]

FormsShaped ==
  /\ kind \in {"creator", "brand", "settings"}
  /\ stored \in Forms!Contents
  /\ flag \in Forms!Statuses /\ badge \in Forms!Statuses
  /\ kept # None => kept.form \in Forms!Contents /\ kept.flag \in Forms!Statuses
  /\ progress \in {"left", "loading", "failed", "shown"}
  /\ form \in [Fields -> Values \cup {Empty, Default}]
  /\ progress = "shown" => form \in Forms!Contents
  /\ sends \subseteq FormCalls
  /\ \A k \in sends : k.what = "save" => k.body \in Forms!Contents
  /\ kind = "settings" => \A k \in sends : k.what = "save"

OneEach ==
  /\ \A j, k \in sends : j.here /\ k.here /\ j.what = k.what => j = k
  /\ \A k \in sends : k.here => progress = "shown"

(* A form on the screen tells what is stored, and so does what it sent,    *)
(* once that is served.                                                    *)
Agrees(v, f) == v[f] = stored[f] \/ (f \in Sticky /\ v[f] = Empty)

Telling ==
  progress = "shown" =>
    \A f \in Fields \ foreign :
      /\ f \notin typed /\ ~recalled /\ (\A k \in sends : ~(k.here /\ k.what = "save" /\ k.at = "done"))
           => Agrees(form, f)
      /\ \A k \in sends : k.here /\ k.what = "save" =>
           /\ f \notin typed => k.body[f] = form[f]
           /\ k.at = "done" => Agrees(k.body, f)

Submitted ==
  /\ told => flag # "UNVERIFIED"
  /\ \A k \in sends : k.what = "submit" /\ k.at = "done" => flag # "UNVERIFIED"
  /\ told /\ progress = "shown" => badge # "UNVERIFIED"

FormsInv == FormsShaped /\ OneEach /\ Telling /\ Submitted

LEMMA NewCall ==
  ASSUME NEW what, NEW body
  PROVE  LET k == Forms!Send(what, body) IN
         /\ k.what = what /\ k.body = body /\ k.at = "sent" /\ k.here
         /\ (what \in {"save", "submit"} /\ body \in Forms!Contents \cup {None} => k \in FormCalls)
BY DEF Forms!Send, FormCalls

LEMMA LeftCall ==
  ASSUME NEW k \in FormCalls
  PROVE  LET j == [k EXCEPT !.here = FALSE] IN
         j \in FormCalls /\ j.what = k.what /\ j.body = k.body /\ j.at = k.at /\ ~j.here
BY DEF FormCalls

LEMMA ServedCall ==
  ASSUME NEW k \in FormCalls
  PROVE  LET j == [k EXCEPT !.at = "done"] IN
         j \in FormCalls /\ j.what = k.what /\ j.body = k.body /\ j.at = "done" /\ j.here = k.here
BY DEF FormCalls

LEMMA RecordShape ==
  /\ Forms!Record.form = stored /\ Forms!Record.flag = flag
BY DEF Forms!Record

(* Filling the form with an answer, at a time when it has sent nothing.    *)
LEMMA FormsFilled ==
  ASSUME FormsInv, NEW answer, Forms!ShowRecord(answer), progress # "shown",
         answer.form \in Forms!Contents, answer.flag \in Forms!Statuses,
         recalled' \/ answer.form = stored,
         told' => told /\ answer.flag = flag, recalled' \in BOOLEAN,
         kept' = kept \/ (kept'.form \in Forms!Contents /\ kept'.flag \in Forms!Statuses),
         UNCHANGED <<kind, stored, flag, sends>>
  PROVE  FormsInv'
<1>1. FormsShaped'
  <2>1. form' \in Forms!Contents /\ badge' \in Forms!Statuses /\ progress' = "shown"
    BY DEF Forms!ShowRecord, Forms!Filled
  <2>. QED
    BY <2>1 DEF FormsInv, FormsShaped, FormCalls, Forms!Contents
<1>2. \A k \in sends' : ~k.here
  BY DEF FormsInv, OneEach
<1>3. OneEach'
  BY <1>2 DEF OneEach
<1>4. Telling'
  BY <1>2 DEF Telling, Agrees, Forms!ShowRecord, Forms!Filled
<1>5. Submitted'
  BY DEF FormsInv, Submitted, Forms!ShowRecord
<1>. QED
  BY <1>1, <1>3, <1>4, <1>5 DEF FormsInv

(* Steps on the way to the form, when nothing it sent is under way.        *)
LEMMA FormsAway ==
  ASSUME FormsInv, progress' \in {"left", "loading", "failed"},
         kept' \in {kept, None}, form' \in [Fields -> Values \cup {Empty, Default}],
         badge' \in Forms!Statuses,
         \A k \in sends' : ~k.here /\ k \in FormCalls,
         \A k \in sends' : \E j \in sends : k.what = j.what /\ k.body = j.body /\ k.at = j.at,
         told' => told \/ flag # "UNVERIFIED",
         UNCHANGED <<kind, stored, flag>>
  PROVE  FormsInv'
<1>1. FormsShaped'
  BY DEF FormsInv, FormsShaped, FormCalls, Forms!Contents
<1>2. OneEach' /\ Telling'
  BY DEF OneEach, Telling
<1>3. Submitted'
  BY DEF FormsInv, Submitted
<1>. QED
  BY <1>1, <1>2, <1>3 DEF FormsInv

LEMMA FormsLoading ==
  ASSUME FormsInv,
         Forms!Open \/ Forms!Load \/ Forms!LoadFails \/ Forms!Again \/ Forms!Leave
           \/ Forms!CacheLapses
  PROVE  FormsInv'
<1> USE DEF Forms!record, Forms!screen, Forms!formHistory
<1>1. progress # "shown" => \A k \in sends : ~k.here
  BY DEF FormsInv, OneEach
<1>2. sends \subseteq FormCalls /\ badge \in Forms!Statuses
      /\ form \in [Fields -> Values \cup {Empty, Default}]
  BY DEF FormsInv, FormsShaped
<1>3. "UNVERIFIED" \in Forms!Statuses
  BY DEF Forms!Statuses
<1>4. CASE Forms!Open /\ kept # None
  <2>1. kept.form \in Forms!Contents /\ kept.flag \in Forms!Statuses
    BY <1>4 DEF FormsInv, FormsShaped
  <2>2. PICK answer : answer = kept
    OBVIOUS
  <2>. QED
    BY <1>4, <2>1, <2>2, FormsFilled DEF Forms!Open
<1>5. CASE Forms!Open /\ kept = None
  BY <1>1, <1>2, <1>5, FormsAway DEF Forms!Open
<1>6. CASE Forms!Load
  <2>1. PICK answer : answer = Forms!Record
    OBVIOUS
  <2>2. answer.form = stored /\ answer.flag = flag
    BY <2>1, RecordShape
  <2>3. answer.form \in Forms!Contents /\ answer.flag \in Forms!Statuses
    BY <2>2 DEF FormsInv, FormsShaped
  <2>. QED
    BY <1>6, <2>1, <2>2, <2>3, FormsFilled DEF Forms!Load
<1>7. CASE Forms!LoadFails \/ Forms!Again
  BY <1>1, <1>2, <1>7, FormsAway DEF Forms!LoadFails, Forms!Again
<1>8. CASE Forms!Leave
  <2>1. form' \in [Fields -> Values \cup {Empty, Default}] /\ badge' \in Forms!Statuses
    BY <1>3, <1>8 DEF Forms!Leave
  <2>2. ASSUME NEW k \in sends'
        PROVE  /\ ~k.here /\ k \in FormCalls
               /\ \E j \in sends : k.what = j.what /\ k.body = j.body /\ k.at = j.at
    <3>1. PICK j \in sends : k = [j EXCEPT !.here = FALSE]
      BY <1>8, <2>2 DEF Forms!Leave
    <3>. QED
      BY <1>2, <3>1, LeftCall
  <2>. QED
    BY <1>8, <2>1, <2>2, FormsAway DEF Forms!Leave
<1>9. CASE Forms!CacheLapses
  BY <1>9 DEF Forms!CacheLapses, FormsInv, FormsShaped, OneEach, Telling, Agrees, Submitted
<1>. QED
  BY <1>4, <1>5, <1>6, <1>7, <1>8, <1>9

LEMMA FormsTyping ==
  ASSUME FormsInv, NEW f \in Fields, NEW v \in Values \cup {Empty}, Forms!Type(f, v)
  PROVE  FormsInv'
<1> USE DEF Forms!Type, Forms!record
<1>1. form' \in Forms!Contents
  BY DEF FormsInv, FormsShaped, Forms!Contents
<1>2. FormsShaped'
  BY <1>1 DEF FormsInv, FormsShaped, Forms!Contents
<1>3. OneEach' /\ Submitted'
  BY DEF FormsInv, OneEach, Submitted
<1>4. \A g \in Fields \ typed' : g \notin typed /\ form'[g] = form[g]
  BY DEF FormsInv, FormsShaped
<1>5. Telling'
  BY <1>4 DEF FormsInv, Telling, Agrees
<1>. QED
  BY <1>2, <1>3, <1>5 DEF FormsInv

LEMMA FormsSaving ==
  ASSUME FormsInv, Forms!Save
  PROVE  FormsInv'
<1> USE DEF Forms!Save, Forms!record, Forms!screen, Forms!formHistory
<1>1. PICK k : k = Forms!Send("save", form)
  OBVIOUS
<1>2. k.what = "save" /\ k.body = form /\ k.at = "sent" /\ k.here /\ k \in FormCalls
  BY <1>1, NewCall DEF FormsInv, FormsShaped
<1>3. sends' = sends \cup {k} /\ progress = "shown" /\ form \in Forms!Contents
      /\ \A j \in sends : ~(j.here /\ j.what = "save")
  BY <1>1 DEF Forms!SendsHere, FormsInv, FormsShaped
<1>4. FormsShaped'
  BY <1>2, <1>3 DEF FormsInv, FormsShaped
<1>5. OneEach'
  BY <1>2, <1>3 DEF FormsInv, OneEach
<1>6. Telling'
  BY <1>2, <1>3 DEF FormsInv, Telling, Agrees
<1>7. Submitted'
  BY <1>2, <1>3 DEF FormsInv, Submitted
<1>. QED
  BY <1>4, <1>5, <1>6, <1>7 DEF FormsInv

LEMMA FormsSubmitting ==
  ASSUME FormsInv, Forms!Submit
  PROVE  FormsInv'
<1> USE DEF Forms!Submit, Forms!record, Forms!screen, Forms!formHistory
<1>1. PICK k : k = Forms!Send("submit", None)
  OBVIOUS
<1>2. k.what = "submit" /\ k.at = "sent" /\ k.here /\ k \in FormCalls
  BY <1>1, NewCall
<1>3. sends' = sends \cup {k} /\ progress = "shown"
      /\ \A j \in sends : ~(j.here /\ j.what = "submit")
  BY <1>1 DEF Forms!SendsHere
<1>4. FormsShaped'
  BY <1>2, <1>3 DEF FormsInv, FormsShaped
<1>5. OneEach'
  BY <1>2, <1>3 DEF FormsInv, OneEach
<1>6. Telling'
  BY <1>2, <1>3 DEF FormsInv, Telling, Agrees
<1>7. Submitted'
  BY <1>2, <1>3 DEF FormsInv, Submitted
<1>. QED
  BY <1>4, <1>5, <1>6, <1>7 DEF FormsInv

(* What is written, field by field.                                        *)
LEMMA WrittenIs ==
  ASSUME FormsInv, NEW body \in Forms!Contents
  PROVE  /\ Forms!Written(body) \in Forms!Contents
         /\ \A f \in Fields :
              LET w == Forms!Written(body) IN
              \/ w[f] = body[f]
              \/ f \in Sticky /\ body[f] = Empty /\ w[f] = stored[f]
         /\ \A f \in Fields \ Forms!Changes(Forms!Written(body)) :
              Forms!Written(body)[f] = stored[f]
BY DEF Forms!Written, Forms!Contents, Forms!Changes, FormsInv, FormsShaped

(* What is left of the calls when an answer was read, or lost.             *)
LEMMA FormsServed ==
  ASSUME FormsInv, NEW k \in sends, Forms!Serve(k)
  PROVE  FormsInv'
<1> USE DEF Forms!screen
<1>1. PICK j : j = [k EXCEPT !.at = "done"]
  OBVIOUS
<1>2. k \in FormCalls /\ sends \subseteq FormCalls
  BY DEF FormsInv, FormsShaped
<1>3. j \in FormCalls /\ j.what = k.what /\ j.body = k.body /\ j.at = "done" /\ j.here = k.here
  BY <1>1, <1>2, ServedCall
<1>4. /\ k.at = "sent" /\ sends' = (sends \ {k}) \cup {j}
      /\ UNCHANGED <<kind, kept, progress, badge, form, typed, recalled, told>>
  BY <1>1 DEF Forms!Serve
<1>5. CASE k.what = "save"
  <2>1. k.body \in Forms!Contents
    BY <1>5 DEF FormsInv, FormsShaped
  <2>2. PICK w : w = Forms!Written(k.body)
    OBVIOUS
  <2>3. /\ w \in Forms!Contents
        /\ \A f \in Fields : \/ w[f] = k.body[f]
                             \/ f \in Sticky /\ k.body[f] = Empty /\ w[f] = stored[f]
        /\ \A f \in Fields \ Forms!Changes(w) : w[f] = stored[f]
    BY <2>1, <2>2, WrittenIs
  <2>4. /\ stored' = w /\ UNCHANGED flag
        /\ foreign' = IF k.here THEN foreign ELSE foreign \cup Forms!Changes(w)
    BY <1>5, <2>2 DEF Forms!Serve
  <2>5. FormsShaped'
    BY <1>2, <1>3, <1>4, <2>1, <2>3, <2>4 DEF FormsInv, FormsShaped, FormCalls, Forms!Contents, Forms!Statuses
  <2>6. OneEach'
    BY <1>2, <1>3, <1>4 DEF FormsInv, OneEach
  <2>7. Submitted'
    BY <1>3, <1>4, <1>5, <2>4 DEF FormsInv, Submitted
  <2>8. ASSUME progress = "shown", NEW f \in Fields \ foreign'
        PROVE  /\ f \notin typed /\ ~recalled
                    /\ (\A x \in sends' : ~(x.here /\ x.what = "save" /\ x.at = "done"))
                  => Agrees(form, f)'
               /\ \A x \in sends' : x.here /\ x.what = "save" =>
                    /\ f \notin typed => x.body[f] = form[f]
                    /\ x.at = "done" => Agrees(x.body, f)'
    <3>1. CASE k.here
      <4>1. f \notin foreign /\ (f \notin typed => k.body[f] = form[f])
        BY <1>5, <2>4, <2>8, <3>1 DEF FormsInv, Telling
      <4>2. \A x \in sends' : x.here /\ x.what = "save" => x = j
        BY <1>3, <1>4, <1>5, <3>1 DEF FormsInv, OneEach
      <4>3. Agrees(j.body, f)'
        BY <1>3, <2>3, <2>4 DEF Agrees
      <4>. QED
        BY <1>3, <1>4, <1>5, <3>1, <4>1, <4>2, <4>3 DEF Agrees
    <3>2. CASE ~k.here
      <4>1. f \notin foreign /\ stored'[f] = stored[f]
        BY <2>3, <2>4, <2>8, <3>2
      <4>2. \A x \in sends' : x.here => x \in sends
        BY <1>3, <1>4, <3>2
      <4>3. \A x \in sends : x.here => x \in sends'
        BY <1>3, <1>4, <3>2
      <4>. QED
        BY <1>4, <2>8, <4>1, <4>2, <4>3 DEF FormsInv, Telling, Agrees
    <3>. QED
      BY <3>1, <3>2
  <2>9. Telling'
    BY <1>4, <2>8 DEF Telling, Agrees
  <2>. QED
    BY <2>5, <2>6, <2>7, <2>9 DEF FormsInv
<1>6. CASE k.what # "save"
  <2>1. flag' = "PENDING" /\ UNCHANGED <<stored, foreign>>
    BY <1>6 DEF Forms!Serve
  <2>2. FormsShaped'
    BY <1>2, <1>3, <1>4, <1>6, <2>1 DEF FormsInv, FormsShaped, FormCalls, Forms!Contents, Forms!Statuses
  <2>3. OneEach'
    BY <1>2, <1>3, <1>4 DEF FormsInv, OneEach
  <2>4. Telling'
    <3>1. \A x : x.what = "save" => (x \in sends' <=> x \in sends)
      BY <1>3, <1>4, <1>6
    <3>. QED
      BY <1>4, <2>1, <3>1 DEF FormsInv, Telling, Agrees
  <2>5. Submitted'
    BY <1>3, <1>4, <2>1 DEF FormsInv, Submitted
  <2>. QED
    BY <2>2, <2>3, <2>4, <2>5 DEF FormsInv
<1>. QED
  BY <1>5, <1>6

LEMMA FormsLost ==
  ASSUME FormsInv, NEW k \in sends, Forms!Lost(k)
  PROVE  FormsInv'
<1> USE DEF Forms!record, Forms!screen, Forms!Lost
<1>1. FormsShaped' /\ OneEach' /\ Submitted'
  BY DEF FormsInv, FormsShaped, OneEach, Submitted
<1>2. CASE k.at = "done" /\ k.here /\ k.what = "save"
  BY <1>1, <1>2 DEF FormsInv, Telling
<1>3. CASE ~(k.at = "done" /\ k.here /\ k.what = "save")
  <2>1. foreign' = foreign
    BY <1>3
  <2>2. \A x \in sends : x.at = "done" /\ x.here /\ x.what = "save" => x \in sends'
    BY <1>3
  <2>3. Telling'
    BY <2>1, <2>2 DEF FormsInv, Telling, Agrees
  <2>. QED
    BY <1>1, <2>3 DEF FormsInv
<1>. QED
  BY <1>2, <1>3

LEMMA FormsElsewhere ==
  ASSUME FormsInv,
         \/ \E f \in Fields, v \in Values \cup {Empty} : Forms!SavedElsewhere(f, v)
         \/ \E s \in {"VERIFIED", "REJECTED"} : Forms!Verdict(s)
  PROVE  FormsInv'
<1> USE DEF Forms!record, Forms!screen, Forms!formHistory
<1>1. CASE \E s \in {"VERIFIED", "REJECTED"} : Forms!Verdict(s)
  BY <1>1 DEF Forms!Verdict, Forms!Statuses, FormsInv, FormsShaped, OneEach, Telling, Agrees, Submitted
<1>2. ASSUME NEW f \in Fields, NEW v \in Values \cup {Empty}, Forms!SavedElsewhere(f, v)
      PROVE  FormsInv'
  <2> USE <1>2 DEF Forms!SavedElsewhere
  <2>1. FormsShaped'
    BY DEF FormsInv, FormsShaped, Forms!Contents
  <2>2. OneEach' /\ Submitted'
    BY DEF FormsInv, OneEach, Submitted
  <2>3. \A g \in Fields \ foreign' : g \notin foreign /\ stored'[g] = stored[g]
    BY DEF FormsInv, FormsShaped, Forms!Contents
  <2>4. Telling'
    BY <2>3 DEF FormsInv, Telling, Agrees
  <2>. QED
    BY <2>1, <2>2, <2>4 DEF FormsInv
<1>. QED
  BY <1>1, <1>2

LEMMA FormsDone ==
  ASSUME FormsInv, NEW k \in sends, Forms!Done(k)
  PROVE  FormsInv'
<1> USE DEF Forms!record
<1>1. /\ k.at = "done"
      /\ UNCHANGED <<kind, stored, flag, kept, badge, form, foreign, recalled>>
      /\ told' = (told \/ (k.here /\ k.what = "submit"))
      /\ sends \subseteq FormCalls /\ k \in FormCalls
  BY DEF Forms!Done, FormsInv, FormsShaped
<1>2. told' => told \/ flag # "UNVERIFIED"
  BY <1>1 DEF FormsInv, Submitted
<1>3. badge \in Forms!Statuses /\ form \in [Fields -> Values \cup {Empty, Default}]
  BY DEF FormsInv, FormsShaped
<1>4. CASE k.here /\ kind # "settings" /\ Forms!Reloads(k.what)
  <2>1. ASSUME NEW x \in sends'
        PROVE  /\ ~x.here /\ x \in FormCalls
               /\ \E j \in sends : x.what = j.what /\ x.body = j.body /\ x.at = j.at
    <3>1. PICK j \in sends : x = [j EXCEPT !.here = FALSE]
      BY <1>4, <2>1 DEF Forms!Done
    <3>. QED
      BY <1>1, <3>1, LeftCall
  <2>2. progress' = "loading"
    BY <1>4 DEF Forms!Done
  <2>. QED
    BY <1>1, <1>2, <1>3, <2>1, <2>2, FormsAway
<1>5. CASE k.here /\ kind = "settings"
  <2>1. progress' = "loading" /\ sends' = sends \ {k}
    BY <1>5 DEF Forms!Done, Forms!Reloads
  <2>2. \A x \in sends : x.here => x = k
    BY <1>5 DEF FormsInv, FormsShaped, OneEach
  <2>3. \A x \in sends' : ~x.here /\ x \in FormCalls
    BY <1>1, <2>1, <2>2
  <2>4. \A x \in sends' : \E j \in sends : x.what = j.what /\ x.body = j.body /\ x.at = j.at
    BY <2>1
  <2>. QED
    BY <1>1, <1>2, <1>3, <2>1, <2>3, <2>4, FormsAway
<1>6. CASE k.here /\ kind # "settings" /\ ~Forms!Reloads(k.what)
  <2>1. k.what = "save"
    BY <1>1, <1>6 DEF Forms!Reloads, FormCalls
  <2>2. /\ sends' = sends \ {k} /\ progress' = progress /\ (told' => told)
        /\ typed' = {f \in typed : form[f] # k.body[f]}
    BY <1>1, <1>6, <2>1 DEF Forms!Done
  <2>3. FormsShaped' /\ OneEach' /\ Submitted'
    BY <1>1, <2>2 DEF FormsInv, FormsShaped, OneEach, Submitted
  <2>4. \A x \in sends' : ~(x.here /\ x.what = "save")
    BY <1>6, <2>1, <2>2 DEF FormsInv, OneEach
  <2>5. ASSUME progress = "shown", NEW f \in Fields \ foreign, f \notin typed'
        PROVE  Agrees(form, f)
    <3>1. k.body[f] = form[f] /\ Agrees(k.body, f)
      BY <1>1, <1>6, <2>1, <2>2, <2>5 DEF FormsInv, Telling
    <3>. QED
      BY <3>1 DEF Agrees
  <2>6. Telling'
    BY <1>1, <2>2, <2>4, <2>5 DEF Telling, Agrees
  <2>. QED
    BY <2>3, <2>6 DEF FormsInv
<1>7. CASE ~k.here
  <2>1. sends' = sends \ {k} /\ progress' = progress /\ typed' = typed /\ (told' => told)
    BY <1>1, <1>7 DEF Forms!Done
  <2>2. FormsShaped' /\ OneEach' /\ Submitted'
    BY <1>1, <2>1 DEF FormsInv, FormsShaped, OneEach, Submitted
  <2>3. \A x : x.here => (x \in sends' <=> x \in sends)
    BY <1>7, <2>1
  <2>4. Telling'
    BY <1>1, <2>1, <2>3 DEF FormsInv, Telling, Agrees
  <2>. QED
    BY <2>2, <2>4 DEF FormsInv
<1>. QED
  BY <1>1, <1>4, <1>5, <1>6, <1>7 DEF FormCalls

LEMMA FormsNext ==
  ASSUME FormsInv, [Forms!FormNext]_Forms!formVars
  PROVE  FormsInv'
<1>1. CASE UNCHANGED Forms!formVars
  BY <1>1 DEF Forms!formVars, Forms!record, Forms!screen, Forms!formHistory,
     FormsInv, FormsShaped, OneEach, Telling, Agrees, Submitted
<1>. QED
  BY <1>1, FormsLoading, FormsTyping, FormsSaving, FormsSubmitting, FormsServed, FormsDone,
     FormsLost, FormsElsewhere DEF Forms!FormNext

LEMMA FormsFirst == Forms!FormInit => FormsInv
BY DEF Forms!FormInit, Forms!Statuses, Forms!Contents, FormsInv, FormsShaped, OneEach, Telling,
   Submitted

LEMMA AtMostOne ==
  ASSUME NEW S, \A x, y \in S : x = y
  PROVE  Forms!Cardinality(S) <= 1
<1>1. Forms!Cardinality(S) = Cardinality(S)
  BY Zenon DEF Forms!Cardinality, Cardinality
<1>2. CASE S = {}
  BY <1>1, <1>2, FS_EmptySet
<1>3. CASE S # {}
  <2>1. PICK x : S = {x}
    BY <1>3
  <2>. QED
    BY <1>1, <2>1, FS_Singleton
<1>. QED
  BY <1>2, <1>3

LEMMA FormsEnough == FormsInv => FormTellsRecord
<1> SUFFICES ASSUME FormsInv PROVE FormTellsRecord
  OBVIOUS
<1>1. Forms!Cardinality(Forms!SendsHere("save")) <= 1
      /\ Forms!Cardinality(Forms!SendsHere("submit")) <= 1
  <2>1. \A what : \A x, y \in Forms!SendsHere(what) : x = y
    BY DEF FormsInv, OneEach, Forms!SendsHere
  <2>. QED
    BY <2>1, AtMostOne
<1>2. Forms!FormsTypeOK
  BY <1>1 DEF Forms!FormsTypeOK, FormsInv, FormsShaped
<1>3. Forms!FormTellsRecord
  BY DEF Forms!FormTellsRecord, Forms!SendsHere, FormsInv, Telling, Agrees
<1>4. Forms!BadgeFollowsSubmission
  BY DEF Forms!BadgeFollowsSubmission, FormsInv, Submitted
<1>. QED
  BY <1>2, <1>3, <1>4 DEF FormTellsRecord

(* The forms part of the runs is FormPages, with bounds.                   *)
LEMMA ChecksForms == CheckSpec => Forms!FormSpec
<1>1. CheckInit => Forms!FormInit
  BY DEF CheckInit
<1>2. [CheckNext]_<<part, portal, formSide>> => [Forms!FormNext]_Forms!formVars
  BY DEF CheckNext, PortalCheck, FormsCheck, formSide, Forms!formVars, Forms!record,
     Forms!screen, Forms!formHistory
<1>. QED
  BY <1>1, <1>2, PTL DEF CheckSpec, Forms!FormSpec

(* A form shows what is stored, save for what was typed and not saved yet, *)
(* what others changed meanwhile, and fields that cannot be emptied; and a *)
(* page that submitted a profile shows no longer that it is unverified.    *)
THEOREM FormsTell == CheckSpec => []FormTellsRecord
<1>1. Forms!FormSpec => []FormsInv
  BY FormsFirst, FormsNext, PTL DEF Forms!FormSpec
<1>. QED
  BY <1>1, ChecksForms, FormsEnough, PTL

-----------------------------------------------------------------------------
(***************************************************************************)
(* The pages that people work on.  What a page may press is told by its    *)
(* name; only the users page offers roles, and the campaigns page changes  *)
(* campaigns only.                                                         *)
(***************************************************************************)
Presses(do) ==
  /\ page # "users" => do # "role"
  /\ page = "campaigns" => do \in {"create", "move"}

LEMMA OfferedPresses ==
  ASSUME NEW b \in Offered
  PROVE  Presses(b.do)
<1> USE DEF Presses
<1>1. CASE page = "campaigns"
  <2>1. b \in CampaignButtons
    BY <1>1 DEF Offered
  <2>2. CASE \E c \in Campaigns : b = Button("create", c, "DRAFT")
    BY <2>2, <1>1 DEF Button
  <2>3. CASE b \in [do : {"move"}, row : Campaigns, to : {s[2] : s \in Rules!Lifecycle}]
    BY <2>3, <1>1
  <2>. QED
    BY <2>1, <2>2, <2>3 DEF CampaignButtons
<1>2. CASE page = "received"
  <2>1. b \in ReviewButtons
    BY <1>2 DEF Offered
  <2>2. \E p, d : b = Button("review", p, d)
    BY <2>1 DEF ReviewButtons
  <2>. QED
    BY <1>2, <2>2 DEF Button
<1>3. CASE page = "payouts"
  <2>1. \E p : b = Button("prepare", p, "PENDING")
    BY <1>3 DEF Offered, PrepareButtons
  <2>. QED
    BY <1>3, <2>1 DEF Button
<1>4. CASE page = "discover"
  <2>1. \E c : b = Button("apply", <<c, Creator>>, "PENDING")
    BY <1>4 DEF Offered, ApplyButtons
  <2>. QED
    BY <1>4, <2>1 DEF Button
<1>5. CASE page = "applications"
  <2>1. \E p : b = Button("submit", p, "SUBMITTED")
    BY <1>5 DEF Offered, SubmitButtons
  <2>. QED
    BY <1>5, <2>1 DEF Button
<1>6. CASE page = "finance"
  <2>1. \E p : b = Button("approve", p, "APPROVED") \/ b = Button("release", p, "PAID")
    BY <1>6 DEF Offered, FinanceButtons
  <2>. QED
    BY <1>6, <2>1 DEF Button
<1>7. CASE page = "users"
  BY <1>7
<1>8. CASE page = "verifications"
  <2>1. \E d, t : b = Button(Verify(d), d, t)
    BY <1>8 DEF Offered, QueueButtons
  <2>. QED
    BY <1>8, <2>1 DEF Button, Verify
<1>. QED
  BY <1>1, <1>2, <1>3, <1>4, <1>5, <1>6, <1>7, <1>8 DEF Offered

LEMMA CallIs ==
  ASSUME NEW n, NEW b, NEW at
  PROVE  Call(n, b, at).button = b /\ Call(n, b, at).at = at
BY DEF Call

-----------------------------------------------------------------------------
(***************************************************************************)
(* No call is sent twice.  While one row is worked on at a time, the mark  *)
(* of the page is that of the call under way.                              *)
(***************************************************************************)
OneRow ==
  /\ \A k \in calls : Presses(k.button.do)
  /\ ~crowded /\ page # "users" =>
       /\ \A j, k \in calls : j.button.row = k.button.row
       /\ \A k \in calls : k.button.do # "create" => busy = Mark(k.button)
       /\ \A j, k \in calls :
            j # k => /\ j.button.do # k.button.do
                     /\ "create" \in {j.button.do, k.button.do}

LEMMA RowPressed ==
  ASSUME OneRow, NEW b \in Offered, Press(b)
  PROVE  OneRow'
<1> USE DEF Press, OneRow
<1>1. PICK n : calls' = calls \cup {Call(n, b, "sent")}
  OBVIOUS
<1>. PICK c : c = Call(n, b, "sent")
  OBVIOUS
<1>2. c.button = b /\ calls' = calls \cup {c} /\ UNCHANGED page /\ Presses(b.do)
  BY <1>1, CallIs, OfferedPresses
<1>3. \A k \in calls' : Presses(k.button.do)'
  BY <1>2 DEF Presses
<1>4. SUFFICES ASSUME ~crowded', page # "users" PROVE OneRow'
  BY <1>2, <1>3
<1>5. ~crowded /\ \A k \in calls : k.button.row = b.row
  BY <1>4
<1>6. \A j, k \in calls' : j.button.row = k.button.row
  BY <1>2, <1>5
<1>7. CASE b.do = "create"
  <2>1. \A k \in calls : k.button.do # "create"
    BY <1>7 DEF Disabled
  <2>2. busy' = busy
    BY <1>7
  <2>3. \A k \in calls' : k.button.do # "create" => busy' = Mark(k.button)'
    BY <1>2, <1>4, <1>5, <1>7, <2>2 DEF Mark
  <2>4. \A j, k \in calls' : j # k =>
          j.button.do # k.button.do /\ "create" \in {j.button.do, k.button.do}
    BY <1>2, <1>4, <1>5, <1>7, <2>1
  <2>. QED
    BY <1>3, <1>6, <2>3, <2>4
<1>8. CASE b.do # "create"
  <2>1. busy # Mark(b) /\ busy' = Mark(b)
    BY <1>2, <1>4, <1>8 DEF Disabled, Presses
  <2>2. \A k \in calls : Mark(k.button) = Mark(b)
    BY <1>4, <1>5 DEF Mark
  <2>3. \A k \in calls : k.button.do = "create"
    BY <1>4, <1>5, <2>1, <2>2
  <2>4. \A k \in calls' : k.button.do # "create" => busy' = Mark(k.button)'
    BY <1>2, <2>1, <2>3 DEF Mark
  <2>5. \A j, k \in calls' : j # k =>
          j.button.do # k.button.do /\ "create" \in {j.button.do, k.button.do}
    BY <1>2, <1>4, <1>5, <1>8, <2>3
  <2>. QED
    BY <1>3, <1>6, <2>4, <2>5
<1>. QED
  BY <1>7, <1>8

LEMMA RowServed ==
  ASSUME OneRow, NEW k \in calls, Serve(k)
  PROVE  OneRow'
<1>1. /\ \E c : c.button = k.button /\ calls' = (calls \ {k}) \cup {c}
      /\ UNCHANGED <<page, busy, crowded>>
  BY CallIs DEF Serve
<1>2. PICK c : c.button = k.button /\ calls' = (calls \ {k}) \cup {c}
  BY <1>1
<1>3. \A x : Mark(x)' = Mark(x)
  BY <1>1 DEF Mark
<1>4. \A x \in calls' : \E y \in calls : y.button = x.button /\ (x \in calls => y = x)
                                         /\ (x \notin calls => y = k)
  BY <1>2
<1>5. \A x \in calls' : Presses(x.button.do)'
  BY <1>1, <1>2 DEF OneRow, Presses
<1>. QED
  BY <1>1, <1>2, <1>3, <1>5 DEF OneRow

LEMMA RowAnswered ==
  ASSUME OneRow, NEW k \in calls, Return(k) \/ Lose(k)
  PROVE  OneRow'
<1>1. calls' = calls \ {k} /\ busy' = Unmarked(k.button) /\ UNCHANGED <<page, crowded>>
  BY DEF Return, Lose, history
<1>2. \A x : Mark(x)' = Mark(x)
  BY <1>1 DEF Mark
<1>3. \A x \in calls' : Presses(x.button.do)'
  BY <1>1 DEF OneRow, Presses
<1>. QED
  BY <1>1, <1>2, <1>3 DEF OneRow, Unmarked

LEMMA RowKept ==
  ASSUME OneRow, UNCHANGED <<page, calls, busy, crowded>>
  PROVE  OneRow'
BY DEF OneRow, Presses, Mark

LEMMA RowNext ==
  ASSUME OneRow, [Next]_vars
  PROVE  OneRow'
<1>1. ASSUME NEW l, Show(l) \/ ShowError(l) \/ Retry(l)
      PROVE  UNCHANGED <<page, calls, busy, crowded>>
  BY <1>1 DEF Show, ShowError, Retry, history
<1>2. CASE \/ ElsewhereCampaigns \/ ElsewherePayouts \/ ElsewhereAccounts \/ ElsewhereQueue
           \/ UNCHANGED vars
  BY <1>2, RowKept
  DEF ElsewhereCampaigns, ElsewherePayouts, ElsewhereAccounts, ElsewhereQueue, vars,
      pageVars, history
<1>3. CASE PageSteps
  BY <1>1, <1>3, RowKept, RowPressed, RowServed, RowAnswered DEF PageSteps
<1>. QED
  BY <1>2, <1>3 DEF Next

-----------------------------------------------------------------------------
(***************************************************************************)
(* Own changes show.                                                       *)
(***************************************************************************)
Follows(l) ==
  \/ load[l] \in {"loading", "failed"}
  \/ page = "payouts" /\ l \in {"payable", "summary"}

BehindInv ==
  /\ \A k \in calls : Presses(k.button.do)
  /\ load = [l \in Asked |-> load[l]]
  /\ behind \subseteq Asked
  /\ page = "campaigns" => "summary" \notin behind
  /\ \/ unheard
     \/ \E k \in calls : k.at = "done"
     \/ \A l \in behind : Follows(l)

LEMMA BehindServed ==
  ASSUME BehindInv, NEW k \in calls, Serve(k)
  PROVE  BehindInv'
<1>1. UNCHANGED <<role, page, load, unheard>> /\ k.at = "sent"
  BY DEF Serve, lists
<1>2. Asked' = Asked
  BY <1>1 DEF Asked
<1>3. CASE /\ Does(k.button, Me, role)
           /\ calls' = (calls \ {k}) \cup {Call(k.slot, k.button, "done")}
           /\ behind' = behind \cup {l \in Asked : Tells(l)' # Tells(l)}
  <2>1. \A x \in calls' : Presses(x.button.do)'
    BY <1>1, <1>3, CallIs DEF BehindInv, Presses
  <2>2. \E x \in calls' : x.at = "done"
    BY <1>3, CallIs
  <2>3. ASSUME page = "campaigns" PROVE "summary" \notin behind'
    <3>1. k.button.do \in {"create", "move"}
      BY <2>3 DEF BehindInv, Presses
    <3>2. UNCHANGED payout
      BY <1>3, <3>1 DEF Does, OfLife, OfAccounts, Decides, Verifying, ofLife
    <3>3. Tells("summary")' = Tells("summary")
      BY <3>2 DEF Tells
    <3>. QED
      BY <1>3, <2>3, <3>3 DEF BehindInv
  <2>. QED
    BY <1>1, <1>2, <1>3, <2>1, <2>2, <2>3 DEF BehindInv
<1>4. CASE /\ calls' = (calls \ {k}) \cup {Call(k.slot, k.button, "refused")}
           /\ UNCHANGED behind
  <2>1. \A x \in calls' : Presses(x.button.do)'
    BY <1>1, <1>4, CallIs DEF BehindInv, Presses
  <2>2. \A x \in calls : x.at = "done" => x \in calls'
    BY <1>1, <1>4
  <2>. QED
    BY <1>1, <1>2, <1>4, <2>1, <2>2 DEF BehindInv, Follows
<1>. QED
  BY <1>3, <1>4 DEF Serve

LEMMA BehindReturned ==
  ASSUME BehindInv, NEW k \in calls, Return(k)
  PROVE  BehindInv'
<1> USE DEF Return, history
<1>1. Asked' = Asked /\ \A x \in calls' : Presses(x.button.do)'
  BY DEF Asked, BehindInv, Presses
<1>2. CASE k.at = "refused"
  BY <1>1, <1>2 DEF BehindInv, Follows
<1>3. CASE k.at # "refused"
  <2>1. load' = [l \in Asked |-> IF l \in Reloaded(page) THEN "loading" ELSE load[l]]
    BY <1>3
  <2>2. \A l \in behind : l \in Reloaded(page) \/ (page = "payouts" /\ l \in {"payable", "summary"})
    BY DEF BehindInv, Reloaded, Asked, Lists
  <2>3. \A l \in behind' : Follows(l)'
    BY <1>1, <2>1, <2>2 DEF BehindInv, Follows
  <2>. QED
    BY <1>1, <2>1, <2>3 DEF BehindInv
<1>. QED
  BY <1>2, <1>3

LEMMA BehindStep ==
  ASSUME BehindInv, [Next]_vars
  PROVE  BehindInv'
<1>1. ASSUME NEW b \in Offered, Press(b)
      PROVE  BehindInv'
  <2>1. UNCHANGED <<role, page, load, behind, unheard>> /\ calls \subseteq calls'
        /\ \A x \in calls' : x \in calls \/ x.button = b
    BY <1>1, CallIs DEF Press, lists
  <2>2. \A x \in calls' : Presses(x.button.do)'
    BY <2>1, OfferedPresses DEF BehindInv, Presses
  <2>. QED
    BY <2>1, <2>2 DEF BehindInv, Follows, Asked
<1>2. ASSUME NEW k \in calls, Lose(k)
      PROVE  BehindInv'
  <2>1. UNCHANGED <<role, page, load, behind>> /\ calls' = calls \ {k}
        /\ unheard' = (unheard \/ k.at = "done")
    BY <1>2 DEF Lose, lists
  <2>. QED
    BY <2>1 DEF BehindInv, Follows, Asked, Presses
<1>3. ASSUME NEW l \in Asked, Show(l) \/ ShowError(l) \/ Retry(l)
      PROVE  BehindInv'
  <2>1. UNCHANGED <<role, page, calls, unheard>>
    BY <1>3 DEF Show, ShowError, Retry, history
  <2>2. Asked' = Asked
    BY <2>1 DEF Asked
  <2>3. \E s : load' = [load EXCEPT ![l] = s] /\ behind' \subseteq behind
               /\ (l \in behind' => s \in {"loading", "failed"})
    BY <1>3 DEF Show, ShowError, Retry, history
  <2>4. load' = [m \in Asked |-> load'[m]] /\ \A m \in Asked \ {l} : load'[m] = load[m]
    BY <2>3 DEF BehindInv
  <2>5. l \in behind' => load'[l] \in {"loading", "failed"}
    BY <2>3 DEF BehindInv
  <2>6. \A m \in behind' : Follows(m) => Follows(m)'
    BY <2>1, <2>3, <2>4, <2>5 DEF BehindInv, Follows
  <2>. QED
    BY <2>1, <2>2, <2>3, <2>4, <2>6 DEF BehindInv, Presses
<1>4. CASE \/ ElsewhereCampaigns \/ ElsewherePayouts \/ ElsewhereAccounts \/ ElsewhereQueue
           \/ UNCHANGED vars
  <2>1. UNCHANGED pageVars
    BY <1>4
    DEF ElsewhereCampaigns, ElsewherePayouts, ElsewhereAccounts, ElsewhereQueue, vars
  <2>. QED
    BY <2>1 DEF pageVars, lists, history, BehindInv, Presses, Asked, Follows
<1>. QED
  BY <1>1, <1>2, <1>3, <1>4, BehindServed, BehindReturned DEF Next, PageSteps

-----------------------------------------------------------------------------
(* The portal part of the runs is PortalPages, with bounds.                *)
LEMMA ChecksPortal == CheckSpec => Spec
<1>1. CheckInit => Init
  BY DEF CheckInit
<1>2. [CheckNext]_<<part, portal, formSide>> => [Next]_vars
  BY DEF CheckNext, PortalCheck, FormsCheck, Elsewhere, portal, Next
<1>. QED
  BY <1>1, <1>2, PTL DEF CheckSpec, Spec

(* As long as one row is worked on at a time, no page but that of the      *)
(* users sends a call twice.                                               *)
THEOREM PressedOnce == CheckSpec => []NoDoublePress
<1>1. Init => OneRow
  BY DEF Init, OneRow
<1>2. OneRow => NoDoublePress
  BY DEF OneRow, NoDoublePress
<1>. QED
  BY <1>1, <1>2, RowNext, ChecksPortal, PTL DEF Spec

(* Once a call is answered the page shows what it changed or loads it, but *)
(* for two lists of the payouts page.                                      *)
THEOREM OwnChanges == CheckSpec => []OwnChangesShow
<1>1. Init => BehindInv
  BY DEF Init, BehindInv
<1>2. BehindInv => OwnChangesShow
  BY DEF BehindInv, Follows, OwnChangesShow
<1>. QED
  BY <1>1, <1>2, BehindStep, ChecksPortal, PTL DEF Spec

-----------------------------------------------------------------------------
(***************************************************************************)
(* Whoever is let onto a page may read what it asks for.                   *)
(***************************************************************************)
Admitted == page \in Pages /\ role \in Allowed(page)

LEMMA WhoIsAllowed ==
  /\ \A p \in CreatorPages : Allowed(p) = {"creator"}
  /\ \A p \in BrandPages : Allowed(p) = {"brand"}
  /\ Allowed("users") = {"admin", "manager"} /\ Allowed("finance") = {"admin", "finance"}
  /\ \A p \in {"verifications", "settings", "audit"} : Allowed(p) = {"admin"}
  /\ \A p \in {"console", "analytics", "all_campaigns"} : Allowed(p) = ADMIN_CONSOLE_ROLES
BY DEF Allowed, CreatorPages, BrandPages, FinanceRoles

LEMMA ServicesRead ==
  /\ \A l \in {"my_applications", "received_payments", "payments"} : MayRead("creator", l)
  /\ \A l \in {"received", "payable", "payments", "invoices"} : MayRead("brand", l)
  /\ \A r \in {"admin", "finance"} : MayRead(r, "queued_payments")
  /\ \A r \in UserRoles, l \in {"open_campaigns", "my_campaigns", "summary", "activity",
        "my_brand", "my_profile", "conversations"} : MayRead(r, l)
BY DEF MayRead, EndpointOf, Serves, canActivate, Undecorated, Endpoint, UserRoles,
   ROLE_PERMISSIONS

LEMMA AdminRead ==
  /\ \A r \in {"admin", "finance"} : MayRead(r, "totals")
  /\ \A r \in {"admin", "manager"} : MayRead(r, "users")
  /\ \A r \in ADMIN_CONSOLE_ROLES : MayRead(r, "report") /\ MayRead(r, "all_campaigns")
  /\ \A l \in {"queue", "settings", "audit_log"} : MayRead("admin", l)
BY DEF MayRead, EndpointOf, Serves, canActivate, ofAdmin, Endpoint, UserRoles,
   INTERNAL_ROLES, ADMIN_CONSOLE_ROLES, ROLE_PERMISSIONS, PERMISSIONS, MessagePermissions,
   ReviewPermissions, CampaignPermissions, TaskPermissions, PaymentPermissions,
   ProfilePermissions

LEMMA AdmittedRead == Admitted => PagesMayRead
<1> SUFFICES ASSUME Admitted, page # "analytics", NEW l \in Asked
             PROVE  MayRead(role, l)
  BY DEF PagesMayRead
<1>1. CASE page \in CreatorPages
  <2>1. role = "creator" /\ role \in UserRoles
    BY <1>1, WhoIsAllowed DEF Admitted, UserRoles
  <2>2. l \in {"my_applications", "received_payments", "open_campaigns", "summary",
               "activity", "conversations", "my_profile"}
    BY <1>1 DEF Asked, Lists, CreatorPages
  <2>. QED
    BY <2>1, <2>2, ServicesRead
<1>2. CASE page \in BrandPages
  BY <1>2, ServicesRead
  DEF Admitted, Allowed, Asked, Lists, BrandPages, CreatorPages, UserRoles
<1>3. CASE page \in AdminPages
  BY <1>3, ServicesRead, AdminRead
  DEF Admitted, Allowed, Asked, Lists, AdminPages, BrandPages, CreatorPages, FinanceRoles,
      ADMIN_CONSOLE_ROLES, canSeeFinance
<1>. QED
  BY <1>1, <1>2, <1>3 DEF Admitted, Pages

LEMMA AdmittedLed == role \in ADMIN_CONSOLE_ROLES => NavigationLeadsIn
<1> SUFFICES ASSUME role \in ADMIN_CONSOLE_ROLES, NEW p \in adminNavFor(role)
             PROVE  role \in Allowed(p)
  BY DEF NavigationLeadsIn
<1>1. DOMAIN ADMIN_NAV = {"users", "verifications", "finance", "settings", "audit"}
  BY DEF ADMIN_NAV
<1>2. p \in AdminPages /\ (p \in DOMAIN ADMIN_NAV => role \in ADMIN_NAV[p])
  BY DEF adminNavFor
<1>3. CASE p \in {"console", "analytics", "all_campaigns"}
  BY <1>3, WhoIsAllowed
<1>4. CASE p \in {"users", "verifications", "finance", "settings", "audit"}
  <2>1. /\ ADMIN_NAV["users"] = {"admin", "manager"} /\ ADMIN_NAV["finance"] = {"admin", "finance"}
        /\ \A q \in {"verifications", "settings", "audit"} : ADMIN_NAV[q] = {"admin"}
    BY DEF ADMIN_NAV
  <2>2. role \in ADMIN_NAV[p]
    BY <1>1, <1>2, <1>4
  <2>3. ADMIN_NAV[p] = Allowed(p)
    BY <1>4, <2>1, WhoIsAllowed
  <2>. QED
    BY <2>2, <2>3
<1>. QED
  BY <1>2, <1>3, <1>4 DEF AdminPages

-----------------------------------------------------------------------------
(***************************************************************************)
(* Rows, lists and calls keep their shape.                                 *)
(***************************************************************************)
ApiTyped ==
  /\ stage \in [Campaigns -> Words] /\ application \in [Pairs -> Words]
  /\ payout \in [Pairs -> Words]
  /\ maker \in [Pairs -> People] /\ checker \in [Pairs -> People]
  /\ standing \in [Accounts -> Words] /\ rank \in [Accounts -> Words]
  /\ ruling \in [Documents -> Words]

LEMMA RulesTyped ==
  ASSUME ApiTyped, Rules!Next \/ \E b : OfRules(b) /\ b.to \in Words
  PROVE  stage' \in [Campaigns -> Words] /\ application' \in [Pairs -> Words]
<1>1. \A c : Rules!Draft(c) => stage' \in [Campaigns -> Words] /\ UNCHANGED application
  BY DEF ApiTyped, Rules!Draft, Words
<1>2. \A c : \A to \in Words :
        Rules!Move(c, to) => stage' \in [Campaigns -> Words] /\ UNCHANGED application
  BY DEF ApiTyped, Rules!Move
<1>3. \A p : Rules!Apply(p) \/ Rules!Withdraw(p) \/ Rules!Submit(p) =>
        UNCHANGED stage /\ application' \in [Pairs -> Words]
  BY DEF ApiTyped, Rules!Apply, Rules!Withdraw, Rules!Submit, Words
<1>4. \A p : \A d \in Words :
        Rules!Review(p, d) => UNCHANGED stage /\ application' \in [Pairs -> Words]
  BY DEF ApiTyped, Rules!Review
<1>5. ApiTyped
  OBVIOUS
<1>6. \A step \in Rules!Lifecycle : step[2] \in Words
  BY DEF Rules!Lifecycle, Words
<1>7. {"SHORTLISTED", "ACCEPTED", "REJECTED"} \subseteq Words
  BY DEF Words
<1>8. CASE Rules!Next
  BY <1>1, <1>2, <1>3, <1>4, <1>5, <1>6, <1>7, <1>8 DEF Rules!Next, ApiTyped
<1>9. CASE \E b : OfRules(b) /\ b.to \in Words
  BY <1>1, <1>2, <1>3, <1>4, <1>5, <1>9 DEF OfRules, ApiTyped
<1>. QED
  BY <1>8, <1>9

LEMMA PayoutsMoveTyped ==
  ASSUME ApiTyped, NEW a,
         \/ \E u : Life!Prepare(a, u, "agreed") \/ Life!Approve(a, u) \/ Life!Release(a, u)
         \/ \E s \in Undone : Life!Undo(a, s) \/ Life!Correct(a, s)
  PROVE  payout' \in [Pairs -> Words] /\ maker' \in [Pairs -> People]
         /\ checker' \in [Pairs -> People]
<1>1. ASSUME NEW u, Life!Prepare(a, u, "agreed")
      PROVE  payout' \in [Pairs -> Words] /\ maker' \in [Pairs -> People]
             /\ checker' \in [Pairs -> People]
  <2>1. a \in Pairs => u \in People
    BY <1>1 DEF Life!Prepare, Life!CanPrepare, People
  <2>. QED
    BY <1>1, <2>1 DEF Life!Prepare, ApiTyped, Words, People
<1>2. ASSUME NEW u, Life!Approve(a, u)
      PROVE  payout' \in [Pairs -> Words] /\ checker' \in [Pairs -> People] /\ UNCHANGED maker
  BY <1>2 DEF Life!Approve, Life!CanApprove, ApiTyped, Words, People
<1>3. ASSUME NEW u, Life!Release(a, u)
      PROVE  payout' \in [Pairs -> Words] /\ UNCHANGED <<maker, checker>>
  BY <1>3 DEF Life!Release, ApiTyped, Words
<1>4. ASSUME NEW s \in Undone, Life!Undo(a, s)
      PROVE  payout' \in [Pairs -> Words] /\ UNCHANGED <<maker, checker>>
  BY <1>4 DEF Life!Undo, ApiTyped, Words, Undone
<1>5. ASSUME NEW s \in Undone, Life!Correct(a, s)
      PROVE  payout' \in [Pairs -> Words] /\ UNCHANGED <<maker, checker>>
  BY <1>5 DEF Life!Correct, ApiTyped, Words, Undone
<1>. QED
  BY <1>1, <1>2, <1>3, <1>4, <1>5 DEF ApiTyped

LEMMA DoneTyped ==
  ASSUME ApiTyped, NEW b, NEW u, NEW r, Does(b, u, r), b.to \in Words
  PROVE  ApiTyped'
<1>1. CASE OfRules(b) /\ UNCHANGED <<ofLife, ofAccounts, ruling>>
  BY <1>1, RulesTyped DEF ofLife, ofAccounts, ApiTyped
<1>2. CASE OfLife(b, u) /\ UNCHANGED <<ofRules, ofAccounts, ruling>>
  BY <1>2, PayoutsMoveTyped DEF OfLife, ofRules, ofAccounts, ApiTyped
<1>3. CASE OfAccounts(b, r) /\ UNCHANGED <<ofRules, ofLife, ruling>>
  BY <1>3 DEF OfAccounts, ofRules, ofLife, ApiTyped
<1>4. CASE Decides(b, r) /\ UNCHANGED <<ofRules, ofLife, ofAccounts>>
  BY <1>4 DEF Decides, ofRules, ofLife, ofAccounts, ApiTyped
<1>. QED
  BY <1>1, <1>2, <1>3, <1>4 DEF Does

LEMMA ApiNext ==
  ASSUME ApiTyped, \A k \in calls : k.button.to \in Words, [Next]_vars
  PROVE  ApiTyped'
<1>1. ASSUME NEW k \in calls, Serve(k)
      PROVE  ApiTyped'
  BY <1>1, DoneTyped DEF Serve, api, ofRules, ofLife, ofAccounts, ApiTyped
<1>2. CASE \/ \E b \in Offered : Press(b)
           \/ \E k \in calls : Return(k) \/ Lose(k)
           \/ \E l \in Asked : Show(l) \/ ShowError(l) \/ Retry(l)
           \/ UNCHANGED vars
  <2>1. UNCHANGED api
    BY <1>2 DEF Press, Return, Lose, Show, ShowError, Retry, vars
  <2>. QED
    BY <2>1 DEF api, ofRules, ofLife, ofAccounts, ApiTyped
<1>3. CASE ElsewhereCampaigns
  BY <1>3, RulesTyped DEF ElsewhereCampaigns, ofLife, ofAccounts, ApiTyped
<1>4. CASE ElsewherePayouts
  BY <1>4, PayoutsMoveTyped DEF ElsewherePayouts, ofRules, ofAccounts, ApiTyped
<1>5. CASE ElsewhereAccounts
  <2>1. standing' \in [Accounts -> Words] /\ rank' \in [Accounts -> Words]
    BY <1>5 DEF ElsewhereAccounts, OfAccounts, Button, ApiTyped, Words
  <2>. QED
    BY <1>5, <2>1 DEF ElsewhereAccounts, ofRules, ofLife, ApiTyped
<1>6. CASE ElsewhereQueue
  <2>1. ruling' \in [Documents -> Words]
    BY <1>6 DEF ElsewhereQueue, Decides, Button, ApiTyped, Words
  <2>. QED
    BY <1>6, <2>1 DEF ElsewhereQueue, ofRules, ofLife, ofAccounts, ApiTyped
<1>. QED
  BY <1>1, <1>2, <1>3, <1>4, <1>5, <1>6 DEF Next, PageSteps

LEMMA AnswersTell ==
  ASSUME ApiTyped, NEW l
  PROVE  Answer(l) # None
<1>1. Answer(l) \in Answers
  <2>1. CASE l \in {"open_campaigns", "my_campaigns"}
    BY <2>1 DEF Answer, Tells, Worked, Answers, ApiTyped
  <2>2. CASE l \in {"my_applications", "received"}
    BY <2>2 DEF Answer, Tells, Worked, Answers, ApiTyped
  <2>3. CASE l = "payable"
    <3>1. Answer(l) = <<application, payout>>
      BY <2>3 DEF Answer, Tells, Worked
    <3>. QED
      BY <3>1 DEF Answers, ApiTyped
  <2>4. CASE l = "queued_payments"
    <3>1. Answer(l) = <<payout, maker, checker>>
      BY <2>4 DEF Answer, Tells, Worked
    <3>. QED
      BY <3>1 DEF Answers, ApiTyped
  <2>5. CASE l = "users"
    <3>1. Answer(l) = <<standing, rank>>
      BY <2>5 DEF Answer, Tells, Worked
    <3>. QED
      BY <3>1 DEF Answers, ApiTyped
  <2>6. CASE l = "queue"
    BY <2>6 DEF Answer, Tells, Worked, Answers, ApiTyped
  <2>7. CASE l \notin Worked
    BY <2>7 DEF Answer, Answers
  <2>. QED
    BY <2>1, <2>2, <2>3, <2>4, <2>5, <2>6, <2>7 DEF Worked
<1>. QED
  BY <1>1, AnswersAssumption

LEMMA OfferedTyped ==
  ASSUME NEW b \in Offered
  PROVE  b.to \in Words
<1>1. \A s \in Rules!Lifecycle : s[2] \in Words
  BY DEF Rules!Lifecycle, Words
<1>2. CASE b \in CampaignButtons
  <2>1. CASE \E c \in Campaigns : b = Button("create", c, "DRAFT")
    BY <2>1 DEF Button, Words
  <2>2. CASE b \in [do : {"move"}, row : Campaigns, to : {s[2] : s \in Rules!Lifecycle}]
    BY <1>1, <2>2
  <2>. QED
    BY <1>2, <2>1, <2>2 DEF CampaignButtons
<1>3. CASE \E p : \E d \in {"SHORTLISTED", "ACCEPTED", "REJECTED"} : b = Button("review", p, d)
  BY <1>3 DEF Button, Words
<1>4. CASE \E do, p : \E d \in {"PENDING", "SUBMITTED", "APPROVED", "PAID"} : b = Button(do, p, d)
  BY <1>4 DEF Button, Words
<1>5. CASE b \in UserButtons
  <2>1. \/ \E a \in Accounts : \E s \in NextStanding(rows["users"][1][a]) :
             b = Button("status", a, s)
        \/ b \in [do : {"role"}, row : Accounts, to : UserRoles]
    BY <1>5 DEF UserButtons
  <2>2. \A x : NextStanding(x) \subseteq {"SUSPENDED", "ACTIVE"}
    BY DEF NextStanding
  <2>. QED
    BY <2>1, <2>2 DEF Button, Words
<1>6. CASE \E d : \E s \in {"VERIFIED", "REJECTED"} : b = Button(Verify(d), d, s)
  BY <1>6 DEF Button, Words
<1>7. \/ b \in CampaignButtons \/ b \in ReviewButtons \/ b \in PrepareButtons
      \/ b \in ApplyButtons \/ b \in SubmitButtons \/ b \in FinanceButtons
      \/ b \in UserButtons \/ b \in QueueButtons
  BY DEF Offered
<1>8. b \in ReviewButtons =>
        \E p : \E d \in {"SHORTLISTED", "ACCEPTED", "REJECTED"} : b = Button("review", p, d)
  BY DEF ReviewButtons
<1>9. b \in PrepareButtons \/ b \in ApplyButtons \/ b \in SubmitButtons \/ b \in FinanceButtons
        => \E do, p : \E d \in {"PENDING", "SUBMITTED", "APPROVED", "PAID"} : b = Button(do, p, d)
  BY DEF PrepareButtons, ApplyButtons, SubmitButtons, FinanceButtons
<1>10. b \in QueueButtons =>
         \E d : \E s \in {"VERIFIED", "REJECTED"} : b = Button(Verify(d), d, s)
  BY DEF QueueButtons
<1>. QED
  BY <1>2, <1>3, <1>4, <1>5, <1>6, <1>7, <1>8, <1>9, <1>10

PageTyped == page \in Pages /\ PagesTypeOK

LEMMA PressTyped ==
  ASSUME PageTyped, NEW b \in Offered, Press(b)
  PROVE  PageTyped'
<1>1. Asked' = Asked /\ UNCHANGED <<role, page, rows, load, behind>>
  BY DEF Press, lists, Asked
<1>2. PICK n : calls' = calls \cup {Call(n, b, "sent")}
  BY DEF Press
<1>. PICK c : c = Call(n, b, "sent")
  OBVIOUS
<1>3. c.button = b /\ c.at = "sent" /\ calls' = calls \cup {c} /\ b.to \in Words
  BY <1>2, CallIs, OfferedTyped
<1>4. busy' # None => \E k \in calls' : k.button.do # "create"
  BY <1>3 DEF Press, PageTyped, PagesTypeOK
<1>. QED
  BY <1>1, <1>3, <1>4 DEF PageTyped, PagesTypeOK

LEMMA ServeTyped ==
  ASSUME PageTyped, NEW k \in calls, Serve(k)
  PROVE  PageTyped'
<1>1. Asked' = Asked /\ UNCHANGED <<role, page, rows, load, busy>> /\ behind' \subseteq Asked
  BY DEF Serve, lists, Asked, PageTyped, PagesTypeOK
<1>2. PICK c : c.button = k.button /\ c.at \in {"done", "refused"}
               /\ calls' = (calls \ {k}) \cup {c}
  BY CallIs DEF Serve
<1>. QED
  BY <1>1, <1>2 DEF PageTyped, PagesTypeOK

LEMMA AnswerTyped ==
  ASSUME PageTyped, NEW k \in calls, Return(k) \/ Lose(k)
  PROVE  PageTyped'
<1>1. Asked' = Asked /\ UNCHANGED <<role, page, rows, behind>>
      /\ calls' = calls \ {k} /\ busy' = Unmarked(k.button)
  BY DEF Return, Lose, lists, history, Asked
<1>2. /\ DOMAIN load' = Asked
      /\ \A l \in Asked : load'[l] = load[l] \/ load'[l] = "loading"
  BY DEF Return, Lose, lists, PageTyped, PagesTypeOK
<1>3. busy' # None => \E j \in calls' : j.button.do # "create"
  BY <1>1 DEF Unmarked, PageTyped, PagesTypeOK
<1>. QED
  BY <1>1, <1>2, <1>3 DEF PageTyped, PagesTypeOK

LEMMA LoadTyped ==
  ASSUME PageTyped, ApiTyped, NEW l \in Asked, Show(l) \/ ShowError(l) \/ Retry(l)
  PROVE  PageTyped'
<1>1. Asked' = Asked /\ UNCHANGED <<role, page, busy, calls>> /\ behind' \subseteq Asked
  BY DEF Show, ShowError, Retry, history, Asked, PageTyped, PagesTypeOK
<1>2. /\ DOMAIN load' = Asked /\ DOMAIN rows' = Asked
      /\ \A m \in Asked \ {l} : load'[m] = load[m] /\ rows'[m] = rows[m]
      /\ load'[l] \in {"loading", "ready", "failed"}
      /\ load'[l] = "ready" => rows'[l] = Answer(l)
  BY DEF Show, ShowError, Retry, PageTyped, PagesTypeOK
<1>. QED
  BY <1>1, <1>2, AnswersTell DEF PageTyped, PagesTypeOK

LEMMA PageNext ==
  ASSUME PageTyped, ApiTyped, [Next]_vars
  PROVE  PageTyped'
<1>1. CASE \/ ElsewhereCampaigns \/ ElsewherePayouts \/ ElsewhereAccounts \/ ElsewhereQueue
           \/ UNCHANGED vars
  <2>1. UNCHANGED pageVars
    BY <1>1
    DEF ElsewhereCampaigns, ElsewherePayouts, ElsewhereAccounts, ElsewhereQueue, vars
  <2>. QED
    BY <2>1 DEF pageVars, lists, history, PageTyped, PagesTypeOK, Asked
<1>2. CASE PageSteps
  BY <1>2, PressTyped, ServeTyped, AnswerTyped, LoadTyped DEF PageSteps
<1>. QED
  BY <1>1, <1>2 DEF Next

-----------------------------------------------------------------------------
(***************************************************************************)
(* What a page offers the server takes: the conditions it draws a button   *)
(* from are those the server asks for, of the people it lets in.           *)
(***************************************************************************)
LEMMA AdminDoes == \A do \in {"status", "role"} \cup Verifying : MayDo("admin", do)
BY DEF MayDo, Verifying, Serves, canActivate, ofAdmin, Endpoint, UserRoles, INTERNAL_ROLES,
   ADMIN_CONSOLE_ROLES, ROLE_PERMISSIONS, PERMISSIONS

LEMMA CreatorOffers ==
  ASSUME page \in {"discover", "applications"}, Current, NEW b \in Offered
  PROVE  Accepts(b) \/ (b.do = "apply" /\ application[b.row] # "NONE")
<1>1. CASE page = "discover"
  <2>1. PICK c \in Campaigns : /\ b = Button("apply", <<c, Creator>>, "PENDING")
                               /\ Ready("open_campaigns")
                               /\ rows["open_campaigns"][c] = "RECRUITING"
    BY <1>1 DEF Offered, ApplyButtons
  <2>2. stage[c] = "RECRUITING"
    BY <2>1 DEF Current, Ready, Answer, Tells, Worked
  <2>. QED
    BY <2>1, <2>2 DEF Button, Accepts, Rules!CanApply
<1>2. CASE page = "applications"
  <2>1. PICK p \in Pairs : /\ b = Button("submit", p, "SUBMITTED")
                           /\ Ready("my_applications")
                           /\ rows["my_applications"][p] = "ACCEPTED"
    BY <1>2 DEF Offered, SubmitButtons
  <2>2. application[p] = "ACCEPTED"
    BY <2>1 DEF Current, Ready, Answer, Tells, Worked
  <2>. QED
    BY <2>1, <2>2 DEF Button, Accepts, Rules!CanSubmit
<1>. QED
  BY <1>1, <1>2

LEMMA BrandOffers ==
  ASSUME page \in {"campaigns", "received", "payouts"}, role = "brand", Current,
         NEW b \in Offered
  PROVE  Accepts(b)
<1>1. CASE page = "campaigns"
  <2>1. CASE \E c \in Campaigns : stage[c] = "NONE" /\ b = Button("create", c, "DRAFT")
    BY <2>1 DEF Button, Accepts, Rules!CanDraft
  <2>2. CASE /\ Ready("my_campaigns")
             /\ b \in [do : {"move"}, row : Campaigns, to : {s[2] : s \in Rules!Lifecycle}]
             /\ <<rows["my_campaigns"][b.row], b.to>> \in Rules!Lifecycle
    <3>1. rows["my_campaigns"] = stage
      BY <2>2 DEF Current, Ready, Answer, Tells, Worked
    <3>. QED
      BY <2>2, <3>1 DEF Accepts, Rules!CanMove
  <2>. QED
    BY <1>1, <2>1, <2>2 DEF Offered, CampaignButtons
<1>2. CASE page = "received"
  <2>1. PICK p \in Pairs : /\ \E d : b = Button("review", p, d)
                           /\ Ready("received") /\ rows["received"][p] = "PENDING"
    BY <1>2 DEF Offered, ReviewButtons
  <2>2. application[p] = "PENDING"
    BY <2>1 DEF Current, Ready, Answer, Tells, Worked
  <2>. QED
    BY <2>1, <2>2 DEF Button, Accepts, Rules!CanReview
<1>3. CASE page = "payouts"
  <2>1. PICK p \in Pairs : b = Button("prepare", p, "PENDING") /\ Payable(p)
    BY <1>3 DEF Offered, PrepareButtons
  <2>2. rows["payable"] = <<application, payout>>
    BY <1>3 DEF Current, Asked, Lists, Answer, Tells, Worked
  <2>3. application[p] = "ACCEPTED" /\ payout[p] \in Undone \cup {"NONE"}
    BY <2>1, <2>2 DEF Payable
  <2>4. Life!CanPrepare(p, Me)
    BY <2>3 DEF Life!CanPrepare, Life!Undone, Undone, Me
  <2>. QED
    BY <2>1, <2>3, <2>4 DEF Button, Accepts
<1>. QED
  BY <1>1, <1>2, <1>3

LEMMA ConsoleOffers ==
  ASSUME page \in {"finance", "users", "verifications"}, Admitted, Current, role # "manager",
         NEW b \in Offered
  PROVE  Accepts(b)
<1>1. CASE page = "finance"
  <2>1. Me = Operator /\ Operator \in Ops
    BY <1>1, WhoIsAllowed, PeopleAssumption DEF Admitted, Me
  <2>2. Ready("queued_payments")
    BY <1>1 DEF Offered, FinanceButtons
  <2>3. rows["queued_payments"] = <<payout, maker, checker>>
    BY <2>2 DEF Current, Ready, Answer, Tells, Worked
  <2>4. PICK p \in Pairs : \/ b = Button("approve", p, "APPROVED") /\ canApprove(p)
                           \/ b = Button("release", p, "PAID") /\ canRelease(p)
    BY <1>1, <2>2 DEF Offered, FinanceButtons
  <2>5. canApprove(p) => Life!CanApprove(p, Me)
    BY <2>1, <2>3 DEF canApprove, Life!CanApprove
  <2>6. canRelease(p) => Life!CanRelease(p, Me)
    BY <2>1, <2>3 DEF canRelease, Life!CanRelease
  <2>. QED
    BY <2>4, <2>5, <2>6 DEF Button, Accepts
<1>2. CASE page \in {"users", "verifications"}
  <2>1. role = "admin"
    BY <1>2, WhoIsAllowed DEF Admitted
  <2>2. CASE page = "users"
    <3>1. b \in UserButtons
      BY <2>2 DEF Offered
    <3>2. \/ \E a, s : b = Button("status", a, s)
          \/ b \in [do : {"role"}, row : Accounts, to : UserRoles]
      BY <3>1 DEF UserButtons
    <3>. QED
      BY <2>1, <3>2, AdminDoes DEF Button, Accepts
  <2>3. CASE page = "verifications"
    <3>1. \E d, s : b = Button(Verify(d), d, s)
      BY <2>3 DEF Offered, QueueButtons
    <3>. QED
      BY <2>1, <3>1, AdminDoes DEF Button, Accepts, Verify, Verifying
  <2>. QED
    BY <1>2, <2>2, <2>3
<1>. QED
  BY <1>1, <1>2

LEMMA AdmittedOffers == Admitted => OffersAreAccepted
<1> SUFFICES ASSUME Admitted, Current, calls = {}, NEW b \in Offered, role # "manager"
             PROVE  Accepts(b) \/ (b.do = "apply" /\ application[b.row] # "NONE")
  BY DEF OffersAreAccepted
<1>1. page \in {"campaigns", "received", "payouts", "discover", "applications", "finance",
               "users", "verifications"}
  BY DEF Offered
<1>2. page \in {"campaigns", "received", "payouts"} => role = "brand"
  BY WhoIsAllowed DEF Admitted, BrandPages
<1>. QED
  BY <1>1, <1>2, CreatorOffers, BrandOffers, ConsoleOffers

(* A page and the server agree: whoever was let onto a page may read the   *)
(* lists it asks for, the platform's analytics apart; what it offers would *)
(* be accepted, a second application and a manager's buttons apart; and    *)
(* the console's navigation leads no one to a page that sends him away.    *)
THEOREM PagesFollow == CheckSpec => []PagesFollowTheServer
<1>1. Init => Admitted /\ ApiTyped /\ PageTyped
  BY DEF Init, Admitted, ApiTyped, PageTyped, PagesTypeOK, Rules!Init, Life!Init, Rules!Pairs,
     Pairs, Words, People, UserRoles
<1>2. Admitted /\ ApiTyped /\ PageTyped /\ [Next]_vars => ApiTyped' /\ PageTyped'
  BY ApiNext, PageNext DEF PageTyped, PagesTypeOK
<1>3. PageTyped => Admitted
  BY DEF PageTyped, PagesTypeOK, Admitted
<1>4. ApiTyped /\ PageTyped => PagesFollowTheServer
  BY <1>3, AdmittedRead, AdmittedLed, AdmittedOffers DEF PagesFollowTheServer, PageTyped
<1>. QED
  BY <1>1, <1>2, <1>3, <1>4, ChecksPortal, PTL DEF Spec

=============================================================================
