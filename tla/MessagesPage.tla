---------------------------- MODULE MessagesPage ----------------------------
(***************************************************************************)
(* The messages page of both portals:                                      *)
(* frontend/src/components/messages-view.tsx.                              *)
(*                                                                         *)
(* A thread is shown as the answer to a GET and grows by the answers to    *)
(* the page's own POSTs; nothing is aborted, so an answer lands on the     *)
(* thread that is open when it comes.  A message is known by its           *)
(* conversation and its place there.  Those of others change nothing here, *)
(* and neither does PATCH .../read, whose answer the page ignores.         *)
(***************************************************************************)
EXTENDS Integers, Sequences, SequencesExt

CONSTANTS
  Convs,
  Calls,      \* the GETs and POSTs that can be in flight at a time
  None

VARIABLES
  linked,     \* initialConversationId, or None
  opened,     \* openedRef
  list,       \* conv: "loading", "shown" or "failed"
  active,
  messages,   \* None or a sequence of messages
  loading,
  loadError,
  text,       \* whether something is typed
  sending,
  flight,     \* what each call asks for, and its answer
  stored,     \* the messages of each conversation
  choice,     \* history: the conversation the user asked for last
  skewed      \* history: whether calls for threads overlapped, or an answer
              \* to a POST was lost, since a thread was opened quietly

thread == <<active, messages, loading, loadError>>
composer == <<text, sending>>
lists == <<opened, list>>
pageVars == <<linked, lists, thread, composer, flight, stored, choice, skewed>>

NoCall == [kind |-> "none", conv |-> None, rows |-> None]
Call(kind, c, rows) == [kind |-> kind, conv |-> c, rows |-> rows]
Busy(x) == flight[x] # NoCall
Quiet == \A x \in Calls : ~Busy(x)
FlightBecomes(x, next) == flight' = [flight EXCEPT ![x] = next]

PageInit ==
  /\ linked \in Convs \cup {None}
  /\ opened = None /\ list = "loading"
  /\ active = None /\ messages = None /\ loading = FALSE /\ loadError = FALSE
  /\ text = FALSE /\ sending = FALSE
  /\ flight = [x \in Calls |-> NoCall]
  /\ stored = [c \in Convs |-> <<>>]
  /\ choice = linked
  /\ skewed = FALSE

-----------------------------------------------------------------------------
(***************************************************************************)
(* open(): the click on a conversation of the list, which is there only    *)
(* while it is neither loading nor failed, and the deep link's effect.     *)
(***************************************************************************)
open(x, c) ==
  /\ ~Busy(x)
  /\ opened' = c
  /\ active' = c /\ messages' = None /\ loading' = TRUE
  /\ loadError' = FALSE
  /\ FlightBecomes(x, Call("get", c, None))
  /\ skewed' = ~Quiet

Click(x, c) ==
  /\ list = "shown"
  /\ open(x, c)
  /\ choice' = c
  /\ UNCHANGED <<linked, list, composer, stored>>

(* The list arrives, and conv.data with it: the effect compares openedRef  *)
(* with the link, which lasts as long as the page.                         *)
LinkDue == linked # None /\ opened # linked

ListArrives ==
  /\ list = "loading"
  /\ list' = "shown"
  /\ IF LinkDue
     THEN \E x \in Calls : open(x, linked)
     ELSE UNCHANGED <<opened, thread, flight, skewed>>
  /\ UNCHANGED <<linked, composer, stored, choice>>

ListFails ==
  /\ list = "loading"
  /\ list' = "failed"
  /\ UNCHANGED <<linked, opened, thread, composer, flight, stored, choice, skewed>>

(* The arrow back to the list.                                             *)
Back ==
  /\ active # None
  /\ active' = None /\ messages' = None /\ loadError' = FALSE
  /\ UNCHANGED <<linked, loading, lists, composer, flight, stored, choice, skewed>>

(* The API reads the thread; its answer comes, or an error does.           *)
Read(x) ==
  /\ flight[x].kind = "get" /\ flight[x].rows = None
  /\ FlightBecomes(x, [flight[x] EXCEPT !.rows = stored[flight[x].conv]])
  /\ UNCHANGED <<linked, lists, thread, composer, stored, choice, skewed>>

ThreadArrives(x) ==
  /\ flight[x].kind = "get" /\ flight[x].rows # None
  /\ messages' = flight[x].rows
  /\ loading' = FALSE
  /\ list' = "loading"
  /\ FlightBecomes(x, NoCall)
  /\ UNCHANGED <<linked, opened, active, loadError, composer, stored, choice, skewed>>

FailedQuietly == loadError             \* a mutant: the error is swallowed
FailedLoudly == TRUE

ThreadFails(x) ==
  /\ flight[x].kind = "get"
  /\ loadError' = FailedLoudly
  /\ loading' = FALSE
  /\ FlightBecomes(x, NoCall)
  /\ UNCHANGED <<linked, lists, active, messages, composer, stored, choice, skewed>>

-----------------------------------------------------------------------------
(* The composer: typing, also while a message is being sent, and send().   *)
Type ==
  /\ active # None
  /\ text' = ~text
  /\ UNCHANGED <<linked, lists, thread, sending, flight, stored, choice, skewed>>

SendTwice == TRUE                      \* a mutant: no look at sending
SendOnce == ~sending

send(x) ==
  /\ active # None /\ text /\ SendOnce /\ ~Busy(x)
  /\ sending' = TRUE
  /\ FlightBecomes(x, Call("post", active, None))
  /\ skewed' = (skewed \/ ~Quiet)
  /\ UNCHANGED <<linked, lists, thread, text, stored, choice>>

NextOf(c) == <<c, Len(stored[c]) + 1>>

Store(x) ==
  LET c == flight[x].conv IN
  /\ flight[x].kind = "post" /\ flight[x].rows = None
  /\ stored' = [stored EXCEPT ![c] = Append(@, NextOf(c))]
  /\ FlightBecomes(x, [flight[x] EXCEPT !.rows = <<NextOf(c)>>])
  /\ UNCHANGED <<linked, lists, thread, composer, choice, skewed>>

Shown == IF messages = None THEN <<>> ELSE messages
AppendedNot(rows) == Shown             \* a mutant: waits for the next open()
Appended(rows) == Shown \o rows

MessageArrives(x) ==
  /\ flight[x].kind = "post" /\ flight[x].rows # None
  /\ messages' = Appended(flight[x].rows)
  /\ text' = FALSE /\ sending' = FALSE
  /\ list' = "loading"
  /\ FlightBecomes(x, NoCall)
  /\ UNCHANGED <<linked, opened, active, loading, loadError, stored, choice, skewed>>

MessageFails(x) ==
  /\ flight[x].kind = "post"
  /\ sending' = FALSE
  /\ skewed' = (skewed \/ flight[x].rows # None)
  /\ FlightBecomes(x, NoCall)
  /\ UNCHANGED <<linked, lists, thread, text, stored, choice>>

-----------------------------------------------------------------------------
Answered(x) ==
  \/ Read(x) \/ ThreadArrives(x) \/ ThreadFails(x)
  \/ Store(x) \/ MessageArrives(x) \/ MessageFails(x)

PageNext ==
  \/ ListArrives \/ ListFails \/ Back \/ Type
  \/ \E x \in Calls : send(x) \/ Answered(x) \/ \E c \in Convs : Click(x, c)

PageSpec == PageInit /\ [][PageNext]_pageVars

-----------------------------------------------------------------------------
(***************************************************************************)
(* Properties                                                              *)
(***************************************************************************)

AllStored == UNION {ToSet(stored[c]) : c \in Convs}

(* Calls ask for conversations, answers are messages that are stored, and  *)
(* the page shows that it is sending exactly while its one POST is out.    *)
PageTypeOK ==
  /\ {linked, opened, active, choice} \subseteq Convs \cup {None}
  /\ list \in {"loading", "shown", "failed"}
  /\ {loading, loadError, text, sending, skewed} \subseteq BOOLEAN
  /\ \A x \in Calls : Busy(x) =>
       /\ flight[x].kind \in {"get", "post"} /\ flight[x].conv \in Convs
       /\ flight[x].rows # None =>
            ToSet(flight[x].rows) \subseteq ToSet(stored[flight[x].conv])
  /\ messages # None => ToSet(messages) \subseteq AllStored
  /\ sending <=> \E x \in Calls : flight[x].kind = "post"
  /\ \A x, y \in Calls : flight[x].kind = "post" /\ flight[y].kind = "post" => x = y

(* A failed fetch never masquerades as an empty thread, in whatever order  *)
(* the answers come: a thread without spinner or error has been fetched.   *)
NothingUnfetched ==
  active # None /\ ~loading /\ ~loadError => messages # None

(* The thread under a name is that conversation's, with every message once *)
(* and in order, as soon as nothing is in flight.  Answers to calls that   *)
(* overlapped may show another thread, lose a message or repeat it, until  *)
(* a conversation is opened with nothing in flight.                        *)
ShowsTheThread ==
  active # None /\ messages # None /\ ~skewed =>
    /\ Quiet /\ ~loadError => messages = stored[active]
    /\ ~loadError => IsPrefix(messages, stored[active])

(* messages-view.tsx:98: openedRef keeps the link "from re-opening (and    *)
(* re-marking read) on every reload".  It holds the conversation opened    *)
(* last, so after the user has picked another one the link opens again.    *)
KeepsTheChoice == active # None => active = choice

=============================================================================
