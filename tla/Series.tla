------------------------------- MODULE Series -------------------------------
(***************************************************************************)
(* The daily chart of the console: platformSeries() and periodRange() of   *)
(* backend/src/analytics/analytics.service.ts.                             *)
(*                                                                         *)
(* Time is counted in hours of UTC.  Rows are put in the slots of a map by *)
(* the UTC date of their creation; the slots that are drawn are those of a *)
(* cursor which starts at a midnight of the server's own clock and goes on *)
(* day by day.  That clock is ahead of UTC by any number of hours, which   *)
(* do not change (no daylight saving).  Five queries are made at once;     *)
(* rows may come in between.                                               *)
(***************************************************************************)
EXTENDS Integers, Sequences, FiniteSets, FiniteSetsExt

CONSTANTS
  Day,        \* the hours of a day
  Offset,     \* how many hours the server's clock is ahead of UTC
  Tables,     \* those whose rows are counted
  MaxTime,    \* bound on the clock
  None

VARIABLES
  now,
  rows,       \* rows[t][h]: how many rows of t were created at hour h
  window,     \* the range asked for: <<start, end>>
  got,        \* what each table's query found, as rows
  series      \* the slots drawn, each with its date

vars == <<now, rows, window, got, series>>

Times == 0..MaxTime
Nothing == [h \in Times |-> 0]
DateOf(h) == h \div Day        \* toISOString().slice(0, 10)

Init ==
  /\ now = 0 /\ rows = [t \in Tables |-> Nothing]
  /\ window = None /\ got = <<>> /\ series = None

Tick ==
  now < MaxTime /\ now' = now + 1 /\ UNCHANGED <<rows, window, got, series>>

Create(t) ==
  /\ rows' = [rows EXCEPT ![t][now] = @ + 1]
  /\ UNCHANGED <<now, window, got, series>>

(* periodRange() refuses a range that ends before it starts.               *)
Ask(start, end) ==
  /\ window = None /\ start <= end
  /\ window' = <<start, end>> /\ got' = <<>>
  /\ UNCHANGED <<now, rows, series>>

Within(h) == window[1] <= h /\ h <= window[2]
Read(t) ==
  /\ window # None /\ series = None /\ t \notin DOMAIN got
  /\ got' = [s \in DOMAIN got \cup {t} |->
               IF s = t THEN [h \in Times |-> IF Within(h) THEN rows[t][h] ELSE 0]
                        ELSE got[s]]
  /\ UNCHANGED <<now, rows, window, series>>

(* bump(): what the map has for a date.                                    *)
Slot(date) ==
  [t \in Tables |->
     LET count(h) == got[t][h] IN
     MapThenSumSet(count, {h \in Times : DateOf(h) = date})]

(* The cursor: setHours(0, 0, 0, 0), then a day at a time up to the end,   *)
(* which the range does not begin after.                                   *)
FirstAsAsked == window[1]                                  \* a mutant
First == ((window[1] + Offset) \div Day) * Day - Offset
StepsBeforeEnd == (window[2] - First + Day - 1) \div Day   \* a mutant
Steps == (window[2] - First) \div Day + 1
Drawn ==
  [i \in 1..Steps |->
     LET date == DateOf(First + (i - 1) * Day) IN [date |-> date, slot |-> Slot(date)]]

Draw ==
  /\ window # None /\ series = None /\ DOMAIN got = Tables
  /\ series' = Drawn
  /\ UNCHANGED <<now, rows, window, got>>

Close ==
  /\ series # None
  /\ window' = None /\ got' = <<>> /\ series' = None
  /\ UNCHANGED <<now, rows>>

Next ==
  \/ Tick \/ Draw \/ Close
  \/ \E t \in Tables : Create(t) \/ Read(t)
  \/ \E start, end \in Times : Ask(start, end)

Spec == Init /\ [][Next]_vars

-----------------------------------------------------------------------------
(***************************************************************************)
(* Properties                                                              *)
(***************************************************************************)

(* The UTC date on which the server's day began that hour h is in: the     *)
(* one of h, or the one before.                                            *)
Midnight == (0 - Offset) % Day
DayOf(h) == IF h % Day < Midnight THEN DateOf(h) - 1 ELSE DateOf(h)

Total(f, hours) == LET count(h) == f[h] IN MapThenSumSet(count, hours)
DrawnOf(t) == LET count(i) == series[i].slot[t] IN MapThenSumSet(count, DOMAIN series)

(* Wherever the server stands, the chart has one slot a date, in order,    *)
(* from the day in which the range begins to the one in which it ends, as  *)
(* the server has it.  Every row the queries found is in one of them, but  *)
(* those of a last date that had not begun for the server when the range   *)
(* ended.                                                                  *)
ChartAccountsForRows ==
  series # None =>
    /\ \A i \in DOMAIN series : series[i].date = DayOf(window[1]) + i - 1
    /\ Len(series) = DayOf(window[2]) - DayOf(window[1]) + 1
    /\ \A t \in Tables :
         DrawnOf(t) = Total(got[t], {h \in Times : DateOf(h) <= DayOf(window[2])})

(* documentation/api.md:165 promises "UTC days, gaps filled": a slot for   *)
(* every UTC date of the range, and every row in one of them.              *)
UtcDaysGapsFilled ==
  series # None =>
    /\ {series[i].date : i \in DOMAIN series} = DateOf(window[1]) .. DateOf(window[2])
    /\ \A t \in Tables : DrawnOf(t) = Total(got[t], Times)

=============================================================================
