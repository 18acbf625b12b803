----------------------------- MODULE MCPayouts -----------------------------
(***************************************************************************)
(* Payouts on small instances: two requests for one payout (Payments) that *)
(* overlap anywhere, or that take turns, so that only what follows the     *)
(* last write, such as a notice, overlaps with the next; and what is told  *)
(* of data that moves while it is read: a report on two payouts (Ledger),  *)
(* a chart of new rows (Series), and the cache the pages read through      *)
(* (DataCache).  A run explores one part at a time.                        *)
(*                                                                         *)
(* Three people, two operators and the owner, are the fewest who can       *)
(* prepare, approve and release.  10 NPR at 14 or 15 percent falls on both *)
(* sides of a half: the commission is 1 or 2.                              *)
(***************************************************************************)
EXTENDS Payments, TLC

CONSTANTS
  Parts, BrandUser,
  Payouts, Creator, OtherBrand, ReportedAmounts, ReportedPercent, Vat, MaxMoves,
  Day, Offset, Tables, MaxTime, MaxRows,
  Views, Keys, MaxEntries,
  MaxVersions    \* how often the data behind a key changes

ASSUME CacheAssumption == MaxEntries \in Nat \ {0} /\ None \notin Keys
ASSUME ReportsAssumption ==
  /\ IsFiniteSet(Payouts) /\ ReportedAmounts \subseteq Nat
  /\ ReportedPercent \in 0..60 /\ Vat \in Nat
ASSUME SeriesAssumption == Day \in Nat \ {0} /\ Offset \in Int /\ MaxTime \in Nat

OwnerModel == [a \in Apps |-> BrandUser]
Symmetry ==
  UNION {Permutations(S) : S \in {Ops, Requests, Views, Keys}}

VARIABLES
  part,
  stage, terms, maker, checker, payer, bill, report, moves,
  now, rows, window, got, series,
  server, cache, view, fetches, changed, late

FirstPayout == CHOOSE a \in Payouts : TRUE
L == INSTANCE Ledger
  WITH Apps <- Payouts, Owner <- [a \in Payouts |-> BrandUser],
       CreatorOf <- [a \in Payouts |-> Creator],
       BrandOf <- [a \in Payouts |-> IF a = FirstPayout THEN BrandUser ELSE OtherBrand],
       Amounts <- ReportedAmounts, Percents <- {ReportedPercent}
T == INSTANCE Series
Cache == INSTANCE DataCache

ofLedger == <<stage, terms, maker, checker, payer, bill, report, moves>>
ofSeries == <<now, rows, window, got, series>>
ofCache == <<server, cache, view, fetches, changed, late>>

-----------------------------------------------------------------------------
(* The reports tell payouts apart by status and amount.  They look at one  *)
(* that was cancelled or refunded as at one that failed, and at no names:  *)
(* so one person prepares and one approves.                                *)
LedgerCheck ==
  /\ L!Next
  /\ moves' <= MaxMoves
  /\ \A a \in Payouts : stage'[a] \notin {"CANCELLED", "REFUNDED"}
  /\ \A a \in Payouts : maker'[a] \in {None, BrandUser}
  /\ Cardinality({checker'[a] : a \in Payouts} \ {None}) <= 1

SeriesCheck ==
  /\ T!Next
  /\ \A t \in Tables : \E h \in 0..MaxTime :
       \A i \in 0..MaxTime : rows'[t][i] <= IF i = h THEN MaxRows ELSE 0

CacheCheck == Cache!CacheNext /\ \A k \in Keys : server'[k] <= MaxVersions

(* The reports and the chart are left out of the other parts.              *)
NoReports ==
  /\ stage = None /\ terms = None /\ maker = None /\ checker = None
  /\ payer = None /\ bill = None /\ report = None /\ moves = None
NoSeries ==
  now = None /\ rows = None /\ window = None /\ got = None /\ series = None

CheckInit ==
  /\ Init /\ Cache!CacheInit
  /\ \/ part \in Parts \ {"reports", "series"} /\ NoReports /\ NoSeries
     \/ part \in Parts \cap {"reports"} /\ L!Init /\ NoSeries
     \/ part \in Parts \cap {"series"} /\ T!Init /\ NoReports
  /\ part \notin {"overlap", "turns"} =>
       accepted = {} /\ percent = CHOOSE p \in Percents : TRUE

CheckNext ==
  \/ /\ part = "overlap" /\ Next
     /\ UNCHANGED <<part, ofLedger, ofSeries, ofCache>>
  \/ /\ part = "turns" /\ SerialNext
     /\ UNCHANGED <<part, ofLedger, ofSeries, ofCache>>
  \/ /\ part = "reports" /\ LedgerCheck
     /\ UNCHANGED <<part, vars, ofSeries, ofCache>>
  \/ /\ part = "series" /\ SeriesCheck
     /\ UNCHANGED <<part, vars, ofLedger, ofCache>>
  \/ /\ part = "cache" /\ CacheCheck
     /\ UNCHANGED <<part, vars, ofLedger, ofSeries>>

everything == <<part, vars, ofLedger, ofSeries, ofCache>>
CheckSpec == CheckInit /\ [][CheckNext]_everything

-----------------------------------------------------------------------------
(* The properties of Payments that hold when requests take turns, and      *)
(* those of the instances, stated in their modules and checked in the part *)
(* they are about.                                                         *)
DutiesAreSeparate == part # "overlap" => SeparationOfDuties
PaidAtMeansPaidInTurns == part # "overlap" => PaidAtMeansPaid
FollowsLifecycle ==
  /\ Lifecycle!Init
  /\ [][part # "overlap" => [Lifecycle!Next]_(Lifecycle!lifecycle)]_everything

ReportsAgree ==
  part = "reports" => L!AggregatesAddUp /\ L!ReportsAgree /\ L!VatRoundsOncePerBrand
OffByMovesAtMost == part = "reports" => L!OffByMovesAtMost
ChartAccountsForRows == part = "series" => T!ChartAccountsForRows
FreshAfterChange == part = "cache" => Cache!WithinLimits /\ Cache!FreshAfterChange
NeverGoesBack == Cache!NeverGoesBack

(***************************************************************************)
(* What a document says of the chart, and the code does where the server's *)
(* clock is UTC only.                                                      *)
(***************************************************************************)

(* documentation/api.md:165, of GET /analytics/platform/series: "(UTC      *)
(* days, gaps filled)".                                                    *)
UtcDaysGapsFilled == part = "series" => T!UtcDaysGapsFilled

=============================================================================
