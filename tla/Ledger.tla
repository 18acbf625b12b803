------------------------------- MODULE Ledger -------------------------------
(***************************************************************************)
(* The money reports: summary() and financeOverview() of                   *)
(* backend/src/payment/payment.service.ts, reportsSummary() of             *)
(* admin.service.ts and platformStats() of analytics.service.ts, with the  *)
(* dashboards that show them.                                              *)
(*                                                                         *)
(* A report is a Promise.all of aggregates.  Each reads the tables on its  *)
(* own, so a payout may move between two of them.  The payouts move as     *)
(* PaymentLifecycle allows; their invoices are drafted when they are       *)
(* prepared and paid when they are released, and follow nothing else.      *)
(***************************************************************************)
EXTENDS Integers, FiniteSets, FiniteSetsExt

CONSTANTS
  Apps, Ops, Owner,
  CreatorOf, BrandOf,   \* of each application
  Amounts, Percents,
  Vat,                  \* the vatPercent setting
  None

VARIABLES
  stage, terms, maker, checker, payer,   \* PaymentLifecycle
  bill,      \* the status of each payout's invoice
  report,    \* the report being made or made last: whose, and what it has got
  moves      \* history: payouts that moved since it was asked for

Life == INSTANCE PaymentLifecycle
  WITH Terms <- Amounts \X Percents, NoTerms <- <<0, 0>>

payouts == <<stage, terms, maker, checker, payer>>
vars == <<payouts, bill, report, moves>>

Creators == {CreatorOf[a] : a \in Apps}
Brands == {BrandOf[a] : a \in Apps}

(* Math.round() rounds a half upwards.  (Exactly so: where the code takes   *)
(* vat / 100 first, binary fractions miss some halves of 29 percent only.) *)
Rounded(n, percent) == (2 * n * percent + 100) \div 200
Amount(a) == terms[a][1]
Commission(a) == Rounded(terms[a][1], terms[a][2])
(* A mutant: the payout is rounded by itself.                              *)
PayoutRounded(a) == Rounded(terms[a][1], 100 - terms[a][2])
Payout(a) == Amount(a) - Commission(a)

-----------------------------------------------------------------------------
(***************************************************************************)
(* The reports: "creator" and "brand" for the summaries of one of them,    *)
(* "operator" for that of an operator, "finance" for financeOverview(),    *)
(* "console" for the two that do not look at the status.                   *)
(***************************************************************************)
Kinds ==
  {<<"creator", c>> : c \in Creators} \cup {<<"brand", b>> : b \in Brands}
    \cup {<<k, None>> : k \in {"operator", "finance", "console"}}

Aggregates(kind) ==
  CASE kind = "creator"  -> {"paid", "paid count", "open", "open count"}
    [] kind = "brand"    -> {"paid", "billed", "unpaid", "invoices"}
    [] kind = "operator" -> {"paid", "net", "open", "all", "count"}
    [] kind = "finance"  -> {"paid", "open", "to approve", "to release", "invoices"}
    [] kind = "console"  -> {"all", "count"}

OpenWithoutApproved == {"PENDING"}        \* a mutant
Open == {"PENDING", "APPROVED"}

(* The rows that an aggregate selects.                                     *)
Selected(query) ==
  CASE query \in {"paid", "paid count", "net"} -> {a \in Apps : stage[a] = "PAID"}
    [] query \in {"open", "open count"}        -> {a \in Apps : stage[a] \in Open}
    [] query = "to approve"                    -> {a \in Apps : stage[a] = "PENDING"}
    [] query = "to release"                    -> {a \in Apps : stage[a] = "APPROVED"}
    [] query = "billed"                        -> {a \in Apps : bill[a] = "PAID"}
    [] query = "unpaid"                        -> {a \in Apps : bill[a] = "DRAFT"}
    [] query \in {"all", "count", "invoices"}  -> {a \in Apps : stage[a] # "NONE"}

BelongsTo(k, a) ==
  CASE k[1] = "creator" -> CreatorOf[a] = k[2]
    [] k[1] = "brand"   -> BrandOf[a] = k[2]
    [] OTHER            -> TRUE

SumOf(rows) ==
  [amount     |-> MapThenSumSet(Amount, rows),
   commission |-> MapThenSumSet(Commission, rows),
   payout     |-> MapThenSumSet(Payout, rows),
   count      |-> Cardinality(rows)]
Aggregate(k, query) == SumOf({a \in Selected(query) : BelongsTo(k, a)})

-----------------------------------------------------------------------------
Init ==
  /\ Life!Init
  /\ bill = [a \in Apps |-> "NONE"]
  /\ report = None
  /\ moves = 0

Ask(k) ==
  /\ report = None
  /\ report' = [of |-> k, got |-> <<>>]
  /\ moves' = 0
  /\ UNCHANGED <<payouts, bill>>

Left == Aggregates(report.of[1]) \ DOMAIN report.got
Made == report # None /\ Left = {}

(* The operator's summary counts the rows once it has the rest.            *)
InTurnNever(query) == TRUE        \* a mutant: the count is one of the Promise.all
InTurn(query) == report.of[1] = "operator" /\ query = "count" => Left = {"count"}

Read(query) ==
  /\ report # None /\ query \in Left /\ InTurn(query)
  /\ report' = [report EXCEPT !.got = [q \in DOMAIN @ \cup {query} |->
                  IF q = query THEN Aggregate(report.of, q) ELSE @[q]]]
  /\ UNCHANGED <<payouts, bill, moves>>

Close == Made /\ report' = None /\ moves' = 0 /\ UNCHANGED <<payouts, bill>>

(* create() and release() of the payment service write the invoice in the  *)
(* transaction that writes the payout.                                     *)
BillNeverPaid(a) == IF stage'[a] = "PENDING" THEN "DRAFT" ELSE bill[a]    \* a mutant
BillAfter(a) ==
  CASE stage'[a] = stage[a]   -> bill[a]
    [] stage'[a] = "PENDING"  -> "DRAFT"
    [] stage'[a] = "PAID"     -> "PAID"
    [] OTHER                  -> bill[a]

PayoutMoves ==
  /\ Life!Next
  /\ bill' = [a \in Apps |-> BillAfter(a)]
  /\ moves' = IF report = None \/ Made THEN moves ELSE moves + 1
  /\ UNCHANGED report

Next ==
  \/ \E k \in Kinds : Ask(k)
  \/ report # None /\ \E query \in Aggregates(report.of[1]) : Read(query)
  \/ Close
  \/ PayoutMoves

Spec == Init /\ [][Next]_vars

-----------------------------------------------------------------------------
(***************************************************************************)
(* The figures that are made of the aggregates and shown.                  *)
(***************************************************************************)
VatOn(sum) == Rounded(sum.commission, Vat)
BrandVatOnBilled(got) == VatOn(got["billed"])    \* a mutant
BrandVat(got) == VatOn(got["paid"])
CreatorFigures(got) ==
  [earned |-> got["paid"].payout, completed |-> got["paid count"].count,
   outstanding |-> got["open"].payout, waiting |-> got["open count"].count]
BrandFigures(got) ==
  [spent |-> got["paid"].amount + BrandVat(got), paidOut |-> got["paid"].payout,
   fees |-> got["paid"].commission, vat |-> BrandVat(got),
   billed |-> got["billed"].amount, unpaid |-> got["unpaid"].amount,
   invoices |-> got["invoices"].count]
FinanceFigures(got) ==
  [revenue |-> got["paid"].commission + VatOn(got["paid"]),
   vat |-> VatOn(got["paid"]), fees |-> got["paid"].commission,
   reserved |-> got["open"].commission, paidOut |-> got["paid"].payout,
   dues |-> got["open"].payout, dueCount |-> got["open"].count,
   volume |-> got["paid"].amount, pending |-> got["open"].amount,
   queue |-> got["to approve"].count + got["to release"].count,
   billed |-> got["invoices"].amount]

(* What a report says that nothing came in between of.                     *)
Quiet(k) == [q \in Aggregates(k[1]) |-> Aggregate(k, q)]
OfCreator(c) == CreatorFigures(Quiet(<<"creator", c>>))
OfBrand(b) == BrandFigures(Quiet(<<"brand", b>>))
OfFinance == FinanceFigures(Quiet(<<"finance", None>>))

(***************************************************************************)
(* Properties                                                              *)
(***************************************************************************)

(* Every aggregate adds up, whenever it was read: what is paid out and the *)
(* commission make the amount, and neither is negative, however the halves *)
(* of single rupees were rounded.                                          *)
AggregatesAddUp ==
  report # None =>
    \A q \in DOMAIN report.got :
      LET sum == report.got[q] IN
      /\ sum.payout + sum.commission = sum.amount
      /\ sum.payout >= 0 /\ sum.commission >= 0

(* The reports tell the same: what creators are told they earned and are   *)
(* owed is what finance says was paid out and is due; what brands are told *)
(* they spent on fees is what finance collected; the invoices are those    *)
(* that brands see; and what a brand is billed covers what was paid for it.*)
(* A report changes no payout: it is enough to look when there is none.    *)
ReportsAgree ==
  report = None =>
  LET earned(c) == OfCreator(c).earned
      owed(c) == OfCreator(c).outstanding
      fees(b) == OfBrand(b).fees
      bills(b) == OfBrand(b).invoices
  IN
  /\ MapThenSumSet(earned, Creators) = OfFinance.paidOut
  /\ MapThenSumSet(owed, Creators) = OfFinance.dues
  /\ MapThenSumSet(fees, Brands) = OfFinance.fees
  /\ MapThenSumSet(bills, Brands) = Quiet(<<"console", None>>)["count"].count
  /\ OfFinance.volume = OfFinance.paidOut + OfFinance.fees
  /\ OfFinance.queue = OfFinance.dueCount
  /\ \A b \in Brands : OfBrand(b).billed >= OfBrand(b).paidOut + OfBrand(b).fees

(* The VAT that brands are told differs from the VAT finance is told by    *)
(* less than a rupee for each of them: sums are rounded, not parts.        *)
VatRoundsOncePerBrand ==
  report = None =>
  LET vat(b) == OfBrand(b).vat
      off == MapThenSumSet(vat, Brands) - OfFinance.vat
  IN 2 * off <= Cardinality(Brands) + 1 /\ 2 * off >= -(Cardinality(Brands) + 1)

(* A report that payouts moved under is off by as many of them as moved,   *)
(* and not by more: the queue against what is due.  The operator's count   *)
(* of payouts, read last, covers all that the rest of it saw.              *)
OffByMovesAtMost ==
  Made =>
    LET got == report.got IN
    /\ report.of[1] = "finance" =>
         FinanceFigures(got).queue - got["open"].count \in -moves..moves
    /\ report.of[1] = "operator" =>
         \A q \in DOMAIN got : got[q].count <= got["count"].count

=============================================================================
