------------------------------ MODULE Analytics ------------------------------
(***************************************************************************)
(* The analytics (analytics.rs): metrics computed from the invoices and    *)
(* the investments, and the reports that are stored.  The lifecycle of an  *)
(* invoice, which other modules have in full, is here what the metrics     *)
(* tell apart.                                                             *)
(***************************************************************************)
EXTENDS Integers, FiniteSets, Sums

CONSTANTS
    Invoice,        \* numbers, in the order the invoices are stored
    Business, Investor, Category, Currency,
    Amounts,        \* amounts of invoices
    Advances,       \* amounts invested in them
    Ratings,        \* average ratings
    FeeBps,         \* the platform fee
    PeriodLength,   \* TimePeriod -> seconds back, AllTime -> -1
    MaxTime,        \* bound of the model: the clock
    MaxReports      \* bound of the model: reports stored at a time

VARIABLES
    invoice,        \* invoice -> its record, None before it is stored
    investment,     \* invoice -> the investment in it, None when there is none
    reports,        \* <<kind, id>> -> the report stored
    now

vars == <<invoice, investment, reports, now>>

None == [status |-> "None"]
Listed == {"Pending", "Verified", "Funded", "Paid", "Defaulted"}
Period == DOMAIN PeriodLength
Least(a, b) == IF a < b THEN a ELSE b
Bps == 10000

Stored == {i \in Invoice : invoice[i] # None}
WithStatus(statuses) == {i \in Stored : invoice[i].status \in statuses}
Invested(S) == {i \in S : investment[i] # None}

Init ==
    /\ invoice = [i \in Invoice |-> None] /\ investment = [i \in Invoice |-> None]
    /\ reports = [key \in {"business", "investor"} \X (0..MaxTime) |-> None]
    /\ now = 0

----------------------------------------------------------------------------
(* Ids are handed out in order. *)
Store(i, b, category, currency, amount) ==
    /\ invoice[i] = None /\ \A j \in Invoice : j < i => invoice[j] # None
    /\ invoice' = [invoice EXCEPT ![i] =
          [status |-> "Pending", business |-> b, category |-> category, currency |-> currency,
           amount |-> amount, createdAt |-> now, rating |-> 0]]
    /\ UNCHANGED <<investment, reports, now>>

Cancel(i) ==
    /\ invoice[i].status = "Pending"
    /\ invoice' = [invoice EXCEPT ![i].status = "Cancelled"]
    /\ UNCHANGED <<investment, reports, now>>

Fund(i, v, amount) ==
    /\ invoice[i].status = "Pending"
    /\ invoice' = [invoice EXCEPT ![i].status = "Funded"]
    /\ investment' = [investment EXCEPT ![i] =
          [status |-> "Active", investor |-> v, amount |-> amount, fundedAt |-> now]]
    /\ UNCHANGED <<reports, now>>

Finish(i, outcome) ==
    /\ invoice[i].status = "Funded"
    /\ invoice' = [invoice EXCEPT ![i].status = outcome]
    /\ investment' = [investment EXCEPT ![i].status =
          IF outcome = "Paid" THEN "Completed" ELSE "Defaulted"]
    /\ UNCHANGED <<reports, now>>

Rate(i, rating) ==
    /\ invoice[i].status \in {"Funded", "Paid"}
    /\ invoice' = [invoice EXCEPT ![i].rating = rating]
    /\ UNCHANGED <<investment, reports, now>>

----------------------------------------------------------------------------
(* What the metrics are made of. *)

RateOf(part, whole) == IF whole = 0 THEN 0 ELSE (part * Bps) \div whole

Average(sum, count) == IF count = 0 THEN 0 ELSE sum \div count

SumOf(S, F(_)) == Total([i \in S |-> F(i)])

Volume(S) == SumOf(S, LAMBDA i : invoice[i].amount)

(* calculate_profit, and the fee on it *)
Gain(i) == LET gain == invoice[i].amount - investment[i].amount IN IF gain > 0 THEN gain ELSE 0
FeeOn(i) == (Gain(i) * FeeBps) \div Bps
ProfitOf(i) == Gain(i) - FeeOn(i)

(* The periods begin so long before now, or at 0. *)
StartOf(period) ==
    IF PeriodLength[period] < 0 \/ PeriodLength[period] > now THEN 0
    ELSE now - PeriodLength[period]

(* The first moment of the period is left out. *)
CreatedIn_Fault(period, S) == {i \in S : invoice[i].createdAt > StartOf(period)}

CreatedIn(period, S) == {i \in S : invoice[i].createdAt >= StartOf(period)}

RiskOf(rate) == CASE rate > 1000 -> 100 [] rate \in 501..1000 -> 75
                  [] rate \in 201..500 -> 50 [] OTHER -> 25

----------------------------------------------------------------------------
(* The metrics. *)

PlatformMetrics ==
    LET listed   == WithStatus(Listed)
        invested == WithStatus({"Funded", "Paid", "Defaulted"})
        paid     == WithStatus({"Paid"})
    IN  [invoices          |-> Cardinality(listed),
         investments       |-> Cardinality(invested),
         volume            |-> Volume(listed),
         fees              |-> SumOf(Invested(paid), FeeOn),
         averageInvoice    |-> Average(Volume(listed), Cardinality(listed)),
         averageInvestment |-> Average(SumOf(Invested(invested), LAMBDA i : investment[i].amount),
                                       Cardinality(invested)),
         feeRate           |-> FeeBps,
         defaultRate       |-> RateOf(Cardinality(WithStatus({"Defaulted"})), Cardinality(invested)),
         successRate       |-> RateOf(Cardinality(paid), Cardinality(invested))]

FinancialMetrics(period) ==
    LET listed == CreatedIn(period, WithStatus(Listed))
        paid   == Invested(listed \cap WithStatus({"Paid"}))
        volume == Volume(listed)
        profits == SumOf(paid, ProfitOf)
    IN  [volume     |-> volume,
         fees       |-> SumOf(paid, FeeOn),
         profits    |-> profits,
         netProfit  |-> profits - SumOf(paid, FeeOn),
         returnRate |-> RateOf(profits, volume),
         byCategory |-> [c \in Category |-> Volume({i \in listed : invoice[i].category = c})],
         byCurrency |-> [c \in {invoice[i].currency : i \in listed} |->
                            Volume({i \in listed : invoice[i].currency = c})]]

PerformanceMetrics ==
    LET all   == Cardinality(WithStatus(Listed))
        rated == {i \in WithStatus({"Paid"}) : invoice[i].rating > 0}
    IN  [uptime       |-> now,
         successRate  |-> RateOf(Cardinality(WithStatus({"Paid"})), all),
         errorRate    |-> RateOf(Cardinality(WithStatus({"Defaulted"})), all),
         satisfaction |-> Average(SumOf(rated, LAMBDA i : invoice[i].rating), Cardinality(rated)),
         efficiency   |-> FeeBps]

(* A defaulted invoice counts as funded. *)
WereFunded_Fault(S) == S \cap WithStatus({"Funded", "Paid", "Defaulted"})

WereFunded(S) == S \cap WithStatus({"Funded", "Paid"})

(* A business's own invoices are found by its index, in whatever status. *)
BusinessReport(b, period) ==
    LET mine   == CreatedIn(period, {i \in Stored : invoice[i].business = b})
        funded == WereFunded(mine)
        rated  == {i \in mine : invoice[i].rating > 0}
        Wait(i) == IF investment[i].fundedAt > invoice[i].createdAt
                   THEN investment[i].fundedAt - invoice[i].createdAt ELSE 0
    IN  [status      |-> "Stored", of |-> b, period |-> period, from |-> StartOf(period), to |-> now,
         uploaded    |-> Cardinality(mine),
         funded      |-> Cardinality(funded),
         volume      |-> Volume(mine),
         fundingTime |-> Average(SumOf(Invested(funded), Wait), Cardinality(funded)),
         successRate |-> RateOf(Cardinality(mine \cap WithStatus({"Paid"})), Cardinality(mine)),
         defaultRate |-> RateOf(Cardinality(mine \cap WithStatus({"Defaulted"})), Cardinality(mine)),
         byCategory  |-> [c \in Category |-> Cardinality({i \in mine : invoice[i].category = c})],
         rating      |-> Average(SumOf(rated, LAMBDA i : invoice[i].rating), Cardinality(rated))]

InvestorReport(v, period) ==
    LET mine == {i \in Invested(Stored) : /\ investment[i].investor = v
                                          /\ investment[i].fundedAt >= StartOf(period)}
        Ended(status) == {i \in mine : investment[i].status = status}
        made     == Cardinality(mine)
        invested == SumOf(mine, LAMBDA i : investment[i].amount)
        returns  == SumOf(Ended("Completed"), LAMBDA i : investment[i].amount + ProfitOf(i))
        byCategory == [c \in Category |-> Cardinality({i \in mine : invoice[i].category = c})]
        defaultRate == RateOf(Cardinality(Ended("Defaulted")), made)
        (* Division rounds towards zero. *)
        Loss == invested - returns
    IN  [status |-> "Stored", of |-> v, period |-> period, from |-> StartOf(period), to |-> now,
         made |-> made, invested |-> invested, returns |-> returns,
         returnRate  |-> IF Loss > 0 THEN -RateOf(Loss, invested) ELSE RateOf(-Loss, invested),
         successRate |-> RateOf(Cardinality(Ended("Completed")), made),
         defaultRate |-> defaultRate,
         byCategory  |-> byCategory,
         risk        |-> RiskOf(defaultRate),
         diversity   |-> RateOf(Cardinality({c \in Category : byCategory[c] > 0}), made)]

----------------------------------------------------------------------------
Room(key) ==
    Cardinality({k \in DOMAIN reports : reports[k] # None} \cup {key}) <= MaxReports

(* A report is stored under the hash of time and sequence of the ledger, the *)
(* same for all reports of that ledger.                                      *)
GenerateBusinessReport(b, period) ==
    /\ Room(<<"business", now>>)
    /\ reports' = [reports EXCEPT ![<<"business", now>>] = BusinessReport(b, period)]
    /\ UNCHANGED <<invoice, investment, now>>

GenerateInvestorReport(v, period) ==
    /\ Room(<<"investor", now>>)
    /\ reports' = [reports EXCEPT ![<<"investor", now>>] = InvestorReport(v, period)]
    /\ UNCHANGED <<invoice, investment, now>>

Tick == now < MaxTime /\ now' = now + 1 /\ UNCHANGED <<invoice, investment, reports>>

Next ==
    \/ Tick
    \/ \E i \in Invoice :
          \/ \E b \in Business, c \in Category, m \in Currency, a \in Amounts : Store(i, b, c, m, a)
          \/ \E v \in Investor, a \in Advances : Fund(i, v, a)
          \/ \E r \in Ratings : Rate(i, r)
          \/ Cancel(i) \/ Finish(i, "Paid") \/ Finish(i, "Defaulted")
    \/ \E p \in Period :
          \/ \E b \in Business : GenerateBusinessReport(b, p)
          \/ \E v \in Investor : GenerateInvestorReport(v, p)

Spec == Init /\ [][Next]_vars

----------------------------------------------------------------------------
TypeOK ==
    /\ now \in 0..MaxTime
    /\ \A i \in Invoice : invoice[i].status \in Listed \cup {"None", "Cancelled"}
    /\ \A key \in DOMAIN reports : reports[key] = None \/ reports[key].to = key[2]

(* analytics.md, "Business Report Invariants", for every report ever stored: *)
(* as many funded as uploaded at the most, the rates together no more than   *)
(* the whole, no invoice both funded and defaulted, and each counted in one  *)
(* category.                                                                 *)
Consistent(kind, r) ==
    /\ r.from <= r.to
    /\ r.successRate + r.defaultRate <= Bps
    /\ kind = "business" =>
          /\ r.funded <= r.uploaded
          /\ RateOf(r.funded, r.uploaded) <= Bps - r.defaultRate
          /\ SumOf(Category, LAMBDA c : r.byCategory[c]) = r.uploaded
    /\ kind = "investor" => SumOf(Category, LAMBDA c : r.byCategory[c]) = r.made

ReportsConsistent ==
    \A key \in DOMAIN reports : reports[key] # None => Consistent(key[1], reports[key])

(* Two computations of the same figures agree: the platform's and the        *)
(* financial metrics of all time, whose volume is also that of its           *)
(* categories and of its currencies.                                         *)
MetricsAgree ==
    LET platform == PlatformMetrics
        financial == [p \in Period |-> FinancialMetrics(p)]
    IN
    /\ financial["AllTime"].volume = platform.volume
    /\ financial["AllTime"].fees = platform.fees
    /\ \A p \in Period :
          LET f == financial[p] IN
          /\ SumOf(Category, LAMBDA c : f.byCategory[c]) = f.volume
          /\ SumOf(DOMAIN f.byCurrency, LAMBDA c : f.byCurrency[c]) = f.volume
          /\ f.volume <= platform.volume
=============================================================================
