------------------------------ MODULE Insurance ------------------------------
(***************************************************************************)
(* Insurance of an investment (investment.rs): the investor adds coverages *)
(* while it is active, each a whole percentage of the amount, and a        *)
(* default claims every active one.  Claims are events: no money moves.    *)
(***************************************************************************)
EXTENDS Sums, Sublists

CONSTANTS
    Amounts,       \* invested amounts
    Percentages,   \* percentages asked for
    Providers,
    MaxCoverages   \* bound of the model: coverages of one investment

VARIABLES
    investment,    \* [amount, status, insurance]
    claims         \* claims emitted, in order: [provider, amount]

vars == <<investment, claims>>

MinCoverage == 1
MaxCoverage == 100
PremiumBps == 200
MinPremium == 1

Init ==
    /\ \E a \in Amounts : investment = [amount |-> a, status |-> "Active", insurance |-> <<>>]
    /\ claims = <<>>

CoverOf(amount, pct) == (amount * pct) \div 100

(* calculate_premium: 0 is an error of the caller. *)
Premium(amount, pct) ==
    LET cover == CoverOf(amount, pct) IN
    IF pct \notin MinCoverage..MaxCoverage \/ cover \notin 1..amount THEN 0
    ELSE Max({(cover * PremiumBps) \div 10000, MinPremium})

SumOf(seq, Val(_)) == Total([n \in DOMAIN seq |-> Val(seq[n])])

ActiveCoverages ==
    Sublist(investment.insurance,
            {n \in DOMAIN investment.insurance : investment.insurance[n].active})

(* Only the new coverage is compared with the maximum. *)
FitsTotal_Fault(pct) == pct <= MaxCoverage

(* total_active_coverage_percentage and the caps of add_insurance *)
FitsTotal(pct) == SumOf(ActiveCoverages, LAMBDA c : c.pct) + pct <= MaxCoverage

(* The bounds on premium and cover of add_insurance; with the premium the    *)
(* entry point computes, the last can only fail where the cover is 0.        *)
Accepts(pct, premium) ==
    LET cover == CoverOf(investment.amount, pct) IN
    /\ premium >= MinPremium
    /\ cover \in 1..investment.amount
    /\ premium <= cover

AddInsurance(provider, pct) ==
    LET premium == Premium(investment.amount, pct) IN
    /\ Len(investment.insurance) < MaxCoverages
    /\ investment.status = "Active"
    /\ premium > 0
    /\ pct \in MinCoverage..MaxCoverage
    /\ FitsTotal(pct)
    /\ Accepts(pct, premium)
    /\ investment' = [investment EXCEPT !.insurance =
            Append(@, [provider |-> provider, cover |-> CoverOf(investment.amount, pct),
                       premium |-> premium, pct |-> pct, active |-> TRUE])]
    /\ UNCHANGED claims

(* The claims are paid and the coverages stay active. *)
Claimed_Fault(insurance) == insurance

(* process_all_insurance_claims *)
Claimed(insurance) ==
    [n \in DOMAIN insurance |-> [insurance[n] EXCEPT !.active = FALSE]]

(* handle_default *)
Default ==
    /\ investment.status = "Active"
    /\ investment' = [investment EXCEPT !.status = "Defaulted", !.insurance = Claimed(@)]
    /\ claims' = claims \o [n \in DOMAIN ActiveCoverages |->
            [provider |-> ActiveCoverages[n].provider, amount |-> ActiveCoverages[n].cover]]

(* Settlement, refund and withdrawal leave the coverages as they are. *)
End(s) ==
    /\ investment.status = "Active"
    /\ investment' = [investment EXCEPT !.status = s]
    /\ UNCHANGED claims

Next ==
    \/ \E p \in Providers, pct \in Percentages : AddInsurance(p, pct)
    \/ Default
    \/ \E s \in {"Completed", "Refunded", "Withdrawn"} : End(s)

Spec == Init /\ [][Next]_vars

----------------------------------------------------------------------------
TypeOK ==
    /\ investment.amount \in Amounts
    /\ \A n \in DOMAIN investment.insurance : investment.insurance[n].provider \in Providers
    /\ Len(claims) <= MaxCoverages

(* What a default claims from all providers together, each rounded down, is  *)
(* never more than was invested, and no coverage cost more than it covers.   *)
ClaimsWithinInvestment ==
    /\ SumOf(claims, LAMBDA c : c.amount) <= investment.amount
    /\ SumOf(ActiveCoverages, LAMBDA c : c.cover) <= investment.amount
    /\ \A n \in DOMAIN investment.insurance :
          investment.insurance[n].premium <= investment.insurance[n].cover

(* A coverage is either active or has been claimed, once: no claim is lost   *)
(* and none can be made again.                                               *)
ClaimedOnce ==
    Len(claims) + Len(ActiveCoverages) = Len(investment.insurance)
=============================================================================
