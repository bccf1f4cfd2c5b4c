-------------------------- MODULE InvestorAnalytics --------------------------
(***************************************************************************)
(* The profile of one verified investor under the two functions of         *)
(* verification.rs that change it after the verification: the admin grants *)
(* a base limit, and update_investor_analytics derives the limit anew from *)
(* how investments ended.  The base is not stored: it is recovered from    *)
(* the limit each time.  No entry point of the contract calls the second   *)
(* function yet; it is modelled as what its callers will get.              *)
(***************************************************************************)
EXTENDS InvestorScoring

CONSTANTS
    KycLengths,   \* lengths of KYC data
    Histories,    \* pairs <<invested, won>> an investor may have to begin with
    Bases,        \* base limits the admin grants
    Amounts,      \* invested amounts
    MaxUpdates    \* bound of the model: updates of one profile

VARIABLES
    profile,   \* the stored record
    granted,   \* the base limit granted last
    updates    \* updates so far

vars == <<profile, granted, updates>>

Init ==
    \E kyc \in KycLengths, h \in Histories, base \in Bases :
        /\ granted = base
        /\ profile = Scored([NewProfile(kyc) EXCEPT !.invested = h[1], !.won = h[2]], base)
        /\ updates = 0

(* set_investment_limit keeps the tier and the level. *)
SetInvestmentLimit(base) ==
    /\ base > 0
    /\ granted' = base
    /\ profile' = [profile EXCEPT !.limit = Limit(profile.tier, profile.level, base)]
    /\ UNCHANGED updates

UpdateInvestorAnalytics(amount, success) ==
    /\ updates < MaxUpdates
    /\ amount > 0
    /\ profile' = AfterInvestment(profile, amount, success)
    /\ updates' = updates + 1
    /\ UNCHANGED granted

Next ==
    \/ \E base \in Bases : SetInvestmentLimit(base)
    \/ \E amount \in Amounts, success \in BOOLEAN : UpdateInvestorAnalytics(amount, success)

Spec == Init /\ [][Next]_vars

TypeOK ==
    /\ profile.tier \in Tiers /\ profile.level \in RiskLevels
    /\ profile.score \in 0..100
    /\ profile.limit \in Nat /\ profile.invested \in Nat
    /\ granted \in Bases /\ updates \in 0..MaxUpdates

(* However often the limit is derived from the limit before, through         *)
(* whichever tiers and levels, rounding never gives the investor more than   *)
(* the admin's base gives in the present tier and level.                     *)
LimitWithinGrant ==
    profile.limit <= Limit(profile.tier, profile.level, Max({granted, 1}))

(* An update that leaves tier and level as they were leaves the limit too:   *)
(* the limit does not erode by being recomputed.                             *)
SameStandingSameLimit ==
    [][/\ profile'.tier = profile.tier /\ profile'.level = profile.level
       /\ updates' # updates /\ profile.limit > 0
       => profile'.limit = profile.limit]_vars
=============================================================================
