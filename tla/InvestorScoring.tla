--------------------------- MODULE InvestorScoring ---------------------------
(***************************************************************************)
(* How verification.rs turns an investor's record into a risk score, a     *)
(* tier, a risk level and an investment limit.  A profile is the part of   *)
(* InvestorVerification that takes part in it.                             *)
(***************************************************************************)
EXTENDS Integers, FiniteSetsExt

Tiers == {"Basic", "Silver", "Gold", "Platinum", "VIP"}

RiskLevels == {"Low", "Medium", "High", "VeryHigh"}

NewProfile(kyc) ==
    [kyc |-> kyc, limit |-> 0, tier |-> "Basic", level |-> "High", score |-> 100,
     invested |-> 0, won |-> 0, lost |-> 0]

SaturatingSub(x, y) == IF x < y THEN 0 ELSE x - y

(* calculate_investor_risk_score.  kyc is the length of the KYC data.        *)
KycScore(kyc) == IF kyc < 100 THEN 30 ELSE IF kyc < 500 THEN 20 ELSE 10

DefaultRate(p) == IF p.won + p.lost = 0 THEN 0 ELSE (p.lost * 100) \div (p.won + p.lost)

VolumeCredit(p) == IF p.invested > 1000000 THEN 20 ELSE IF p.invested > 100000 THEN 10 ELSE 0

RiskScore_Fault(p) == SaturatingSub(KycScore(p.kyc) + DefaultRate(p), VolumeCredit(p))

RiskScore(p) ==
    Min({100, SaturatingSub(KycScore(p.kyc) + DefaultRate(p), VolumeCredit(p))})

(* determine_investor_tier *)
Tier(p, score) ==
    CASE score \in 0..10  /\ p.invested > 5000000 /\ p.won > 50 -> "VIP"
      [] score \in 11..20 /\ p.invested > 1000000 /\ p.won > 20 -> "Platinum"
      [] score \in 21..40 /\ p.invested > 100000  /\ p.won > 10 -> "Gold"
      [] score \in 41..60 /\ p.invested > 10000   /\ p.won > 3  -> "Silver"
      [] OTHER -> "Basic"

(* determine_risk_level *)
RiskLevel(score) ==
    CASE score \in 0..25  -> "Low"
      [] score \in 26..50 -> "Medium"
      [] score \in 51..75 -> "High"
      [] OTHER            -> "VeryHigh"

TierMultiplier ==
    [Basic |-> 1, Silver |-> 2, Gold |-> 3, Platinum |-> 5, VIP |-> 10]

RiskMultiplier == [Low |-> 100, Medium |-> 75, High |-> 50, VeryHigh |-> 25]

(* calculate_investment_limit *)
Limit(tier, level, base) ==
    (Max({base, 0}) * TierMultiplier[tier] * RiskMultiplier[level]) \div 100

(* The quotient is rounded down. *)
BaseOf_Fault(limit, tier, level) ==
    (Max({limit, 0}) * 100) \div (TierMultiplier[tier] * RiskMultiplier[level])

(* recover_base_limit_from_current_limit: the least base with that limit.    *)
BaseOf(limit, tier, level) ==
    LET m == TierMultiplier[tier] * RiskMultiplier[level] IN
    (Max({limit, 0}) * 100 + m - 1) \div m

(* The profile p with the score, level and tier that the stored profile has  *)
(* earned, and a limit from the base given.                                  *)
Rescored(p, stored, base) ==
    LET score == RiskScore(stored)
        tier  == Tier(stored, score)
        level == RiskLevel(score)
    IN  [p EXCEPT !.score = score, !.tier = tier, !.level = level,
                  !.limit = Limit(tier, level, base)]

(* verify_investor leaves the history as it is stored. *)
Scored(p, base) == Rescored(p, p, base)

(* The base is the limit itself: the multipliers apply again. *)
AfterInvestment_Fault(p, amount, success) ==
    LET history == [p EXCEPT !.invested = @ + amount,
                             !.won  = IF success THEN @ + 1 ELSE @,
                             !.lost = IF success THEN @ ELSE @ + 1]
    IN  Rescored(history, p, Max({p.limit, 1}))

(* update_investor_analytics.  The score and the tier are read from the      *)
(* stored record, which is written at the end: they do not count this        *)
(* investment yet.                                                           *)
AfterInvestment(p, amount, success) ==
    LET history == [p EXCEPT !.invested = @ + amount,
                             !.won  = IF success THEN @ + 1 ELSE @,
                             !.lost = IF success THEN @ ELSE @ + 1]
    IN  Rescored(history, p, Max({BaseOf(p.limit, p.tier, p.level), 1}))

(* validate_investor_investment: exposure is what the investor's active bids *)
(* add up to.                                                                *)
MayInvest(p, exposure, amount) ==
    /\ exposure + p.invested + amount <= p.limit
    /\ p.level = "VeryHigh" => amount <= 10000
    /\ p.level = "High" => amount <= 50000
=============================================================================
