---------------------------- MODULE MoneyServices ---------------------------
(***************************************************************************)
(* The services of the contract that compute amounts: investors' limits,   *)
(* vesting, fees and revenue, insurance and analytics.                     *)
(***************************************************************************)
EXTENDS Services

CONSTANTS
    KycLengths, Histories, Bases, InvestedSums, MaxUpdates,           \* InvestorAnalytics
    Beneficiaries, Totals, VestingTimes, AdminFunds, MaxSchedules,    \* VestingSchedules
    FeePayers, Treasuries, TierFrom, AbsoluteMaxFee, MaxTotalMinFees,
    RotationTtl, PeriodLength, Structures, PlatformBps, FeesPaid,
    FeeSums, Transactions, Splits, MaxCollected, MaxVolume,
    MaxRotations,                                                     \* FeeTreasury
    InsuredSums, Percentages, Providers, MaxCoverages,                \* Insurance
    Counted, Owners, Lenders, Sectors, Moneys, Faces, Lent,
    Grades, ChargedBps, Spans, MaxReports,                            \* Analytics
    MaxVestingTime, MaxFeeTime, MaxReportTime                         \* bounds: the clocks

VARIABLES
    profile, granted, updates,                                        \* InvestorAnalytics
    schedules, grantor, vestingVault, received, paused,               \* VestingSchedules
    fees, platform, rotation, volume, revenue, split, paid, rotated,  \* FeeTreasury
    insured, claims,                                                  \* Insurance
    counted, investment, reports                                      \* Analytics

(* The bounds of the model. *)
ASSUME MoneyBoundsOK ==
    {MaxVestingTime, MaxFeeTime, MaxReportTime, MaxSchedules, MaxCoverages, MaxUpdates}
        \subseteq Nat

-----------------------------------------------------------------------------
(* Investor analytics. *)

Inv == INSTANCE InvestorAnalytics WITH Amounts <- InvestedSums

(* The grants and an investor's history are natural numbers, and sums are    *)
(* 128-bit integers of either sign.                                          *)
ASSUME GrantsOK == Bases \subseteq Nat /\ Histories \subseteq Nat \X Nat /\ InvestedSums \subseteq Int

(* verification.rs: a limit computed again and again neither grows beyond    *)
(* the grant nor erodes.                                                     *)
LimitsStable ==
    [](part = "investors" => Inv!LimitWithinGrant) /\ Inv!SameStandingSameLimit

-----------------------------------------------------------------------------
(* Vesting. *)

Vest == INSTANCE VestingSchedules WITH
    admin <- grantor, vault <- vestingVault, Beneficiary <- Beneficiaries,
    Times <- VestingTimes, MaxTime <- MaxVestingTime

(* Totals and times are natural numbers, and so is what the admin has; there *)
(* are finitely many who can be paid.                                        *)
ASSUME VestingOK ==
    /\ Totals \subseteq Nat /\ VestingTimes \subseteq Nat /\ AdminFunds \in Nat
    /\ IsFiniteSet(Beneficiaries)

(* vesting.rs: releases follow the line from start to end, and the contract  *)
(* holds what is still to be released.                                       *)
VestingPaid == part = "vesting" => Vest!VaultCoversSchedules /\ Vest!ReleasedOnTheLine

-----------------------------------------------------------------------------
(* Fees, revenue and the treasury. *)

Fee == INSTANCE FeeTreasury WITH
    User <- FeePayers, Address <- Treasuries, NoOne <- Nobody, Payments <- FeesPaid,
    Amounts <- FeeSums, MaxTime <- MaxFeeTime

(* Amounts are 128-bit integers of either sign, basis points and times are   *)
(* natural numbers; the tiers are in their order.                            *)
ASSUME FeesOK ==
    /\ FeesPaid \subseteq [Fee!FeeType -> Int] /\ FeeSums \subseteq Int /\ PlatformBps \subseteq Nat
    /\ Splits \subseteq [treasury : Treasuries, tBps : Nat, dBps : Nat, pBps : Nat, min : Int]
    /\ Structures \subseteq
          [type : Fee!FeeType, bps : Nat, min : Int, max : Int, active : BOOLEAN]
    /\ MaxFeeTime \in Nat /\ PeriodLength \in Nat \ {0} /\ RotationTtl \in Nat
    /\ Transactions \subseteq Nat
    /\ TierFrom \in [Silver : Nat, Gold : Nat, Platinum : Nat]
    /\ TierFrom.Silver <= TierFrom.Gold /\ TierFrom.Gold <= TierFrom.Platinum

(* fees.rs: collected fees are pending or were paid out in full, and a       *)
(* treasury took over within its window.                                     *)
RevenueAccounted == part = "fees" => Fee!RevenueAccounted /\ Fee!RotatedInTime

(* fees.rs: the charge grows with the amount and falls with the volume.      *)
FeesMonotone == part = "fees" => Fee!FeesMonotone

-----------------------------------------------------------------------------
(* Insurance. *)

Ins == INSTANCE Insurance WITH
    investment <- insured, Amounts <- InsuredSums

ASSUME InsuranceOK == InsuredSums \subseteq Nat /\ Percentages \subseteq Nat

(* investment.rs: the claims of a default stay within the investment, and    *)
(* each coverage is claimed once.                                            *)
ClaimsPaid == part = "insurance" => Ins!ClaimsWithinInvestment /\ Ins!ClaimedOnce

-----------------------------------------------------------------------------
(* Analytics. *)

Ana == INSTANCE Analytics WITH
    invoice <- counted, Invoice <- 1..Counted, Business <- Owners, Investor <- Lenders,
    Category <- Sectors, Currency <- Moneys, Amounts <- Faces, Advances <- Lent,
    Ratings <- Grades,
    FeeBps <- ChargedBps, PeriodLength <- Spans, MaxTime <- MaxReportTime

(* There are finitely many categories, amounts are natural numbers, and one   *)
(* of the periods has no beginning.                                          *)
ASSUME AnalyticsOK ==
    /\ Counted \in Nat /\ IsFiniteSet(Sectors) /\ Faces \subseteq Nat
    /\ \A period \in DOMAIN Spans : Spans[period] \in Int
    /\ "AllTime" \in DOMAIN Spans /\ Spans["AllTime"] < 0

(* analytics.rs: the figures of a report agree with each other, and so do    *)
(* two computations of the same figure.                                      *)
ReportsAgree == part = "analytics" => Ana!ReportsConsistent /\ Ana!MetricsAgree
=============================================================================
