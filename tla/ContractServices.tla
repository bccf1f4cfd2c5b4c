-------------------------- MODULE ContractServices --------------------------
(***************************************************************************)
(* The services of the contract by which the participants deal with each   *)
(* other: emergency withdrawal, governance, KYC, disputes, notifications   *)
(* and the order book.                                                     *)
(***************************************************************************)
EXTENDS Services

CONSTANTS
    Actor,                                                            \* addresses
    Contract, Amounts, Timelock, Expiration, Balance, MaxNonce,       \* EmergencyWithdrawal
    Settings, FeeBps, Currencies, Whitelists, Ttls, Caps,             \* ProtocolGovernance
    Reasons, KycData, MaxKycData, Limits, MaxListed,                  \* KycVerification
    Invoice, Business, Investor, Stranger, Admin, Texts, MaxReason,
    MaxText, PageSize,                                                \* Disputes
    Billed, BusinessOf, InvestorOf, Raised, Wishes, MaxNotices,       \* Notifications
    Offers, BidLife, PageCap, AskedPages, MaxBids,                    \* BidRanking
    MaxDay, MaxNoticeTime, MaxBookTime                                \* bounds: the clocks

VARIABLES
    keeper, nonce, pending, cancelled, vault, escrowed, log,          \* EmergencyWithdrawal
    admin, adminInit, protoInit, config, limits, feeBps, treasury,
    whitelist, halted, bidTtl, maxActive, caller,                     \* ProtocolGovernance
    record, businesses, investors, frozen,                            \* KycVerification
    status, dispute, day,                                             \* Disputes
    notice, inbox, preferences,                                       \* Notifications
    bids, book, reader                                                \* BidRanking

(* The bounds of the model. *)
ASSUME ContractBoundsOK ==
    MaxDay \in Nat \ {0} /\ {MaxTime, MaxNoticeTime, MaxBookTime} \subseteq Nat

-----------------------------------------------------------------------------
(* Emergency withdrawal. *)

Emg == INSTANCE EmergencyWithdrawal WITH admin <- keeper

(* Amounts and spans of time are natural numbers. *)
ASSUME EmergencyOK ==
    /\ Amounts \subseteq Nat /\ Balance \in Nat /\ MaxNonce \in Nat \ {0}
    /\ Timelock \in Nat /\ Expiration \in Nat

(* emergency.rs: money leaves only as one request had asked for, after its   *)
(* waiting time, once, and never for a cancelled one.                        *)
WithdrawnAsAgreed == Emg!WithdrawnAsAgreed

-----------------------------------------------------------------------------
(* Governance. *)

Gov == INSTANCE ProtocolGovernance WITH paused <- halted, NoOne <- Nobody

ASSUME GovernanceOK ==
    /\ Nobody \notin Actor
    /\ Settings \subseteq [min : Int, due : Int, grace : Int]

ASSUME WhitelistsOK == Whitelists \subseteq Seq(Currencies)

(* admin.rs, init.rs, currency.rs: admin and settings change with the        *)
(* present admin's authority; an initialised protocol lacks no setting, and  *)
(* a token is whitelisted once.                                              *)
AdminAuthorises == Gov!AdminAuthorises

-----------------------------------------------------------------------------
(* KYC verification. *)

Kyc == INSTANCE KycVerification WITH paused <- frozen, NoReason <- Nobody

(* verification.rs: the lists agree with the records, verified investors     *)
(* have a limit that was granted, and a verified party stays verified.       *)
KycConsistent == Kyc!KycConsistent

-----------------------------------------------------------------------------
(* Disputes. *)

Dis == INSTANCE Disputes WITH now <- day, MaxTime <- MaxDay

ASSUME TimelineOK == PageSize \in Nat

(* lib.rs, dispute_timeline.rs: a dispute goes stage by stage, what was said *)
(* stays, and the pages of its timeline show each stage once.                *)
DisputesAdvance == Dis!DisputeOnlyAdvances /\ [](part = "disputes" => Dis!TimelineComplete)

-----------------------------------------------------------------------------
(* Notifications. *)

Ntf == INSTANCE Notifications WITH
    listed <- inbox, Invoice <- Billed, NoOne <- Nobody, Business <- BusinessOf,
    Investor <- InvestorOf, MaxTime <- MaxNoticeTime, MaxListed <- MaxNotices

(* Preferences are about the types there are. *)
ASSUME NoticesOK == \A wish \in Wishes : wish.types \subseteq Ntf!Types

(* notifications.rs: a user's own preferences decide what it is told.        *)
OptOutRespected == Ntf!OptOutRespected

-----------------------------------------------------------------------------
(* The order book. *)

Bids == INSTANCE BidRanking WITH
    BidTTL <- BidLife, MaxQueryLimit <- PageCap, Limits <- AskedPages, NoFilter <- Nobody,
    MaxTime <- MaxBookTime

(* Amounts are natural numbers, a page has room for at least one bid, and no  *)
(* filter is no status.                                                      *)
ASSUME BookOK ==
    /\ Nobody \notin Bids!Status
    /\ Offers \subseteq Nat \X Nat /\ BidLife \in Nat
    /\ PageCap \in Nat \ {0} /\ AskedPages \subseteq Nat \ {0}
    /\ MaxBookTime \in Nat

(* bid.rs: best bid and ranking agree, and a walk through the pages returns  *)
(* no bid twice.                                                             *)
BookConsistent == part = "book" => Bids!RankingAgrees /\ Bids!PagesNeverRepeat
=============================================================================
