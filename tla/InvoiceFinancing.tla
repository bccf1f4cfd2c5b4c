-------------------------- MODULE InvoiceFinancing --------------------------
(***************************************************************************)
(* The financing lifecycle of the QuickLendX contract: an invoice is       *)
(* stored, verified and bid on; accepting a bid locks the investor's money *)
(* in an escrow and opens an investment; the deal ends by settlement,      *)
(* refund or default.  One action per entry point of lib.rs that changes   *)
(* any of this state.  A call that returns Err or panics is rolled back by *)
(* the host, so a failing call is no step, and a call is one atomic step.  *)
(*                                                                         *)
(* Every participant here has passed KYC and every token is one currency;  *)
(* a transfer that the investor or the business did not approve fails and  *)
(* is therefore no step.                                                   *)
(*                                                                         *)
(* A definition named X_Fault is X with the fault its comment names.       *)
(* Nothing uses it: substituted for X, it shows that a property notices.   *)
(***************************************************************************)
EXTENDS Sums, FiniteSets

CONSTANTS
    Invoice,            \* invoice ids
    Bid,                \* bid ids, drawn on by generate_unique_bid_id
    Investor, Business, \* addresses of the two kinds of participants
    Contract, Treasury, \* the contract's own address and the fee recipient
    NoOne,              \* Option::None
    OwnerOf,            \* the business that stores each invoice
    Face, Due,          \* amount and due date of each invoice
    BidAmounts,         \* amounts an investor may bid
    PayAmounts,         \* amounts a business may ask to pay
    Nonce,              \* transaction ids of payments
    EmptyNonce,         \* the empty transaction id, which is never deduplicated
    SettlementNonce,    \* the id settle_invoice always uses
    MinBid,             \* the protocol's effective minimum bid
    BidTTL,             \* life of a bid
    GracePeriods,       \* grace periods a caller of the default paths may pass
    MaxActiveBids,      \* active bids per investor, 0 switches the check off
    MaxBidsPerInvoice,  \* Placed bids per invoice
    MaxActiveInvoices,  \* active invoices per business, 0 switches the check off
    Limit,              \* each investor's investment limit
    FeeBps,             \* platform fee on profit, in basis points
    StartBalance,       \* token balances before the first call
    MaxTime,            \* bound of the model: the last ledger timestamp
    Unchecked           \* entry points that skip a status check, see below

(***************************************************************************)
(* Some entry points do not check what the rest of the contract relies on. *)
(* Unchecked names those a behaviour may use without the missing check:    *)
(*   "accept_bid"      the bid need not belong to the named invoice        *)
(*   "cancel"          invoice.rs's cancel, which has no status check      *)
(*                     (types.rs defines one with it)                      *)
(*   "handle_default"  default before the grace period has run out         *)
(*   "update_status"   update_invoice_status, which sets any status        *)
(***************************************************************************)
UncheckedCalls == {"accept_bid", "cancel", "handle_default", "update_status"}

Address == Investor \cup Business \cup {Contract, Treasury}

InvStatus == {"Pending", "Verified", "Funded", "Paid", "Defaulted",
              "Cancelled", "Refunded"}
ActiveStatus == {"Pending", "Verified", "Funded"}
BidStatus == {"Placed", "Withdrawn", "Accepted", "Expired", "Cancelled"}
EscrowStatus == {"Held", "Released", "Refunded"}
InvestmentStatus == {"Active", "Completed", "Defaulted", "Refunded"}
Absent == "None"

ASSUME ConstantsOK ==
    /\ OwnerOf \in [Invoice -> Business]
    /\ Face \in [Invoice -> Nat \ {0}]
    /\ Due \in [Invoice -> Nat]
    /\ BidAmounts \subseteq Nat
    /\ PayAmounts \subseteq Nat
    /\ SettlementNonce \in Nonce \ {EmptyNonce}
    /\ MinBid \in Nat \ {0}
    /\ BidTTL \in Nat
    /\ GracePeriods \subseteq Nat
    /\ MaxActiveBids \in Nat
    /\ MaxBidsPerInvoice \in Nat
    /\ MaxActiveInvoices \in Nat
    /\ Limit \in [Investor -> Nat]
    /\ FeeBps \in 0..1000
    /\ StartBalance \in [Address -> Nat]
    /\ MaxTime \in Nat
    /\ Unchecked \subseteq UncheckedCalls

ASSUME AddressesOK ==
    /\ Contract \notin Investor \cup Business
    /\ NoOne \notin Address \cup Invoice

VARIABLES
    now,          \* ledger timestamp
    invoice,      \* the stored invoices
    byStatus,     \* index: invoice ids by status
    bid,          \* the stored bids
    invoiceBids,  \* index: bid ids by invoice
    investorBids, \* index: bid ids by investor
    escrow,       \* escrow record of each invoice
    investment,   \* investment record of each invoice
    active,       \* index: investments in status Active
    nonces,       \* transaction ids already applied to each invoice
    finalized,    \* invoices whose settlement is marked final
    defaultGuard, \* invoices whose default transition was taken
    balance       \* token balances

vars == <<now, invoice, byStatus, bid, invoiceBids, investorBids, escrow,
          investment, active, nonces, finalized, defaultGuard, balance>>

bidVars    == <<bid, invoiceBids, investorBids>>
dealVars   == <<escrow, investment, active>>
settleVars == <<nonces, finalized>>

----------------------------------------------------------------------------
(* Stored rows. *)

InvoiceRow == [status : InvStatus \cup {Absent},
               investor : Investor \cup Business \cup {NoOne}, funded : Nat, paid : Nat]
BidRow == [status : BidStatus \cup {Absent}, invoice : Invoice \cup {NoOne},
           investor : Investor \cup {NoOne}, amount : Nat, expires : Nat]
EscrowRow == [status : EscrowStatus \cup {Absent}, investor : Investor \cup {NoOne},
              payee : Business \cup {NoOne}, amount : Nat]
InvestmentRow == [status : InvestmentStatus \cup {Absent},
                  investor : Investor \cup {NoOne}, amount : Nat]

NewInvoice(st) == [status |-> st, investor |-> NoOne, funded |-> 0, paid |-> 0]
NoBid == [status |-> Absent, invoice |-> NoOne, investor |-> NoOne,
          amount |-> 0, expires |-> 0]
NoEscrow == [status |-> Absent, investor |-> NoOne, payee |-> NoOne, amount |-> 0]
NoInvestment == [status |-> Absent, investor |-> NoOne, amount |-> 0]

Init ==
    /\ now = 0
    /\ invoice = [i \in Invoice |-> NewInvoice(Absent)]
    /\ byStatus = [s \in InvStatus |-> {}]
    /\ bid = [b \in Bid |-> NoBid]
    /\ invoiceBids = [i \in Invoice |-> {}]
    /\ investorBids = [v \in Investor |-> {}]
    /\ escrow = [i \in Invoice |-> NoEscrow]
    /\ investment = [i \in Invoice |-> NoInvestment]
    /\ active = {}
    /\ nonces = [i \in Invoice |-> {}]
    /\ finalized = {}
    /\ defaultGuard = {}
    /\ balance = StartBalance

----------------------------------------------------------------------------
(* Token transfers (payments::transfer_funds): the balance is checked       *)
(* first, and a transfer from an address to itself is a no-op.              *)

(* The balance is not checked. *)
CanTransfer_Fault(bal, from, to, amount) == amount > 0

CanTransfer(bal, from, to, amount) ==
    amount > 0 /\ (from = to \/ bal[from] >= amount)

Transfer(bal, from, to, amount) ==
    IF from = to THEN bal
    ELSE [bal EXCEPT ![from] = @ - amount, ![to] = @ + amount]

----------------------------------------------------------------------------
(* The status index.  Entry points remove the invoice from its old list,    *)
(* store the row, which moves it again if the status changed, and add it to *)
(* the new list; lists hold an id at most once.                             *)

(* The old list keeps the id. *)
Reindexed_Fault(ids, old, new) ==
    [s \in InvStatus |-> IF s = new THEN byStatus[s] \cup ids ELSE byStatus[s]]

Reindexed(ids, old, new) ==
    [s \in InvStatus |-> IF s = new THEN byStatus[s] \cup ids
                         ELSE IF s = old THEN byStatus[s] \ ids
                         ELSE byStatus[s]]

(***************************************************************************)
(* Expired bids.  Lapsed bids are Placed bids past their expiration; a     *)
(* refresh of an index turns those it lists into Expired and drops every   *)
(* Expired bid from that index, and from no other.                         *)
(***************************************************************************)
(* A bid lives a tick too long. *)
Lapsed_Fault(bs, ids) == {b \in ids : bs[b].status = "Placed" /\ now > bs[b].expires + 1}

Lapsed(bs, ids) == {b \in ids : bs[b].status = "Placed" /\ now > bs[b].expires}

Expire(bs, ids) ==
    [b \in Bid |-> IF b \in Lapsed(bs, ids)
                   THEN [bs[b] EXCEPT !.status = "Expired"] ELSE bs[b]]

(* Every bid that is not open is dropped. *)
Prune_Fault(bs, ids) == {b \in ids : bs[b].status = "Placed"}

Prune(bs, ids) == {b \in ids : bs[b].status # "Expired"}

(* refresh_expired_bids for every invoice of S.                             *)
CleanBids(S) == Expire(bid, UNION {invoiceBids[i] : i \in S})

CleanIndex(S) == [i \in Invoice |-> IF i \in S THEN Prune(CleanBids(S), invoiceBids[i])
                                    ELSE invoiceBids[i]]

PlacedIn(bs, ids) == {b \in ids : bs[b].status = "Placed"}

Amounts(rows) == [id \in DOMAIN rows |-> rows[id].amount]

(* The expiry test is inverted. *)
Exposure_Fault(bs, ids) == SumOver(Amounts(bs), Lapsed(bs, ids))

(* get_active_bid_amount_sum_for_investor *)
Exposure(bs, ids) == SumOver(Amounts(bs), PlacedIn(bs, ids) \ Lapsed(bs, ids))

----------------------------------------------------------------------------
(* Storing, verifying and cancelling an invoice. *)

StoreInvoice(i) ==
    /\ invoice[i].status = Absent
    /\ Due[i] > now
    /\ invoice' = [invoice EXCEPT ![i] = NewInvoice("Pending")]
    /\ byStatus' = Reindexed({i}, Absent, "Pending")
    /\ UNCHANGED <<now, bidVars, dealVars, settleVars, defaultGuard, balance>>

ActiveInvoicesOf(o) ==
    {i \in Invoice : OwnerOf[i] = o /\ invoice[i].status \in ActiveStatus}

UploadInvoice(i) ==
    /\ MaxActiveInvoices > 0 =>
           Cardinality(ActiveInvoicesOf(OwnerOf[i])) < MaxActiveInvoices
    /\ StoreInvoice(i)

SetStatus(i, st) ==
    /\ invoice' = [invoice EXCEPT ![i].status = st]
    /\ byStatus' = Reindexed({i}, invoice[i].status, st)

(* The Pending branch of verify_invoice; its Funded branch is ReleaseEscrow. *)
VerifyInvoice(i) ==
    /\ invoice[i].status = "Pending"
    /\ SetStatus(i, "Verified")
    /\ UNCHANGED <<now, bidVars, dealVars, settleVars, defaultGuard, balance>>

CancelInvoice(i) ==
    /\ \/ invoice[i].status \in {"Pending", "Verified"}
       \/ "cancel" \in Unchecked /\ invoice[i].status # Absent
    /\ SetStatus(i, "Cancelled")
    /\ UNCHANGED <<now, bidVars, dealVars, settleVars, defaultGuard, balance>>

(* update_invoice_status: verify, mark_as_paid, mark_as_defaulted and        *)
(* mark_as_funded with the business as investor, from any status.            *)
UpdateInvoiceStatus(i, st) ==
    /\ "update_status" \in Unchecked
    /\ invoice[i].status # Absent
    /\ invoice' = [invoice EXCEPT ![i] =
           [status   |-> st,
            investor |-> IF st = "Funded" THEN OwnerOf[i] ELSE @.investor,
            funded   |-> IF st = "Funded" THEN Face[i] ELSE @.funded,
            paid     |-> IF st = "Paid" THEN Face[i] ELSE @.paid]]
    /\ byStatus' = Reindexed({i}, invoice[i].status, st)
    /\ UNCHANGED <<now, bidVars, dealVars, settleVars, defaultGuard, balance>>

----------------------------------------------------------------------------
(* Bids. *)

CleanupExpiredBids(i) ==
    /\ bid' = CleanBids({i})
    /\ invoiceBids' = CleanIndex({i})
    /\ UNCHANGED <<now, invoice, byStatus, investorBids, dealVars, settleVars,
                   defaultGuard, balance>>

(* lib.rs's place_bid and validate_bid.  The verification record's           *)
(* total_invested stays 0: nothing calls update_investor_analytics.          *)
PlaceBid(v, i, amount, b) ==
    LET here  == CleanIndex({i})[i]
        capped == MaxActiveBids > 0   \* count_active_placed_bids_for_investor runs
        bs    == IF capped THEN Expire(CleanBids({i}), investorBids[v]) ELSE CleanBids({i})
        own   == IF capped THEN Prune(bs, investorBids[v]) ELSE investorBids[v]
    IN
    /\ bid[b].status = Absent
    /\ invoice[i].status = "Verified"
    /\ amount <= Limit[v]
    /\ Cardinality(PlacedIn(bs, here)) < MaxBidsPerInvoice
    /\ capped => Cardinality(PlacedIn(bs, own)) < MaxActiveBids
    /\ now < Due[i]
    /\ OwnerOf[i] # v
    /\ amount \in MinBid..Face[i]
    /\ Exposure(bs, own) + amount <= Limit[v]
    /\ \A other \in PlacedIn(bs, here) : bs[other].investor # v
    /\ bid' = [bs EXCEPT ![b] = [status |-> "Placed", invoice |-> i, investor |-> v,
                                 amount |-> amount, expires |-> now + BidTTL]]
    /\ invoiceBids' = [invoiceBids EXCEPT ![i] = here \cup {b}]
    /\ investorBids' = [investorBids EXCEPT ![v] = own \cup {b}]
    /\ UNCHANGED <<now, invoice, byStatus, dealVars, settleVars, defaultGuard, balance>>

(* A bid that is no longer open can be closed again. *)
CloseBid_Fault(b, st) ==
    /\ bid[b].status # Absent
    /\ bid' = [bid EXCEPT ![b].status = st]
    /\ UNCHANGED <<now, invoice, byStatus, invoiceBids, investorBids, dealVars,
                   settleVars, defaultGuard, balance>>

(* withdraw_bid and cancel_bid: neither looks at the expiration. *)
CloseBid(b, st) ==
    /\ bid[b].status = "Placed"
    /\ bid' = [bid EXCEPT ![b].status = st]
    /\ UNCHANGED <<now, invoice, byStatus, invoiceBids, investorBids, dealVars,
                   settleVars, defaultGuard, balance>>

WithdrawBid(b) == CloseBid(b, "Withdrawn")
CancelBid(b)   == CloseBid(b, "Cancelled")

----------------------------------------------------------------------------
(* Funding: create_escrow moves the investor's money to the contract and     *)
(* writes the escrow record; the invoice, its bid and a new investment       *)
(* follow.  In accept_bid the escrow and the investment belong to the        *)
(* invoice of the bid, j, the status and the payee to the one named, i.      *)

(* The escrow records the invoice's amount. *)
NewEscrow_Fault(i, offer) == [status |-> "Held", investor |-> offer.investor,
                              payee |-> OwnerOf[i], amount |-> Face[i]]

NewEscrow(i, offer) == [status |-> "Held", investor |-> offer.investor,
                        payee |-> OwnerOf[i], amount |-> offer.amount]

Fund(i, j, b, bs) ==
    /\ escrow[j].status = Absent
    /\ CanTransfer(balance, bs[b].investor, Contract, bs[b].amount)
    /\ balance' = Transfer(balance, bs[b].investor, Contract, bs[b].amount)
    /\ escrow' = [escrow EXCEPT ![j] = NewEscrow(i, bs[b])]
    /\ bid' = [bs EXCEPT ![b].status = "Accepted"]
    /\ byStatus' = Reindexed({i, j}, "Verified", "Funded")
    /\ invoice' = [invoice EXCEPT ![i] = [status |-> "Funded", investor |-> bs[b].investor,
                                          funded |-> bs[b].amount, paid |-> @.paid]]
    /\ investment' = [investment EXCEPT ![j] = [status |-> "Active",
                           investor |-> bs[b].investor, amount |-> bs[b].amount]]
    /\ active' = active \cup {j}
    /\ UNCHANGED <<now, investorBids, settleVars, defaultGuard>>

AcceptBidAndFund(i, b) ==
    /\ invoice[i].status = "Verified"
    /\ invoice[i].funded = 0 /\ invoice[i].investor = NoOne
    /\ investment[i].status = Absent
    /\ bid[b].invoice = i
    /\ CleanBids({i})[b].status = "Placed"
    /\ now <= bid[b].expires
    /\ Fund(i, i, b, CleanBids({i}))
    /\ invoiceBids' = CleanIndex({i})

AcceptBid(i, b) ==
    LET j == bid[b].invoice IN
    /\ bid[b].status # Absent
    /\ j = i \/ "accept_bid" \in Unchecked
    /\ invoice[i].status = "Verified"
    /\ CleanBids({i, j})[b].status = "Placed"
    /\ Fund(i, j, b, CleanBids({i, j}))
    /\ invoiceBids' = CleanIndex({i, j})

----------------------------------------------------------------------------
(* Escrow release and refund. *)

(* An escrow can be released again. *)
CanRelease_Fault(i) == CanTransfer(balance, Contract, escrow[i].payee, escrow[i].amount)

CanRelease(i) ==
    /\ escrow[i].status = "Held"
    /\ CanTransfer(balance, Contract, escrow[i].payee, escrow[i].amount)

BalanceAfterRelease(i) == Transfer(balance, Contract, escrow[i].payee, escrow[i].amount)

ReleaseEscrow(i) ==
    /\ invoice[i].status = "Funded"
    /\ CanRelease(i)
    /\ balance' = BalanceAfterRelease(i)
    /\ escrow' = [escrow EXCEPT ![i].status = "Released"]
    /\ UNCHANGED <<now, invoice, byStatus, bidVars, investment, active, settleVars,
                   defaultGuard>>

(* update_investment: only an Active investment may change status, any other *)
(* change panics; an invoice without an investment is passed over.           *)
CanCloseInvestment_Fault(i, st) == TRUE   \* the transition is not validated

CanCloseInvestment(i, st) == investment[i].status \in {"Active", st, Absent}

(* The active index is not updated. *)
CloseInvestment_Fault(i, st) ==
    /\ CanCloseInvestment(i, st)
    /\ investment' = IF investment[i].status = Absent THEN investment
                     ELSE [investment EXCEPT ![i].status = st]
    /\ active' = active

CloseInvestment(i, st) ==
    /\ CanCloseInvestment(i, st)
    /\ investment' = IF investment[i].status = Absent THEN investment
                     ELSE [investment EXCEPT ![i].status = st]
    /\ active' = active \ {i}

(* The bid of a refunded invoice stays Accepted. *)
CancelAcceptedBid_Fault(i, bs, ids) == bid' = bs

(* The first Accepted bid of the refreshed index becomes Cancelled.          *)
CancelAcceptedBid(i, bs, ids) ==
    LET accepted == {b \in ids : bs[b].status = "Accepted"} IN
    IF accepted = {} THEN bid' = bs
    ELSE \E b \in accepted : bid' = [bs EXCEPT ![b].status = "Cancelled"]

RefundEscrow(i) ==
    /\ invoice[i].status = "Funded"
    /\ escrow[i].status = "Held"
    /\ CanTransfer(balance, Contract, escrow[i].investor, escrow[i].amount)
    /\ balance' = Transfer(balance, Contract, escrow[i].investor, escrow[i].amount)
    /\ escrow' = [escrow EXCEPT ![i].status = "Refunded"]
    /\ invoice' = [invoice EXCEPT ![i] = NewInvoice("Refunded")]
    /\ byStatus' = Reindexed({i}, "Funded", "Refunded")
    /\ invoiceBids' = CleanIndex({i})
    /\ CancelAcceptedBid(i, CleanBids({i}), CleanIndex({i})[i])
    /\ CloseInvestment(i, "Refunded")
    /\ UNCHANGED <<now, investorBids, settleVars, defaultGuard>>

----------------------------------------------------------------------------
(* Payments and settlement (settlement.rs). *)

Remaining(i) == IF invoice[i].paid >= Face[i] THEN 0 ELSE Face[i] - invoice[i].paid

Applied(i, amount) == IF amount > Remaining(i) THEN Remaining(i) ELSE amount

Replayed_Fault(i, n) == FALSE   \* transaction ids are not looked up

Replayed(i, n) == n # EmptyNonce /\ n \in nonces[i]

(* record_payment: a replayed id reports the current progress and records    *)
(* nothing.                                                                  *)
CanRecord(i, amount, n) ==
    /\ amount > 0
    /\ invoice[i].status = "Funded"
    /\ Replayed(i, n) \/ Remaining(i) > 0

TotalAfter(i, amount, n) ==
    IF Replayed(i, n) THEN invoice[i].paid ELSE invoice[i].paid + Applied(i, amount)

NoncesAfter(i, n) ==
    IF n = EmptyNonce THEN nonces ELSE [nonces EXCEPT ![i] = @ \cup {n}]

(* The fee is taken from the whole payment. *)
PlatformFee_Fault(i, total) == (total * FeeBps) \div 10000

(* FeeManager::calculate_platform_fee *)
PlatformFee(i, total) ==
    IF total <= investment[i].amount THEN 0
    ELSE ((total - investment[i].amount) * FeeBps) \div 10000

(* settle_invoice_internal, once the paid total is known: release what is    *)
(* still held, pay the investor and the fee out of the business's account,   *)
(* mark the settlement final and close the invoice and its investment.       *)
Settle(i, total) ==
    LET fee      == PlatformFee(i, total)
        released == IF escrow[i].status = "Held" THEN BalanceAfterRelease(i) ELSE balance
        repaid   == Transfer(released, OwnerOf[i], invoice[i].investor, total - fee)
    IN
    /\ i \notin finalized
    /\ investment[i].status # Absent
    /\ total >= Face[i] /\ total >= investment[i].amount
    /\ escrow[i].status = "Held" => CanRelease(i)
    /\ invoice[i].investor # NoOne
    /\ CanTransfer(released, OwnerOf[i], invoice[i].investor, total - fee)
    /\ fee > 0 => CanTransfer(repaid, OwnerOf[i], Treasury, fee)
    /\ balance' = IF fee > 0 THEN Transfer(repaid, OwnerOf[i], Treasury, fee) ELSE repaid
    /\ escrow' = IF escrow[i].status = "Held"
                 THEN [escrow EXCEPT ![i].status = "Released"] ELSE escrow
    /\ finalized' = finalized \cup {i}
    /\ invoice' = [invoice EXCEPT ![i] = [status |-> "Paid", investor |-> @.investor,
                                          funded |-> @.funded, paid |-> Face[i]]]
    /\ byStatus' = Reindexed({i}, "Funded", "Paid")
    /\ CloseInvestment(i, "Completed")
    /\ UNCHANGED <<now, bidVars, defaultGuard>>

(* A payment that reaches the face exactly is only recorded. *)
PartialPayment_Fault(i, amount, n) ==
    LET total == TotalAfter(i, amount, n) IN
    /\ CanRecord(i, amount, n)
    /\ nonces' = NoncesAfter(i, n)
    /\ total <= Face[i]
    /\ invoice' = [invoice EXCEPT ![i].paid = total]
    /\ UNCHANGED <<now, byStatus, bidVars, dealVars, finalized, defaultGuard, balance>>

PartialPayment(i, amount, n) ==
    LET total == TotalAfter(i, amount, n) IN
    /\ CanRecord(i, amount, n)
    /\ nonces' = NoncesAfter(i, n)
    /\ \/ /\ total < Face[i]
          /\ invoice' = [invoice EXCEPT ![i].paid = total]
          /\ UNCHANGED <<now, byStatus, bidVars, dealVars, finalized, defaultGuard,
                         balance>>
       \/ /\ total >= Face[i]
          /\ Settle(i, total)

SettleInvoice(i, amount) ==
    LET total == TotalAfter(i, amount, SettlementNonce) IN
    /\ i \notin finalized
    /\ CanRecord(i, amount, SettlementNonce)
    /\ amount <= Remaining(i)
    /\ investment[i].status # Absent
    /\ invoice[i].paid + amount >= Face[i]
    /\ invoice[i].paid + amount >= investment[i].amount
    /\ nonces' = NoncesAfter(i, SettlementNonce)
    /\ Settle(i, total)

----------------------------------------------------------------------------
(* Default (defaults.rs).  The escrow is left as it is. *)

(* The status is not checked. *)
Default_Fault(i) ==
    /\ i \notin defaultGuard
    /\ defaultGuard' = defaultGuard \cup {i}
    /\ SetStatus(i, "Defaulted")
    /\ CloseInvestment(i, "Defaulted")
    /\ UNCHANGED <<now, bidVars, escrow, settleVars, balance>>

Default(i) ==
    /\ i \notin defaultGuard
    /\ invoice[i].status = "Funded"
    /\ defaultGuard' = defaultGuard \cup {i}
    /\ SetStatus(i, "Defaulted")
    /\ CloseInvestment(i, "Defaulted")
    /\ UNCHANGED <<now, bidVars, escrow, settleVars, balance>>

(* handle_default, the admin's entry point, which does not look at the time. *)
HandleDefault(i) ==
    /\ "handle_default" \in Unchecked
    /\ Default(i)

(* The last moment of the grace period counts as past it. *)
DefaultAfterGrace_Fault(i, grace) ==
    /\ now >= Due[i] + grace
    /\ Default(i)

(* mark_invoice_defaulted, check_invoice_expiration and the overdue scan.    *)
DefaultAfterGrace(i, grace) ==
    /\ now > Due[i] + grace
    /\ Default(i)

Tick ==
    /\ now < MaxTime
    /\ now' = now + 1
    /\ UNCHANGED <<invoice, byStatus, bidVars, dealVars, settleVars, defaultGuard, balance>>

Next ==
    \/ Tick
    \/ \E i \in Invoice :
        \/ StoreInvoice(i) \/ UploadInvoice(i) \/ VerifyInvoice(i) \/ CancelInvoice(i)
        \/ \E st \in {"Verified", "Paid", "Defaulted", "Funded"} :
               UpdateInvoiceStatus(i, st)
        \/ CleanupExpiredBids(i)
        \/ \E v \in Investor, amount \in BidAmounts, b \in Bid : PlaceBid(v, i, amount, b)
        \/ \E b \in Bid : AcceptBidAndFund(i, b) \/ AcceptBid(i, b)
        \/ ReleaseEscrow(i) \/ RefundEscrow(i)
        \/ \E amount \in PayAmounts, n \in Nonce : PartialPayment(i, amount, n)
        \/ \E amount \in PayAmounts : SettleInvoice(i, amount)
        \/ HandleDefault(i)
        \/ \E grace \in GracePeriods : DefaultAfterGrace(i, grace)
    \/ \E b \in Bid : WithdrawBid(b) \/ CancelBid(b)

Spec == Init /\ [][Next]_vars
=============================================================================
