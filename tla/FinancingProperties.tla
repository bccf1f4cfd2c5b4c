------------------------- MODULE FinancingProperties -------------------------
(***************************************************************************)
(* What must be true of InvoiceFinancing.  Properties that name a document *)
(* state what the document says; the others are what the entry points rely *)
(* on from one another.  Some hold whatever the callers do, some only when *)
(* no caller uses an entry point that skips a check (Unchecked = {}); the  *)
(* configurations say which.                                               *)
(***************************************************************************)
EXTENDS InvoiceFinancing

(* Every variable keeps its type: rows keep their fields, amounts and        *)
(* balances never go below zero.                                             *)
TypeOK ==
    /\ now \in Nat
    /\ invoice \in [Invoice -> InvoiceRow]
    /\ byStatus \in [InvStatus -> SUBSET Invoice]
    /\ bid \in [Bid -> BidRow]
    /\ invoiceBids \in [Invoice -> SUBSET Bid]
    /\ investorBids \in [Investor -> SUBSET Bid]
    /\ escrow \in [Invoice -> EscrowRow]
    /\ investment \in [Invoice -> InvestmentRow]
    /\ active \subseteq Invoice
    /\ nonces \in [Invoice -> SUBSET Nonce]
    /\ finalized \subseteq Invoice
    /\ defaultGuard \subseteq Invoice
    /\ balance \in [Address -> Nat]

----------------------------------------------------------------------------
(* Status alignment across the four records of a deal. *)

BidsOf(i, st) == {b \in Bid : bid[b].invoice = i /\ bid[b].status = st}

DealIs(i, escrowSt, investmentSt, accepted) ==
    /\ escrow[i].status \in escrowSt
    /\ investment[i].status = investmentSt
    /\ IF accepted THEN \E b \in Bid : BidsOf(i, "Accepted") = {b}
       ELSE BidsOf(i, "Accepted") = {}

(* lifecycle.md INV-1: the status of an invoice fixes those of its bid, its  *)
(* escrow and its investment.  No entry point leaves one of the four behind: *)
(* exactly one bid is Accepted while a deal exists, none before or after a   *)
(* refund, and settlement is final exactly for Paid invoices.  The escrow of *)
(* a Funded invoice may also be Released: release_escrow_funds keeps the     *)
(* invoice Funded.                                                           *)
StatusAlignment ==
    \A i \in Invoice :
        /\ CASE invoice[i].status = "Funded" ->
                    DealIs(i, {"Held", "Released"}, "Active", TRUE)
             [] invoice[i].status = "Paid" ->
                    DealIs(i, {"Released"}, "Completed", TRUE)
             [] invoice[i].status = "Defaulted" ->
                    DealIs(i, {"Held", "Released"}, "Defaulted", TRUE)
             [] invoice[i].status = "Refunded" ->
                    DealIs(i, {"Refunded"}, "Refunded", FALSE)
             [] OTHER -> DealIs(i, {Absent}, Absent, FALSE)
        /\ i \in finalized <=> invoice[i].status = "Paid"
        /\ i \in defaultGuard <=> invoice[i].status = "Defaulted"

(* lifecycle.md INV-2, INV-3 and INV-4: the list of a status holds exactly   *)
(* the invoices of that status, after any sequence of transitions.           *)
StatusIndexExact ==
    \A s \in InvStatus : byStatus[s] = {i \in Invoice : invoice[i].status = s}

(* lifecycle.md INV-5 and INV-2: bid, invoice, investment and escrow of a    *)
(* Funded invoice name the same investor and the same amount, and the escrow *)
(* pays the invoice's business.                                              *)
FundedAmounts ==
    \A i \in Invoice : invoice[i].status = "Funded" =>
        /\ escrow[i].payee = OwnerOf[i]
        /\ \A b \in BidsOf(i, "Accepted") :
               /\ bid[b].amount = invoice[i].funded /\ bid[b].investor = invoice[i].investor
               /\ escrow[i].amount = bid[b].amount /\ escrow[i].investor = bid[b].investor
               /\ investment[i].amount = bid[b].amount
               /\ investment[i].investor = bid[b].investor

(* The index of active investments lists exactly the investments in status   *)
(* Active: validate_no_orphan_investments never has anything to find.        *)
ActiveIndexExact == active = {i \in Invoice : investment[i].status = "Active"}

----------------------------------------------------------------------------
(* Bids. *)

Live(b) == bid[b].status = "Placed" /\ now <= bid[b].expires

LiveBidsOf(v) == {b \in Bid : bid[b].investor = v /\ Live(b)}

(* Both bid indexes list only their own bids, and every bid that did not     *)
(* expire: pruning lapsed bids through one index never loses a bid that      *)
(* counts, in either.                                                        *)
BidIndexesComplete ==
    /\ \A i \in Invoice : \A b \in invoiceBids[i] : bid[b].invoice = i
    /\ \A v \in Investor : \A b \in investorBids[v] : bid[b].investor = v
    /\ \A b \in Bid : bid[b].status \notin {Absent, "Expired"} =>
           b \in invoiceBids[bid[b].invoice] /\ b \in investorBids[bid[b].investor]

(* An investor never has two live bids on one invoice, and never more live   *)
(* bids, or live bids for more money, than allowed, however bids, expiry and *)
(* clean-ups of the two indexes interleave.                                  *)
BidLimits ==
    /\ \A v \in Investor :
        /\ \A b, c \in LiveBidsOf(v) : bid[b].invoice = bid[c].invoice => b = c
        /\ MaxActiveBids > 0 => Cardinality(LiveBidsOf(v)) <= MaxActiveBids
        /\ SumOver(Amounts(bid), LiveBidsOf(v)) <= Limit[v]
    /\ \A i \in Invoice :
        Cardinality({b \in Bid : bid[b].invoice = i /\ Live(b)}) <= MaxBidsPerInvoice

(* Only a live bid is ever accepted: a bid that lapsed but was not yet       *)
(* cleaned up is no offer any more.                                          *)
OnlyLiveBidsAccepted ==
    [][\A b \in Bid : bid'[b].status = "Accepted" => bid[b].status = "Accepted" \/ Live(b)]_vars

(* bid.rs, refresh_expired_bids, "terminal bids are NEVER modified": a bid   *)
(* that was withdrawn, cancelled or expired never changes again, and an      *)
(* Accepted one only when its invoice's escrow is refunded.                  *)
TerminalBidsStay ==
    [][\A b \in Bid :
        /\ bid[b].status \in {"Withdrawn", "Cancelled", "Expired"} => bid'[b] = bid[b]
        /\ bid[b].status = "Accepted" =>
               \/ bid'[b] = bid[b]
               \/ /\ bid'[b] = [bid[b] EXCEPT !.status = "Cancelled"]
                  /\ escrow[bid[b].invoice].status = "Held"
                  /\ escrow'[bid[b].invoice].status = "Refunded"]_vars

----------------------------------------------------------------------------
(* Money. *)

HeldSum == SumOver(Amounts(escrow), {i \in Invoice : escrow[i].status = "Held"})

(* The contract always holds the money of every Held escrow, so each can be  *)
(* released or refunded; and it holds nothing else, unless it collects the   *)
(* fees itself because no treasury is set.                                   *)
Solvency ==
    /\ balance[Contract] >= StartBalance[Contract] + HeldSum
    /\ Treasury # Contract => balance[Contract] = StartBalance[Contract] + HeldSum

Repaid(i) == investment[i].status = "Completed"

(* What a participant has lent and not got back, has earned, has received as *)
(* a business, and has paid.                                                 *)
LentIn(p) == {i \in Invoice : escrow[i].investor = p /\ escrow[i].status # "Refunded"}
EarnedIn(p) == {i \in Invoice : investment[i].investor = p /\ Repaid(i)}
ReceivedIn(p) == {i \in Invoice : escrow[i].payee = p /\ escrow[i].status = "Released"}
PaidIn(p) == {i \in Invoice : OwnerOf[i] = p /\ Repaid(i)}

Proceeds == [i \in Invoice |-> Face[i] - PlatformFee(i, Face[i])]

(* Every balance is what the escrow records and the settled invoices add up  *)
(* to: a participant is out of pocket for the principals it lent and did not *)
(* get back and for the faces it paid, and has gained the face minus the fee *)
(* of each invoice repaid to it and each principal released to it.  No       *)
(* principal is released, refunded, repaid or charged a fee twice.           *)
MoneyFollowsRecords ==
    \A p \in (Investor \cup Business) \ {Treasury} :
        balance[p] = StartBalance[p]
                     - SumOver(Amounts(escrow), LentIn(p)) + SumOver(Proceeds, EarnedIn(p))
                     + SumOver(Amounts(escrow), ReceivedIn(p)) - SumOver(Face, PaidIn(p))

(* settlement.rs: settling pays the investor the whole principal or more,    *)
(* fees come out of profit only.                                             *)
InvestorMadeWhole ==
    [][\A i \in Invoice : investment'[i].status = "Completed" /\ ~Repaid(i) =>
           balance'[investment[i].investor] >=
               balance[investment[i].investor] + investment[i].amount]_vars

(* settlement.rs, "Preserves total_paid <= amount": no sequence of capped,   *)
(* repeated and final payments overpays an invoice, an invoice paid in full  *)
(* is settled in the same call, and only a Paid invoice counts as paid.      *)
PaidInFullIsSettled ==
    \A i \in Invoice :
        /\ invoice[i].paid <= Face[i]
        /\ invoice[i].paid = Face[i] <=> invoice[i].status = "Paid"

(* settlement.rs, "Guards against replayed transaction identifiers": every   *)
(* payment that counts uses up a transaction id of its invoice, except a     *)
(* payment with the empty id.                                                *)
ReplayNeverCounts ==
    [][\A i \in Invoice :
           EmptyNonce \notin Nonce /\ invoice'[i].paid > invoice[i].paid =>
               nonces'[i] # nonces[i]]_vars

----------------------------------------------------------------------------
(* Life cycle. *)

(* lifecycle.md INV-6: a terminal status is final.                           *)
TerminalIsFinal ==
    [][\A i \in Invoice :
           invoice[i].status \in {"Paid", "Defaulted", "Refunded", "Cancelled"} =>
               invoice'[i].status = invoice[i].status]_vars

(* defaults.rs: an invoice defaults only when it is overdue, whichever grace *)
(* period the caller passes.                                                 *)
NoEarlyDefault ==
    [][\A i \in Invoice :
           invoice'[i].status = "Defaulted" /\ invoice[i].status # "Defaulted" =>
               now > Due[i] /\ invoice[i].status = "Funded"]_vars

----------------------------------------------------------------------------
(* InvoiceFinancing implements FundingDeal: the phase of a deal is read off  *)
(* its escrow and its investment, custody is the contract's balance.         *)

PhaseOf(i) ==
    CASE escrow[i].status = "Refunded"        -> "Returned"
      [] investment[i].status = "Completed"   -> "Repaid"
      [] investment[i].status = "Defaulted" /\ escrow[i].status = "Held" -> "Stranded"
      [] investment[i].status = "Defaulted" /\ escrow[i].status # "Held" -> "Lost"
      [] investment[i].status = "Active" /\ escrow[i].status = "Held" -> "Escrowed"
      [] investment[i].status = "Active" /\ escrow[i].status = "Released" -> "Advanced"
      [] OTHER                                -> "Open"

Promise == INSTANCE FundingDeal WITH
    Deal <- Invoice, Funder <- Investor, NoFunder <- NoOne, Opening <- StartBalance[Contract],
    phase <- [i \in Invoice |-> PhaseOf(i)],
    funder <- [i \in Invoice |-> investment[i].investor],
    principal <- [i \in Invoice |-> investment[i].amount],
    custody <- balance[Contract]

(* Whatever the callers do, a deal is funded once, its principal leaves the  *)
(* contract once and a deal that is over stays over.                         *)
ImplementsDeal == Promise!Spec

----------------------------------------------------------------------------
(* What the documents and tests say and the code does not do. *)

(* test_escrow.rs: "Mismatched invoice/bid pair must fail": accepting a bid  *)
(* funds the invoice the bid was placed on.                                  *)
AcceptFundsItsInvoice ==
    [][\A b \in Bid : bid'[b].status = "Accepted" /\ bid[b].status # "Accepted" =>
           invoice'[bid[b].invoice].status = "Funded"]_vars

(* lifecycle.md, note to INV-1: no Held escrow exists for a Defaulted        *)
(* invoice.                                                                  *)
NoHeldOnDefaulted ==
    \A i \in Invoice : invoice[i].status = "Defaulted" => escrow[i].status # "Held"

(* verification.rs, validate_investor_investment: live bids and funded       *)
(* investments together stay within the investor's limit.                    *)
InvestedWithinLimit ==
    \A v \in Investor :
        SumOver(Amounts(bid), LiveBidsOf(v)) +
        SumOver(Amounts(investment), {i \in active : investment[i].investor = v}) <= Limit[v]

(* lib.rs, cancel_invoice: "only works if Pending or Verified".              *)
CancelOnlyUnfunded ==
    [][\A i \in Invoice :
           invoice'[i].status = "Cancelled" /\ invoice[i].status # "Cancelled" =>
               invoice[i].status \in {"Pending", "Verified"}]_vars
=============================================================================
