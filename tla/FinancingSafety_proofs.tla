------------------------ MODULE FinancingSafety_proofs ------------------------
(***************************************************************************)
(* The safety properties of FinancingProperties, for any number of         *)
(* invoices, bids and participants.  Those about bids hold whatever the    *)
(* callers do; the others assume that no caller uses an entry point that   *)
(* skips a check, as update_invoice_status does, which sets any status.    *)
(* Last come those about sums and counts, for finitely many of them.       *)
(***************************************************************************)
EXTENDS InvoiceFinancing_proofs, Collections_proofs

(* Nobody uses an entry point that skips a check. *)
Careful == Unchecked = {}

----------------------------------------------------------------------------
(* The bid indexes.  To what BidIndexesComplete says the invariant adds that *)
(* no index lists a bid that was never placed, which a later bid would be    *)
(* taken for.                                                                *)

IndexesOK(bs, ofInvoice, ofInvestor) ==
    /\ \A i \in Invoice : \A b \in ofInvoice[i] : bs[b].status # Absent /\ bs[b].invoice = i
    /\ \A v \in Investor : \A b \in ofInvestor[v] : bs[b].status # Absent /\ bs[b].investor = v
    /\ \A b \in Bid : bs[b].status \notin {Absent, "Expired"} =>
           b \in ofInvoice[bs[b].invoice] /\ b \in ofInvestor[bs[b].investor]

IndexInv == IndexesOK(bid, invoiceBids, investorBids)

(* Bids that expire, in whatever index, leave both indexes in order. *)
LEMMA ExpireIndexes ==
    ASSUME NEW bs \in [Bid -> BidRow], NEW ids, NEW ofInvoice, NEW ofInvestor,
           ofInvoice \in [Invoice -> SUBSET Bid], ofInvestor \in [Investor -> SUBSET Bid],
           IndexesOK(bs, ofInvoice, ofInvestor)
    PROVE  IndexesOK(Expire(bs, ids), ofInvoice, ofInvestor)
<1> DEFINE after == Expire(bs, ids)
<1>1. \A b \in Bid : /\ after[b].invoice = bs[b].invoice /\ after[b].investor = bs[b].investor
                     /\ \/ after[b].status = bs[b].status
                        \/ bs[b].status = "Placed" /\ after[b].status = "Expired"
  BY ExpireEffect
<1> HIDE DEF after
<1>2. ASSUME NEW i \in Invoice, NEW b \in ofInvoice[i]
      PROVE  after[b].status # Absent /\ after[b].invoice = i
  <2>1. b \in Bid /\ bs[b].status # Absent /\ bs[b].invoice = i
    BY <1>2 DEF IndexesOK
  <2> QED BY <1>1, <2>1 DEF Absent
<1>3. ASSUME NEW v \in Investor, NEW b \in ofInvestor[v]
      PROVE  after[b].status # Absent /\ after[b].investor = v
  <2>1. b \in Bid /\ bs[b].status # Absent /\ bs[b].investor = v
    BY <1>3 DEF IndexesOK
  <2> QED BY <1>1, <2>1 DEF Absent
<1>4. ASSUME NEW b \in Bid, after[b].status \notin {Absent, "Expired"}
      PROVE  b \in ofInvoice[after[b].invoice] /\ b \in ofInvestor[after[b].investor]
  <2>1. after[b].status = bs[b].status
    BY <1>1, <1>4
  <2> QED BY <1>1, <1>4, <2>1 DEF IndexesOK
<1>5. IndexesOK(after, ofInvoice, ofInvestor)
  BY <1>2, <1>3, <1>4 DEF IndexesOK
<1> QED BY <1>5 DEF after

(* Dropping Expired bids from either index leaves it in order. *)
LEMMA PruneIndexes ==
    ASSUME NEW bs, NEW ofInvoice, NEW ofInvestor, NEW pruned, NEW prunedInvestor,
           IndexesOK(bs, ofInvoice, ofInvestor),
           \A i \in Invoice : pruned[i] \in {ofInvoice[i], Prune(bs, ofInvoice[i])},
           \A v \in Investor : prunedInvestor[v] \in {ofInvestor[v], Prune(bs, ofInvestor[v])},
           \A b \in Bid : bs[b].status # Absent =>
               bs[b].invoice \in Invoice /\ bs[b].investor \in Investor
    PROVE  IndexesOK(bs, pruned, prunedInvestor)
BY DEF IndexesOK, Prune

(* The rows of the bids once the indexes of some invoices are cleaned. *)
LEMMA CleanedBids ==
    ASSUME IInv, NEW S \in SUBSET Invoice
    PROVE  \A b \in Bid : CleanBids(S)[b].status # Absent =>
               CleanBids(S)[b].invoice \in Invoice /\ CleanBids(S)[b].investor \in Investor
BY CleanEffect DEF IInv, BidInv, Absent

LEMMA CleanIndexes ==
    ASSUME IInv, IndexInv, NEW S \in SUBSET Invoice
    PROVE  IndexesOK(CleanBids(S), CleanIndex(S), investorBids)
<1>1. IndexesOK(CleanBids(S), invoiceBids, investorBids)
  BY ExpireIndexes DEF IInv, TypeOK, IndexInv, CleanBids
<1>2. \A i \in Invoice : CleanIndex(S)[i] \in {invoiceBids[i], Prune(CleanBids(S), invoiceBids[i])}
  BY DEF CleanIndex
<1> QED BY <1>1, <1>2, CleanedBids, PruneIndexes

LEMMA InitIndex == Init => IndexInv
BY DEF Init, IndexInv, IndexesOK, NoBid

(* A bid that is there, and not Expired, may change to any status but None.  *)
LEMMA RestatusIndexes ==
    ASSUME NEW bs \in [Bid -> BidRow], NEW ofInvoice, NEW ofInvestor, NEW b \in Bid, NEW st,
           ofInvoice \in [Invoice -> SUBSET Bid], ofInvestor \in [Investor -> SUBSET Bid],
           IndexesOK(bs, ofInvoice, ofInvestor), st # Absent,
           bs[b].status \notin {Absent, "Expired"}
    PROVE  IndexesOK([bs EXCEPT ![b].status = st], ofInvoice, ofInvestor)
<1> DEFINE after == [bs EXCEPT ![b].status = st]
<1>1. /\ after[b].status = st
      /\ \A c \in Bid : /\ after[c].invoice = bs[c].invoice /\ after[c].investor = bs[c].investor
                        /\ c # b => after[c].status = bs[c].status
  BY DEF BidRow
<1> HIDE DEF after
<1> QED BY <1>1 DEF IndexesOK

LEMMA PlaceBidIndex ==
    ASSUME IInv, IndexInv, NEW v \in Investor, NEW i \in Invoice, NEW amount \in BidAmounts,
           NEW b \in Bid, PlaceBid(v, i, amount, b)
    PROVE  IndexInv'
<1> DEFINE capped  == MaxActiveBids > 0
           cleaned == CleanBids({i})
           bs  == IF capped THEN Expire(cleaned, investorBids[v]) ELSE cleaned
           own == IF capped THEN Prune(bs, investorBids[v]) ELSE investorBids[v]
           row == [status |-> "Placed", invoice |-> i, investor |-> v,
                   amount |-> amount, expires |-> now + BidTTL]
           idx == CleanIndex({i})
           pruned == [investorBids EXCEPT ![v] = own]
<1>1. /\ bid[b].status = Absent
      /\ bid' = [bs EXCEPT ![b] = row]
      /\ invoiceBids' = [invoiceBids EXCEPT ![i] = CleanIndex({i})[i] \cup {b}]
      /\ investorBids' = [investorBids EXCEPT ![v] = own \cup {b}]
  BY DEF PlaceBid
<1>2. /\ cleaned \in [Bid -> BidRow] /\ idx \in [Invoice -> SUBSET Bid]
      /\ investorBids \in [Investor -> SUBSET Bid] /\ invoiceBids \in [Invoice -> SUBSET Bid]
      /\ cleaned[b].status = Absent
      /\ \A k \in Invoice \ {i} : idx[k] = invoiceBids[k]
  <2>1. cleaned \in [Bid -> BidRow] /\ idx \in [Invoice -> SUBSET Bid]
    BY CleanEffect DEF IInv
  <2>2. cleaned[b].status = Absent
    BY <1>1, CleanEffect DEF IInv, Absent
  <2>3. \A k \in Invoice \ {i} : idx[k] = invoiceBids[k]
    BY DEF CleanIndex
  <2> QED BY <2>1, <2>2, <2>3 DEF IInv, TypeOK
<1>3. IndexesOK(cleaned, idx, investorBids)
  BY CleanIndexes
<1>4. \A c \in Bid : cleaned[c].status # Absent =>
          cleaned[c].invoice \in Invoice /\ cleaned[c].investor \in Investor
  BY CleanedBids
<1> HIDE DEF cleaned, idx
<1>5. /\ bs \in [Bid -> BidRow] /\ bs[b].status = Absent
      /\ IndexesOK(bs, idx, investorBids)
      /\ \A c \in Bid : bs[c].status # Absent =>
             bs[c].invoice \in Invoice /\ bs[c].investor \in Investor
  <2>1. CASE capped
    <3> DEFINE expired == Expire(cleaned, investorBids[v])
    <3>1. IndexesOK(expired, idx, investorBids)
      BY <1>2, <1>3, ExpireIndexes
    <3>2. /\ expired \in [Bid -> BidRow]
          /\ \A c \in Bid :
              /\ expired[c].invoice = cleaned[c].invoice
              /\ expired[c].investor = cleaned[c].investor
              /\ cleaned[c].status = Absent <=> expired[c].status = Absent
      BY <1>2, ExpireEffect DEF Absent
    <3>3. bs = expired
      BY <2>1
    <3> HIDE DEF bs, expired
    <3> QED BY <1>2, <1>4, <3>1, <3>2, <3>3
  <2>2. CASE ~capped
    BY <2>2, <1>2, <1>3, <1>4
  <2> QED BY <2>1, <2>2
<1> HIDE DEF bs
<1>6. /\ pruned \in [Investor -> SUBSET Bid]
      /\ \A w \in Investor : pruned[w] \in {investorBids[w], Prune(bs, investorBids[w])}
  BY <1>2 DEF Prune
<1>7. IndexesOK(bs, idx, pruned)
  BY <1>5, <1>6, PruneIndexes
<1>8. /\ bid'[b].status = "Placed" /\ bid'[b].invoice = i /\ bid'[b].investor = v
      /\ \A c \in Bid \ {b} : bid'[c] = bs[c]
      /\ invoiceBids'[i] = idx[i] \cup {b}
      /\ \A k \in Invoice \ {i} : invoiceBids'[k] = idx[k]
      /\ investorBids'[v] = pruned[v] \cup {b}
      /\ \A w \in Investor \ {v} : investorBids'[w] = pruned[w]
  <2>1. bid'[b] = row /\ \A c \in Bid \ {b} : bid'[c] = bs[c]
    BY <1>1, <1>5
  <2>2. invoiceBids'[i] = idx[i] \cup {b} /\ \A k \in Invoice \ {i} : invoiceBids'[k] = idx[k]
    BY <1>1, <1>2 DEF idx
  <2>3. /\ investorBids'[v] = pruned[v] \cup {b}
        /\ \A w \in Investor \ {v} : investorBids'[w] = pruned[w]
    <3> HIDE DEF own
    <3> QED BY <1>1, <1>2
  <2> QED BY <2>1, <2>2, <2>3
<1> HIDE DEF pruned
<1>9. /\ \A k \in Invoice : b \notin idx[k]
      /\ \A w \in Investor : b \notin pruned[w]
  BY <1>5, <1>7 DEF IndexesOK
<1>10. \A k \in Invoice : \A c \in invoiceBids'[k] :
          bid'[c].status # Absent /\ bid'[c].invoice = k
  <2> SUFFICES ASSUME NEW k \in Invoice, NEW c \in invoiceBids'[k]
               PROVE  bid'[c].status # Absent /\ bid'[c].invoice = k
    OBVIOUS
  <2>1. CASE c = b
    BY <1>8, <1>9, <2>1 DEF Absent
  <2>2. CASE c # b
    <3>1. c \in idx[k] /\ c \in Bid
      BY <1>2, <1>8, <2>2
    <3> QED BY <1>7, <1>8, <2>2, <3>1 DEF IndexesOK
  <2> QED BY <2>1, <2>2
<1>11. \A w \in Investor : \A c \in investorBids'[w] :
          bid'[c].status # Absent /\ bid'[c].investor = w
  BY <1>6, <1>7, <1>8, <1>9 DEF IndexesOK, Absent
<1>12. ASSUME NEW c \in Bid, bid'[c].status \notin {Absent, "Expired"}
       PROVE  c \in invoiceBids'[bid'[c].invoice] /\ c \in investorBids'[bid'[c].investor]
  <2>1. CASE c = b
    BY <1>8, <2>1
  <2>2. CASE c # b
    <3>1. bs[c].invoice \in Invoice /\ bs[c].investor \in Investor
      BY <1>5, <1>8, <1>12, <2>2
    <3>2. c \in idx[bs[c].invoice] /\ c \in pruned[bs[c].investor]
      BY <1>7, <1>8, <1>12, <2>2 DEF IndexesOK
    <3> QED BY <1>8, <2>2, <3>1, <3>2
  <2> QED BY <2>1, <2>2
<1> QED BY <1>10, <1>11, <1>12 DEF IndexInv, IndexesOK

LEMMA FundIndex ==
    ASSUME IInv, IndexInv, NEW i \in Invoice, NEW j \in Invoice, NEW b \in Bid,
           NEW S \in SUBSET Invoice, CleanBids(S)[b].status = "Placed",
           invoiceBids' = CleanIndex(S), Fund(i, j, b, CleanBids(S))
    PROVE  IndexInv'
<1>1. IndexesOK(CleanBids(S), CleanIndex(S), investorBids)
  BY CleanIndexes
<1>2. /\ CleanBids(S) \in [Bid -> BidRow] /\ CleanIndex(S) \in [Invoice -> SUBSET Bid]
      /\ investorBids \in [Investor -> SUBSET Bid]
  BY CleanEffect DEF IInv, TypeOK
<1>3. bid' = [CleanBids(S) EXCEPT ![b].status = "Accepted"] /\ investorBids' = investorBids
  BY DEF Fund
<1>4. IndexesOK([CleanBids(S) EXCEPT ![b].status = "Accepted"], CleanIndex(S), investorBids)
  BY <1>1, <1>2, RestatusIndexes DEF Absent
<1> QED BY <1>3, <1>4 DEF IndexInv

LEMMA RefundIndex ==
    ASSUME IInv, IndexInv, NEW i \in Invoice, RefundEscrow(i)
    PROVE  IndexInv'
<1> DEFINE bs == CleanBids({i})
<1>1. IndexesOK(bs, CleanIndex({i}), investorBids)
  BY CleanIndexes
<1>2. /\ bs \in [Bid -> BidRow] /\ CleanIndex({i}) \in [Invoice -> SUBSET Bid]
      /\ investorBids \in [Investor -> SUBSET Bid]
  BY CleanEffect DEF IInv, TypeOK
<1>3. /\ invoiceBids' = CleanIndex({i}) /\ investorBids' = investorBids
      /\ \/ bid' = bs
         \/ \E b \in Bid : bs[b].status = "Accepted" /\ bid' = [bs EXCEPT ![b].status = "Cancelled"]
  BY <1>2 DEF RefundEscrow, CancelAcceptedBid
<1> HIDE DEF bs
<1>4. CASE bid' = bs
  BY <1>1, <1>3, <1>4 DEF IndexInv
<1>5. ASSUME NEW b \in Bid, bs[b].status = "Accepted", bid' = [bs EXCEPT ![b].status = "Cancelled"]
      PROVE  IndexInv'
  <2>1. IndexesOK([bs EXCEPT ![b].status = "Cancelled"], CleanIndex({i}), investorBids)
    BY <1>1, <1>2, <1>5, RestatusIndexes DEF Absent
  <2> QED BY <1>3, <1>5, <2>1 DEF IndexInv
<1> QED BY <1>3, <1>4, <1>5

LEMMA CloseBidIndex ==
    ASSUME IInv, IndexInv, NEW b \in Bid, WithdrawBid(b) \/ CancelBid(b)
    PROVE  IndexInv'
<1>1. PICK st \in {"Withdrawn", "Cancelled"} :
          /\ bid[b].status = "Placed" /\ bid' = [bid EXCEPT ![b].status = st]
          /\ UNCHANGED <<invoiceBids, investorBids>>
  BY DEF WithdrawBid, CancelBid, CloseBid
<1>2. IndexesOK([bid EXCEPT ![b].status = st], invoiceBids, investorBids)
  BY <1>1, RestatusIndexes DEF IInv, TypeOK, IndexInv, Absent
<1> QED BY <1>1, <1>2 DEF IndexInv

(* The calls that touch no bid. *)
KeepsBids(i) ==
    \/ StoreInvoice(i) \/ UploadInvoice(i) \/ VerifyInvoice(i) \/ CancelInvoice(i)
    \/ ReleaseEscrow(i) \/ HandleDefault(i)
    \/ \E st \in {"Verified", "Paid", "Defaulted", "Funded"} : UpdateInvoiceStatus(i, st)
    \/ \E grace \in GracePeriods : DefaultAfterGrace(i, grace)
    \/ \E amount \in PayAmounts, n \in Nonce : PartialPayment(i, amount, n)
    \/ \E amount \in PayAmounts : SettleInvoice(i, amount)

LEMMA CallsKeepBids ==
    ASSUME (\E i \in Invoice : KeepsBids(i)) \/ Tick \/ UNCHANGED vars
    PROVE  UNCHANGED bidVars
<1>1. ASSUME NEW i \in Invoice, KeepsBids(i) PROVE UNCHANGED bidVars
  BY <1>1 DEF KeepsBids, StoreInvoice, UploadInvoice, VerifyInvoice, CancelInvoice, ReleaseEscrow,
              HandleDefault, UpdateInvoiceStatus, DefaultAfterGrace, Default, PartialPayment,
              SettleInvoice, Settle
<1> QED BY <1>1 DEF Tick, vars, bidVars

LEMMA NextIndex == ASSUME IInv, IndexInv, [Next]_vars PROVE IndexInv'
<1>1. CASE UNCHANGED bidVars  BY <1>1 DEF bidVars, IndexInv
<1>2. ASSUME NEW i \in Invoice, CleanupExpiredBids(i) PROVE IndexInv'
  BY <1>2, CleanIndexes DEF CleanupExpiredBids, IndexInv
<1>3. ASSUME NEW i \in Invoice, NEW v \in Investor, NEW amount \in BidAmounts, NEW b \in Bid,
             PlaceBid(v, i, amount, b)
      PROVE  IndexInv'
  BY <1>3, PlaceBidIndex
<1>4. ASSUME NEW i \in Invoice, NEW b \in Bid, AcceptBidAndFund(i, b) PROVE IndexInv'
  BY <1>4, FundIndex DEF AcceptBidAndFund
<1>5. ASSUME NEW i \in Invoice, NEW b \in Bid, AcceptBid(i, b) PROVE IndexInv'
  <2>1. bid[b].invoice \in Invoice
    BY <1>5 DEF AcceptBid, IInv, BidInv
  <2> QED BY <1>5, <2>1, FundIndex DEF AcceptBid
<1>6. ASSUME NEW i \in Invoice, RefundEscrow(i) PROVE IndexInv'
  BY <1>6, RefundIndex
<1>7. ASSUME NEW b \in Bid, WithdrawBid(b) \/ CancelBid(b) PROVE IndexInv'
  BY <1>7, CloseBidIndex
<1> QED BY <1>1, <1>2, <1>3, <1>4, <1>5, <1>6, <1>7, CallsKeepBids DEF Next, KeepsBids

(* Both bid indexes list every bid that counts and no bid of somebody else,  *)
(* however bids, clean-ups, deals and refunds follow each other.             *)
THEOREM BidIndexes == Spec => []BidIndexesComplete
<1>1. Init => IInv /\ IndexInv
  BY InitInv, InitIndex
<1>2. IInv /\ IndexInv /\ [Next]_vars => IInv' /\ IndexInv'
  BY NextInv, NextIndex
<1>3. IndexInv => BidIndexesComplete
  BY DEF IndexInv, IndexesOK, BidIndexesComplete
<1> QED BY <1>1, <1>2, <1>3, PTL DEF Spec

----------------------------------------------------------------------------
(* What a step does to the bids that are Accepted. *)

BidStays(b) ==
    /\ bid[b].status \in {"Withdrawn", "Cancelled", "Expired", "Accepted"} => bid'[b] = bid[b]
    /\ bid'[b].status = "Accepted" => bid[b].status = "Accepted"

LEMMA ExpireKeepsClosed ==
    ASSUME NEW bs \in [Bid -> BidRow], NEW ids, NEW b \in Bid
    PROVE  /\ bs[b].status # "Placed" => Expire(bs, ids)[b] = bs[b]
           /\ Expire(bs, ids)[b].status = "Accepted" => bs[b].status = "Accepted"
BY DEF Expire, Lapsed, BidRow

LEMMA CleanKeepsClosed ==
    ASSUME IInv, NEW S \in SUBSET Invoice, NEW b \in Bid
    PROVE  /\ bid[b].status # "Placed" => CleanBids(S)[b] = bid[b]
           /\ CleanBids(S)[b].status = "Accepted" => bid[b].status = "Accepted"
<1>1. bid \in [Bid -> BidRow]
  BY DEF IInv, TypeOK
<1> QED BY <1>1, ExpireKeepsClosed DEF CleanBids

LEMMA PlaceBidStays ==
    ASSUME IInv, NEW v \in Investor, NEW i \in Invoice, NEW amount, NEW b \in Bid,
           PlaceBid(v, i, amount, b), NEW c \in Bid
    PROVE  BidStays(c)
<1> DEFINE cleaned == CleanBids({i})
           expired == Expire(cleaned, investorBids[v])
           bs  == IF MaxActiveBids > 0 THEN expired ELSE cleaned
           row == [status |-> "Placed", invoice |-> i, investor |-> v,
                   amount |-> amount, expires |-> now + BidTTL]
<1>1. bid[b].status = Absent /\ bid' = [bs EXCEPT ![b] = row]
  BY DEF PlaceBid
<1>2. cleaned \in [Bid -> BidRow]
  BY CleanEffect DEF IInv
<1>3. /\ bid[c].status # "Placed" => cleaned[c] = bid[c]
      /\ cleaned[c].status = "Accepted" => bid[c].status = "Accepted"
  BY CleanKeepsClosed
<1> HIDE DEF cleaned
<1>4. /\ cleaned[c].status # "Placed" => expired[c] = cleaned[c]
      /\ expired[c].status = "Accepted" => cleaned[c].status = "Accepted"
      /\ expired \in [Bid -> BidRow]
  BY <1>2, ExpireKeepsClosed, ExpireEffect
<1> HIDE DEF expired
<1>5. /\ bid[c].status # "Placed" => bs[c] = bid[c]
      /\ bs[c].status = "Accepted" => bid[c].status = "Accepted"
      /\ bs \in [Bid -> BidRow]
  BY <1>2, <1>3, <1>4
<1> HIDE DEF bs
<1>6. CASE c = b
  BY <1>1, <1>5, <1>6 DEF BidStays, Absent
<1>7. CASE c # b
  BY <1>1, <1>5, <1>7 DEF BidStays
<1> QED BY <1>6, <1>7

(* No bid action touches a bid that is over or Accepted. *)
LEMMA BidActionsStay ==
    ASSUME IInv, NEW c \in Bid,
           \/ UNCHANGED bid
           \/ \E i \in Invoice : CleanupExpiredBids(i)
           \/ \E b \in Bid : WithdrawBid(b) \/ CancelBid(b)
           \/ \E v \in Investor, i \in Invoice, amount \in BidAmounts, b \in Bid :
                  PlaceBid(v, i, amount, b)
    PROVE  BidStays(c)
<1>1. CASE UNCHANGED bid  BY <1>1 DEF BidStays
<1>2. ASSUME NEW i \in Invoice, CleanupExpiredBids(i) PROVE BidStays(c)
  BY <1>2, CleanKeepsClosed DEF CleanupExpiredBids, BidStays
<1>3. ASSUME NEW b \in Bid, WithdrawBid(b) \/ CancelBid(b) PROVE BidStays(c)
  <2>1. PICK st \in {"Withdrawn", "Cancelled"} :
            bid[b].status = "Placed" /\ bid' = [bid EXCEPT ![b].status = st]
    BY <1>3 DEF WithdrawBid, CancelBid, CloseBid
  <2> QED BY <2>1 DEF BidStays, IInv, TypeOK, BidRow
<1> QED BY <1>1, <1>2, <1>3, PlaceBidStays

(* Accepting turns a Placed bid into an Accepted one and leaves the others.  *)
LEMMA FundBids ==
    ASSUME IInv, NEW i, NEW j, NEW b \in Bid, NEW S \in SUBSET Invoice,
           CleanBids(S)[b].status = "Placed", Fund(i, j, b, CleanBids(S))
    PROVE  /\ bid[b].status = "Placed" /\ bid'[b].status = "Accepted"
           /\ bid'[b].invoice = bid[b].invoice /\ bid'[b].investor = bid[b].investor
           /\ bid'[b].amount = bid[b].amount
           /\ \A c \in Bid \ {b} : BidStays(c)
<1> DEFINE bs == CleanBids(S)
<1>1. bid' = [bs EXCEPT ![b].status = "Accepted"]
  BY DEF Fund
<1>2. /\ bs \in [Bid -> BidRow] /\ bid[b].status = "Placed"
      /\ bs[b].invoice = bid[b].invoice /\ bs[b].investor = bid[b].investor
      /\ bs[b].amount = bid[b].amount
  BY CleanEffect DEF IInv
<1>3. \A c \in Bid : /\ bid[c].status # "Placed" => bs[c] = bid[c]
                     /\ bs[c].status = "Accepted" => bid[c].status = "Accepted"
  BY CleanKeepsClosed
<1> HIDE DEF bs
<1> QED BY <1>1, <1>2, <1>3 DEF BidStays, BidRow

(* A refund cancels at most one Accepted bid, a bid of the invoice.          *)
LEMMA RefundBids ==
    ASSUME IInv, IndexInv, NEW i \in Invoice, RefundEscrow(i)
    PROVE  \/ /\ \A c \in Bid : BidStays(c)
              /\ \A c \in CleanIndex({i})[i] : bid[c].status # "Accepted"
           \/ \E b \in Bid :
                 /\ bid[b].status = "Accepted" /\ bid[b].invoice = i
                 /\ bid'[b] = [bid[b] EXCEPT !.status = "Cancelled"]
                 /\ \A c \in Bid \ {b} : BidStays(c)
<1> DEFINE bs == CleanBids({i})
           ids == CleanIndex({i})[i]
<1>1. bs \in [Bid -> BidRow] /\ ids \in SUBSET Bid
  BY CleanEffect DEF IInv
<1>2. \A c \in Bid : /\ bid[c].status # "Placed" => bs[c] = bid[c]
                     /\ bs[c].status = "Accepted" => bid[c].status = "Accepted"
  BY CleanKeepsClosed
<1>3. \A c \in ids : bs[c].invoice = i
  BY CleanIndexes DEF IndexesOK
<1>4. \/ bid' = bs /\ \A c \in ids : bs[c].status # "Accepted"
      \/ \E b \in ids : bs[b].status = "Accepted" /\ bid' = [bs EXCEPT ![b].status = "Cancelled"]
  BY DEF RefundEscrow, CancelAcceptedBid
<1> HIDE DEF bs, ids
<1>5. CASE bid' = bs /\ \A c \in ids : bs[c].status # "Accepted"
  <2>1. \A c \in ids : bid[c].status # "Accepted"
    BY <1>1, <1>2, <1>5
  <2>2. \A c \in Bid : BidStays(c)
    BY <1>2, <1>5 DEF BidStays
  <2> QED BY <2>1, <2>2 DEF ids
<1>6. ASSUME NEW b \in ids, bs[b].status = "Accepted", bid' = [bs EXCEPT ![b].status = "Cancelled"]
      PROVE  /\ b \in Bid /\ bid[b].status = "Accepted" /\ bid[b].invoice = i
             /\ bid'[b] = [bid[b] EXCEPT !.status = "Cancelled"]
             /\ \A c \in Bid \ {b} : BidStays(c)
  <2>1. b \in Bid /\ bid[b].status = "Accepted" /\ bs[b] = bid[b] /\ bid[b].invoice = i
    BY <1>1, <1>2, <1>3, <1>6
  <2>2. bid'[b] = [bid[b] EXCEPT !.status = "Cancelled"]
    BY <1>1, <1>6, <2>1
  <2>3. \A c \in Bid \ {b} : bid'[c] = bs[c]
    BY <1>1, <1>6
  <2> QED BY <1>2, <2>1, <2>2, <2>3 DEF BidStays
<1> QED BY <1>4, <1>5, <1>6

LEMMA StepBids ==
    ASSUME IInv, IndexInv, [Next]_vars, NEW c \in Bid
    PROVE  \/ BidStays(c)
           \/ bid[c].status = "Placed"
           \/ /\ bid[c].status = "Accepted"
              /\ bid'[c] = [bid[c] EXCEPT !.status = "Cancelled"]
              /\ escrow[bid[c].invoice].status = "Held"
              /\ escrow'[bid[c].invoice].status = "Refunded"
<1> DEFINE Goal == \/ BidStays(c)
                   \/ bid[c].status = "Placed"
                   \/ /\ bid[c].status = "Accepted"
                      /\ bid'[c] = [bid[c] EXCEPT !.status = "Cancelled"]
                      /\ escrow[bid[c].invoice].status = "Held"
                      /\ escrow'[bid[c].invoice].status = "Refunded"
<1>1. ASSUME NEW i \in Invoice, RefundEscrow(i) PROVE Goal
  <2>1. escrow[i].status = "Held" /\ escrow'[i].status = "Refunded"
    BY <1>1 DEF RefundEscrow, IInv, TypeOK, EscrowRow
  <2>2. CASE \A d \in Bid : BidStays(d)
    BY <2>2
  <2>3. ASSUME NEW b \in Bid, bid[b].status = "Accepted", bid[b].invoice = i,
               bid'[b] = [bid[b] EXCEPT !.status = "Cancelled"],
               \A d \in Bid \ {b} : BidStays(d)
        PROVE  Goal
    <3>1. CASE c = b
      BY <2>1, <2>3, <3>1
    <3>2. CASE c # b
      BY <2>3, <3>2
    <3> QED BY <3>1, <3>2
  <2> HIDE DEF Goal
  <2> QED BY <1>1, <2>2, <2>3, RefundBids
<1>2. ASSUME NEW i \in Invoice, NEW b \in Bid, AcceptBidAndFund(i, b) \/ AcceptBid(i, b)
      PROVE  Goal
  <2>1. CASE AcceptBidAndFund(i, b)
    BY <2>1, FundBids DEF AcceptBidAndFund
  <2>2. CASE AcceptBid(i, b)
    <3>1. bid[b].invoice \in Invoice
      BY <2>2 DEF AcceptBid, IInv, BidInv
    <3> QED BY <2>2, <3>1, FundBids DEF AcceptBid
  <2> QED BY <1>2, <2>1, <2>2
<1>3. ASSUME \/ \E i \in Invoice : CleanupExpiredBids(i)
             \/ \E b \in Bid : WithdrawBid(b) \/ CancelBid(b)
             \/ \E i \in Invoice, v \in Investor, amount \in BidAmounts, b \in Bid :
                    PlaceBid(v, i, amount, b)
      PROVE  BidStays(c)
  BY <1>3, BidActionsStay
<1>4. ASSUME UNCHANGED bid PROVE BidStays(c)
  BY <1>4 DEF BidStays
<1>5. ASSUME (\E i \in Invoice : KeepsBids(i)) \/ Tick \/ UNCHANGED vars PROVE UNCHANGED bid
  BY <1>5, CallsKeepBids DEF bidVars
<1> HIDE DEF Goal
<1>6. BidStays(c) => Goal
  BY DEF Goal
<1>7. Goal
  BY <1>1, <1>2, <1>3, <1>4, <1>5, <1>6 DEF Next, KeepsBids
<1> QED BY <1>7 DEF Goal

(* A bid that is over is never touched again, and an Accepted one only by    *)
(* the refund of its own escrow: the refund finds it in the index.           *)
THEOREM BidsStayTerminal == Spec => TerminalBidsStay
<1> DEFINE Stays(b) ==
        /\ bid[b].status \in {"Withdrawn", "Cancelled", "Expired"} => bid'[b] = bid[b]
        /\ bid[b].status = "Accepted" =>
               \/ bid'[b] = bid[b]
               \/ /\ bid'[b] = [bid[b] EXCEPT !.status = "Cancelled"]
                  /\ escrow[bid[b].invoice].status = "Held"
                  /\ escrow'[bid[b].invoice].status = "Refunded"
<1>1. Init => IInv /\ IndexInv
  BY InitInv, InitIndex
<1>2. IInv /\ IndexInv /\ [Next]_vars => IInv' /\ IndexInv'
  BY NextInv, NextIndex
<1>3. ASSUME IInv, IndexInv, [Next]_vars, NEW b \in Bid PROVE Stays(b)
  BY <1>3, StepBids DEF BidStays
<1>4. IInv /\ IndexInv /\ [Next]_vars => [\A b \in Bid : Stays(b)]_vars
  BY <1>3
<1> QED BY <1>1, <1>2, <1>4, PTL DEF Spec, TerminalBidsStay

----------------------------------------------------------------------------
(* The index of active investments. *)

(* Closing an investment takes it from the index and out of status Active.   *)
LEMMA CloseKeepsActive ==
    ASSUME TypeOK, ActiveIndexExact, NEW i \in Invoice,
           NEW st \in InvestmentStatus \ {"Active"}, CloseInvestment(i, st)
    PROVE  ActiveIndexExact'
<1>1. \A k \in Invoice \ {i} : investment'[k] = investment[k]
  BY CloseInvestmentEffect
<1>2. investment'[i].status # "Active"
  BY CloseInvestmentEffect DEF Absent
<1>3. active' = active \ {i}
  BY DEF CloseInvestment
<1> QED BY <1>1, <1>2, <1>3 DEF ActiveIndexExact

LEMMA FundKeepsActive ==
    ASSUME IInv, ActiveIndexExact, NEW i, NEW j \in Invoice, NEW b, NEW bs, Fund(i, j, b, bs)
    PROVE  ActiveIndexExact'
<1>1. investment' = [investment EXCEPT ![j] = [status |-> "Active",
                          investor |-> bs[b].investor, amount |-> bs[b].amount]]
      /\ active' = active \cup {j}
  BY DEF Fund
<1>2. investment'[j].status = "Active"
      /\ \A k \in Invoice \ {j} : investment'[k] = investment[k]
  BY <1>1 DEF IInv, TypeOK
<1> QED BY <1>1, <1>2 DEF ActiveIndexExact

(* The calls that touch no investment. *)
KeepsInvestments(i) ==
    \/ StoreInvoice(i) \/ UploadInvoice(i) \/ VerifyInvoice(i) \/ CancelInvoice(i)
    \/ ReleaseEscrow(i) \/ CleanupExpiredBids(i)
    \/ \E st \in {"Verified", "Paid", "Defaulted", "Funded"} : UpdateInvoiceStatus(i, st)
    \/ \E v \in Investor, amount \in BidAmounts, b \in Bid : PlaceBid(v, i, amount, b)

LEMMA CallsKeepInvestments ==
    ASSUME \/ \E i \in Invoice : KeepsInvestments(i)
           \/ \E b \in Bid : WithdrawBid(b) \/ CancelBid(b)
           \/ Tick \/ UNCHANGED vars
    PROVE  UNCHANGED <<investment, active>>
<1>1. ASSUME NEW i \in Invoice, KeepsInvestments(i) PROVE UNCHANGED <<investment, active>>
  BY <1>1 DEF KeepsInvestments, StoreInvoice, UploadInvoice, VerifyInvoice, CancelInvoice,
              ReleaseEscrow, CleanupExpiredBids, UpdateInvoiceStatus, PlaceBid, dealVars
<1>2. ASSUME NEW b \in Bid, WithdrawBid(b) \/ CancelBid(b) PROVE UNCHANGED <<investment, active>>
  BY <1>2 DEF WithdrawBid, CancelBid, CloseBid, dealVars
<1> QED BY <1>1, <1>2 DEF Tick, vars, dealVars

LEMMA NextActive == ASSUME IInv, ActiveIndexExact, [Next]_vars PROVE ActiveIndexExact'
<1>1. CASE UNCHANGED <<investment, active>>
  BY <1>1 DEF ActiveIndexExact
<1>2. ASSUME NEW i \in Invoice, RefundEscrow(i) PROVE ActiveIndexExact'
  BY <1>2, CloseKeepsActive DEF RefundEscrow, IInv, InvestmentStatus
<1>3. ASSUME NEW i \in Invoice, NEW total, Settle(i, total) PROVE ActiveIndexExact'
  BY <1>3, CloseKeepsActive DEF Settle, IInv, InvestmentStatus
<1>4. ASSUME NEW i \in Invoice, Default(i) PROVE ActiveIndexExact'
  BY <1>4, CloseKeepsActive DEF Default, IInv, InvestmentStatus
<1>5. ASSUME NEW i \in Invoice, NEW b \in Bid, AcceptBidAndFund(i, b) \/ AcceptBid(i, b)
      PROVE  ActiveIndexExact'
  <2>1. CASE AcceptBidAndFund(i, b)
    BY <2>1, FundKeepsActive DEF AcceptBidAndFund
  <2>2. CASE AcceptBid(i, b)
    <3>1. bid[b].invoice \in Invoice
      BY <2>2 DEF AcceptBid, IInv, BidInv
    <3> QED BY <2>2, <3>1, FundKeepsActive DEF AcceptBid
  <2> QED BY <1>5, <2>1, <2>2
<1>6. ASSUME NEW i \in Invoice, NEW amount \in PayAmounts, NEW n \in Nonce,
             PartialPayment(i, amount, n)
      PROVE  ActiveIndexExact'
  <2>1. Settle(i, TotalAfter(i, amount, n)) \/ UNCHANGED <<investment, active>>
    BY <1>6 DEF PartialPayment, dealVars
  <2> QED BY <1>1, <1>3, <2>1
<1>7. ASSUME NEW i \in Invoice, NEW amount \in PayAmounts, SettleInvoice(i, amount)
      PROVE  ActiveIndexExact'
  BY <1>3, <1>7 DEF SettleInvoice
<1>8. ASSUME NEW i \in Invoice,
             HandleDefault(i) \/ \E grace \in GracePeriods : DefaultAfterGrace(i, grace)
      PROVE  ActiveIndexExact'
  BY <1>4, <1>8 DEF HandleDefault, DefaultAfterGrace
<1> QED BY <1>1, <1>2, <1>5, <1>6, <1>7, <1>8, CallsKeepInvestments DEF Next, KeepsInvestments

(* validate_no_orphan_investments never finds anything, whatever entry       *)
(* points the callers use.                                                   *)
THEOREM ActiveInvestmentsListed == Spec => []ActiveIndexExact
<1>1. Init => ActiveIndexExact
  BY DEF Init, ActiveIndexExact, NoInvestment, Absent
<1>2. IInv /\ ActiveIndexExact /\ [Next]_vars => ActiveIndexExact'
  BY NextActive
<1> QED BY <1>1, <1>2, Invariance, PTL DEF Spec

----------------------------------------------------------------------------
(* The life cycle of careful callers: what a step does to an invoice.        *)

(* The statuses of an invoice without a deal. *)
Unfunded == {Absent, "Pending", "Verified", "Cancelled"}

(* Every change of a row, with the list of the old status and of the new.    *)
RowMoves(i) ==
    LET old == invoice[i].status
        new == invoice'[i].status
    IN  /\ byStatus' = Reindexed({i}, old, new)
        /\ invoice' = [invoice EXCEPT ![i] = invoice'[i]]
        /\ \/ old = Absent /\ new = "Pending" /\ invoice'[i].paid = 0
           \/ old = "Pending" /\ new \in {"Verified", "Cancelled"}
              /\ invoice'[i].paid = invoice[i].paid
           \/ old = "Verified" /\ new \in {"Cancelled", "Funded"}
              /\ invoice'[i].paid = invoice[i].paid
           \/ old = "Funded" /\ new = "Refunded" /\ invoice'[i].paid = 0
           \/ old = "Funded" /\ new = "Defaulted" /\ invoice'[i].paid = invoice[i].paid
              /\ now > Due[i]
           \/ /\ old = "Funded" /\ new = "Paid" /\ invoice'[i].paid = Face[i]
              /\ invoice[i].paid < Face[i] => nonces'[i] # nonces[i] \/ EmptyNonce \in Nonce

(* A payment that is recorded and does not settle. *)
Pays(i) ==
    /\ invoice[i].status = "Funded" /\ byStatus' = byStatus
    /\ invoice' = [invoice EXCEPT ![i].paid = invoice'[i].paid]
    /\ invoice'[i].paid \in Nat /\ invoice'[i].paid < Face[i]
    /\ invoice'[i].paid > invoice[i].paid => nonces'[i] # nonces[i] \/ EmptyNonce \in Nonce

LEMMA PaymentUsesNonce ==
    ASSUME TypeOK, NEW i \in Invoice, NEW amount \in Nat, NEW n \in Nonce,
           nonces' = NoncesAfter(i, n), TotalAfter(i, amount, n) # invoice[i].paid
    PROVE  nonces'[i] # nonces[i] \/ EmptyNonce \in Nonce
BY DEF TypeOK, NoncesAfter, TotalAfter, Replayed

LEMMA SettleMoves ==
    ASSUME TypeOK, NEW i \in Invoice, NEW total, invoice[i].status = "Funded", Settle(i, total),
           invoice[i].paid < Face[i] => nonces'[i] # nonces[i] \/ EmptyNonce \in Nonce
    PROVE  RowMoves(i)
<1>1. /\ invoice' = [invoice EXCEPT ![i] = [status |-> "Paid", investor |-> @.investor,
                                           funded |-> @.funded, paid |-> Face[i]]]
      /\ byStatus' = Reindexed({i}, "Funded", "Paid")
  BY DEF Settle
<1>2. invoice'[i].status = "Paid" /\ invoice'[i].paid = Face[i]
      /\ invoice' = [invoice EXCEPT ![i] = invoice'[i]]
  BY <1>1 DEF TypeOK
<1> QED BY <1>1, <1>2 DEF RowMoves

LEMMA PaymentMoves ==
    ASSUME TypeOK, NEW i \in Invoice, NEW amount \in PayAmounts,
           \/ \E n \in Nonce : PartialPayment(i, amount, n)
           \/ SettleInvoice(i, amount)
    PROVE  RowMoves(i) \/ Pays(i)
<1>1. amount \in Nat /\ Face[i] \in Nat /\ invoice[i].paid \in Nat
      /\ SettlementNonce \in Nonce
  BY ConstantsOK DEF TypeOK, InvoiceRow
<1>2. PICK n \in Nonce :
          /\ invoice[i].status = "Funded" /\ nonces' = NoncesAfter(i, n)
          /\ \/ /\ TotalAfter(i, amount, n) < Face[i]
                /\ invoice' = [invoice EXCEPT ![i].paid = TotalAfter(i, amount, n)]
                /\ byStatus' = byStatus
             \/ TotalAfter(i, amount, n) >= Face[i] /\ Settle(i, TotalAfter(i, amount, n))
  BY <1>1 DEF PartialPayment, SettleInvoice, CanRecord, Settle
<1> DEFINE total == TotalAfter(i, amount, n)
<1>3. total \in Nat
  BY <1>1, TotalType
<1>4. total # invoice[i].paid => nonces'[i] # nonces[i] \/ EmptyNonce \in Nonce
  BY <1>1, <1>2, PaymentUsesNonce
<1> HIDE DEF total
<1>5. CASE total >= Face[i] /\ Settle(i, total)
  BY <1>1, <1>2, <1>3, <1>4, <1>5, SettleMoves
<1>6. CASE /\ total < Face[i] /\ byStatus' = byStatus
           /\ invoice' = [invoice EXCEPT ![i].paid = total]
  <2>1. invoice'[i].paid = total
    BY <1>6 DEF TypeOK, InvoiceRow
  <2>2. invoice' = [invoice EXCEPT ![i].paid = invoice'[i].paid]
    BY <1>6, <2>1
  <2>3. invoice'[i].paid > invoice[i].paid => nonces'[i] # nonces[i] \/ EmptyNonce \in Nonce
    BY <1>1, <1>3, <1>4, <2>1
  <2> QED BY <1>2, <1>3, <1>6, <2>1, <2>2, <2>3 DEF Pays
<1> QED BY <1>2, <1>5, <1>6 DEF total

LEMMA StatusMoves ==
    ASSUME TypeOK, NEW i \in Invoice, NEW st, SetStatus(i, st)
    PROVE  /\ byStatus' = Reindexed({i}, invoice[i].status, st)
           /\ invoice' = [invoice EXCEPT ![i] = invoice'[i]]
           /\ invoice'[i].status = st /\ invoice'[i].paid = invoice[i].paid
BY DEF SetStatus, TypeOK, InvoiceRow

LEMMA DefaultMoves ==
    ASSUME TypeOK, NEW i \in Invoice, NEW grace \in GracePeriods, DefaultAfterGrace(i, grace)
    PROVE  RowMoves(i)
<1>1. now > Due[i]
  <2>1. now \in Nat /\ Due[i] \in Nat /\ grace \in Nat
    BY ConstantsOK DEF TypeOK
  <2> QED BY <2>1 DEF DefaultAfterGrace
<1> QED BY <1>1, StatusMoves DEF DefaultAfterGrace, Default, RowMoves

LEMMA FundMoves ==
    ASSUME TypeOK, NEW i \in Invoice, NEW b, NEW bs, invoice[i].status = "Verified",
           Fund(i, i, b, bs)
    PROVE  RowMoves(i)
<1>1. /\ invoice' = [invoice EXCEPT ![i] = [status |-> "Funded", investor |-> bs[b].investor,
                                           funded |-> bs[b].amount, paid |-> @.paid]]
      /\ byStatus' = Reindexed({i, i}, "Verified", "Funded")
  BY DEF Fund
<1>2. invoice'[i].status = "Funded" /\ invoice'[i].paid = invoice[i].paid
      /\ invoice' = [invoice EXCEPT ![i] = invoice'[i]]
  BY <1>1 DEF TypeOK
<1>3. {i, i} = {i}
  OBVIOUS
<1> QED BY <1>1, <1>2, <1>3 DEF RowMoves

LEMMA StepMoves ==
    ASSUME Careful, TypeOK, [Next]_vars
    PROVE  \/ UNCHANGED <<invoice, byStatus>>
           \/ \E i \in Invoice : RowMoves(i) \/ Pays(i)
<1>1. ASSUME NEW i \in Invoice, StoreInvoice(i) \/ UploadInvoice(i) PROVE RowMoves(i)
  <2>1. StoreInvoice(i)
    BY <1>1 DEF UploadInvoice
  <2> QED BY <2>1 DEF StoreInvoice, RowMoves, NewInvoice, TypeOK
<1>2. ASSUME NEW i \in Invoice, VerifyInvoice(i) \/ CancelInvoice(i) PROVE RowMoves(i)
  BY <1>2, StatusMoves DEF VerifyInvoice, CancelInvoice, Careful, RowMoves
<1>3. ASSUME NEW i \in Invoice, NEW b \in Bid, AcceptBidAndFund(i, b) \/ AcceptBid(i, b)
      PROVE  RowMoves(i)
  BY <1>3, FundMoves DEF AcceptBidAndFund, AcceptBid, Careful
<1>4. ASSUME NEW i \in Invoice, RefundEscrow(i) PROVE RowMoves(i)
  BY <1>4 DEF RefundEscrow, RowMoves, NewInvoice, TypeOK
<1>5. ASSUME NEW i \in Invoice, NEW amount \in PayAmounts,
             (\E n \in Nonce : PartialPayment(i, amount, n)) \/ SettleInvoice(i, amount)
      PROVE  RowMoves(i) \/ Pays(i)
  BY <1>5, PaymentMoves
<1>6. ASSUME NEW i \in Invoice, NEW grace \in GracePeriods, DefaultAfterGrace(i, grace)
      PROVE  RowMoves(i)
  BY <1>6, DefaultMoves
<1>7. ASSUME NEW i \in Invoice,
             \/ CleanupExpiredBids(i) \/ ReleaseEscrow(i)
             \/ \E v \in Investor, amount \in BidAmounts, b \in Bid : PlaceBid(v, i, amount, b)
      PROVE  UNCHANGED <<invoice, byStatus>>
  BY <1>7 DEF CleanupExpiredBids, ReleaseEscrow, PlaceBid
<1>8. ASSUME NEW b \in Bid, WithdrawBid(b) \/ CancelBid(b) PROVE UNCHANGED <<invoice, byStatus>>
  BY <1>8 DEF WithdrawBid, CancelBid, CloseBid
<1>9. Tick \/ UNCHANGED vars => UNCHANGED <<invoice, byStatus>>
  BY DEF Tick, vars
<1>10. \A i \in Invoice : ~HandleDefault(i) /\ \A st : ~UpdateInvoiceStatus(i, st)
  BY DEF HandleDefault, UpdateInvoiceStatus, Careful
<1> QED BY <1>1, <1>2, <1>3, <1>4, <1>5, <1>6, <1>7, <1>8, <1>9, <1>10 DEF Next

(* The list of every status holds exactly the invoices of that status.       *)
LEMMA NextStatusIndex ==
    ASSUME Careful, IInv, StatusIndexExact, [Next]_vars
    PROVE  StatusIndexExact'
<1>1. CASE UNCHANGED <<invoice, byStatus>>
  BY <1>1 DEF StatusIndexExact
<1>2. ASSUME NEW i \in Invoice, RowMoves(i) PROVE StatusIndexExact'
  <2>1. /\ byStatus' = Reindexed({i}, invoice[i].status, invoice'[i].status)
        /\ \A k \in Invoice \ {i} : invoice'[k] = invoice[k]
        /\ invoice[i].status # invoice'[i].status
    BY <1>2 DEF RowMoves, IInv, TypeOK, Absent
  <2> QED BY <2>1 DEF StatusIndexExact, Reindexed
<1>3. ASSUME NEW i \in Invoice, Pays(i) PROVE StatusIndexExact'
  <2>1. byStatus' = byStatus /\ \A k \in Invoice : invoice'[k].status = invoice[k].status
    BY <1>3 DEF Pays, IInv, TypeOK, InvoiceRow
  <2> QED BY <2>1 DEF StatusIndexExact
<1> QED BY <1>1, <1>2, <1>3, StepMoves DEF IInv

(* Every status list is exact after any call: no call changes a status and   *)
(* leaves the lists behind, and none adds an invoice to a second list.       *)
THEOREM StatusListsExact == ASSUME Careful PROVE Spec => []StatusIndexExact
<1>1. Init => StatusIndexExact
  BY StatusesDiffer DEF Init, StatusIndexExact, NewInvoice
<1>2. IInv /\ StatusIndexExact /\ [Next]_vars => StatusIndexExact'
  BY NextStatusIndex
<1> QED BY <1>1, <1>2, Invariance, PTL DEF Spec

(* No sequence of capped, repeated and final payments overpays an invoice or *)
(* leaves one unsettled that is paid in full.                                *)
LEMMA NextPaid ==
    ASSUME Careful, IInv, PaidInFullIsSettled, [Next]_vars
    PROVE  PaidInFullIsSettled'
<1>1. CASE UNCHANGED invoice
  BY <1>1 DEF PaidInFullIsSettled
<1>2. ASSUME NEW i \in Invoice, RowMoves(i) \/ Pays(i) PROVE PaidInFullIsSettled'
  <2>1. Face[i] \in Nat \ {0} /\ invoice[i].paid \in Nat
    BY ConstantsOK DEF IInv, TypeOK, InvoiceRow
  <2>2. \A k \in Invoice \ {i} : invoice'[k] = invoice[k]
    BY <1>2 DEF RowMoves, Pays, IInv, TypeOK
  <2>3. invoice[i].paid <= Face[i] /\ (invoice[i].paid = Face[i] <=> invoice[i].status = "Paid")
    BY DEF PaidInFullIsSettled
  <2>4. invoice'[i].paid <= Face[i] /\ (invoice'[i].paid = Face[i] <=> invoice'[i].status = "Paid")
    <3>1. CASE RowMoves(i)
      BY <2>1, <2>3, <3>1 DEF RowMoves, Absent
    <3>2. CASE Pays(i)
      <4>1. invoice'[i].status = "Funded" /\ invoice'[i].paid \in Nat /\ invoice'[i].paid < Face[i]
        BY <3>2 DEF Pays, IInv, TypeOK, InvoiceRow
      <4> QED BY <2>1, <4>1
    <3> QED BY <1>2, <3>1, <3>2
  <2> QED BY <2>2, <2>4 DEF PaidInFullIsSettled
<1> QED BY <1>1, <1>2, StepMoves DEF IInv

(* settlement.rs for any amounts and number of payments: none overpays, and  *)
(* the payment that completes the face value settles in the same call.       *)
THEOREM NeverOverpaid == ASSUME Careful PROVE Spec => []PaidInFullIsSettled
<1>1. Init => PaidInFullIsSettled
  BY ConstantsOK DEF Init, PaidInFullIsSettled, NewInvoice, Absent
<1>2. IInv /\ PaidInFullIsSettled /\ [Next]_vars => PaidInFullIsSettled'
  BY NextPaid
<1> QED BY <1>1, <1>2, Invariance, PTL DEF Spec

(* A repeated transaction id never counts, neither towards a partial payment *)
(* nor towards the one that settles.                                         *)
THEOREM ReplaysNeverCount == ASSUME Careful PROVE Spec => ReplayNeverCounts
<1> DEFINE Counts(i) == EmptyNonce \notin Nonce /\ invoice'[i].paid > invoice[i].paid =>
                            nonces'[i] # nonces[i]
<1>1. ASSUME IInv, [Next]_vars, NEW i \in Invoice PROVE Counts(i)
  <2>1. Face[i] \in Nat /\ invoice[i].paid \in Nat
    BY <1>1, ConstantsOK DEF IInv, TypeOK, InvoiceRow
  <2>2. CASE invoice'[i] = invoice[i]
    BY <2>1, <2>2
  <2>3. CASE RowMoves(i)
    BY <2>1, <2>3, <1>1 DEF RowMoves
  <2>4. CASE Pays(i)
    BY <2>4 DEF Pays
  <2>5. \A k \in Invoice \ {i} : RowMoves(k) \/ Pays(k) => invoice'[i] = invoice[i]
    BY <1>1 DEF RowMoves, Pays, IInv, TypeOK
  <2> QED BY <1>1, <2>2, <2>3, <2>4, <2>5, StepMoves DEF IInv
<1>2. IInv /\ [Next]_vars => [\A i \in Invoice : Counts(i)]_vars
  BY <1>1
<1> QED BY <1>2, Invariance, PTL DEF Spec, ReplayNeverCounts

(* A terminal status is final. *)
THEOREM TerminalStaysFinal == ASSUME Careful PROVE Spec => TerminalIsFinal
<1> DEFINE Final(i) == invoice[i].status \in {"Paid", "Defaulted", "Refunded", "Cancelled"} =>
                           invoice'[i].status = invoice[i].status
<1>1. ASSUME IInv, [Next]_vars, NEW i \in Invoice PROVE Final(i)
  <2>1. RowMoves(i) \/ Pays(i) => Final(i)
    BY DEF RowMoves, Pays, Absent
  <2>2. \A k \in Invoice \ {i} : RowMoves(k) \/ Pays(k) => invoice'[i] = invoice[i]
    BY <1>1 DEF RowMoves, Pays, IInv, TypeOK
  <2> QED BY <1>1, <2>1, <2>2, StepMoves DEF IInv
<1>2. IInv /\ [Next]_vars => [\A i \in Invoice : Final(i)]_vars
  BY <1>1
<1> QED BY <1>2, Invariance, PTL DEF Spec, TerminalIsFinal

(* Whichever grace period callers pass, only an overdue, Funded invoice      *)
(* defaults.                                                                 *)
THEOREM NeverEarly == ASSUME Careful PROVE Spec => NoEarlyDefault
<1> DEFINE Late(i) == invoice'[i].status = "Defaulted" /\ invoice[i].status # "Defaulted" =>
                          now > Due[i] /\ invoice[i].status = "Funded"
<1>1. ASSUME IInv, [Next]_vars, NEW i \in Invoice PROVE Late(i)
  <2>1. RowMoves(i) => Late(i)
    BY DEF RowMoves
  <2>2. Pays(i) => invoice'[i].status = invoice[i].status
    BY <1>1 DEF Pays, IInv, TypeOK, InvoiceRow
  <2>3. \A k \in Invoice \ {i} : RowMoves(k) \/ Pays(k) => invoice'[i] = invoice[i]
    BY <1>1 DEF RowMoves, Pays, IInv, TypeOK
  <2> QED BY <1>1, <2>1, <2>2, <2>3, StepMoves DEF IInv
<1>2. IInv /\ [Next]_vars => [\A i \in Invoice : Late(i)]_vars
  BY <1>1
<1> QED BY <1>2, Invariance, PTL DEF Spec, NoEarlyDefault

----------------------------------------------------------------------------
(* Status alignment.  Row by row, what StatusAlignment says, and with it     *)
(* that the four records of a Funded invoice name the same investor, payee   *)
(* and amount.                                                               *)

Aligned(i) ==
    /\ invoice[i].status \in Unfunded => DealIs(i, {Absent}, Absent, FALSE)
    /\ invoice[i].status = "Funded" => DealIs(i, {"Held", "Released"}, "Active", TRUE)
    /\ invoice[i].status = "Paid" => DealIs(i, {"Released"}, "Completed", TRUE)
    /\ invoice[i].status = "Defaulted" => DealIs(i, {"Held", "Released"}, "Defaulted", TRUE)
    /\ invoice[i].status = "Refunded" => DealIs(i, {"Refunded"}, "Refunded", FALSE)
    /\ i \in finalized <=> invoice[i].status = "Paid"
    /\ i \in defaultGuard <=> invoice[i].status = "Defaulted"

Agreed(i) == invoice[i].status = "Funded" =>
    /\ escrow[i].payee = OwnerOf[i]
    /\ \A b \in BidsOf(i, "Accepted") :
           /\ bid[b].amount = invoice[i].funded /\ bid[b].investor = invoice[i].investor
           /\ escrow[i].amount = bid[b].amount /\ escrow[i].investor = bid[b].investor
           /\ investment[i].amount = bid[b].amount /\ investment[i].investor = bid[b].investor

AlignInv == IndexInv /\ \A i \in Invoice : Aligned(i) /\ Agreed(i)

LEMMA AlignedRows ==
    ASSUME TypeOK
    PROVE  (\A i \in Invoice : Aligned(i)) => StatusAlignment
<1> SUFFICES ASSUME \A i \in Invoice : Aligned(i), NEW i \in Invoice
             PROVE  /\ CASE invoice[i].status = "Funded" ->
                                 DealIs(i, {"Held", "Released"}, "Active", TRUE)
                          [] invoice[i].status = "Paid" ->
                                 DealIs(i, {"Released"}, "Completed", TRUE)
                          [] invoice[i].status = "Defaulted" ->
                                 DealIs(i, {"Held", "Released"}, "Defaulted", TRUE)
                          [] invoice[i].status = "Refunded" ->
                                 DealIs(i, {"Refunded"}, "Refunded", FALSE)
                          [] OTHER -> DealIs(i, {Absent}, Absent, FALSE)
                    /\ i \in finalized <=> invoice[i].status = "Paid"
                    /\ i \in defaultGuard <=> invoice[i].status = "Defaulted"
  BY DEF StatusAlignment
<1>1. invoice[i].status \in Unfunded \cup {"Funded", "Paid", "Defaulted", "Refunded"}
  BY DEF TypeOK, InvoiceRow, InvStatus, Unfunded
<1>2. Aligned(i)
  OBVIOUS
<1> QED BY <1>1, <1>2 DEF Aligned, Unfunded, Absent

(* Accepted bids that stay are the Accepted bids afterwards. *)
LEMMA AcceptedStay ==
    ASSUME NEW k \in Invoice, \A c \in Bid : BidStays(c)
    PROVE  /\ BidsOf(k, "Accepted")' = BidsOf(k, "Accepted")
           /\ \A c \in BidsOf(k, "Accepted") : bid'[c] = bid[c]
BY DEF BidStays, BidsOf

(* The same when one bid of another invoice is accepted or cancelled. *)
LEMMA AcceptedOfOthersStay ==
    ASSUME NEW k \in Invoice, NEW b \in Bid, \A c \in Bid \ {b} : BidStays(c),
           bid[b].invoice # k, bid'[b].invoice = bid[b].invoice
    PROVE  /\ BidsOf(k, "Accepted")' = BidsOf(k, "Accepted")
           /\ \A c \in BidsOf(k, "Accepted") : bid'[c] = bid[c]
BY DEF BidStays, BidsOf

(* A deal none of whose records changes stays aligned, if its invoice does   *)
(* not change or had no deal and still has none.                             *)
LEMMA DealStays ==
    ASSUME NEW k \in Invoice, Aligned(k), Agreed(k),
           escrow'[k] = escrow[k], investment'[k] = investment[k],
           BidsOf(k, "Accepted")' = BidsOf(k, "Accepted"),
           \A c \in BidsOf(k, "Accepted") : bid'[c] = bid[c],
           k \in finalized' <=> k \in finalized, k \in defaultGuard' <=> k \in defaultGuard,
           \/ /\ invoice'[k].status = invoice[k].status
              /\ invoice'[k].investor = invoice[k].investor
              /\ invoice'[k].funded = invoice[k].funded
           \/ invoice[k].status \in Unfunded /\ invoice'[k].status \in Unfunded
    PROVE  Aligned(k)' /\ Agreed(k)'
<1>1. \A E, I, a : DealIs(k, E, I, a) => DealIs(k, E, I, a)'
  BY DEF DealIs
<1>2. Aligned(k)'
  BY <1>1 DEF Aligned, Unfunded, DealIs, Absent
<1>3. Agreed(k)'
  BY DEF Agreed, Unfunded, Absent
<1> QED BY <1>2, <1>3

(* Steps that touch no deal. *)
LEMMA NoDealAligned ==
    ASSUME AlignInv, \A c \in Bid : BidStays(c),
           UNCHANGED <<escrow, investment, finalized, defaultGuard>>,
           \A k \in Invoice :
               \/ /\ invoice'[k].status = invoice[k].status
                  /\ invoice'[k].investor = invoice[k].investor
                  /\ invoice'[k].funded = invoice[k].funded
               \/ invoice[k].status \in Unfunded /\ invoice'[k].status \in Unfunded
    PROVE  \A k \in Invoice : Aligned(k)' /\ Agreed(k)'
BY AcceptedStay, DealStays DEF AlignInv

LEMMA FundAligned ==
    ASSUME IInv, AlignInv, NEW i \in Invoice, NEW b \in Bid, NEW S \in SUBSET Invoice,
           CleanBids(S)[b].status = "Placed", bid[b].invoice = i, invoice[i].status = "Verified",
           Fund(i, i, b, CleanBids(S))
    PROVE  \A k \in Invoice : Aligned(k)' /\ Agreed(k)'
<1> DEFINE offer == CleanBids(S)[b]
<1>1. /\ bid[b].status = "Placed" /\ bid'[b].status = "Accepted" /\ bid'[b].invoice = i
      /\ bid'[b].investor = bid[b].investor /\ bid'[b].amount = bid[b].amount
      /\ \A c \in Bid \ {b} : BidStays(c)
  BY FundBids
<1>2. offer.investor = bid[b].investor /\ offer.amount = bid[b].amount
  BY CleanEffect DEF IInv
<1>3. /\ escrow' = [escrow EXCEPT ![i] = NewEscrow(i, offer)]
      /\ invoice' = [invoice EXCEPT ![i] = [status |-> "Funded", investor |-> offer.investor,
                                            funded |-> offer.amount, paid |-> @.paid]]
      /\ investment' = [investment EXCEPT ![i] = [status |-> "Active",
                            investor |-> offer.investor, amount |-> offer.amount]]
      /\ UNCHANGED <<finalized, defaultGuard>>
  BY DEF Fund, settleVars
<1> HIDE DEF offer
<1>4. /\ escrow'[i] = NewEscrow(i, offer)
      /\ invoice'[i].status = "Funded" /\ invoice'[i].investor = offer.investor
      /\ invoice'[i].funded = offer.amount
      /\ investment'[i] = [status |-> "Active", investor |-> offer.investor,
                           amount |-> offer.amount]
      /\ \A k \in Invoice \ {i} : /\ escrow'[k] = escrow[k] /\ investment'[k] = investment[k]
                                  /\ invoice'[k] = invoice[k]
  BY <1>3 DEF IInv, TypeOK
<1>5. BidsOf(i, "Accepted")' = {b}
  <2>1. BidsOf(i, "Accepted") = {}
    BY DEF AlignInv, Aligned, Unfunded, DealIs
  <2> QED BY <1>1, <2>1 DEF BidsOf, BidStays
<1>6. Aligned(i)' /\ Agreed(i)'
  <2>1. i \notin finalized /\ i \notin defaultGuard
    BY DEF AlignInv, Aligned
  <2>2. DealIs(i, {"Held", "Released"}, "Active", TRUE)'
    BY <1>4, <1>5 DEF DealIs, NewEscrow
  <2>3. Aligned(i)'
    BY <1>3, <1>4, <2>1, <2>2 DEF Aligned, Unfunded, Absent
  <2>4. Agreed(i)'
    BY <1>1, <1>2, <1>4, <1>5 DEF Agreed, NewEscrow
  <2> QED BY <2>3, <2>4
<1>7. ASSUME NEW k \in Invoice \ {i} PROVE Aligned(k)' /\ Agreed(k)'
  BY <1>1, <1>3, <1>4, <1>7, AcceptedOfOthersStay, DealStays DEF AlignInv
<1> QED BY <1>6, <1>7

LEMMA ReleaseAligned ==
    ASSUME IInv, AlignInv, NEW i \in Invoice, ReleaseEscrow(i)
    PROVE  \A k \in Invoice : Aligned(k)' /\ Agreed(k)'
<1>1. /\ invoice[i].status = "Funded" /\ escrow' = [escrow EXCEPT ![i].status = "Released"]
      /\ UNCHANGED <<invoice, bid, investment, finalized, defaultGuard>>
  BY DEF ReleaseEscrow, bidVars, settleVars
<1>2. /\ escrow'[i].status = "Released" /\ escrow'[i].investor = escrow[i].investor
      /\ escrow'[i].payee = escrow[i].payee /\ escrow'[i].amount = escrow[i].amount
      /\ \A k \in Invoice \ {i} : escrow'[k] = escrow[k]
  BY <1>1 DEF IInv, TypeOK, EscrowRow
<1>3. \A c \in Bid : BidStays(c)
  BY <1>1 DEF BidStays
<1>4. Aligned(i)' /\ Agreed(i)'
  <2>1. /\ BidsOf(i, "Accepted")' = BidsOf(i, "Accepted")
        /\ \A c \in BidsOf(i, "Accepted") : bid'[c] = bid[c]
    BY <1>3, AcceptedStay
  <2>2. DealIs(i, {"Held", "Released"}, "Active", TRUE)'
    BY <1>1, <1>2, <2>1 DEF AlignInv, Aligned, DealIs
  <2>3. Aligned(i)'
    BY <1>1, <2>2 DEF AlignInv, Aligned, Unfunded, Absent
  <2>4. Agreed(i)'
    BY <1>1, <1>2, <2>1 DEF AlignInv, Agreed
  <2> QED BY <2>3, <2>4
<1>5. ASSUME NEW k \in Invoice \ {i} PROVE Aligned(k)' /\ Agreed(k)'
  BY <1>1, <1>2, <1>3, <1>5, AcceptedStay, DealStays DEF AlignInv
<1> QED BY <1>4, <1>5

(* The Accepted bid of the invoice is in the index the refund looks through. *)
LEMMA RefundAligned ==
    ASSUME IInv, AlignInv, NEW i \in Invoice, RefundEscrow(i)
    PROVE  \A k \in Invoice : Aligned(k)' /\ Agreed(k)'
<1>1. /\ invoice[i].status = "Funded" /\ escrow' = [escrow EXCEPT ![i].status = "Refunded"]
      /\ invoice' = [invoice EXCEPT ![i] = NewInvoice("Refunded")]
      /\ CloseInvestment(i, "Refunded") /\ UNCHANGED <<finalized, defaultGuard>>
  BY DEF RefundEscrow, settleVars
<1>2. PICK b \in Bid : BidsOf(i, "Accepted") = {b}
  BY <1>1 DEF AlignInv, Aligned, DealIs
<1>3. bid[b].status = "Accepted" /\ bid[b].invoice = i
  BY <1>2 DEF BidsOf
<1>4. b \in CleanIndex({i})[i]
  <2>1. CleanBids({i})[b] = bid[b]
    BY <1>3, CleanKeepsClosed
  <2>2. IndexesOK(CleanBids({i}), CleanIndex({i}), investorBids)
    BY CleanIndexes DEF AlignInv
  <2> QED BY <1>3, <2>1, <2>2 DEF IndexesOK, Absent
<1>5. bid'[b] = [bid[b] EXCEPT !.status = "Cancelled"] /\ \A c \in Bid \ {b} : BidStays(c)
  <2>1. PICK d \in Bid : /\ bid[d].status = "Accepted" /\ bid[d].invoice = i
                         /\ bid'[d] = [bid[d] EXCEPT !.status = "Cancelled"]
                         /\ \A c \in Bid \ {d} : BidStays(c)
    BY <1>3, <1>4, RefundBids DEF AlignInv
  <2>2. d = b
    BY <1>2, <2>1 DEF BidsOf
  <2> QED BY <2>1, <2>2
<1>6. bid'[b].status = "Cancelled" /\ bid'[b].invoice = i
  BY <1>3, <1>5 DEF IInv, TypeOK, BidRow
<1>7. /\ investment'[i].status = "Refunded"
      /\ \A k \in Invoice \ {i} : investment'[k] = investment[k]
  <2>1. investment[i].status = "Active"
    BY <1>1 DEF AlignInv, Aligned, DealIs
  <2> QED BY <1>1, <2>1, CloseInvestmentEffect DEF IInv, InvestmentStatus, Absent
<1>8. /\ escrow'[i].status = "Refunded" /\ invoice'[i].status = "Refunded"
      /\ \A k \in Invoice \ {i} : escrow'[k] = escrow[k] /\ invoice'[k] = invoice[k]
  BY <1>1 DEF IInv, TypeOK, EscrowRow, NewInvoice
<1>9. BidsOf(i, "Accepted")' = {}
  <2>1. ASSUME NEW c \in Bid \ {b}, bid'[c].status = "Accepted", bid'[c].invoice = i
        PROVE  FALSE
    <3>1. bid[c].status = "Accepted" /\ bid'[c] = bid[c]
      BY <1>5, <2>1 DEF BidStays
    <3>2. c \in BidsOf(i, "Accepted")
      BY <2>1, <3>1 DEF BidsOf
    <3> QED BY <1>2, <3>2
  <2> QED BY <1>6, <2>1 DEF BidsOf
<1>10. Aligned(i)' /\ Agreed(i)'
  <2>1. i \notin finalized /\ i \notin defaultGuard
    BY <1>1 DEF AlignInv, Aligned
  <2>2. DealIs(i, {"Refunded"}, "Refunded", FALSE)'
    BY <1>7, <1>8, <1>9 DEF DealIs
  <2> QED BY <1>1, <1>8, <2>1, <2>2 DEF Aligned, Agreed, Unfunded, Absent
<1>11. ASSUME NEW k \in Invoice \ {i} PROVE Aligned(k)' /\ Agreed(k)'
  BY <1>1, <1>3, <1>5, <1>6, <1>7, <1>8, <1>11, AcceptedOfOthersStay, DealStays DEF AlignInv
<1> QED BY <1>10, <1>11

LEMMA SettleAligned ==
    ASSUME IInv, AlignInv, NEW i \in Invoice, NEW total, invoice[i].status = "Funded",
           Settle(i, total)
    PROVE  \A k \in Invoice : Aligned(k)' /\ Agreed(k)'
<1>1. /\ escrow' = IF escrow[i].status = "Held"
                   THEN [escrow EXCEPT ![i].status = "Released"] ELSE escrow
      /\ finalized' = finalized \cup {i}
      /\ invoice' = [invoice EXCEPT ![i] = [status |-> "Paid", investor |-> @.investor,
                                            funded |-> @.funded, paid |-> Face[i]]]
      /\ CloseInvestment(i, "Completed") /\ UNCHANGED <<bid, defaultGuard>>
  BY DEF Settle, bidVars
<1>2. DealIs(i, {"Held", "Released"}, "Active", TRUE)
  BY DEF AlignInv, Aligned
<1>3. /\ escrow'[i].status = "Released"
      /\ \A k \in Invoice \ {i} : escrow'[k] = escrow[k]
  <2>1. CASE escrow[i].status = "Held"
    BY <1>1, <2>1 DEF IInv, TypeOK, EscrowRow
  <2>2. CASE escrow[i].status = "Released"
    BY <1>1, <2>2
  <2> QED BY <1>2, <2>1, <2>2 DEF DealIs
<1>4. /\ investment'[i].status = "Completed"
      /\ \A k \in Invoice \ {i} : investment'[k] = investment[k]
  BY <1>1, <1>2, CloseInvestmentEffect DEF IInv, InvestmentStatus, DealIs, Absent
<1>5. invoice'[i].status = "Paid" /\ \A k \in Invoice \ {i} : invoice'[k] = invoice[k]
  BY <1>1 DEF IInv, TypeOK
<1>6. \A c \in Bid : BidStays(c)
  BY <1>1 DEF BidStays
<1>7. Aligned(i)' /\ Agreed(i)'
  <2>1. i \notin defaultGuard
    BY DEF AlignInv, Aligned
  <2>2. DealIs(i, {"Released"}, "Completed", TRUE)'
    BY <1>2, <1>3, <1>4, <1>6, AcceptedStay DEF DealIs
  <2> QED BY <1>1, <1>5, <2>1, <2>2 DEF Aligned, Agreed, Unfunded, Absent
<1>8. ASSUME NEW k \in Invoice \ {i} PROVE Aligned(k)' /\ Agreed(k)'
  BY <1>1, <1>3, <1>4, <1>5, <1>6, <1>8, AcceptedStay, DealStays DEF AlignInv
<1> QED BY <1>7, <1>8

LEMMA DefaultAligned ==
    ASSUME IInv, AlignInv, NEW i \in Invoice, Default(i)
    PROVE  \A k \in Invoice : Aligned(k)' /\ Agreed(k)'
<1>1. /\ invoice[i].status = "Funded" /\ SetStatus(i, "Defaulted")
      /\ defaultGuard' = defaultGuard \cup {i}
      /\ CloseInvestment(i, "Defaulted") /\ UNCHANGED <<bid, escrow, finalized>>
  BY DEF Default, bidVars, settleVars
<1>2. DealIs(i, {"Held", "Released"}, "Active", TRUE)
  BY <1>1 DEF AlignInv, Aligned
<1>3. /\ investment'[i].status = "Defaulted"
      /\ \A k \in Invoice \ {i} : investment'[k] = investment[k]
  BY <1>1, <1>2, CloseInvestmentEffect DEF IInv, InvestmentStatus, DealIs, Absent
<1>4. invoice'[i].status = "Defaulted" /\ \A k \in Invoice \ {i} : invoice'[k] = invoice[k]
  BY <1>1 DEF SetStatus, IInv, TypeOK, InvoiceRow
<1>5. \A c \in Bid : BidStays(c)
  BY <1>1 DEF BidStays
<1>6. Aligned(i)' /\ Agreed(i)'
  <2>1. i \notin finalized
    BY <1>1 DEF AlignInv, Aligned
  <2>2. DealIs(i, {"Held", "Released"}, "Defaulted", TRUE)'
    BY <1>1, <1>2, <1>3, <1>5, AcceptedStay DEF DealIs
  <2> QED BY <1>1, <1>4, <2>1, <2>2 DEF Aligned, Agreed, Unfunded, Absent
<1>7. ASSUME NEW k \in Invoice \ {i} PROVE Aligned(k)' /\ Agreed(k)'
  BY <1>1, <1>3, <1>4, <1>5, <1>7, AcceptedStay, DealStays DEF AlignInv
<1> QED BY <1>6, <1>7

LEMMA PaymentAligned ==
    ASSUME IInv, AlignInv, NEW i \in Invoice, NEW amount \in PayAmounts,
           (\E n \in Nonce : PartialPayment(i, amount, n)) \/ SettleInvoice(i, amount)
    PROVE  \A k \in Invoice : Aligned(k)' /\ Agreed(k)'
<1>1. \/ \E total : invoice[i].status = "Funded" /\ Settle(i, total)
      \/ \E paid : /\ invoice' = [invoice EXCEPT ![i].paid = paid]
                   /\ UNCHANGED <<bid, escrow, investment, finalized, defaultGuard>>
  BY DEF PartialPayment, SettleInvoice, CanRecord, bidVars, dealVars
<1>2. ASSUME NEW paid, invoice' = [invoice EXCEPT ![i].paid = paid],
             UNCHANGED <<bid, escrow, investment, finalized, defaultGuard>>
      PROVE  \A k \in Invoice : Aligned(k)' /\ Agreed(k)'
  <2>1. \A k \in Invoice : /\ invoice'[k].status = invoice[k].status
                           /\ invoice'[k].investor = invoice[k].investor
                           /\ invoice'[k].funded = invoice[k].funded
    BY <1>2 DEF IInv, TypeOK, InvoiceRow
  <2>2. \A c \in Bid : BidStays(c)
    BY <1>2 DEF BidStays
  <2> QED BY <1>2, <2>1, <2>2, NoDealAligned
<1> QED BY <1>1, <1>2, SettleAligned

LEMMA InvoiceAligned ==
    ASSUME Careful, IInv, AlignInv, NEW i \in Invoice,
           StoreInvoice(i) \/ VerifyInvoice(i) \/ CancelInvoice(i)
    PROVE  \A k \in Invoice : Aligned(k)' /\ Agreed(k)'
<1>1. UNCHANGED <<bid, escrow, investment, finalized, defaultGuard>>
  BY DEF StoreInvoice, VerifyInvoice, CancelInvoice, bidVars, dealVars, settleVars
<1>2. /\ invoice[i].status \in Unfunded /\ invoice'[i].status \in Unfunded
      /\ \A k \in Invoice \ {i} : invoice'[k] = invoice[k]
  <2>1. CASE StoreInvoice(i)
    BY <2>1 DEF StoreInvoice, NewInvoice, Unfunded, IInv, TypeOK
  <2>2. CASE VerifyInvoice(i) \/ CancelInvoice(i)
    BY <2>2 DEF VerifyInvoice, CancelInvoice, SetStatus, Careful, Unfunded, IInv, TypeOK, InvoiceRow
  <2> QED BY <2>1, <2>2
<1>3. \A c \in Bid : BidStays(c)
  BY <1>1 DEF BidStays
<1> QED BY <1>1, <1>2, <1>3, NoDealAligned

LEMMA NextAligned == ASSUME Careful, IInv, AlignInv, [Next]_vars PROVE AlignInv'
<1> DEFINE Rows == \A k \in Invoice : Aligned(k)' /\ Agreed(k)'
<1>1. ASSUME NEW i \in Invoice,
             StoreInvoice(i) \/ UploadInvoice(i) \/ VerifyInvoice(i) \/ CancelInvoice(i)
      PROVE  Rows
  BY <1>1, InvoiceAligned DEF UploadInvoice
<1>2. ASSUME UNCHANGED <<invoice, escrow, investment, finalized, defaultGuard>>,
             \/ UNCHANGED bid
             \/ \E i \in Invoice : CleanupExpiredBids(i)
             \/ \E b \in Bid : WithdrawBid(b) \/ CancelBid(b)
             \/ \E v \in Investor, i \in Invoice, amount \in BidAmounts, b \in Bid :
                    PlaceBid(v, i, amount, b)
      PROVE  Rows
  <2>1. \A c \in Bid : BidStays(c)
    BY <1>2, BidActionsStay
  <2> QED BY <1>2, <2>1, NoDealAligned
<1>3. ASSUME NEW i \in Invoice, CleanupExpiredBids(i) PROVE Rows
  BY <1>2, <1>3 DEF CleanupExpiredBids, dealVars, settleVars
<1>4. ASSUME NEW i \in Invoice, NEW v \in Investor, NEW amount \in BidAmounts, NEW b \in Bid,
             PlaceBid(v, i, amount, b)
      PROVE  Rows
  <2>1. UNCHANGED <<invoice, escrow, investment, finalized, defaultGuard>>
    BY <1>4 DEF PlaceBid, dealVars, settleVars
  <2> HIDE DEF Rows
  <2> QED BY <1>2, <1>4, <2>1
<1>5. ASSUME NEW b \in Bid, WithdrawBid(b) \/ CancelBid(b) PROVE Rows
  <2>1. UNCHANGED <<invoice, escrow, investment, finalized, defaultGuard>>
    BY <1>5 DEF WithdrawBid, CancelBid, CloseBid, dealVars, settleVars
  <2> HIDE DEF Rows
  <2> QED BY <1>2, <1>5, <2>1
<1>6. ASSUME NEW i \in Invoice, NEW b \in Bid, AcceptBidAndFund(i, b) \/ AcceptBid(i, b)
      PROVE  Rows
  <2>1. CASE AcceptBidAndFund(i, b)
    BY <2>1, FundAligned DEF AcceptBidAndFund
  <2>2. CASE AcceptBid(i, b)
    BY <2>2, FundAligned DEF AcceptBid, Careful
  <2> QED BY <1>6, <2>1, <2>2
<1>7. ASSUME NEW i \in Invoice, NEW amount \in PayAmounts,
             (\E n \in Nonce : PartialPayment(i, amount, n)) \/ SettleInvoice(i, amount)
      PROVE  Rows
  BY <1>7, PaymentAligned
<1>8. ASSUME NEW i \in Invoice, ReleaseEscrow(i) \/ RefundEscrow(i) PROVE Rows
  BY <1>8, ReleaseAligned, RefundAligned
<1>9. ASSUME NEW i \in Invoice, NEW grace \in GracePeriods, DefaultAfterGrace(i, grace)
      PROVE  Rows
  BY <1>9, DefaultAligned DEF DefaultAfterGrace
<1>10. \A i \in Invoice : ~HandleDefault(i) /\ \A st : ~UpdateInvoiceStatus(i, st)
  BY DEF HandleDefault, UpdateInvoiceStatus, Careful
<1>11. ASSUME Tick \/ UNCHANGED vars PROVE Rows
  <2>1. UNCHANGED <<invoice, bid, escrow, investment, finalized, defaultGuard>>
    BY <1>11 DEF Tick, vars, bidVars, dealVars, settleVars
  <2> HIDE DEF Rows
  <2> QED BY <1>2, <2>1
<1> HIDE DEF Rows
<1>12. Rows
  BY <1>1, <1>3, <1>4, <1>5, <1>6, <1>7, <1>8, <1>9, <1>10, <1>11 DEF Next
<1>13. IndexInv'
  BY NextIndex DEF AlignInv
<1> QED BY <1>12, <1>13 DEF AlignInv, Rows

LEMMA InitAligned == Init => AlignInv
<1> SUFFICES ASSUME Init PROVE AlignInv
  OBVIOUS
<1>1. \A i \in Invoice : BidsOf(i, "Accepted") = {}
  BY DEF Init, BidsOf, NoBid, Absent
<1>2. \A i \in Invoice : Aligned(i) /\ Agreed(i)
  BY <1>1 DEF Init, Aligned, Agreed, DealIs, Unfunded, NewInvoice, NoEscrow, NoInvestment, Absent
<1> QED BY <1>2, InitIndex DEF AlignInv

(* The inductive invariant of careful callers. *)
LEMMA AlignedAlways == ASSUME Careful PROVE Spec => [](IInv /\ AlignInv)
<1>1. Init => IInv /\ AlignInv
  BY InitInv, InitAligned
<1>2. IInv /\ AlignInv /\ [Next]_vars => IInv' /\ AlignInv'
  BY NextInv, NextAligned
<1> QED BY <1>1, <1>2, PTL DEF Spec

(* INV-1 of lifecycle.md for any number of deals: no entry point leaves one  *)
(* of invoice, bid, escrow and investment behind the others.                 *)
THEOREM StatusesAligned == ASSUME Careful PROVE Spec => []StatusAlignment
<1>1. IInv /\ AlignInv => StatusAlignment
  BY AlignedRows DEF IInv, AlignInv
<1> QED BY <1>1, AlignedAlways, PTL

(* INV-5 and INV-2: the four records of a Funded invoice name the same       *)
(* investor and amount, and its escrow pays its business.                    *)
THEOREM FundedAmountsAgree == ASSUME Careful PROVE Spec => []FundedAmounts
<1>1. AlignInv => FundedAmounts
  BY DEF AlignInv, Agreed, FundedAmounts
<1> QED BY <1>1, AlignedAlways, PTL

----------------------------------------------------------------------------
(* A bid that is accepted is live: had it lapsed, the clean-up before would  *)
(* have found it in its invoice's index and expired it.                      *)

LEMMA CleanedIsLive ==
    ASSUME IInv, IndexInv, NEW b \in Bid, NEW S \in SUBSET Invoice, bid[b].invoice \in S,
           CleanBids(S)[b].status = "Placed"
    PROVE  Live(b)
<1>1. bid[b].status = "Placed"
  BY CleanEffect DEF IInv
<1>2. b \in UNION {invoiceBids[i] : i \in S}
  BY <1>1 DEF IndexInv, IndexesOK, Absent
<1>3. ~(now > bid[b].expires)
  BY <1>1, <1>2 DEF CleanBids, Expire, Lapsed, IInv, TypeOK, BidRow
<1>4. now \in Nat /\ bid[b].expires \in Nat
  BY DEF IInv, TypeOK, BidRow
<1> QED BY <1>1, <1>3, <1>4 DEF Live

LEMMA StepAccepts ==
    ASSUME IInv, IndexInv, [Next]_vars, NEW c \in Bid, bid'[c].status = "Accepted"
    PROVE  bid[c].status = "Accepted" \/ Live(c)
<1> DEFINE Goal == bid[c].status = "Accepted" \/ Live(c)
<1>1. BidStays(c) => Goal
  BY DEF BidStays
<1>2. ASSUME NEW i \in Invoice, NEW b \in Bid, NEW S \in SUBSET Invoice, bid[b].invoice \in S,
             CleanBids(S)[b].status = "Placed", NEW j, Fund(i, j, b, CleanBids(S))
      PROVE  Goal
  <2>1. CASE c = b
    BY <1>2, <2>1, CleanedIsLive
  <2>2. CASE c # b
    BY <1>1, <1>2, <2>2, FundBids
  <2> QED BY <2>1, <2>2
<1>3. ASSUME NEW i \in Invoice, NEW b \in Bid, AcceptBidAndFund(i, b) PROVE Goal
  BY <1>2, <1>3 DEF AcceptBidAndFund
<1>4. ASSUME NEW i \in Invoice, NEW b \in Bid, AcceptBid(i, b) PROVE Goal
  <2>1. bid[b].invoice \in Invoice
    BY <1>4 DEF AcceptBid, IInv, BidInv
  <2>2. CleanBids({i, bid[b].invoice})[b].status = "Placed"
        /\ Fund(i, bid[b].invoice, b, CleanBids({i, bid[b].invoice}))
    BY <1>4 DEF AcceptBid
  <2> HIDE DEF Goal
  <2> QED BY <1>2, <2>1, <2>2
<1>5. ASSUME NEW i \in Invoice, RefundEscrow(i) PROVE Goal
  <2>1. ASSUME NEW b \in Bid, bid'[b] = [bid[b] EXCEPT !.status = "Cancelled"],
               \A d \in Bid \ {b} : BidStays(d)
        PROVE  Goal
    <3>1. CASE c = b
      BY <2>1, <3>1 DEF IInv, TypeOK, BidRow
    <3>2. CASE c # b
      BY <1>1, <2>1, <3>2
    <3> QED BY <3>1, <3>2
  <2>2. CASE \A d \in Bid : BidStays(d)
    BY <1>1, <2>2
  <2> HIDE DEF Goal
  <2> QED BY <1>5, <2>1, <2>2, RefundBids
<1>6. ASSUME \/ UNCHANGED bid
             \/ \E i \in Invoice : CleanupExpiredBids(i)
             \/ \E b \in Bid : WithdrawBid(b) \/ CancelBid(b)
             \/ \E v \in Investor, i \in Invoice, amount \in BidAmounts, b \in Bid :
                    PlaceBid(v, i, amount, b)
      PROVE  Goal
  BY <1>1, <1>6, BidActionsStay
<1>7. ASSUME (\E i \in Invoice : KeepsBids(i)) \/ Tick \/ UNCHANGED vars PROVE UNCHANGED bid
  BY <1>7, CallsKeepBids DEF bidVars
<1> HIDE DEF Goal
<1>8. Goal
  BY <1>3, <1>4, <1>5, <1>6, <1>7 DEF Next, KeepsBids
<1> QED BY <1>8 DEF Goal

(* Only a live bid is ever accepted, by either entry point, although         *)
(* accept_bid itself does not look at the expiration.                        *)
THEOREM AcceptedWereLive == Spec => OnlyLiveBidsAccepted
<1>1. Init => IInv /\ IndexInv
  BY InitInv, InitIndex
<1>2. IInv /\ IndexInv /\ [Next]_vars => IInv' /\ IndexInv'
  BY NextInv, NextIndex
<1>3. IInv /\ IndexInv /\ [Next]_vars =>
         [\A b \in Bid : bid'[b].status = "Accepted" => bid[b].status = "Accepted" \/ Live(b)]_vars
  BY StepAccepts
<1> QED BY <1>1, <1>2, <1>3, PTL DEF Spec, OnlyLiveBidsAccepted

----------------------------------------------------------------------------
(* Settling repays the principal at least.  place_bid lets no business bid   *)
(* on its own invoice, so payer and investor of a settlement differ, and the *)
(* fee is at most the profit.                                                *)

OwnInv == \A b \in Bid : bid[b].status # Absent => bid[b].investor # OwnerOf[bid[b].invoice]

LEMMA OwnKept ==
    ASSUME OwnInv,
           \A c \in Bid : /\ bid[c].status = Absent => bid'[c].status = Absent
                          /\ bid'[c].invoice = bid[c].invoice
                          /\ bid'[c].investor = bid[c].investor
    PROVE  OwnInv'
BY DEF OwnInv

LEMMA CleanedOwn ==
    ASSUME IInv, OwnInv, NEW S \in SUBSET Invoice, NEW b \in Bid, NEW st,
           \/ bid' = CleanBids(S)
           \/ CleanBids(S)[b].status # Absent /\ bid' = [CleanBids(S) EXCEPT ![b].status = st]
    PROVE  OwnInv'
<1> DEFINE bs == CleanBids(S)
<1>1. /\ bs \in [Bid -> BidRow]
      /\ \A c \in Bid : /\ bid[c].status = Absent => bs[c].status = Absent
                        /\ bs[c].invoice = bid[c].invoice /\ bs[c].investor = bid[c].investor
  BY CleanEffect DEF IInv, Absent
<1> HIDE DEF bs
<1>2. \A c \in Bid : /\ bid[c].status = Absent => bid'[c].status = Absent
                     /\ bid'[c].invoice = bid[c].invoice /\ bid'[c].investor = bid[c].investor
  <2>1. CASE bid' = bs
    BY <1>1, <2>1
  <2>2. CASE bs[b].status # Absent /\ bid' = [bs EXCEPT ![b].status = st]
    BY <1>1, <2>2 DEF BidRow
  <2> QED BY <2>1, <2>2 DEF bs
<1> QED BY <1>2, OwnKept

LEMMA PlaceBidOwn ==
    ASSUME IInv, OwnInv, NEW v \in Investor, NEW i \in Invoice, NEW amount, NEW b \in Bid,
           PlaceBid(v, i, amount, b)
    PROVE  OwnInv'
<1> DEFINE cleaned == CleanBids({i})
           expired == Expire(cleaned, investorBids[v])
           bs  == IF MaxActiveBids > 0 THEN expired ELSE cleaned
           row == [status |-> "Placed", invoice |-> i, investor |-> v,
                   amount |-> amount, expires |-> now + BidTTL]
<1>1. OwnerOf[i] # v /\ bid' = [bs EXCEPT ![b] = row]
  BY DEF PlaceBid
<1>2. /\ cleaned \in [Bid -> BidRow]
      /\ \A c \in Bid : /\ bid[c].status = Absent => cleaned[c].status = Absent
                        /\ cleaned[c].invoice = bid[c].invoice
                        /\ cleaned[c].investor = bid[c].investor
  BY CleanEffect DEF IInv, Absent
<1> HIDE DEF cleaned
<1>3. /\ expired \in [Bid -> BidRow]
      /\ \A c \in Bid : /\ cleaned[c].status = Absent => expired[c].status = Absent
                        /\ expired[c].invoice = cleaned[c].invoice
                        /\ expired[c].investor = cleaned[c].investor
  BY <1>2, ExpireEffect DEF Absent
<1> HIDE DEF expired
<1>4. /\ bs \in [Bid -> BidRow]
      /\ \A c \in Bid : /\ bid[c].status = Absent => bs[c].status = Absent
                        /\ bs[c].invoice = bid[c].invoice /\ bs[c].investor = bid[c].investor
  BY <1>2, <1>3
<1> HIDE DEF bs
<1>5. /\ bid'[b].investor = v /\ bid'[b].invoice = i
      /\ \A c \in Bid \ {b} : bid'[c] = bs[c]
  BY <1>1, <1>4
<1> QED BY <1>1, <1>4, <1>5 DEF OwnInv

LEMMA NextOwn == ASSUME IInv, OwnInv, [Next]_vars PROVE OwnInv'
<1>1. CASE UNCHANGED bid  BY <1>1 DEF OwnInv
<1>2. ASSUME NEW i \in Invoice, CleanupExpiredBids(i) PROVE OwnInv'
  <2>1. bid' = CleanBids({i})
    BY <1>2 DEF CleanupExpiredBids
  <2>2. CASE Bid = {}  BY <2>2 DEF OwnInv
  <2> QED BY <2>1, <2>2, CleanedOwn
<1>3. ASSUME NEW i \in Invoice, NEW b \in Bid, AcceptBidAndFund(i, b) \/ AcceptBid(i, b)
      PROVE  OwnInv'
  <2>1. CASE AcceptBidAndFund(i, b)
    BY <2>1, CleanedOwn DEF AcceptBidAndFund, Fund, Absent
  <2>2. CASE AcceptBid(i, b)
    <3>1. bid[b].invoice \in Invoice
      BY <2>2 DEF AcceptBid, IInv, BidInv
    <3>2. {i, bid[b].invoice} \in SUBSET Invoice
      BY <3>1
    <3> QED BY <2>2, <3>2, CleanedOwn DEF AcceptBid, Fund, Absent
  <2> QED BY <1>3, <2>1, <2>2
<1>4. ASSUME NEW i \in Invoice, RefundEscrow(i) PROVE OwnInv'
  <2>1. CleanIndex({i})[i] \in SUBSET Bid
    BY CleanEffect DEF IInv
  <2>2. \/ bid' = CleanBids({i})
        \/ \E b \in Bid : CleanBids({i})[b].status # Absent
                          /\ bid' = [CleanBids({i}) EXCEPT ![b].status = "Cancelled"]
    BY <1>4, <2>1 DEF RefundEscrow, CancelAcceptedBid, Absent
  <2>3. CASE Bid = {}  BY <2>3 DEF OwnInv
  <2> QED BY <2>2, <2>3, CleanedOwn
<1>5. ASSUME NEW b \in Bid, WithdrawBid(b) \/ CancelBid(b) PROVE OwnInv'
  <2>1. PICK st \in {"Withdrawn", "Cancelled"} :
            bid[b].status = "Placed" /\ bid' = [bid EXCEPT ![b].status = st]
    BY <1>5 DEF WithdrawBid, CancelBid, CloseBid
  <2> QED BY <2>1, OwnKept DEF IInv, TypeOK, BidRow, Absent
<1>6. ASSUME (\E i \in Invoice : KeepsBids(i)) \/ Tick \/ UNCHANGED vars PROVE UNCHANGED bid
  BY <1>6, CallsKeepBids DEF bidVars
<1> QED BY <1>1, <1>2, <1>3, <1>4, <1>5, <1>6, PlaceBidOwn DEF Next, KeepsBids

(* The fee never exceeds the profit. *)
LEMMA FeeBound ==
    ASSUME TypeOK, NEW i \in Invoice, NEW total \in Nat, total >= investment[i].amount
    PROVE  PlatformFee(i, total) <= total - investment[i].amount
<1>1. investment[i].amount \in Nat /\ FeeBps \in 0..1000
  BY ConstantsOK DEF TypeOK, InvestmentRow
<1>2. CASE total <= investment[i].amount
  BY <1>1, <1>2 DEF PlatformFee
<1>3. CASE total > investment[i].amount
  <2> DEFINE profit == total - investment[i].amount
             gross  == profit * FeeBps
  <2>1. profit \in Nat
    BY <1>1, <1>3
  <2>2. gross \in Nat /\ gross <= profit * 10000
    <3> HIDE DEF profit
    <3>1. \A x \in Nat, f \in 0..1000 : x * f \in Nat /\ x * f <= x * 10000
      OBVIOUS
    <3> QED BY <1>1, <2>1, <3>1
  <2>3. gross \div 10000 <= profit
    <3> HIDE DEF gross, profit
    <3> QED BY <2>1, <2>2
  <2>4. PlatformFee(i, total) = gross \div 10000
    BY <1>1, <1>3 DEF PlatformFee
  <2> QED BY <2>3, <2>4
<1> QED BY <1>1, <1>2, <1>3

LEMMA SettleRepays ==
    ASSUME IInv, AlignInv, OwnInv, NEW i \in Invoice, NEW total \in Nat,
           invoice[i].status = "Funded", Settle(i, total)
    PROVE  balance'[investment[i].investor] >=
               balance[investment[i].investor] + investment[i].amount
<1> DEFINE fee      == PlatformFee(i, total)
           released == IF escrow[i].status = "Held" THEN BalanceAfterRelease(i) ELSE balance
           investor == investment[i].investor
           owner    == OwnerOf[i]
           repaid   == Transfer(released, owner, investor, total - fee)
<1>1. PICK b \in Bid : BidsOf(i, "Accepted") = {b}
  BY DEF AlignInv, Aligned, DealIs
<1>2. /\ bid[b].status = "Accepted" /\ bid[b].invoice = i /\ bid[b].investor = investor
      /\ invoice[i].investor = investor /\ escrow[i].payee = owner
  BY <1>1 DEF AlignInv, Agreed, BidsOf
<1>3. /\ investor \in Investor /\ investor # owner /\ investor # Contract
      /\ owner \in Address /\ investor \in Address
      /\ Treasury \in Address /\ Contract \in Address
      /\ balance \in [Address -> Nat]
  BY <1>2, ConstantsOK, AddressesOK DEF IInv, BidInv, OwnInv, Absent, Address, TypeOK
<1>4. fee \in Nat /\ fee <= total - investment[i].amount /\ investment[i].amount \in Nat
  BY FeeType, FeeBound DEF Settle, IInv, TypeOK, InvestmentRow
<1>5. released \in [Address -> Nat] /\ released[investor] = balance[investor]
  <2>1. CASE escrow[i].status = "Held"
    <3>1. escrow[i].amount \in Nat
      BY DEF IInv, TypeOK, EscrowRow
    <3>2. CanRelease(i)
      BY <2>1 DEF Settle
    <3> QED BY <1>2, <1>3, <2>1, <3>1, <3>2, ReleaseType, TransferEffect DEF BalanceAfterRelease
  <2>2. CASE escrow[i].status # "Held"
    BY <1>3, <2>2
  <2> QED BY <2>1, <2>2
<1>6. /\ CanTransfer(released, owner, investor, total - fee)
      /\ fee > 0 => CanTransfer(repaid, owner, Treasury, fee)
      /\ balance' = IF fee > 0 THEN Transfer(repaid, owner, Treasury, fee) ELSE repaid
  BY <1>2 DEF Settle
<1> HIDE DEF fee, released, investor, owner
<1>7. repaid \in [Address -> Nat] /\ repaid[investor] = released[investor] + (total - fee)
  BY <1>3, <1>4, <1>5, <1>6, TransferType, TransferEffect
<1> HIDE DEF repaid
<1>8. balance'[investor] >= repaid[investor]
  <2>1. CASE fee > 0
    BY <1>3, <1>4, <1>6, <1>7, <2>1, TransferEffect
  <2>2. CASE ~(fee > 0)
    BY <1>3, <1>6, <1>7, <2>2
  <2> QED BY <2>1, <2>2
<1>9. /\ balance[investor] \in Nat /\ repaid[investor] \in Nat /\ released[investor] \in Nat
      /\ balance'[investor] \in Nat
  BY <1>3, <1>4, <1>5, <1>6, <1>7, TransferType
<1> QED BY <1>4, <1>5, <1>7, <1>8, <1>9 DEF investor

LEMMA StepRepays ==
    ASSUME Careful, IInv, AlignInv, OwnInv, [Next]_vars, NEW k \in Invoice,
           investment'[k].status = "Completed", ~Repaid(k)
    PROVE  balance'[investment[k].investor] >=
               balance[investment[k].investor] + investment[k].amount
<1> DEFINE Goal == balance'[investment[k].investor] >=
                       balance[investment[k].investor] + investment[k].amount
<1>1. investment'[k] # investment[k]
  BY DEF Repaid
<1>2. ASSUME NEW i \in Invoice, NEW total \in Nat, invoice[i].status = "Funded", Settle(i, total)
      PROVE  Goal
  <2>1. \A j \in Invoice \ {i} : investment'[j] = investment[j]
    BY <1>2, CloseInvestmentEffect DEF Settle, IInv, InvestmentStatus
  <2>2. k = i
    BY <1>1, <2>1
  <2> QED BY <1>2, <2>2, SettleRepays
<1>3. ASSUME NEW i \in Invoice, NEW amount \in PayAmounts,
             (\E n \in Nonce : PartialPayment(i, amount, n)) \/ SettleInvoice(i, amount)
      PROVE  Goal
  <2>1. amount \in Nat
    BY ConstantsOK
  <2>2. \/ UNCHANGED investment
        \/ \E n \in Nonce : invoice[i].status = "Funded" /\ Settle(i, TotalAfter(i, amount, n))
    BY <1>3, ConstantsOK DEF PartialPayment, SettleInvoice, CanRecord, dealVars
  <2> HIDE DEF Goal
  <2> QED BY <1>1, <1>2, <2>1, <2>2, TotalType DEF IInv
<1>4. ASSUME NEW i \in Invoice, NEW b \in Bid, AcceptBidAndFund(i, b) \/ AcceptBid(i, b)
      PROVE  FALSE
  <2>1. PICK row : row.status = "Active" /\ investment' = [investment EXCEPT ![i] = row]
    <3>1. PICK bs : Fund(i, i, b, bs)
      BY <1>4 DEF AcceptBidAndFund, AcceptBid, Careful
    <3> QED BY <3>1 DEF Fund
  <2> QED BY <1>1, <2>1 DEF IInv, TypeOK
<1>5. ASSUME NEW i \in Invoice, NEW st \in {"Refunded", "Defaulted"}, CloseInvestment(i, st)
      PROVE  FALSE
  <2>1. /\ \A j \in Invoice \ {i} : investment'[j] = investment[j]
        /\ investment'[i].status # "Completed" \/ investment'[i] = investment[i]
    BY <1>5, CloseInvestmentEffect DEF IInv, InvestmentStatus
  <2> QED BY <1>1, <2>1
<1>6. ASSUME NEW i \in Invoice,
             \/ RefundEscrow(i) \/ HandleDefault(i)
             \/ \E grace \in GracePeriods : DefaultAfterGrace(i, grace)
      PROVE  FALSE
  BY <1>5, <1>6 DEF RefundEscrow, HandleDefault, DefaultAfterGrace, Default
<1> HIDE DEF Goal
<1>7. Goal
  BY <1>1, <1>3, <1>4, <1>6, CallsKeepInvestments DEF Next, KeepsInvestments
<1> QED BY <1>7 DEF Goal

(* settlement.rs for any amounts and fee: a settlement pays the investor the *)
(* whole principal or more, fees come out of profit only.                    *)
THEOREM PrincipalRepaid == ASSUME Careful PROVE Spec => InvestorMadeWhole
<1>1. Init => OwnInv
  BY DEF Init, OwnInv, NoBid
<1>2. Spec => []OwnInv
  <2>1. IInv /\ OwnInv /\ [Next]_vars => OwnInv'
    BY NextOwn
  <2> QED BY <1>1, <2>1, Invariance, PTL DEF Spec
<1>3. IInv /\ AlignInv /\ OwnInv /\ [Next]_vars =>
         [\A i \in Invoice : investment'[i].status = "Completed" /\ ~Repaid(i) =>
              balance'[investment[i].investor] >=
                  balance[investment[i].investor] + investment[i].amount]_vars
  BY StepRepays
<1> QED BY <1>2, <1>3, AlignedAlways, PTL DEF Spec, InvestorMadeWhole

----------------------------------------------------------------------------
(* Ids are drawn from finite sets: 32-byte values.                           *)
FiniteIds == IsFiniteSet(Invoice) /\ IsFiniteSet(Bid)

(* What a step does to the money: the steps that move some, each on the      *)
(* records of one invoice.                                                   *)

At(a, b, amount) == IF a = b THEN amount ELSE 0

LEMMA TransferAt ==
    ASSUME NEW bal \in [Address -> Nat], NEW from \in Address, NEW to \in Address,
           NEW amount \in Nat, NEW a \in Address
    PROVE  Transfer(bal, from, to, amount)[a] = bal[a] + At(a, to, amount) - At(a, from, amount)
BY DEF Transfer, At

OneDeal(i) == \A k \in Invoice \ {i} : escrow'[k] = escrow[k] /\ investment'[k] = investment[k]

SameTerms(i) ==
    /\ escrow'[i].investor = escrow[i].investor /\ escrow'[i].payee = escrow[i].payee
    /\ escrow'[i].amount = escrow[i].amount
    /\ investment'[i].investor = investment[i].investor
    /\ investment'[i].amount = investment[i].amount

Locks(i) ==
    /\ NoDeal(i) /\ escrow'[i].status = "Held" /\ investment'[i].status = "Active"
    /\ \A a \in Address : balance'[a] = balance[a] + At(a, Contract, escrow'[i].amount)
                                        - At(a, escrow'[i].investor, escrow'[i].amount)

Releases(i) ==
    /\ Dealt(i) /\ SameTerms(i)
    /\ escrow[i].status = "Held" /\ escrow'[i].status = "Released"
    /\ investment'[i].status = investment[i].status
    /\ \A a \in Address : balance'[a] = balance[a] + At(a, escrow[i].payee, escrow[i].amount)
                                        - At(a, Contract, escrow[i].amount)

Refunds(i) ==
    /\ Dealt(i) /\ SameTerms(i)
    /\ escrow[i].status = "Held" /\ escrow'[i].status = "Refunded"
    /\ investment[i].status # "Completed" /\ investment'[i].status = "Refunded"
    /\ \A a \in Address : balance'[a] = balance[a] + At(a, escrow[i].investor, escrow[i].amount)
                                        - At(a, Contract, escrow[i].amount)

HeldNow(i) == IF escrow[i].status = "Held" THEN escrow[i].amount ELSE 0

Repays(i, total) ==
    /\ Dealt(i) /\ SameTerms(i)
    /\ escrow[i].status \in {"Held", "Released"} /\ escrow'[i].status = "Released"
    /\ investment[i].status = "Active" /\ investment'[i].status = "Completed"
    /\ invoice[i].status = "Funded"
    /\ invoice[i].paid <= Face[i] => total = Face[i]
    /\ PlatformFee(i, total) \in Nat /\ PlatformFee(i, total) <= total
    /\ \A a \in Address :
          balance'[a] = balance[a] + At(a, escrow[i].payee, HeldNow(i)) - At(a, Contract, HeldNow(i))
                                   + At(a, invoice[i].investor, total - PlatformFee(i, total))
                                   + At(a, Treasury, PlatformFee(i, total)) - At(a, OwnerOf[i], total)

WritesOff(i) ==
    /\ escrow'[i] = escrow[i] /\ balance' = balance
    /\ investment'[i].investor = investment[i].investor
    /\ investment'[i].amount = investment[i].amount
    /\ investment[i].status # "Completed" /\ investment'[i].status # "Completed"

MovesMoney(i) ==
    /\ OneDeal(i)
    /\ \/ Locks(i) \/ Releases(i) \/ Refunds(i) \/ WritesOff(i)
       \/ \E total \in Nat : Repays(i, total)

LEMMA FundLocks ==
    ASSUME IInv, NEW i \in Invoice, NEW j \in Invoice, NEW b \in Bid, NEW S \in SUBSET Invoice,
           CleanBids(S)[b].status = "Placed", Fund(i, j, b, CleanBids(S))
    PROVE  OneDeal(j) /\ Locks(j)
<1> DEFINE offer == CleanBids(S)[b]
<1>1. offer.investor \in Investor /\ offer.amount \in Nat
  <2>1. offer.investor = bid[b].investor /\ offer.amount = bid[b].amount /\ bid[b].status # Absent
    BY CleanEffect DEF IInv, Absent
  <2> QED BY <2>1 DEF IInv, BidInv, TypeOK, BidRow
<1>2. /\ escrow[j].status = Absent
      /\ escrow' = [escrow EXCEPT ![j] = NewEscrow(i, offer)]
      /\ investment' = [investment EXCEPT ![j] = [status |-> "Active",
                            investor |-> offer.investor, amount |-> offer.amount]]
      /\ balance' = Transfer(balance, offer.investor, Contract, offer.amount)
  BY DEF Fund
<1> HIDE DEF offer
<1>3. NoDeal(j)
  BY <1>2 DEF IInv, DealInv, Dealt, DealPairs, Absent
<1>4. /\ escrow'[j].status = "Held" /\ investment'[j].status = "Active"
      /\ escrow'[j].investor = offer.investor /\ escrow'[j].amount = offer.amount
      /\ OneDeal(j)
  BY <1>2 DEF IInv, TypeOK, NewEscrow, OneDeal
<1>5. offer.investor \in Address /\ Contract \in Address /\ balance \in [Address -> Nat]
  BY <1>1 DEF Address, IInv, TypeOK
<1>6. \A a \in Address : balance'[a] = balance[a] + At(a, Contract, offer.amount)
                                      - At(a, offer.investor, offer.amount)
  BY <1>1, <1>2, <1>5, TransferAt
<1> QED BY <1>3, <1>4, <1>6 DEF Locks

LEMMA HeldRow ==
    ASSUME IInv, NEW i \in Invoice, escrow[i].status = "Held"
    PROVE  /\ Dealt(i) /\ escrow[i].amount \in Nat
           /\ escrow[i].payee \in Address /\ escrow[i].investor \in Address
           /\ Contract \in Address /\ balance \in [Address -> Nat]
BY HeldDeal DEF Dealt, Absent, IInv, TypeOK, EscrowRow, Address

LEMMA ReleaseMoney ==
    ASSUME IInv, NEW i \in Invoice, ReleaseEscrow(i)
    PROVE  OneDeal(i) /\ Releases(i)
<1>1. /\ escrow[i].status = "Held" /\ escrow' = [escrow EXCEPT ![i].status = "Released"]
      /\ investment' = investment /\ balance' = BalanceAfterRelease(i)
  BY DEF ReleaseEscrow, CanRelease
<1>2. /\ escrow'[i].status = "Released" /\ SameTerms(i) /\ OneDeal(i)
  BY <1>1 DEF IInv, TypeOK, EscrowRow, SameTerms, OneDeal
<1>3. \A a \in Address : balance'[a] = balance[a] + At(a, escrow[i].payee, escrow[i].amount)
                                      - At(a, Contract, escrow[i].amount)
  BY <1>1, HeldRow, TransferAt DEF BalanceAfterRelease
<1> QED BY <1>1, <1>2, <1>3, HeldRow DEF Releases

LEMMA RefundMoney ==
    ASSUME IInv, NEW i \in Invoice, RefundEscrow(i)
    PROVE  OneDeal(i) /\ Refunds(i)
<1>1. /\ escrow[i].status = "Held" /\ escrow' = [escrow EXCEPT ![i].status = "Refunded"]
      /\ balance' = Transfer(balance, Contract, escrow[i].investor, escrow[i].amount)
      /\ CloseInvestment(i, "Refunded")
  BY DEF RefundEscrow
<1>2. Dealt(i)
  BY <1>1, HeldRow
<1>3. /\ investment[i].status \in {"Active", "Refunded"} /\ investment'[i].status = "Refunded"
      /\ investment'[i].investor = investment[i].investor
      /\ investment'[i].amount = investment[i].amount
      /\ \A k \in Invoice \ {i} : investment'[k] = investment[k]
  BY <1>1, <1>2, CloseInvestmentEffect DEF IInv, InvestmentStatus, Dealt, DealPairs, Absent
<1>4. escrow'[i].status = "Refunded" /\ SameTerms(i) /\ OneDeal(i)
  BY <1>1, <1>3 DEF IInv, TypeOK, EscrowRow, SameTerms, OneDeal
<1>5. \A a \in Address : balance'[a] = balance[a] + At(a, escrow[i].investor, escrow[i].amount)
                                      - At(a, Contract, escrow[i].amount)
  BY <1>1, HeldRow, TransferAt
<1> QED BY <1>1, <1>2, <1>3, <1>4, <1>5 DEF Refunds

LEMMA DefaultMoney ==
    ASSUME IInv, NEW i \in Invoice, Default(i)
    PROVE  OneDeal(i) /\ WritesOff(i)
<1>1. UNCHANGED <<escrow, balance>> /\ CloseInvestment(i, "Defaulted")
  BY DEF Default
<1>2. /\ \A k \in Invoice \ {i} : investment'[k] = investment[k]
      /\ investment'[i].investor = investment[i].investor
      /\ investment'[i].amount = investment[i].amount
      /\ investment[i].status # "Completed" /\ investment'[i].status # "Completed"
  BY <1>1, CloseInvestmentEffect DEF IInv, InvestmentStatus, Absent
<1> QED BY <1>1, <1>2 DEF OneDeal, WritesOff

(* A settlement: the principal still held goes to the payee, the business    *)
(* pays the investor and the fee.                                            *)
LEMMA SettleMoney ==
    ASSUME IInv, NEW i \in Invoice, NEW total \in Nat, Settle(i, total),
           escrow[i].status \in {"Held", "Released"}
    PROVE  LET fee == PlatformFee(i, total) IN
           /\ fee \in Nat /\ fee <= total
           /\ \A a \in Address :
                 balance'[a] = balance[a] + At(a, escrow[i].payee, HeldNow(i))
                                          - At(a, Contract, HeldNow(i))
                                          + At(a, invoice[i].investor, total - fee)
                                          + At(a, Treasury, fee) - At(a, OwnerOf[i], total)
<1> DEFINE fee      == PlatformFee(i, total)
           released == IF escrow[i].status = "Held" THEN BalanceAfterRelease(i) ELSE balance
           repaid   == Transfer(released, OwnerOf[i], invoice[i].investor, total - fee)
<1>1. /\ balance \in [Address -> Nat] /\ Contract \in Address /\ Treasury \in Address
      /\ OwnerOf[i] \in Address /\ invoice[i].investor \in Address /\ fee \in Nat
  BY FeeType, ConstantsOK DEF IInv, TypeOK, Address, Settle, InvoiceRow
<1>2. /\ CanTransfer(released, OwnerOf[i], invoice[i].investor, total - fee)
      /\ fee > 0 => CanTransfer(repaid, OwnerOf[i], Treasury, fee)
      /\ balance' = IF fee > 0 THEN Transfer(repaid, OwnerOf[i], Treasury, fee) ELSE repaid
      /\ escrow[i].status = "Held" => CanRelease(i)
  BY DEF Settle
<1>3. total - fee \in Nat
  BY <1>1, <1>2 DEF CanTransfer
<1>4. /\ released \in [Address -> Nat]
      /\ HeldNow(i) \in Nat
      /\ \A a \in Address : released[a] = balance[a] + At(a, escrow[i].payee, HeldNow(i))
                                          - At(a, Contract, HeldNow(i))
  <2>1. CASE escrow[i].status = "Held"
    <3>1. /\ HeldNow(i) = escrow[i].amount /\ escrow[i].amount \in Nat
          /\ released = BalanceAfterRelease(i)
      BY <2>1, HeldRow DEF HeldNow
    <3>2. released \in [Address -> Nat]
      BY <1>2, <2>1, <3>1, ReleaseType
    <3>3. \A a \in Address : BalanceAfterRelease(i)[a] =
              balance[a] + At(a, escrow[i].payee, escrow[i].amount)
                         - At(a, Contract, escrow[i].amount)
      BY <2>1, HeldRow, TransferAt DEF BalanceAfterRelease
    <3> QED BY <3>1, <3>2, <3>3
  <2>2. CASE escrow[i].status # "Held"
    BY <1>1, <2>2 DEF HeldNow, At
  <2> QED BY <2>1, <2>2
<1> HIDE DEF fee, released
<1>5. /\ repaid \in [Address -> Nat]
      /\ \A a \in Address : repaid[a] = released[a] + At(a, invoice[i].investor, total - fee)
                                        - At(a, OwnerOf[i], total - fee)
  <2>1. repaid \in [Address -> Nat]
    BY <1>1, <1>2, <1>3, <1>4, TransferType
  <2>2. released \in [Address -> Nat] /\ OwnerOf[i] \in Address /\ invoice[i].investor \in Address
    BY <1>1, <1>4
  <2>3. \A a \in Address :
            repaid[a] = released[a] + At(a, invoice[i].investor, total - fee)
                                    - At(a, OwnerOf[i], total - fee)
    BY <1>3, <2>2, TransferAt, Zenon
  <2> QED BY <2>1, <2>3
<1> HIDE DEF repaid
<1>6. \A a \in Address : balance'[a] = repaid[a] + At(a, Treasury, fee) - At(a, OwnerOf[i], fee)
  <2>1. CASE fee > 0
    <3>1. OwnerOf[i] \in Address /\ Treasury \in Address /\ fee \in Nat
          /\ repaid \in [Address -> Nat]
      BY <1>1, <1>5
    <3>2. \A a \in Address : Transfer(repaid, OwnerOf[i], Treasury, fee)[a] =
              repaid[a] + At(a, Treasury, fee) - At(a, OwnerOf[i], fee)
      BY <3>1, TransferAt, Zenon
    <3> QED BY <1>2, <2>1, <3>2
  <2>2. CASE fee = 0
    BY <1>2, <1>5, <2>2 DEF At
  <2> QED BY <1>1, <2>1, <2>2
<1>7. ASSUME NEW a \in Address
      PROVE  balance'[a] = balance[a] + At(a, escrow[i].payee, HeldNow(i))
                                      - At(a, Contract, HeldNow(i))
                                      + At(a, invoice[i].investor, total - fee)
                                      + At(a, Treasury, fee) - At(a, OwnerOf[i], total)
  <2>1. At(a, OwnerOf[i], total) = At(a, OwnerOf[i], total - fee) + At(a, OwnerOf[i], fee)
    BY <1>1, <1>3 DEF At
  <2>2. /\ At(a, OwnerOf[i], total - fee) \in Int /\ At(a, OwnerOf[i], fee) \in Int
        /\ At(a, Treasury, fee) \in Int /\ At(a, invoice[i].investor, total - fee) \in Int
        /\ At(a, escrow[i].payee, HeldNow(i)) \in Int /\ At(a, Contract, HeldNow(i)) \in Int
        /\ balance[a] \in Int
    BY <1>1, <1>3, <1>4 DEF At
  <2>3. released[a] = balance[a] + At(a, escrow[i].payee, HeldNow(i)) - At(a, Contract, HeldNow(i))
    BY <1>4
  <2>4. repaid[a] = released[a] + At(a, invoice[i].investor, total - fee)
                                - At(a, OwnerOf[i], total - fee)
    BY <1>5
  <2>5. balance'[a] = repaid[a] + At(a, Treasury, fee) - At(a, OwnerOf[i], fee)
    BY <1>6
  <2> QED BY <2>1, <2>2, <2>3, <2>4, <2>5
<1> QED BY <1>1, <1>3, <1>7 DEF fee

LEMMA SettleRepaysDeal ==
    ASSUME IInv, NEW i \in Invoice, NEW amount \in Nat, NEW n, invoice[i].status = "Funded",
           Settle(i, TotalAfter(i, amount, n))
    PROVE  OneDeal(i) /\ Repays(i, TotalAfter(i, amount, n)) /\ TotalAfter(i, amount, n) \in Nat
<1> DEFINE total == TotalAfter(i, amount, n)
<1>1. total \in Nat
  BY TotalType DEF IInv
<1>2. invoice[i].paid <= Face[i] => total <= Face[i]
  BY ConstantsOK DEF TotalAfter, Applied, Remaining, IInv, TypeOK, InvoiceRow
<1> HIDE DEF total
<1>3. Settle(i, total)
  BY DEF total
<1>4. /\ i \notin finalized /\ investment[i].status # Absent /\ total >= Face[i]
      /\ escrow' = IF escrow[i].status = "Held"
                   THEN [escrow EXCEPT ![i].status = "Released"] ELSE escrow
      /\ CloseInvestment(i, "Completed")
  BY <1>3 DEF Settle
<1>5. Dealt(i)
  BY <1>4 DEF IInv, DealInv, NoDeal, NoInvestment
<1>6. /\ investment[i].status = "Active" /\ investment'[i].status = "Completed"
      /\ \A k \in Invoice \ {i} : investment'[k] = investment[k]
      /\ investment'[i].investor = investment[i].investor
      /\ investment'[i].amount = investment[i].amount
  BY <1>4, <1>5, CloseInvestmentEffect DEF IInv, InvestmentStatus, Dealt
<1>7. escrow[i].status \in {"Held", "Released"}
  BY <1>5, <1>6 DEF Dealt, DealPairs
<1>8. escrow'[i].status = "Released" /\ SameTerms(i) /\ OneDeal(i)
  BY <1>4, <1>6, <1>7 DEF IInv, TypeOK, EscrowRow, SameTerms, OneDeal
<1>9. invoice[i].paid <= Face[i] => total = Face[i]
  BY <1>1, <1>2, <1>4, ConstantsOK
<1>10. OneDeal(i) /\ Repays(i, total)
  BY <1>1, <1>3, <1>5, <1>6, <1>7, <1>8, <1>9, SettleMoney DEF Repays
<1> QED BY <1>1, <1>10 DEF total

(* The calls that move no money.                                            *)
KeepsMoney(i) ==
    \/ StoreInvoice(i) \/ UploadInvoice(i) \/ VerifyInvoice(i) \/ CancelInvoice(i)
    \/ \E st \in {"Verified", "Paid", "Defaulted", "Funded"} : UpdateInvoiceStatus(i, st)
    \/ CleanupExpiredBids(i)
    \/ \E v \in Investor, amount \in BidAmounts, b \in Bid : PlaceBid(v, i, amount, b)

LEMMA CallsKeepMoney ==
    ASSUME \/ \E i \in Invoice : KeepsMoney(i)
           \/ \E b \in Bid : WithdrawBid(b) \/ CancelBid(b)
           \/ Tick \/ UNCHANGED vars
    PROVE  UNCHANGED <<escrow, investment, balance>>
<1>1. ASSUME NEW i \in Invoice, KeepsMoney(i) PROVE UNCHANGED <<escrow, investment, balance>>
  BY <1>1 DEF KeepsMoney, StoreInvoice, UploadInvoice, VerifyInvoice, CancelInvoice,
              UpdateInvoiceStatus, CleanupExpiredBids, PlaceBid, dealVars
<1>2. ASSUME NEW b \in Bid, WithdrawBid(b) \/ CancelBid(b)
      PROVE  UNCHANGED <<escrow, investment, balance>>
  BY <1>2 DEF WithdrawBid, CancelBid, CloseBid, dealVars
<1>3. CASE Tick \/ UNCHANGED vars
  BY <1>3 DEF Tick, vars, dealVars
<1> QED BY <1>1, <1>2, <1>3

LEMMA StepMoney ==
    ASSUME IInv, [Next]_vars
    PROVE  UNCHANGED <<escrow, investment, balance>> \/ \E i \in Invoice : MovesMoney(i)
<1> DEFINE Goal == UNCHANGED <<escrow, investment, balance>> \/ \E i \in Invoice : MovesMoney(i)
<1>1. ASSUME NEW i \in Invoice, NEW b \in Bid, AcceptBidAndFund(i, b) PROVE Goal
  BY <1>1, FundLocks DEF AcceptBidAndFund, MovesMoney
<1>2. ASSUME NEW i \in Invoice, NEW b \in Bid, AcceptBid(i, b) PROVE Goal
  <2>1. bid[b].invoice \in Invoice
    BY <1>2 DEF AcceptBid, IInv, BidInv
  <2> QED BY <1>2, <2>1, FundLocks DEF AcceptBid, MovesMoney
<1>3. ASSUME NEW i \in Invoice, ReleaseEscrow(i) \/ RefundEscrow(i) PROVE Goal
  BY <1>3, ReleaseMoney, RefundMoney DEF MovesMoney
<1>4. ASSUME NEW i \in Invoice, NEW grace \in GracePeriods, DefaultAfterGrace(i, grace) PROVE Goal
  BY <1>4, DefaultMoney DEF DefaultAfterGrace, MovesMoney
<1>5. ASSUME NEW i \in Invoice, HandleDefault(i) PROVE Goal
  BY <1>5, DefaultMoney DEF HandleDefault, MovesMoney
<1>6. ASSUME NEW i \in Invoice, NEW amount \in PayAmounts, NEW n \in Nonce,
             PartialPayment(i, amount, n)
      PROVE  Goal
  <2>1. amount \in Nat
    BY ConstantsOK
  <2>2. CASE Settle(i, TotalAfter(i, amount, n))
    BY <1>6, <2>1, <2>2, SettleRepaysDeal DEF PartialPayment, CanRecord, MovesMoney
  <2>3. CASE ~Settle(i, TotalAfter(i, amount, n))
    BY <1>6, <2>3 DEF PartialPayment, dealVars
  <2> QED BY <2>2, <2>3
<1>7. ASSUME NEW i \in Invoice, NEW amount \in PayAmounts, SettleInvoice(i, amount) PROVE Goal
  <2>1. amount \in Nat
    BY ConstantsOK
  <2> QED BY <1>7, <2>1, SettleRepaysDeal DEF SettleInvoice, CanRecord, MovesMoney
<1>8. ASSUME \/ \E i \in Invoice : KeepsMoney(i)
             \/ \E b \in Bid : WithdrawBid(b) \/ CancelBid(b)
             \/ Tick \/ UNCHANGED vars
      PROVE  Goal
  BY <1>8, CallsKeepMoney
<1> HIDE DEF Goal
<1>9. Goal
  BY <1>1, <1>2, <1>3, <1>4, <1>5, <1>6, <1>7, <1>8 DEF Next, KeepsMoney
<1> QED BY <1>9 DEF Goal

----------------------------------------------------------------------------
(* Solvency. *)

HeldIn == {i \in Invoice : escrow[i].status = "Held"}

LEMMA RowAmounts ==
    ASSUME TypeOK
    PROVE  \A i \in Invoice : Amounts(escrow)[i] = escrow[i].amount /\ escrow[i].amount \in Nat
BY DEF TypeOK, EscrowRow, Amounts

LEMMA HeldChange ==
    ASSUME IInv, TypeOK', FiniteIds, NEW i \in Invoice, OneDeal(i)
    PROVE  /\ HeldSum \in Nat /\ HeldSum' \in Nat
           /\ HeldSum' - HeldNow(i)' = HeldSum - HeldNow(i)
<1> DEFINE f == Amounts(escrow)
           g == Amounts(escrow')
           T == HeldIn
           U == HeldIn'
<1>1. /\ \A k \in Invoice : f[k] = escrow[k].amount /\ f[k] \in Nat
      /\ \A k \in Invoice : g[k] = escrow'[k].amount /\ g[k] \in Nat
  BY RowAmounts DEF IInv, TypeOK, EscrowRow, Amounts
<1>2. /\ T \in SUBSET Invoice /\ U \in SUBSET Invoice
      /\ \A y \in Invoice \ {i} : (y \in T <=> y \in U) /\ g[y] = f[y]
      /\ i \in T <=> escrow[i].status = "Held"
      /\ i \in U <=> escrow'[i].status = "Held"
  BY <1>1 DEF OneDeal, HeldIn
<1>3. HeldSum = SumOver(f, T) /\ HeldSum' = SumOver(g, U)
  BY DEF HeldSum, HeldIn
<1> HIDE DEF f, g, T, U
<1>4. /\ SumOver(f, T) \in Nat /\ SumOver(g, U) \in Nat
      /\ SumOver(g, U) - Share(g, U, i) = SumOver(f, T) - Share(f, T, i)
  BY <1>1, <1>2, SumChange DEF FiniteIds
<1>5. Share(f, T, i) = HeldNow(i) /\ Share(g, U, i) = HeldNow(i)'
  BY <1>1, <1>2 DEF Share, HeldNow
<1> QED BY <1>3, <1>4, <1>5

(* The contract's balance follows the change of what is Held.                *)
LEMMA CustodyFollows ==
    ASSUME IInv, TypeOK', NEW i \in Invoice, MovesMoney(i)
    PROVE  /\ balance'[Contract] >= balance[Contract] + HeldNow(i)' - HeldNow(i)
           /\ Treasury # Contract =>
                  balance'[Contract] = balance[Contract] + HeldNow(i)' - HeldNow(i)
<1>1. /\ Contract \in Address /\ Contract \notin Investor /\ Contract \notin Business
      /\ balance[Contract] \in Nat /\ escrow[i].amount \in Nat /\ escrow'[i].amount \in Nat
      /\ OwnerOf[i] # Contract /\ invoice[i].investor # Contract
      /\ escrow'[i].investor # Contract
  BY AddressesOK, ConstantsOK DEF Address, IInv, TypeOK, EscrowRow, InvoiceRow
<1>2. CASE Locks(i)
  BY <1>1, <1>2 DEF Locks, NoDeal, NoEscrow, HeldNow, At, Absent
<1>3. CASE Releases(i)
  BY <1>1, <1>3 DEF Releases, Dealt, SameTerms, HeldNow, At
<1>4. CASE Refunds(i)
  BY <1>1, <1>4 DEF Refunds, Dealt, SameTerms, HeldNow, At
<1>5. CASE WritesOff(i)
  BY <1>1, <1>5 DEF WritesOff, HeldNow
<1>6. ASSUME NEW total \in Nat, Repays(i, total)
      PROVE  /\ balance'[Contract] >= balance[Contract] + HeldNow(i)' - HeldNow(i)
             /\ Treasury # Contract =>
                    balance'[Contract] = balance[Contract] + HeldNow(i)' - HeldNow(i)
  <2>1. /\ PlatformFee(i, total) \in Nat /\ HeldNow(i)' = 0 /\ HeldNow(i) \in Nat
        /\ escrow[i].payee # Contract
    BY <1>1, <1>6 DEF Repays, Dealt, HeldNow
  <2>2. balance'[Contract] = balance[Contract] - HeldNow(i) + At(Contract, Treasury, PlatformFee(i, total))
    BY <1>1, <1>6, <2>1 DEF Repays, At
  <2> QED BY <1>1, <2>1, <2>2 DEF At
<1> QED BY <1>2, <1>3, <1>4, <1>5, <1>6 DEF MovesMoney

LEMMA NextSolvent ==
    ASSUME IInv, IInv', FiniteIds, Solvency, [Next]_vars
    PROVE  Solvency'
<1>1. TypeOK' /\ balance[Contract] \in Nat /\ balance'[Contract] \in Nat
      /\ StartBalance[Contract] \in Nat
  BY ConstantsOK DEF IInv, TypeOK, Address
<1>2. CASE UNCHANGED <<escrow, investment, balance>>
  BY <1>2 DEF Solvency, HeldSum
<1>3. ASSUME NEW i \in Invoice, MovesMoney(i) PROVE Solvency'
  <2>1. /\ HeldSum \in Nat /\ HeldSum' \in Nat
        /\ HeldSum' - HeldNow(i)' = HeldSum - HeldNow(i)
    BY <1>1, <1>3, HeldChange DEF MovesMoney
  <2>2. HeldNow(i) \in Nat /\ HeldNow(i)' \in Nat
    BY <1>1 DEF HeldNow, IInv, TypeOK, EscrowRow
  <2> QED BY <1>1, <1>3, <2>1, <2>2, CustodyFollows DEF Solvency
<1> QED BY <1>2, <1>3, StepMoney

LEMMA InitSolvent == Init => Solvency
<1> SUFFICES ASSUME Init PROVE Solvency
  OBVIOUS
<1>1. {i \in Invoice : escrow[i].status = "Held"} = {} /\ balance = StartBalance
  BY DEF Init, NoEscrow, Absent
<1>2. HeldSum = 0
  BY <1>1, SumEmpty DEF HeldSum
<1>3. StartBalance[Contract] \in Nat
  BY ConstantsOK DEF Address
<1> QED BY <1>1, <1>2, <1>3 DEF Solvency

(* The contract can always pay every Held escrow, for any number of deals    *)
(* and whatever entry points the callers use.                                *)
THEOREM ContractSolvent == ASSUME FiniteIds PROVE Spec => []Solvency
<1>1. Init => IInv /\ Solvency
  BY InitInv, InitSolvent
<1>2. IInv /\ Solvency /\ [Next]_vars => IInv' /\ Solvency'
  BY NextInv, NextSolvent
<1> QED BY <1>1, <1>2, PTL DEF Spec

----------------------------------------------------------------------------
(* Every balance is what the records say. *)

If(cond, amount) == IF cond THEN amount ELSE 0

(* What the deal of invoice i contributes to a participant's balance.        *)
Lent(p, i) == If(escrow[i].investor = p /\ escrow[i].status # "Refunded", escrow[i].amount)
Earned(p, i) == If(investment[i].investor = p /\ Repaid(i), Proceeds[i])
Received(p, i) == If(escrow[i].payee = p /\ escrow[i].status = "Released", escrow[i].amount)
Paid(p, i) == If(OwnerOf[i] = p /\ Repaid(i), Face[i])

LentSum(p) == SumOver(Amounts(escrow), LentIn(p))
EarnedSum(p) == SumOver(Proceeds, EarnedIn(p))
ReceivedSum(p) == SumOver(Amounts(escrow), ReceivedIn(p))
PaidSum(p) == SumOver(Face, PaidIn(p))

Follows(p) == balance[p] = StartBalance[p] - LentSum(p) + EarnedSum(p) + ReceivedSum(p) - PaidSum(p)

Participant == (Investor \cup Business) \ {Treasury}

LEMMA ProceedsType ==
    ASSUME TypeOK, NEW i \in Invoice
    PROVE  Proceeds[i] = Face[i] - PlatformFee(i, Face[i]) /\ Proceeds[i] \in Nat
<1>1. Face[i] \in Nat /\ investment[i].amount \in Nat
  BY ConstantsOK DEF TypeOK, InvestmentRow
<1>2. PlatformFee(i, Face[i]) \in Nat
  BY <1>1, FeeType
<1>3. CASE Face[i] >= investment[i].amount
  BY <1>1, <1>2, <1>3, FeeBound DEF Proceeds
<1>4. CASE Face[i] < investment[i].amount
  BY <1>1, <1>4 DEF Proceeds, PlatformFee
<1> QED BY <1>1, <1>3, <1>4

ProceedsNat == \A k \in Invoice : Proceeds[k] \in Nat

LEMMA ProceedsAlways == TypeOK => ProceedsNat
BY ProceedsType DEF ProceedsNat

LEMMA ProceedsKept ==
    ASSUME NEW i \in Invoice, investment'[i].amount = investment[i].amount
    PROVE  Proceeds'[i] = Proceeds[i]
BY DEF Proceeds, PlatformFee

(* One deal changes: each of the four sums changes by that deal's share.     *)
LEMMA EscrowSumsChange ==
    ASSUME TypeOK, TypeOK', FiniteIds, NEW i \in Invoice, OneDeal(i), NEW p
    PROVE  /\ LentSum(p) \in Nat /\ LentSum(p)' \in Nat
           /\ LentSum(p)' - Lent(p, i)' = LentSum(p) - Lent(p, i)
           /\ ReceivedSum(p) \in Nat /\ ReceivedSum(p)' \in Nat
           /\ ReceivedSum(p)' - Received(p, i)' = ReceivedSum(p) - Received(p, i)
<1> DEFINE f == Amounts(escrow)
           g == Amounts(escrow')
           T == LentIn(p)
           U == LentIn(p)'
           V == ReceivedIn(p)
           W == ReceivedIn(p)'
<1>1. /\ \A k \in Invoice : f[k] = escrow[k].amount /\ f[k] \in Nat
      /\ \A k \in Invoice : g[k] = escrow'[k].amount /\ g[k] \in Nat
  BY RowAmounts DEF TypeOK, EscrowRow, Amounts
<1>2. /\ T \in SUBSET Invoice /\ U \in SUBSET Invoice
      /\ \A y \in Invoice \ {i} : (y \in T <=> y \in U) /\ g[y] = f[y]
  BY <1>1 DEF OneDeal, LentIn
<1>3. /\ V \in SUBSET Invoice /\ W \in SUBSET Invoice
      /\ \A y \in Invoice \ {i} : (y \in V <=> y \in W) /\ g[y] = f[y]
  BY <1>1 DEF OneDeal, ReceivedIn
<1>4. /\ Share(f, T, i) = Lent(p, i) /\ Share(g, U, i) = Lent(p, i)'
      /\ Share(f, V, i) = Received(p, i) /\ Share(g, W, i) = Received(p, i)'
  BY <1>1 DEF Share, Lent, Received, If, LentIn, ReceivedIn
<1>5. /\ LentSum(p) = SumOver(f, T) /\ LentSum(p)' = SumOver(g, U)
      /\ ReceivedSum(p) = SumOver(f, V) /\ ReceivedSum(p)' = SumOver(g, W)
  BY DEF LentSum, ReceivedSum
<1> HIDE DEF f, g, T, U, V, W
<1>6. /\ SumOver(f, T) \in Nat /\ SumOver(g, U) \in Nat
      /\ SumOver(g, U) - Share(g, U, i) = SumOver(f, T) - Share(f, T, i)
  BY <1>1, <1>2, SumChange DEF FiniteIds
<1>7. /\ SumOver(f, V) \in Nat /\ SumOver(g, W) \in Nat
      /\ SumOver(g, W) - Share(g, W, i) = SumOver(f, V) - Share(f, V, i)
  BY <1>1, <1>3, SumChange DEF FiniteIds
<1> QED BY <1>4, <1>5, <1>6, <1>7

LEMMA RepaidSumsChange ==
    ASSUME TypeOK, TypeOK', FiniteIds, NEW i \in Invoice, OneDeal(i), NEW p
    PROVE  /\ EarnedSum(p) \in Nat /\ EarnedSum(p)' \in Nat
           /\ EarnedSum(p)' - Earned(p, i)' = EarnedSum(p) - Earned(p, i)
           /\ PaidSum(p) \in Nat /\ PaidSum(p)' \in Nat
           /\ PaidSum(p)' - Paid(p, i)' = PaidSum(p) - Paid(p, i)
<1> DEFINE f == Proceeds
           g == Proceeds'
           T == EarnedIn(p)
           U == EarnedIn(p)'
           V == PaidIn(p)
           W == PaidIn(p)'
<1>0. ProceedsNat'
  BY ProceedsAlways, PTL
<1>1. /\ \A k \in Invoice : f[k] \in Nat /\ g[k] \in Nat /\ Face[k] \in Nat
      /\ \A k \in Invoice \ {i} : g[k] = f[k]
  BY <1>0, ProceedsType, ProceedsKept, ConstantsOK DEF OneDeal, ProceedsNat
<1>2. /\ T \in SUBSET Invoice /\ U \in SUBSET Invoice
      /\ \A y \in Invoice \ {i} : y \in T <=> y \in U
  BY DEF OneDeal, EarnedIn, Repaid
<1>3. /\ V \in SUBSET Invoice /\ W \in SUBSET Invoice
      /\ \A y \in Invoice \ {i} : y \in V <=> y \in W
  BY DEF OneDeal, PaidIn, Repaid
<1>4. /\ Share(f, T, i) = Earned(p, i) /\ Share(g, U, i) = Earned(p, i)'
      /\ Share(Face, V, i) = Paid(p, i) /\ Share(Face, W, i) = Paid(p, i)'
  BY DEF Share, Earned, Paid, If, EarnedIn, PaidIn
<1>5. /\ EarnedSum(p) = SumOver(f, T) /\ EarnedSum(p)' = SumOver(g, U)
      /\ PaidSum(p) = SumOver(Face, V) /\ PaidSum(p)' = SumOver(Face, W)
  BY DEF EarnedSum, PaidSum
<1> HIDE DEF f, g, T, U, V, W
<1>6. /\ SumOver(f, T) \in Nat /\ SumOver(g, U) \in Nat
      /\ SumOver(g, U) - Share(g, U, i) = SumOver(f, T) - Share(f, T, i)
  BY <1>1, <1>2, SumChange DEF FiniteIds
<1>7. /\ SumOver(Face, V) \in Nat /\ SumOver(Face, W) \in Nat
      /\ SumOver(Face, W) - Share(Face, W, i) = SumOver(Face, V) - Share(Face, V, i)
  BY <1>1, <1>3, SumChange DEF FiniteIds
<1> QED BY <1>4, <1>5, <1>6, <1>7

(* The balance of a participant changes by what its records say.             *)
MovesWithDeal(p, i) ==
    balance'[p] - balance[p] = (Lent(p, i) - Lent(p, i)') + (Earned(p, i)' - Earned(p, i))
                               + (Received(p, i)' - Received(p, i)) + (Paid(p, i) - Paid(p, i)')

LEMMA SharesType ==
    ASSUME TypeOK, NEW i \in Invoice, NEW p
    PROVE  Lent(p, i) \in Nat /\ Earned(p, i) \in Nat /\ Received(p, i) \in Nat /\ Paid(p, i) \in Nat
BY ProceedsType, ConstantsOK DEF Lent, Earned, Received, Paid, If, TypeOK, EscrowRow

SharesNat == \A i \in Invoice : \A p \in Participant :
    Lent(p, i) \in Nat /\ Earned(p, i) \in Nat /\ Received(p, i) \in Nat /\ Paid(p, i) \in Nat

LEMMA SharesAlways == TypeOK => SharesNat
BY SharesType DEF SharesNat

LEMMA FundedParties ==
    ASSUME TypeOK, AlignInv, NEW i \in Invoice, invoice[i].status = "Funded"
    PROVE  escrow[i].payee = OwnerOf[i] /\ escrow[i].investor = invoice[i].investor
<1>1. PICK b \in Bid : BidsOf(i, "Accepted") = {b}
  BY DEF AlignInv, Aligned, DealIs
<1> QED BY <1>1 DEF AlignInv, Agreed
LEMMA RepaidShares ==
    ASSUME NEW i \in Invoice, NEW p
    PROVE  /\ investment[i].status # "Completed" => Earned(p, i) = 0 /\ Paid(p, i) = 0
           /\ investment'[i].status # "Completed" => Earned(p, i)' = 0 /\ Paid(p, i)' = 0
BY DEF Earned, Paid, If, Repaid

LEMMA LocksFollow ==
    ASSUME NEW i \in Invoice, NEW p \in Participant, IInv, IInv', Locks(i)
    PROVE  MovesWithDeal(p, i)
<1>1. p \in Address /\ p # NoOne /\ p # Contract /\ balance[p] \in Int /\ escrow'[i].amount \in Nat
  BY AddressesOK DEF Participant, Address, IInv, TypeOK, EscrowRow
<1>2. /\ Lent(p, i) = 0 /\ Received(p, i) = 0
      /\ Lent(p, i)' = At(p, escrow'[i].investor, escrow'[i].amount) /\ Received(p, i)' = 0
  BY <1>1 DEF Locks, NoDeal, NoEscrow, Absent, Lent, Received, If, At
<1>3. Earned(p, i) = 0 /\ Paid(p, i) = 0 /\ Earned(p, i)' = 0 /\ Paid(p, i)' = 0
  BY RepaidShares DEF Locks, NoDeal, NoInvestment, Absent
<1>4. balance'[p] = balance[p] - At(p, escrow'[i].investor, escrow'[i].amount)
  BY <1>1 DEF Locks, At
<1> QED BY <1>1, <1>2, <1>3, <1>4 DEF MovesWithDeal, At

(* Shares that depend only on who repaid to whom stay when no repayment      *)
(* happens.                                                                  *)
LEMMA RepaidSharesStay ==
    ASSUME NEW i \in Invoice, NEW p, SameTerms(i), Repaid(i)' <=> Repaid(i)
    PROVE  Earned(p, i)' = Earned(p, i) /\ Paid(p, i)' = Paid(p, i)
BY ProceedsKept DEF Earned, Paid, If, SameTerms

LEMMA ReleasesFollow ==
    ASSUME NEW i \in Invoice, NEW p \in Participant, IInv, Releases(i)
    PROVE  MovesWithDeal(p, i)
<1>1. /\ p \in Address /\ p # Contract /\ balance[p] \in Int /\ escrow[i].amount \in Nat
      /\ Earned(p, i) \in Nat /\ Paid(p, i) \in Nat
  BY AddressesOK, SharesType DEF Participant, Address, IInv, TypeOK, EscrowRow
<1>2. /\ Lent(p, i)' = Lent(p, i) /\ Lent(p, i) \in Nat
      /\ Received(p, i) = 0 /\ Received(p, i)' = At(p, escrow[i].payee, escrow[i].amount)
  BY <1>1 DEF Releases, SameTerms, Lent, Received, If, At
<1>3. Earned(p, i)' = Earned(p, i) /\ Paid(p, i)' = Paid(p, i)
  BY RepaidSharesStay DEF Releases, Repaid
<1>4. balance'[p] = balance[p] + At(p, escrow[i].payee, escrow[i].amount)
  BY <1>1 DEF Releases, At
<1> QED BY <1>1, <1>2, <1>3, <1>4 DEF MovesWithDeal, At

LEMMA RefundsFollow ==
    ASSUME NEW i \in Invoice, NEW p \in Participant, IInv, Refunds(i)
    PROVE  MovesWithDeal(p, i)
<1>1. p \in Address /\ p # Contract /\ balance[p] \in Int /\ escrow[i].amount \in Nat
  BY AddressesOK DEF Participant, Address, IInv, TypeOK, EscrowRow
<1>2. /\ Lent(p, i) = At(p, escrow[i].investor, escrow[i].amount) /\ Lent(p, i)' = 0
      /\ Received(p, i) = 0 /\ Received(p, i)' = 0
  BY <1>1 DEF Refunds, SameTerms, Lent, Received, If, At
<1>3. Earned(p, i) = 0 /\ Paid(p, i) = 0 /\ Earned(p, i)' = 0 /\ Paid(p, i)' = 0
  BY RepaidShares DEF Refunds
<1>4. balance'[p] = balance[p] + At(p, escrow[i].investor, escrow[i].amount)
  BY <1>1 DEF Refunds, At
<1> QED BY <1>1, <1>2, <1>3, <1>4 DEF MovesWithDeal, At

LEMMA WritesOffFollow ==
    ASSUME NEW i \in Invoice, NEW p \in Participant, IInv, WritesOff(i)
    PROVE  MovesWithDeal(p, i)
<1>1. balance'[p] = balance[p] /\ balance[p] \in Int
  BY DEF WritesOff, Participant, Address, IInv, TypeOK
<1>2. /\ Lent(p, i)' = Lent(p, i) /\ Lent(p, i) \in Nat
      /\ Received(p, i)' = Received(p, i) /\ Received(p, i) \in Nat
  BY SharesType DEF WritesOff, Lent, Received, If, IInv
<1>3. Earned(p, i) = 0 /\ Paid(p, i) = 0 /\ Earned(p, i)' = 0 /\ Paid(p, i)' = 0
  BY RepaidShares DEF WritesOff
<1> QED BY <1>1, <1>2, <1>3 DEF MovesWithDeal

(* A settlement pays face minus fee to the investor the records name, for    *)
(* careful callers pay in exactly the face.                                  *)
LEMMA RepaysFollow ==
    ASSUME NEW i \in Invoice, NEW p \in Participant, NEW total \in Nat, IInv, AlignInv,
           PaidInFullIsSettled, Repays(i, total)
    PROVE  MovesWithDeal(p, i)
<1>1. /\ p \in Address /\ p # Contract /\ p # Treasury /\ balance[p] \in Int
      /\ escrow[i].amount \in Nat /\ Face[i] \in Nat
  BY AddressesOK, ConstantsOK DEF Participant, Address, IInv, TypeOK, EscrowRow
<1>2. /\ escrow[i].payee = OwnerOf[i] /\ escrow[i].investor = invoice[i].investor
      /\ investment[i].investor = escrow[i].investor
  BY FundedParties DEF Repays, IInv, Dealt
<1>3. total = Face[i]
  BY DEF PaidInFullIsSettled, Repays
<1> DEFINE gain == Proceeds[i]
<1>4. /\ gain = Face[i] - PlatformFee(i, Face[i]) /\ gain \in Nat
      /\ Proceeds'[i] = gain
  BY ProceedsType, ProceedsKept DEF IInv, Repays, SameTerms
<1> HIDE DEF gain
<1>5. HeldNow(i) \in Nat
  BY <1>1 DEF HeldNow
<1>6. balance'[p] = balance[p] + At(p, OwnerOf[i], HeldNow(i))
                    + At(p, invoice[i].investor, gain) - At(p, OwnerOf[i], Face[i])
  <2>1. /\ PlatformFee(i, Face[i]) \in Nat
        /\ balance'[p] = balance[p] + At(p, OwnerOf[i], HeldNow(i)) - At(p, Contract, HeldNow(i))
                         + At(p, invoice[i].investor, gain)
                         + At(p, Treasury, PlatformFee(i, Face[i])) - At(p, OwnerOf[i], Face[i])
    BY <1>1, <1>2, <1>3, <1>4 DEF Repays
  <2> QED BY <1>1, <1>4, <1>5, <2>1 DEF At
<1>7. /\ Lent(p, i)' = Lent(p, i) /\ Lent(p, i) \in Nat
      /\ Received(p, i) \in Nat
      /\ Received(p, i)' = Received(p, i) + At(p, OwnerOf[i], HeldNow(i))
  BY <1>1, <1>2 DEF Repays, SameTerms, HeldNow, Lent, Received, If, At
<1>8. /\ Earned(p, i) = 0 /\ Paid(p, i) = 0
      /\ Earned(p, i)' = At(p, invoice[i].investor, gain) /\ Paid(p, i)' = At(p, OwnerOf[i], Face[i])
  BY <1>1, <1>2, <1>4 DEF Repays, SameTerms, Earned, Paid, Repaid, If, At
<1> QED BY <1>1, <1>4, <1>5, <1>6, <1>7, <1>8 DEF MovesWithDeal, At

LEMMA MoneyFollowsDeal ==
    ASSUME NEW i \in Invoice, NEW p \in Participant, IInv, IInv', AlignInv,
           PaidInFullIsSettled, MovesMoney(i)
    PROVE  MovesWithDeal(p, i)
BY LocksFollow, ReleasesFollow, RefundsFollow, WritesOffFollow, RepaysFollow DEF MovesMoney

LEMMA NextFollows ==
    ASSUME FiniteIds, NEW p \in Participant, Follows(p), IInv, IInv', AlignInv,
           PaidInFullIsSettled, [Next]_vars
    PROVE  Follows(p)'
<1>1. TypeOK /\ TypeOK' /\ balance[p] \in Int /\ balance'[p] \in Int /\ StartBalance[p] \in Int
  BY ConstantsOK DEF IInv, TypeOK, Participant, Address
<1>2. CASE UNCHANGED <<escrow, investment, balance>>
  BY <1>2 DEF Follows, LentSum, EarnedSum, ReceivedSum, PaidSum, LentIn, EarnedIn, ReceivedIn,
              PaidIn, Repaid, Proceeds, PlatformFee
<1>3. ASSUME NEW i \in Invoice, MovesMoney(i) PROVE Follows(p)'
  <2>1. OneDeal(i)
    BY <1>3 DEF MovesMoney
  <2>2. MovesWithDeal(p, i)
    BY <1>3, MoneyFollowsDeal
  <2>3. /\ LentSum(p) \in Nat /\ LentSum(p)' \in Nat
        /\ LentSum(p)' - Lent(p, i)' = LentSum(p) - Lent(p, i)
        /\ ReceivedSum(p) \in Nat /\ ReceivedSum(p)' \in Nat
        /\ ReceivedSum(p)' - Received(p, i)' = ReceivedSum(p) - Received(p, i)
    BY <1>1, <2>1, EscrowSumsChange
  <2>4. /\ EarnedSum(p) \in Nat /\ EarnedSum(p)' \in Nat
        /\ EarnedSum(p)' - Earned(p, i)' = EarnedSum(p) - Earned(p, i)
        /\ PaidSum(p) \in Nat /\ PaidSum(p)' \in Nat
        /\ PaidSum(p)' - Paid(p, i)' = PaidSum(p) - Paid(p, i)
    BY <1>1, <2>1, RepaidSumsChange
  <2>5. Lent(p, i) \in Nat /\ Earned(p, i) \in Nat /\ Received(p, i) \in Nat /\ Paid(p, i) \in Nat
    BY <1>1, SharesType
  <2>a. SharesNat'
    BY <1>1, SharesAlways, PTL
  <2>6. Lent(p, i)' \in Int /\ Earned(p, i)' \in Int /\ Received(p, i)' \in Int /\ Paid(p, i)' \in Int
    BY <2>a DEF SharesNat
  <2>7. balance[p] = StartBalance[p] - LentSum(p) + EarnedSum(p) + ReceivedSum(p) - PaidSum(p)
    BY DEF Follows
  <2>8. balance'[p] - balance[p] = (LentSum(p) - LentSum(p)') + (EarnedSum(p)' - EarnedSum(p))
                          + (ReceivedSum(p)' - ReceivedSum(p)) + (PaidSum(p) - PaidSum(p)')
    BY <1>1, <2>2, <2>3, <2>4, <2>5, <2>6 DEF MovesWithDeal
  <2>9. balance'[p] = StartBalance[p] - LentSum(p)' + EarnedSum(p)' + ReceivedSum(p)' - PaidSum(p)'
    BY <1>1, <2>3, <2>4, <2>7, <2>8
  <2> QED BY <2>9 DEF Follows
<1> QED BY <1>2, <1>3, StepMoney

LEMMA InitFollows == Init => \A p \in Participant : Follows(p)
<1> SUFFICES ASSUME Init, NEW p \in Participant PROVE Follows(p)
  OBVIOUS
<1>1. p \in Address /\ p # NoOne /\ balance[p] = StartBalance[p] /\ StartBalance[p] \in Nat
  BY AddressesOK, ConstantsOK DEF Participant, Address, Init
<1>2. LentIn(p) = {} /\ EarnedIn(p) = {} /\ ReceivedIn(p) = {} /\ PaidIn(p) = {}
  BY <1>1 DEF Init, LentIn, EarnedIn, ReceivedIn, PaidIn, Repaid, NoEscrow, NoInvestment, Absent
<1>3. LentSum(p) = 0 /\ EarnedSum(p) = 0 /\ ReceivedSum(p) = 0 /\ PaidSum(p) = 0
  BY <1>2, SumEmpty DEF LentSum, EarnedSum, ReceivedSum, PaidSum
<1> QED BY <1>1, <1>3 DEF Follows

(* For careful callers and any number of deals: the balance of everyone but  *)
(* the treasury and the contract is what the records say, so no principal is *)
(* released, refunded, repaid or charged a fee twice.                        *)
THEOREM MoneyAccounted == ASSUME Careful, FiniteIds PROVE Spec => []MoneyFollowsRecords
<1> DEFINE AllFollow == \A p \in Participant : Follows(p)
           Inv == IInv /\ AlignInv /\ PaidInFullIsSettled /\ AllFollow
<1>1. Init => Inv
  BY InitInv, InitAligned, InitFollows, ConstantsOK DEF Init, PaidInFullIsSettled, NewInvoice, Absent
<1>2. Inv /\ [Next]_vars => Inv'
  <2> SUFFICES ASSUME Inv, [Next]_vars PROVE Inv'
    OBVIOUS
  <2>1. IInv' /\ AlignInv' /\ PaidInFullIsSettled'
    BY NextInv, NextAligned, NextPaid
  <2>2. AllFollow'
    BY <2>1, NextFollows
  <2> QED BY <2>1, <2>2
<1>3. Inv => MoneyFollowsRecords
  BY DEF Follows, MoneyFollowsRecords, Participant, LentSum, EarnedSum, ReceivedSum, PaidSum
<1> QED BY <1>1, <1>2, <1>3, PTL DEF Spec

----------------------------------------------------------------------------
(* The bid limits.  A bid that is live stays on its row, and only PlaceBid   *)
(* makes one live.                                                           *)

Offers(r, c) ==
    /\ r.status = "Placed" => r = bid[c]
    /\ r.invoice = bid[c].invoice /\ r.investor = bid[c].investor

WasLive(c) == Live(c)' =>
    /\ Live(c)
    /\ bid'[c].invoice = bid[c].invoice /\ bid'[c].investor = bid[c].investor
    /\ bid'[c].amount = bid[c].amount

LEMMA ExpireOffers ==
    ASSUME NEW bs \in [Bid -> BidRow], NEW ids, NEW c \in Bid, Offers(bs[c], c)
    PROVE  Offers(Expire(bs, ids)[c], c)
<1>1. Expire(bs, ids)[c] = IF c \in Lapsed(bs, ids) THEN [bs[c] EXCEPT !.status = "Expired"] ELSE bs[c]
  BY DEF Expire
<1> QED BY <1>1 DEF Offers, BidRow

LEMMA CleanOffers ==
    ASSUME TypeOK, NEW S, NEW c \in Bid
    PROVE  Offers(CleanBids(S)[c], c)
<1>1. bid \in [Bid -> BidRow] /\ Offers(bid[c], c)
  BY DEF TypeOK, Offers
<1> QED BY <1>1, ExpireOffers DEF CleanBids

LEMMA OffersWereLive ==
    ASSUME NEW c \in Bid, bid'[c].status # "Placed" \/ Offers(bid'[c], c), now' = now
    PROVE  WasLive(c)
BY DEF Offers, WasLive, Live

(* Every other step.                                                         *)
LEMMA CleanedWereLive ==
    ASSUME IInv, NEW S \in SUBSET Invoice, NEW c \in Bid, now' = now,
           \/ bid' = CleanBids(S)
           \/ \E b \in Bid, st \in {"Accepted", "Cancelled"} :
                  bid' = [CleanBids(S) EXCEPT ![b].status = st]
    PROVE  WasLive(c)
<1> DEFINE bs == CleanBids(S)
<1>1. bs \in [Bid -> BidRow] /\ Offers(bs[c], c)
  BY CleanEffect, CleanOffers DEF IInv
<1> HIDE DEF bs
<1>2. \/ bid' = bs
      \/ \E b \in Bid, st \in {"Accepted", "Cancelled"} : bid' = [bs EXCEPT ![b].status = st]
  BY DEF bs
<1>3. bid'[c] = bs[c] \/ bid'[c].status \in {"Accepted", "Cancelled"}
  BY <1>1, <1>2 DEF BidRow
<1> QED BY <1>1, <1>3, OffersWereLive

LEMMA OthersWereLive ==
    ASSUME IInv, [Next]_vars, NEW c \in Bid,
           ~\E v \in Investor, i \in Invoice, amount \in BidAmounts, b \in Bid :
                PlaceBid(v, i, amount, b)
    PROVE  WasLive(c)
<1>1. ASSUME NEW i \in Invoice, CleanupExpiredBids(i) PROVE WasLive(c)
  BY <1>1, CleanedWereLive DEF CleanupExpiredBids
<1>2. ASSUME NEW i \in Invoice, NEW b \in Bid, AcceptBidAndFund(i, b) \/ AcceptBid(i, b)
      PROVE  WasLive(c)
  <2>1. CASE AcceptBidAndFund(i, b)
    BY <2>1, CleanedWereLive DEF AcceptBidAndFund, Fund
  <2>2. CASE AcceptBid(i, b)
    <3>1. {i, bid[b].invoice} \in SUBSET Invoice
      BY <2>2 DEF AcceptBid, IInv, BidInv
    <3> QED BY <2>2, <3>1, CleanedWereLive DEF AcceptBid, Fund
  <2> QED BY <1>2, <2>1, <2>2
<1>3. ASSUME NEW i \in Invoice, RefundEscrow(i) PROVE WasLive(c)
  <2>1. CleanIndex({i})[i] \in SUBSET Bid
    BY CleanEffect DEF IInv
  <2>2. \/ bid' = CleanBids({i})
        \/ \E b \in Bid : bid' = [CleanBids({i}) EXCEPT ![b].status = "Cancelled"]
    BY <1>3, <2>1 DEF RefundEscrow, CancelAcceptedBid
  <2> QED BY <1>3, <2>2, CleanedWereLive DEF RefundEscrow
<1>4. ASSUME NEW b \in Bid, WithdrawBid(b) \/ CancelBid(b) PROVE WasLive(c)
  <2>1. PICK st \in {"Withdrawn", "Cancelled"} :
            now' = now /\ bid' = [bid EXCEPT ![b].status = st]
    BY <1>4 DEF WithdrawBid, CancelBid, CloseBid
  <2>2. bid'[c] = bid[c] \/ bid'[c].status = st
    BY <2>1 DEF IInv, TypeOK, BidRow
  <2>3. Offers(bid[c], c)
    BY DEF Offers
  <2> QED BY <2>1, <2>2, <2>3, OffersWereLive
<1>5. ASSUME (\E i \in Invoice : KeepsBids(i)) \/ Tick \/ UNCHANGED vars PROVE WasLive(c)
  <2>1. bid' = bid
    BY <1>5, CallsKeepBids DEF bidVars
  <2>2. now' = now \/ now' = now + 1
    <3>1. ASSUME NEW i \in Invoice, NEW amount \in PayAmounts, NEW n \in Nonce,
                 PartialPayment(i, amount, n) \/ SettleInvoice(i, amount)
          PROVE  now' = now
      BY <3>1 DEF PartialPayment, SettleInvoice, Settle
    <3>2. ASSUME NEW i \in Invoice,
                 \/ ReleaseEscrow(i) \/ HandleDefault(i)
                 \/ \E grace \in GracePeriods : DefaultAfterGrace(i, grace)
          PROVE  now' = now
      BY <3>2 DEF ReleaseEscrow, HandleDefault, DefaultAfterGrace, Default
    <3>3. ASSUME NEW i \in Invoice,
                 \/ StoreInvoice(i) \/ UploadInvoice(i) \/ VerifyInvoice(i) \/ CancelInvoice(i)
                 \/ \E st \in {"Verified", "Paid", "Defaulted", "Funded"} : UpdateInvoiceStatus(i, st)
          PROVE  now' = now
      BY <3>3 DEF StoreInvoice, UploadInvoice, VerifyInvoice, CancelInvoice, UpdateInvoiceStatus
    <3>5. CASE Tick \/ UNCHANGED vars
      BY <3>5 DEF Tick, vars
    <3>6. CASE \E i \in Invoice : KeepsBids(i)
      <4>1. Nonce # {}
        BY ConstantsOK
      <4> QED BY <3>1, <3>2, <3>3, <3>6, <4>1 DEF KeepsBids
    <3> QED BY <1>5, <3>5, <3>6
  <2>3. now \in Nat /\ bid[c].expires \in Nat
    BY DEF IInv, TypeOK, BidRow
  <2> QED BY <2>1, <2>2, <2>3 DEF WasLive, Live
<1> QED BY <1>1, <1>2, <1>3, <1>4, <1>5 DEF Next, KeepsBids

(* PlaceBid: every live bid of the investor is among those it counts, in the *)
(* investor's index (own) and in the invoice's (here), both refreshed.       *)
Counted(v, i, amount, b, bs, here, own) ==
    /\ bs \in [Bid -> BidRow] /\ here \in SUBSET Bid /\ own \in SUBSET Bid
    /\ Cardinality(PlacedIn(bs, here)) < MaxBidsPerInvoice
    /\ MaxActiveBids > 0 => Cardinality(PlacedIn(bs, own)) < MaxActiveBids
    /\ SumOver(Amounts(bs), PlacedIn(bs, own) \ Lapsed(bs, own)) + amount <= Limit[v]
    /\ \A c \in PlacedIn(bs, here) : bs[c].investor # v
    /\ b \notin PlacedIn(bs, own)
    /\ bid'[b].investor = v /\ bid'[b].invoice = i /\ bid'[b].amount = amount
    /\ \A c \in Bid \ {b} :
        /\ bid'[c] = bs[c] /\ WasLive(c)
        /\ Live(c)' /\ bid[c].investor = v => c \in PlacedIn(bs, own) \ Lapsed(bs, own)
        /\ Live(c)' /\ bid[c].invoice = i => c \in PlacedIn(bs, here)

LEMMA PlacedIsCounted ==
    ASSUME IInv, IInv', IndexInv, NEW v \in Investor, NEW i \in Invoice, NEW amount \in BidAmounts,
           NEW b \in Bid, PlaceBid(v, i, amount, b)
    PROVE  \E bs, here, own : Counted(v, i, amount, b, bs, here, own)
<1> DEFINE cleaned == CleanBids({i})
           expired == Expire(cleaned, investorBids[v])
           capped  == MaxActiveBids > 0
           bs   == IF capped THEN expired ELSE cleaned
           here == CleanIndex({i})[i]
           own  == IF capped THEN Prune(bs, investorBids[v]) ELSE investorBids[v]
           row  == [status |-> "Placed", invoice |-> i, investor |-> v,
                    amount |-> amount, expires |-> now + BidTTL]
<1>1. /\ bid[b].status = Absent
      /\ Cardinality(PlacedIn(bs, here)) < MaxBidsPerInvoice
      /\ MaxActiveBids > 0 => Cardinality(PlacedIn(bs, own)) < MaxActiveBids
      /\ SumOver(Amounts(bs), PlacedIn(bs, own) \ Lapsed(bs, own)) + amount <= Limit[v]
      /\ \A c \in PlacedIn(bs, here) : bs[c].investor # v
      /\ bid' = [bs EXCEPT ![b] = row] /\ now' = now
  BY DEF PlaceBid, Exposure
<1>2. here = Prune(cleaned, invoiceBids[i]) /\ here \in SUBSET Bid /\ investorBids[v] \in SUBSET Bid
  BY DEF CleanIndex, Prune, IInv, TypeOK
<1>3. /\ cleaned \in [Bid -> BidRow]
      /\ \A c \in Bid : Offers(cleaned[c], c)
  BY CleanEffect, CleanOffers DEF IInv
<1> HIDE DEF cleaned, here
<1>4. /\ expired \in [Bid -> BidRow]
      /\ \A c \in Bid : Offers(expired[c], c)
      /\ \A c \in Bid : expired[c].status = "Placed" => cleaned[c].status = "Placed"
  BY <1>3, ExpireEffect, ExpireOffers
<1> HIDE DEF expired
<1>5. /\ bs \in [Bid -> BidRow] /\ own \in SUBSET Bid
      /\ \A c \in Bid : Offers(bs[c], c)
      /\ \A c \in Bid : bs[c].status = "Placed" => cleaned[c].status = "Placed"
      /\ \A c \in investorBids[v] : bs[c].status # "Expired" => c \in own
  BY <1>2, <1>3, <1>4 DEF Prune
<1> HIDE DEF bs, own
<1>6. /\ \A c \in Bid \ {b} : bid'[c] = bs[c]
      /\ bid'[b] = row
  BY <1>1, <1>5
<1>7. \A c \in Bid \ {b} : WasLive(c)
  BY <1>1, <1>5, <1>6, OffersWereLive
<1>8. ASSUME NEW c \in Bid \ {b}, Live(c)'
      PROVE  /\ bs[c].status = "Placed" /\ ~(now > bs[c].expires)
             /\ c \in invoiceBids[bid[c].invoice] /\ c \in investorBids[bid[c].investor]
  <2>1. bs[c].status = "Placed" /\ now <= bs[c].expires
    BY <1>1, <1>6, <1>8 DEF Live
  <2>2. now \in Nat /\ bs[c].expires \in Nat
    BY <1>5 DEF IInv, TypeOK, BidRow
  <2>3. bid[c].status = "Placed"
    BY <1>5, <2>1 DEF Offers
  <2> QED BY <2>1, <2>2, <2>3 DEF IndexInv, IndexesOK, Absent
<1>9. \A c \in Bid \ {b} : Live(c)' /\ bid[c].investor = v =>
          c \in PlacedIn(bs, own) \ Lapsed(bs, own)
  BY <1>5, <1>8 DEF PlacedIn, Lapsed
<1>10. \A c \in Bid \ {b} : Live(c)' /\ bid[c].invoice = i => c \in PlacedIn(bs, here)
  BY <1>2, <1>5, <1>8 DEF PlacedIn, Prune
<1>11. b \notin PlacedIn(bs, own)
  BY <1>1, <1>5 DEF PlacedIn, Offers, Absent
<1>12. bid'[b].investor = v /\ bid'[b].invoice = i /\ bid'[b].amount = amount
  BY <1>6
<1>13. Counted(v, i, amount, b, bs, here, own)
  BY <1>1, <1>2, <1>5, <1>6, <1>7, <1>9, <1>10, <1>11, <1>12 DEF Counted
<1> QED BY <1>13

LiveOn(i) == {b \in Bid : bid[b].invoice = i /\ Live(b)}

OneEach(v) == \A b, c \in LiveBidsOf(v) : bid[b].invoice = bid[c].invoice => b = c

Within(v) ==
    /\ MaxActiveBids > 0 => Cardinality(LiveBidsOf(v)) <= MaxActiveBids
    /\ SumOver(Amounts(bid), LiveBidsOf(v)) <= Limit[v]

LimitsHold == (\A v \in Investor : OneEach(v) /\ Within(v))
              /\ \A i \in Invoice : Cardinality(LiveOn(i)) <= MaxBidsPerInvoice

LEMMA BidAmountsOf ==
    ASSUME NEW bs \in [Bid -> BidRow], NEW c \in Bid
    PROVE  Amounts(bs)[c] = bs[c].amount /\ Amounts(bs)[c] \in Nat
BY DEF Amounts, BidRow

(* A set of bids that only shrinks stays within its limits. *)
LEMMA SizeShrinks ==
    ASSUME FiniteIds, NEW T \in SUBSET Bid, NEW U \in SUBSET T
    PROVE  /\ Cardinality(U) \in Nat /\ Cardinality(T) \in Nat
           /\ Cardinality(U) <= Cardinality(T)
<1>1. IsFiniteSet(T)
  BY FS_Subset DEF FiniteIds
<1>2. IsFiniteSet(U) /\ Cardinality(U) <= Cardinality(T)
  BY <1>1, FS_Subset
<1> QED BY <1>1, <1>2, FS_CardinalityType

LEMMA SumShrinks ==
    ASSUME FiniteIds, NEW bs \in [Bid -> BidRow], NEW cs \in [Bid -> BidRow],
           NEW T \in SUBSET Bid, NEW U \in SUBSET T, \A c \in U : cs[c].amount = bs[c].amount
    PROVE  /\ SumOver(Amounts(cs), U) \in Nat /\ SumOver(Amounts(bs), T) \in Nat
           /\ SumOver(Amounts(cs), U) <= SumOver(Amounts(bs), T)
<1> DEFINE f == Amounts(bs)
           g == Amounts(cs)
<1>1. /\ \A c \in T : f[c] \in Nat
      /\ \A c \in U : f[c] \in Nat /\ g[c] = f[c]
  BY BidAmountsOf
<1>2. IsFiniteSet(T) /\ IsFiniteSet(U)
  <2>1. IsFiniteSet(T)
    BY FS_Subset DEF FiniteIds
  <2> QED BY <2>1, FS_Subset
<1> HIDE DEF f, g
<1>3. SumOver(g, U) = SumOver(f, U) /\ SumOver(f, U) \in Nat /\ SumOver(f, T) \in Nat
  BY <1>1, <1>2, SumSame, SumNat
<1>4. SumOver(f, U) <= SumOver(f, T)
  BY <1>1, <1>2, SumMono
<1> QED BY <1>3, <1>4 DEF f, g

LEMMA InvestorWithin ==
    ASSUME FiniteIds, TypeOK, TypeOK', NEW v \in Investor, Within(v),
           \A c \in LiveBidsOf(v)' : WasLive(c)
    PROVE  Within(v)'
<1> DEFINE T == LiveBidsOf(v)
           U == LiveBidsOf(v)'
<1>1. /\ T \in SUBSET Bid /\ U \in SUBSET T
      /\ \A c \in U : bid'[c].amount = bid[c].amount
  BY DEF LiveBidsOf, WasLive
<1>2. bid \in [Bid -> BidRow] /\ bid' \in [Bid -> BidRow] /\ Limit[v] \in Nat /\ MaxActiveBids \in Nat
  BY ConstantsOK DEF TypeOK
<1> HIDE DEF T, U
<1>3. Cardinality(U) \in Nat /\ Cardinality(T) \in Nat /\ Cardinality(U) <= Cardinality(T)
  BY <1>1, SizeShrinks
<1>4. /\ SumOver(Amounts(bid'), U) \in Nat /\ SumOver(Amounts(bid), T) \in Nat
      /\ SumOver(Amounts(bid'), U) <= SumOver(Amounts(bid), T)
  BY <1>1, <1>2, SumShrinks
<1>5. /\ MaxActiveBids > 0 => Cardinality(T) <= MaxActiveBids
      /\ SumOver(Amounts(bid), T) <= Limit[v]
  BY DEF Within, T
<1>6. /\ MaxActiveBids > 0 => Cardinality(U) <= MaxActiveBids
      /\ SumOver(Amounts(bid'), U) <= Limit[v]
  BY <1>2, <1>3, <1>4, <1>5
<1> QED BY <1>6 DEF Within, U, Amounts

LEMMA InvestorOneEach ==
    ASSUME NEW v \in Investor, OneEach(v), \A c \in LiveBidsOf(v)' : WasLive(c)
    PROVE  OneEach(v)'
BY DEF OneEach, LiveBidsOf, WasLive

LEMMA InvoiceWithin ==
    ASSUME FiniteIds, NEW i \in Invoice, Cardinality(LiveOn(i)) <= MaxBidsPerInvoice,
           \A c \in LiveOn(i)' : WasLive(c)
    PROVE  Cardinality(LiveOn(i)') <= MaxBidsPerInvoice
<1> DEFINE T == LiveOn(i)
           U == LiveOn(i)'
<1>1. T \in SUBSET Bid /\ U \in SUBSET T
  BY DEF LiveOn, WasLive
<1> HIDE DEF T, U
<1>2. Cardinality(U) \in Nat /\ Cardinality(T) \in Nat /\ Cardinality(U) <= Cardinality(T)
  BY <1>1, SizeShrinks
<1> QED BY <1>2, ConstantsOK DEF T, U

(* A counted set below its bound may take one more. *)
LEMMA OneMore ==
    ASSUME FiniteIds, NEW S \in SUBSET Bid, NEW b \in Bid, NEW U \in SUBSET (S \cup {b}),
           NEW n \in Nat, Cardinality(S) < n
    PROVE  Cardinality(U) <= n
<1>1. IsFiniteSet(S)
  BY FS_Subset DEF FiniteIds
<1>2. IsFiniteSet(S \cup {b}) /\ Cardinality(S \cup {b}) <= Cardinality(S) + 1 /\ Cardinality(S) \in Nat
  <2>1. /\ IsFiniteSet(S \cup {b})
        /\ Cardinality(S \cup {b}) = IF b \in S THEN Cardinality(S) ELSE Cardinality(S) + 1
    BY <1>1, FS_AddElement
  <2>2. Cardinality(S) \in Nat
    BY <1>1, FS_CardinalityType
  <2> QED BY <2>1, <2>2
<1>3. Cardinality(U) <= Cardinality(S \cup {b}) /\ Cardinality(S \cup {b}) \in Nat
      /\ IsFiniteSet(U)
  BY <1>2, FS_Subset, FS_CardinalityType
<1>4. Cardinality(U) \in Nat
  BY <1>3, FS_CardinalityType
<1> QED BY <1>2, <1>3, <1>4

LEMMA AddedBid ==
    ASSUME FiniteIds, NEW bs \in [Bid -> BidRow], NEW cs \in [Bid -> BidRow], NEW b \in Bid,
           NEW S \in SUBSET Bid, b \notin S, \A c \in S : cs[c] = bs[c],
           NEW U \in SUBSET (S \cup {b}), NEW amount \in Nat, b \in U => cs[b].amount = amount,
           NEW n \in Nat, SumOver(Amounts(bs), S) + amount <= n
    PROVE  SumOver(Amounts(cs), U) <= n
<1> DEFINE f == Amounts(bs)
           g == Amounts(cs)
           own == U \ {b}
<1>1. /\ \A c \in S : f[c] \in Nat
      /\ \A c \in own : g[c] \in Nat /\ g[c] = f[c]
      /\ \A c \in U : g[c] \in Nat
      /\ b \in U => g[b] = amount
      /\ own \in SUBSET S
      /\ b \notin U => own = U
  BY BidAmountsOf
<1>2. IsFiniteSet(S) /\ IsFiniteSet(own) /\ IsFiniteSet(U)
  <2>1. IsFiniteSet(Bid) /\ U \in SUBSET Bid /\ own \in SUBSET Bid
    BY DEF FiniteIds
  <2> QED BY <2>1, FS_Subset
<1> HIDE DEF f, g
<1>3. SumOver(g, own) = SumOver(f, own) /\ SumOver(f, own) \in Nat /\ SumOver(f, S) \in Nat
  BY <1>1, <1>2, SumSame, SumNat
<1>4. SumOver(f, own) <= SumOver(f, S)
  BY <1>1, <1>2, SumMono
<1>5. SumOver(g, U) <= SumOver(g, own) + amount
  <2>1. CASE b \in U
    <3>1. SumOver(g, U) = g[b] + SumOver(g, own)
      BY <1>1, <1>2, <2>1, SumStep
    <3> HIDE DEF own
    <3> QED BY <1>1, <1>3, <2>1, <3>1
  <2>2. CASE b \notin U
    <3>1. own = U
      BY <2>2
    <3> HIDE DEF own
    <3> QED BY <1>3, <3>1
  <2> QED BY <2>1, <2>2
<1>6. SumOver(g, U) \in Nat
  BY <1>1, <1>2, SumNat
<1>7. SumOver(f, S) + amount <= n
  BY DEF f
<1>8. SumOver(g, U) <= n
  BY <1>3, <1>4, <1>5, <1>6, <1>7
<1> QED BY <1>8 DEF g

(* A bid is placed: it fits, and no other limit is touched.                  *)
LEMMA PlaceBidLimits ==
    ASSUME FiniteIds, IInv, IInv', IndexInv, LimitsHold, NEW v \in Investor, NEW i \in Invoice,
           NEW amount \in BidAmounts, NEW b \in Bid, PlaceBid(v, i, amount, b)
    PROVE  LimitsHold'
<1>1. PICK bs, here, own : Counted(v, i, amount, b, bs, here, own)
  BY PlacedIsCounted
<1>2. /\ amount \in Nat /\ Limit[v] \in Nat /\ MaxActiveBids \in Nat /\ MaxBidsPerInvoice \in Nat
      /\ TypeOK /\ TypeOK' /\ bid' \in [Bid -> BidRow]
  BY ConstantsOK DEF IInv, TypeOK
<1>a. /\ bs \in [Bid -> BidRow] /\ bid'[b].investor = v /\ bid'[b].invoice = i
      /\ Cardinality(PlacedIn(bs, here)) < MaxBidsPerInvoice
      /\ MaxActiveBids > 0 => Cardinality(PlacedIn(bs, own)) < MaxActiveBids
      /\ \A c \in PlacedIn(bs, here) : bs[c].investor # v
      /\ \A c \in Bid \ {b} : bid'[c] = bs[c] /\ WasLive(c)
      /\ \A c \in Bid \ {b} : Live(c)' /\ bid[c].invoice = i => c \in PlacedIn(bs, here)
  BY <1>1 DEF Counted
<1>3. /\ LiveBidsOf(v)' \in SUBSET (PlacedIn(bs, own) \cup {b})
      /\ PlacedIn(bs, own) \in SUBSET Bid
  BY <1>1 DEF LiveBidsOf, WasLive, PlacedIn, Counted
<1>b. LiveBidsOf(v)' \in SUBSET ((PlacedIn(bs, own) \ Lapsed(bs, own)) \cup {b})
  <2>1. \A c \in LiveBidsOf(v)' \ {b} : Live(c)' /\ bid[c].investor = v /\ c \in Bid
    BY <1>a DEF LiveBidsOf, WasLive
  <2> QED BY <1>1, <2>1 DEF Counted
<1>4. LiveOn(i)' \in SUBSET (PlacedIn(bs, here) \cup {b}) /\ PlacedIn(bs, here) \in SUBSET Bid
  BY <1>1 DEF LiveOn, WasLive, PlacedIn, Counted
<1>5. OneEach(v)'
  <2> SUFFICES ASSUME NEW c \in LiveBidsOf(v)', NEW d \in LiveBidsOf(v)',
                      bid'[c].invoice = bid'[d].invoice, c # d
               PROVE  FALSE
    BY DEF OneEach
  <2>1. /\ c \in Bid /\ Live(c)' /\ bid'[c].investor = v
        /\ d \in Bid /\ Live(d)' /\ bid'[d].investor = v
    BY DEF LiveBidsOf
  <2>2. ASSUME NEW e \in Bid \ {b}, Live(e)', bid'[e].investor = v, bid'[e].invoice = i PROVE FALSE
    <3>1. e \in PlacedIn(bs, here) /\ bs[e].investor = v
      BY <1>a, <2>2 DEF WasLive
    <3> QED BY <1>a, <3>1
  <2>3. c # b /\ d # b
    BY <1>a, <2>1, <2>2
  <2>4. c \in LiveBidsOf(v) /\ d \in LiveBidsOf(v) /\ bid[c].invoice = bid[d].invoice
    BY <1>a, <2>1, <2>3 DEF WasLive, LiveBidsOf
  <2> QED BY <2>4 DEF LimitsHold, OneEach
<1>6. Within(v)'
  <2>1. MaxActiveBids > 0 => Cardinality(LiveBidsOf(v)') <= MaxActiveBids
    BY <1>a, <1>2, <1>3, OneMore
  <2>2. SumOver(Amounts(bid'), LiveBidsOf(v)') <= Limit[v]
    <3> DEFINE counted == PlacedIn(bs, own) \ Lapsed(bs, own)
    <3>1. counted \in SUBSET Bid /\ b \notin counted /\ \A c \in counted : bid'[c] = bs[c]
      BY <1>1, <1>3 DEF Counted
    <3>2. LiveBidsOf(v)' \in SUBSET (counted \cup {b}) /\ SumOver(Amounts(bs), counted) + amount <= Limit[v]
      BY <1>1, <1>b DEF Counted
    <3> HIDE DEF counted
    <3>3. bid'[b].amount = amount
      BY <1>1 DEF Counted
    <3> QED BY <1>a, <1>2, <3>1, <3>2, <3>3, AddedBid
  <2> QED BY <2>1, <2>2 DEF Within, Amounts
<1>7. ASSUME NEW w \in Investor \ {v} PROVE OneEach(w)' /\ Within(w)'
  <2>1. \A c \in LiveBidsOf(w)' : WasLive(c)
    BY <1>a DEF LiveBidsOf
  <2>2. OneEach(w) /\ Within(w)
    BY DEF LimitsHold
  <2> QED BY <1>2, <2>1, <2>2, InvestorWithin, InvestorOneEach
<1>8. Cardinality(LiveOn(i)') <= MaxBidsPerInvoice
  BY <1>a, <1>2, <1>4, OneMore
<1>9. ASSUME NEW k \in Invoice \ {i} PROVE Cardinality(LiveOn(k)') <= MaxBidsPerInvoice
  <2>1. \A c \in LiveOn(k)' : WasLive(c)
    BY <1>a DEF LiveOn
  <2>2. Cardinality(LiveOn(k)) <= MaxBidsPerInvoice
    BY DEF LimitsHold
  <2> QED BY <2>1, <2>2, InvoiceWithin
<1>10. (\A w \in Investor : OneEach(w)' /\ Within(w)')
       /\ \A k \in Invoice : Cardinality(LiveOn(k)') <= MaxBidsPerInvoice
  BY <1>5, <1>6, <1>7, <1>8, <1>9
<1> QED BY <1>10 DEF LimitsHold

LEMMA NextLimits ==
    ASSUME FiniteIds, IInv, IInv', IndexInv, LimitsHold, [Next]_vars
    PROVE  LimitsHold'
<1>1. CASE \E v \in Investor, i \in Invoice, amount \in BidAmounts, b \in Bid :
               PlaceBid(v, i, amount, b)
  BY <1>1, PlaceBidLimits
<1>2. CASE ~\E v \in Investor, i \in Invoice, amount \in BidAmounts, b \in Bid :
                PlaceBid(v, i, amount, b)
  <2>1. \A c \in Bid : WasLive(c)
    BY <1>2, OthersWereLive
  <2>2. ASSUME NEW v \in Investor PROVE OneEach(v)' /\ Within(v)'
    <3>1. \A c \in LiveBidsOf(v)' : WasLive(c)
      BY <2>1 DEF LiveBidsOf
    <3> QED BY <3>1, InvestorWithin, InvestorOneEach DEF LimitsHold, IInv
  <2>3. ASSUME NEW i \in Invoice PROVE Cardinality(LiveOn(i)') <= MaxBidsPerInvoice
    <3>1. \A c \in LiveOn(i)' : WasLive(c)
      BY <2>1 DEF LiveOn
    <3> QED BY <3>1, InvoiceWithin DEF LimitsHold
  <2>4. (\A v \in Investor : OneEach(v)' /\ Within(v)')
        /\ \A i \in Invoice : Cardinality(LiveOn(i)') <= MaxBidsPerInvoice
    BY <2>2, <2>3
  <2> QED BY <2>4 DEF LimitsHold
<1> QED BY <1>1, <1>2

LEMMA InitLimits == Init => LimitsHold
<1> SUFFICES ASSUME Init PROVE LimitsHold
  OBVIOUS
<1>1. \A b \in Bid : ~Live(b)
  BY DEF Init, Live, NoBid, Absent
<1>2. (\A v \in Investor : LiveBidsOf(v) = {}) /\ \A i \in Invoice : LiveOn(i) = {}
  BY <1>1 DEF LiveBidsOf, LiveOn
<1>3. Cardinality({}) = 0 /\ SumOver(Amounts(bid), {}) = 0
  BY FS_EmptySet, SumEmpty
<1>4. ASSUME NEW v \in Investor PROVE OneEach(v) /\ Within(v)
  <2>1. Limit[v] \in Nat /\ MaxActiveBids \in Nat
    BY ConstantsOK
  <2> QED BY <1>2, <1>3, <2>1 DEF OneEach, Within
<1>5. MaxBidsPerInvoice \in Nat
  BY ConstantsOK
<1> QED BY <1>2, <1>3, <1>4, <1>5 DEF LimitsHold

(* An investor never exceeds the number or the sum of live bids, nor has two *)
(* on one invoice, and no invoice has too many, whatever the callers do and  *)
(* however lapsed bids linger in the indexes.                                *)
THEOREM BidLimitsKept == ASSUME FiniteIds PROVE Spec => []BidLimits
<1>1. Init => IInv /\ IndexInv /\ LimitsHold
  BY InitInv, InitIndex, InitLimits
<1>2. IInv /\ IndexInv /\ LimitsHold /\ [Next]_vars => IInv' /\ IndexInv' /\ LimitsHold'
  BY NextInv, NextIndex, NextLimits
<1>3. LimitsHold => BidLimits
  BY DEF LimitsHold, OneEach, Within, BidLimits, LiveOn
<1> QED BY <1>1, <1>2, <1>3, PTL DEF Spec
=============================================================================
