----------------------- MODULE InvoiceFinancing_proofs -----------------------
(***************************************************************************)
(* Theorems about InvoiceFinancing, for every value of the constants and   *)
(* whatever entry points the callers use.                                  *)
(***************************************************************************)
EXTENDS FinancingProperties, TLAPS

(***************************************************************************)
(* The inductive invariant.  A stored bid names an invoice and an investor *)
(* and offers a positive amount; the escrow and the investment of a deal   *)
(* appear together, agree on investor and amount, and only the six pairs   *)
(* of statuses below occur; a completed investment belongs to a finalized  *)
(* invoice, so no invoice is settled twice.                                *)
(***************************************************************************)
BidInv == \A b \in Bid : bid[b].status # Absent =>
    bid[b].invoice \in Invoice /\ bid[b].investor \in Investor /\ bid[b].amount > 0

DealPairs == { <<"Held", "Active">>, <<"Released", "Active">>, <<"Released", "Completed">>,
               <<"Refunded", "Refunded">>, <<"Held", "Defaulted">>, <<"Released", "Defaulted">> }

NoDeal(i) == escrow[i] = NoEscrow /\ investment[i] = NoInvestment

Dealt(i) ==
    /\ <<escrow[i].status, investment[i].status>> \in DealPairs
    /\ escrow[i].investor \in Investor /\ escrow[i].payee \in Business
    /\ escrow[i].amount > 0
    /\ investment[i].investor = escrow[i].investor
    /\ investment[i].amount = escrow[i].amount
    /\ investment[i].status = "Completed" => i \in finalized

DealInv == \A i \in Invoice : NoDeal(i) \/ Dealt(i)

IInv == TypeOK /\ BidInv /\ DealInv

----------------------------------------------------------------------------
(* Helpers. *)

(* A transfer the balance covers keeps every balance a natural number.       *)
LEMMA TransferType ==
    ASSUME NEW bal \in [Address -> Nat], NEW from \in Address, NEW to \in Address,
           NEW amount \in Int, CanTransfer(bal, from, to, amount)
    PROVE  Transfer(bal, from, to, amount) \in [Address -> Nat]
BY DEF CanTransfer, Transfer

(* A transfer changes no balance but the two it names, by its amount.        *)
LEMMA TransferEffect ==
    ASSUME NEW bal \in [Address -> Nat], NEW from \in Address, NEW to \in Address,
           NEW amount \in Int, NEW a \in Address
    PROVE  /\ a \notin {from, to} => Transfer(bal, from, to, amount)[a] = bal[a]
           /\ a = from /\ a # to => Transfer(bal, from, to, amount)[a] = bal[a] - amount
           /\ a = to /\ a # from => Transfer(bal, from, to, amount)[a] = bal[a] + amount
BY DEF Transfer

(* Moving invoices between status lists keeps the lists sets of invoices.    *)
LEMMA ReindexedType ==
    ASSUME byStatus \in [InvStatus -> SUBSET Invoice], NEW ids \in SUBSET Invoice,
           NEW old, NEW new
    PROVE  Reindexed(ids, old, new) \in [InvStatus -> SUBSET Invoice]
BY DEF Reindexed

(* Expiring bids changes nothing but statuses, and those only from Placed to *)
(* Expired.                                                                  *)
LEMMA ExpireEffect ==
    ASSUME NEW bs \in [Bid -> BidRow], NEW ids
    PROVE  /\ Expire(bs, ids) \in [Bid -> BidRow]
           /\ \A b \in Bid :
               /\ Expire(bs, ids)[b].invoice = bs[b].invoice
               /\ Expire(bs, ids)[b].investor = bs[b].investor
               /\ Expire(bs, ids)[b].amount = bs[b].amount
               /\ \/ Expire(bs, ids)[b].status = bs[b].status
                  \/ bs[b].status = "Placed" /\ Expire(bs, ids)[b].status = "Expired"
BY DEF Expire, Lapsed, BidRow, BidStatus

(* The platform fee is a natural number.                                     *)
LEMMA FeeType ==
    ASSUME TypeOK, NEW i \in Invoice, NEW total \in Nat
    PROVE  PlatformFee(i, total) \in Nat
<1>1. investment[i].amount \in Nat
    BY DEF TypeOK, InvestmentRow
<1>2. FeeBps \in Nat
    BY ConstantsOK
<1>3. CASE total <= investment[i].amount
    BY <1>3 DEF PlatformFee
<1>4. CASE total > investment[i].amount
  <2> DEFINE profit == total - investment[i].amount
  <2>1. profit \in Nat
      BY <1>1, <1>4
  <2>2. profit * FeeBps \in Nat
    <3> HIDE DEF profit
    <3>1. \A x, y \in Nat : x * y \in Nat
        OBVIOUS
    <3> QED BY <2>1, <1>2, <3>1
  <2>3. (profit * FeeBps) \div 10000 \in Nat
    <3> DEFINE gross == profit * FeeBps
    <3>1. gross \in Nat
        BY <2>2
    <3> HIDE DEF gross
    <3>2. gross \div 10000 \in Nat
        BY <3>1
    <3> QED BY <3>2 DEF gross
  <2> QED BY <2>3, <1>1, <1>4 DEF PlatformFee
<1> QED BY <1>1, <1>3, <1>4

(* A bid row stays one under a change of status.                             *)
LEMMA BidStatusType ==
    ASSUME NEW r \in BidRow, NEW st \in BidStatus
    PROVE  [r EXCEPT !.status = st] \in BidRow
BY DEF BidRow

(* Cleaning the index of some invoices keeps types, and keeps of each bid    *)
(* what ExpireEffect says.                                                   *)
LEMMA CleanEffect ==
    ASSUME TypeOK, NEW S \in SUBSET Invoice
    PROVE  /\ CleanBids(S) \in [Bid -> BidRow]
           /\ CleanIndex(S) \in [Invoice -> SUBSET Bid]
           /\ \A b \in Bid :
               /\ CleanBids(S)[b].invoice = bid[b].invoice
               /\ CleanBids(S)[b].investor = bid[b].investor
               /\ CleanBids(S)[b].amount = bid[b].amount
               /\ \/ CleanBids(S)[b].status = bid[b].status
                  \/ bid[b].status = "Placed" /\ CleanBids(S)[b].status = "Expired"
<1>1. bid \in [Bid -> BidRow]
    BY DEF TypeOK
<1>2. CleanIndex(S) \in [Invoice -> SUBSET Bid]
    BY DEF TypeOK, CleanIndex, Prune
<1> QED BY <1>1, <1>2, ExpireEffect DEF CleanBids

(* Rows whose status alone may differ satisfy BidInv as the old ones did.    *)
LEMMA BidInvKept ==
    ASSUME BidInv, bid' \in [Bid -> BidRow],
           \A b \in Bid :
               /\ bid[b].status = Absent => bid'[b].status = Absent
               /\ bid'[b].invoice = bid[b].invoice
               /\ bid'[b].investor = bid[b].investor
               /\ bid'[b].amount = bid[b].amount
    PROVE  BidInv'
BY DEF BidInv

(* Deals that are not touched stay as they are.                              *)
LEMMA DealInvKept ==
    ASSUME DealInv, UNCHANGED <<escrow, investment>>, finalized \subseteq finalized'
    PROVE  DealInv'
BY DEF DealInv, NoDeal, Dealt

(* The statuses are different from the mark of an absent row.                *)
LEMMA StatusesDiffer ==
    /\ Absent \notin InvStatus /\ Absent \notin BidStatus
    /\ Absent \notin EscrowStatus /\ Absent \notin InvestmentStatus
BY DEF Absent, InvStatus, BidStatus, EscrowStatus, InvestmentStatus

----------------------------------------------------------------------------
(* Initially there are no rows. *)

LEMMA InitInv == Init => IInv
<1> SUFFICES ASSUME Init PROVE IInv
    OBVIOUS
<1>1. TypeOK
    BY ConstantsOK DEF Init, TypeOK, NewInvoice, NoBid, NoEscrow, NoInvestment, InvoiceRow,
       BidRow, EscrowRow, InvestmentRow
<1>2. BidInv
    BY DEF Init, BidInv, NoBid
<1>3. DealInv
    BY DEF Init, DealInv, NoDeal
<1> QED BY <1>1, <1>2, <1>3 DEF IInv

----------------------------------------------------------------------------
(* Every action keeps the invariant: first the invoice actions. *)

LEMMA StoreInvoiceInv ==
    ASSUME IInv, NEW i \in Invoice, StoreInvoice(i)
    PROVE  IInv'
<1> USE DEF StoreInvoice, bidVars, dealVars, settleVars
<1>1. NewInvoice("Pending") \in InvoiceRow
    BY DEF NewInvoice, InvoiceRow, InvStatus
<1>2. byStatus' \in [InvStatus -> SUBSET Invoice]
    BY ReindexedType DEF IInv, TypeOK
<1>3. TypeOK'
    BY <1>1, <1>2 DEF IInv, TypeOK
<1> QED BY <1>3, DealInvKept, BidInvKept DEF IInv, TypeOK

(* Setting a status the code knows keeps the rows well typed.                *)
LEMMA SetStatusType ==
    ASSUME TypeOK, NEW i \in Invoice, NEW st \in InvStatus, SetStatus(i, st)
    PROVE  /\ invoice' \in [Invoice -> InvoiceRow]
           /\ byStatus' \in [InvStatus -> SUBSET Invoice]
<1>1. invoice' \in [Invoice -> InvoiceRow]
    BY DEF TypeOK, SetStatus, InvoiceRow
<1> QED BY <1>1, ReindexedType DEF TypeOK, SetStatus

LEMMA InvoiceStatusInv ==
    ASSUME IInv, NEW i \in Invoice, VerifyInvoice(i) \/ CancelInvoice(i)
    PROVE  IInv'
<1> USE DEF VerifyInvoice, CancelInvoice, bidVars, dealVars, settleVars
<1>1. /\ invoice' \in [Invoice -> InvoiceRow]
      /\ byStatus' \in [InvStatus -> SUBSET Invoice]
    BY SetStatusType DEF IInv, InvStatus
<1>2. TypeOK'
    BY <1>1 DEF IInv, TypeOK
<1> QED BY <1>2, DealInvKept, BidInvKept DEF IInv, TypeOK

LEMMA UpdateInvoiceStatusInv ==
    ASSUME IInv, NEW i \in Invoice, NEW st \in {"Verified", "Paid", "Defaulted", "Funded"},
           UpdateInvoiceStatus(i, st)
    PROVE  IInv'
<1> USE DEF UpdateInvoiceStatus, bidVars, dealVars, settleVars
<1>1. OwnerOf[i] \in Business /\ Face[i] \in Nat
    BY ConstantsOK
<1>2. invoice' \in [Invoice -> InvoiceRow]
    BY <1>1 DEF IInv, TypeOK, InvoiceRow, InvStatus
<1>3. byStatus' \in [InvStatus -> SUBSET Invoice]
    BY ReindexedType DEF IInv, TypeOK
<1>4. TypeOK'
    BY <1>2, <1>3 DEF IInv, TypeOK
<1> QED BY <1>4, DealInvKept, BidInvKept DEF IInv, TypeOK

----------------------------------------------------------------------------
(* Bid actions. *)

LEMMA CleanupInv ==
    ASSUME IInv, NEW i \in Invoice, CleanupExpiredBids(i)
    PROVE  IInv'
<1> USE DEF CleanupExpiredBids, dealVars, settleVars
<1>1. /\ bid' \in [Bid -> BidRow]
      /\ invoiceBids' \in [Invoice -> SUBSET Bid]
    BY CleanEffect DEF IInv
<1>2. TypeOK'
    BY <1>1 DEF IInv, TypeOK
<1>3. BidInv'
    BY <1>1, CleanEffect, BidInvKept, StatusesDiffer DEF IInv, Absent
<1> QED BY <1>2, <1>3, DealInvKept DEF IInv, TypeOK

LEMMA CloseBidInv ==
    ASSUME IInv, NEW b \in Bid, WithdrawBid(b) \/ CancelBid(b)
    PROVE  IInv'
<1> USE DEF WithdrawBid, CancelBid, CloseBid, dealVars, settleVars
<1>1. bid' \in [Bid -> BidRow]
  <2>1. PICK st \in {"Withdrawn", "Cancelled"} : bid' = [bid EXCEPT ![b].status = st]
      OBVIOUS
  <2>2. [bid[b] EXCEPT !.status = st] \in BidRow
      BY <2>1, BidStatusType DEF IInv, TypeOK, BidStatus
  <2> QED BY <2>1, <2>2 DEF IInv, TypeOK
<1>2. TypeOK'
    BY <1>1 DEF IInv, TypeOK
<1>3. BidInv'
    BY <1>1, BidInvKept DEF IInv, TypeOK, BidRow, Absent
<1> QED BY <1>2, <1>3, DealInvKept DEF IInv, TypeOK

LEMMA PlaceBidInv ==
    ASSUME IInv, NEW v \in Investor, NEW i \in Invoice, NEW amount \in BidAmounts,
           NEW b \in Bid, PlaceBid(v, i, amount, b)
    PROVE  IInv'
<1> DEFINE capped == MaxActiveBids > 0
           bs  == IF capped THEN Expire(CleanBids({i}), investorBids[v]) ELSE CleanBids({i})
           own == IF capped THEN Prune(bs, investorBids[v]) ELSE investorBids[v]
           row == [status |-> "Placed", invoice |-> i, investor |-> v,
                   amount |-> amount, expires |-> now + BidTTL]
<1>1. /\ bs \in [Bid -> BidRow]
      /\ \A c \in Bid : /\ bs[c].invoice = bid[c].invoice
                        /\ bs[c].investor = bid[c].investor
                        /\ bs[c].amount = bid[c].amount
                        /\ bid[c].status = Absent => bs[c].status = Absent
  <2>1. /\ CleanBids({i}) \in [Bid -> BidRow]
        /\ \A c \in Bid : /\ CleanBids({i})[c].invoice = bid[c].invoice
                          /\ CleanBids({i})[c].investor = bid[c].investor
                          /\ CleanBids({i})[c].amount = bid[c].amount
                          /\ bid[c].status = Absent => CleanBids({i})[c].status = Absent
      BY CleanEffect DEF IInv, Absent
  <2> DEFINE cleaned == CleanBids({i})
  <2> HIDE DEF cleaned
  <2>2. cleaned \in [Bid -> BidRow]
      BY <2>1 DEF cleaned
  <2> DEFINE expired == Expire(cleaned, investorBids[v])
  <2>3. /\ expired \in [Bid -> BidRow]
        /\ \A c \in Bid : /\ expired[c].invoice = cleaned[c].invoice
                          /\ expired[c].investor = cleaned[c].investor
                          /\ expired[c].amount = cleaned[c].amount
                          /\ cleaned[c].status = Absent => expired[c].status = Absent
      BY <2>2, ExpireEffect DEF Absent
  <2>4. bs = expired \/ bs = cleaned
      BY DEF cleaned
  <2> HIDE DEF bs, expired
  <2> QED BY <2>1, <2>3, <2>4 DEF cleaned
<1>2. amount \in Nat /\ amount > 0
    BY ConstantsOK DEF PlaceBid
<1>3. row \in BidRow
    BY <1>2, ConstantsOK DEF IInv, TypeOK, BidRow, BidStatus
<1>4. bid' = [bs EXCEPT ![b] = row]
    BY DEF PlaceBid
<1>5. bid' \in [Bid -> BidRow]
    BY <1>1, <1>3, <1>4
<1>6. /\ invoiceBids' \in [Invoice -> SUBSET Bid]
      /\ investorBids' \in [Investor -> SUBSET Bid]
  <2>1. CleanIndex({i}) \in [Invoice -> SUBSET Bid]
      BY CleanEffect DEF IInv
  <2>2. own \in SUBSET Bid
      BY DEF IInv, TypeOK, Prune
  <2>3. /\ invoiceBids' = [invoiceBids EXCEPT ![i] = CleanIndex({i})[i] \cup {b}]
        /\ investorBids' = [investorBids EXCEPT ![v] = own \cup {b}]
      BY DEF PlaceBid
  <2> QED BY <2>1, <2>2, <2>3 DEF IInv, TypeOK
<1>7. TypeOK'
    BY <1>5, <1>6 DEF PlaceBid, IInv, TypeOK, dealVars, settleVars
<1>8. BidInv'
  <2> SUFFICES ASSUME NEW c \in Bid, bid'[c].status # Absent
               PROVE  /\ bid'[c].invoice \in Invoice
                      /\ bid'[c].investor \in Investor
                      /\ bid'[c].amount > 0
      BY DEF BidInv
  <2>1. CASE c = b
      BY <2>1, <1>1, <1>2, <1>4
  <2>2. CASE c # b
    <3>1. bid'[c] = bs[c]
        BY <2>2, <1>1, <1>4
    <3> QED BY <3>1, <1>1 DEF IInv, BidInv
  <2> QED BY <2>1, <2>2
<1> QED BY <1>7, <1>8, DealInvKept DEF IInv, TypeOK, PlaceBid, dealVars, settleVars

----------------------------------------------------------------------------
(* Funding opens a deal. *)

LEMMA FundInv ==
    ASSUME IInv, NEW i \in Invoice, NEW j \in Invoice, NEW b \in Bid, NEW S \in SUBSET Invoice,
           CleanBids(S)[b].status = "Placed", invoiceBids' = CleanIndex(S),
           Fund(i, j, b, CleanBids(S))
    PROVE  IInv'
<1> DEFINE bs == CleanBids(S)
           offer == bs[b]
<1>1. /\ bs \in [Bid -> BidRow]
      /\ \A c \in Bid : /\ bs[c].invoice = bid[c].invoice
                        /\ bs[c].investor = bid[c].investor
                        /\ bs[c].amount = bid[c].amount
                        /\ bid[c].status = Absent => bs[c].status = Absent
    BY CleanEffect DEF IInv, Absent
<1>2. invoiceBids' \in [Invoice -> SUBSET Bid]
    BY CleanEffect DEF IInv
<1>3. bid[b].status # Absent
    BY <1>1 DEF Absent
<1>4. offer.investor \in Investor /\ offer.amount \in Nat /\ offer.amount > 0
  <2>1. bid[b].amount \in Nat
      BY DEF IInv, TypeOK, BidRow
  <2> QED BY <1>1, <1>3, <2>1 DEF IInv, BidInv
<1>5. OwnerOf[i] \in Business
    BY ConstantsOK
<1> HIDE DEF bs
<1>6. bid' \in [Bid -> BidRow]
    BY <1>1 DEF Fund, BidRow, BidStatus, bs
<1>7. balance' \in [Address -> Nat]
  <2>1. offer.investor \in Address /\ Contract \in Address
      BY <1>4 DEF Address
  <2>2. /\ CanTransfer(balance, offer.investor, Contract, offer.amount)
        /\ balance' = Transfer(balance, offer.investor, Contract, offer.amount)
      BY DEF Fund, bs
  <2>3. balance \in [Address -> Nat]
      BY DEF IInv, TypeOK
  <2> HIDE DEF offer
  <2> QED BY <2>1, <2>2, <2>3, <1>4, TransferType
<1>8. /\ escrow' = [escrow EXCEPT ![j] = NewEscrow(i, offer)]
      /\ investment' = [investment EXCEPT ![j] = [status |-> "Active",
                            investor |-> offer.investor, amount |-> offer.amount]]
    BY DEF Fund, bs
<1>9. /\ escrow' \in [Invoice -> EscrowRow]
      /\ investment' \in [Invoice -> InvestmentRow]
    BY <1>4, <1>5, <1>8 DEF NewEscrow, IInv, TypeOK, EscrowRow, EscrowStatus, InvestmentRow,
       InvestmentStatus
<1>10. invoice' \in [Invoice -> InvoiceRow]
  <2>1. invoice' = [invoice EXCEPT ![i] = [status |-> "Funded", investor |-> offer.investor,
                                           funded |-> offer.amount, paid |-> @.paid]]
      BY DEF Fund, bs
  <2> QED BY <1>4, <2>1 DEF IInv, TypeOK, InvoiceRow, InvStatus
<1>11. byStatus' \in [InvStatus -> SUBSET Invoice]
    BY ReindexedType DEF Fund, IInv, TypeOK
<1>12. TypeOK'
    BY <1>2, <1>6, <1>7, <1>9, <1>10, <1>11 DEF Fund, IInv, TypeOK, settleVars
<1>13. BidInv'
  <2>1. \A c \in Bid : /\ bid[c].status = Absent => bid'[c].status = Absent
                      /\ bid'[c].invoice = bid[c].invoice
                      /\ bid'[c].investor = bid[c].investor
                      /\ bid'[c].amount = bid[c].amount
      BY <1>1, <1>3 DEF Fund, BidRow, bs
  <2> QED BY <2>1, <1>6, BidInvKept DEF IInv
<1>14. DealInv'
  <2> SUFFICES ASSUME NEW k \in Invoice
               PROVE  (NoDeal(k) \/ Dealt(k))'
      BY DEF DealInv
  <2>1. UNCHANGED finalized
      BY DEF Fund, settleVars
  <2>2. CASE k = j
      BY <2>2, <1>4, <1>5, <1>8 DEF IInv, TypeOK, Dealt, DealPairs, NewEscrow
  <2>3. CASE k # j
      BY <2>1, <2>3, <1>8 DEF IInv, DealInv, NoDeal, Dealt
  <2> QED BY <2>2, <2>3
<1> QED BY <1>12, <1>13, <1>14 DEF IInv

LEMMA AcceptInv ==
    ASSUME IInv, NEW i \in Invoice, NEW b \in Bid, AcceptBidAndFund(i, b) \/ AcceptBid(i, b)
    PROVE  IInv'
<1>1. CASE AcceptBidAndFund(i, b)
    BY <1>1, FundInv DEF AcceptBidAndFund
<1>2. CASE AcceptBid(i, b)
  <2>1. bid[b].invoice \in Invoice
      BY <1>2 DEF AcceptBid, IInv, BidInv
  <2> QED BY <1>2, <2>1, FundInv DEF AcceptBid
<1> QED BY <1>1, <1>2

----------------------------------------------------------------------------
(* Escrow actions. *)

(* A Held escrow belongs to a deal that is not over.                         *)
LEMMA HeldDeal ==
    ASSUME IInv, NEW i \in Invoice, escrow[i].status # Absent
    PROVE  Dealt(i)
BY DEF IInv, DealInv, NoDeal, NoEscrow

(* A change of escrow status keeps the rows well typed.                      *)
LEMMA EscrowStatusType ==
    ASSUME TypeOK, NEW i \in Invoice, NEW st \in EscrowStatus
    PROVE  [escrow EXCEPT ![i].status = st] \in [Invoice -> EscrowRow]
<1>1. [escrow[i] EXCEPT !.status = st] \in EscrowRow
    BY DEF TypeOK, EscrowRow
<1> QED BY <1>1 DEF TypeOK

(* What remains held can be released, and the balances stay natural.         *)
LEMMA ReleaseType ==
    ASSUME IInv, NEW i \in Invoice, CanRelease(i)
    PROVE  BalanceAfterRelease(i) \in [Address -> Nat]
<1>1. escrow[i].payee \in Address /\ escrow[i].amount \in Nat /\ Contract \in Address
    BY HeldDeal DEF CanRelease, Dealt, Absent, IInv, TypeOK, EscrowRow, Address
<1>2. balance \in [Address -> Nat]
    BY DEF IInv, TypeOK
<1> QED BY <1>1, <1>2, TransferType DEF CanRelease, BalanceAfterRelease

LEMMA ReleaseEscrowInv ==
    ASSUME IInv, NEW i \in Invoice, ReleaseEscrow(i)
    PROVE  IInv'
<1> USE DEF ReleaseEscrow, bidVars, settleVars
<1>1. escrow' \in [Invoice -> EscrowRow]
    BY EscrowStatusType DEF IInv, EscrowStatus
<1>2. balance' \in [Address -> Nat]
    BY ReleaseType
<1>3. TypeOK'
    BY <1>1, <1>2 DEF IInv, TypeOK
<1>4. DealInv'
  <2> SUFFICES ASSUME NEW k \in Invoice
               PROVE  (NoDeal(k) \/ Dealt(k))'
      BY DEF DealInv
  <2>1. CASE k = i
    <3>1. Dealt(i) /\ escrow[i].status = "Held"
        BY HeldDeal DEF CanRelease, Absent
    <3>2. escrow'[i] = [escrow[i] EXCEPT !.status = "Released"]
        BY DEF IInv, TypeOK
    <3> QED BY <2>1, <3>1, <3>2 DEF IInv, TypeOK, EscrowRow, Dealt, DealPairs
  <2>2. CASE k # i
      BY <2>2 DEF IInv, TypeOK, DealInv, NoDeal, Dealt
  <2> QED BY <2>1, <2>2
<1> QED BY <1>3, <1>4, BidInvKept DEF IInv, TypeOK

(* Closing an investment keeps the rows well typed, and changes at most the  *)
(* status of a row that is there.                                            *)
LEMMA CloseInvestmentEffect ==
    ASSUME TypeOK, NEW i \in Invoice, NEW st \in InvestmentStatus, CloseInvestment(i, st)
    PROVE  /\ investment' \in [Invoice -> InvestmentRow]
           /\ active' \in SUBSET Invoice
           /\ \A k \in Invoice \ {i} : investment'[k] = investment[k]
           /\ investment[i].status = Absent => investment'[i] = investment[i]
           /\ investment[i].status # Absent =>
                  /\ investment[i].status \in {"Active", st}
                  /\ investment'[i].status = st
                  /\ investment'[i].investor = investment[i].investor
                  /\ investment'[i].amount = investment[i].amount
<1>1. [investment[i] EXCEPT !.status = st] \in InvestmentRow
    BY DEF TypeOK, InvestmentRow
<1> QED BY <1>1 DEF TypeOK, CloseInvestment, CanCloseInvestment, InvestmentRow

LEMMA RefundEscrowInv ==
    ASSUME IInv, NEW i \in Invoice, RefundEscrow(i)
    PROVE  IInv'
<1> USE DEF RefundEscrow, settleVars
<1>1. Dealt(i)
    BY HeldDeal DEF Absent
<1>2. escrow' \in [Invoice -> EscrowRow]
    BY EscrowStatusType DEF IInv, EscrowStatus
<1>3. balance' \in [Address -> Nat]
  <2>1. escrow[i].investor \in Address /\ escrow[i].amount \in Nat /\ Contract \in Address
      BY <1>1 DEF Dealt, IInv, TypeOK, EscrowRow, Address
  <2> QED BY <2>1, TransferType DEF IInv, TypeOK
<1>4. invoice' \in [Invoice -> InvoiceRow]
    BY DEF IInv, TypeOK, InvoiceRow, NewInvoice, InvStatus
<1>5. byStatus' \in [InvStatus -> SUBSET Invoice]
    BY ReindexedType DEF IInv, TypeOK
<1>6. invoiceBids' \in [Invoice -> SUBSET Bid]
    BY CleanEffect DEF IInv
<1>7. /\ bid' \in [Bid -> BidRow]
      /\ \A b \in Bid : /\ bid[b].status = Absent => bid'[b].status = Absent
                        /\ bid'[b].invoice = bid[b].invoice
                        /\ bid'[b].investor = bid[b].investor
                        /\ bid'[b].amount = bid[b].amount
  <2> DEFINE bs == CleanBids({i})
  <2>1. /\ bs \in [Bid -> BidRow]
        /\ \A b \in Bid : /\ bs[b].invoice = bid[b].invoice
                          /\ bs[b].investor = bid[b].investor
                          /\ bs[b].amount = bid[b].amount
                          /\ bid[b].status = Absent => bs[b].status = Absent
      BY CleanEffect DEF IInv, Absent
  <2>2. CleanIndex({i})[i] \in SUBSET Bid
      BY CleanEffect DEF IInv
  <2>3. \/ bid' = bs
        \/ \E b \in Bid : bs[b].status = "Accepted" /\ bid' = [bs EXCEPT ![b].status = "Cancelled"]
      BY <2>2 DEF CancelAcceptedBid
  <2> HIDE DEF bs
  <2>4. CASE bid' = bs
      BY <2>1, <2>4
  <2>5. ASSUME NEW b \in Bid, bs[b].status = "Accepted",
               bid' = [bs EXCEPT ![b].status = "Cancelled"]
        PROVE  <1>7!1 /\ <1>7!2
    <3>1. [bs[b] EXCEPT !.status = "Cancelled"] \in BidRow
        BY <2>1, BidStatusType DEF BidStatus
    <3>2. bid' = [bs EXCEPT ![b] = [bs[b] EXCEPT !.status = "Cancelled"]]
        BY <2>5, <2>1
    <3>3. bid' \in [Bid -> BidRow]
        BY <3>1, <3>2, <2>1
    <3> QED BY <2>1, <2>5, <3>2, <3>3 DEF BidRow, Absent
  <2> QED BY <2>3, <2>4, <2>5
<1>8. /\ investment' \in [Invoice -> InvestmentRow]
      /\ active' \in SUBSET Invoice
    BY CloseInvestmentEffect DEF IInv, InvestmentStatus
<1>9. TypeOK'
    BY <1>2, <1>3, <1>4, <1>5, <1>6, <1>7, <1>8 DEF IInv, TypeOK
<1>10. DealInv'
  <2> SUFFICES ASSUME NEW k \in Invoice
               PROVE  (NoDeal(k) \/ Dealt(k))'
      BY DEF DealInv
  <2>1. CASE k = i
    <3>1. escrow'[i] = [escrow[i] EXCEPT !.status = "Refunded"]
        BY DEF IInv, TypeOK
    <3>2. /\ investment[i].status # Absent => investment'[i].status = "Refunded"
          /\ investment'[i].investor = investment[i].investor
          /\ investment'[i].amount = investment[i].amount
        BY CloseInvestmentEffect DEF IInv, InvestmentStatus
    <3> QED BY <1>1, <2>1, <3>1, <3>2 DEF IInv, TypeOK, EscrowRow, Dealt, DealPairs, Absent
  <2>2. CASE k # i
    <3>1. escrow'[k] = escrow[k] /\ investment'[k] = investment[k]
        BY <2>2, CloseInvestmentEffect DEF IInv, TypeOK, InvestmentStatus
    <3> QED BY <3>1 DEF IInv, DealInv, NoDeal, Dealt
  <2> QED BY <2>1, <2>2
<1> QED BY <1>7, <1>9, <1>10, BidInvKept DEF IInv

----------------------------------------------------------------------------
(* Payments and settlement. *)

(* The total after a payment is a natural number.                            *)
LEMMA TotalType ==
    ASSUME TypeOK, NEW i \in Invoice, NEW amount \in Nat, NEW n
    PROVE  TotalAfter(i, amount, n) \in Nat
<1>1. invoice[i].paid \in Nat /\ Face[i] \in Nat
    BY ConstantsOK DEF TypeOK, InvoiceRow
<1> QED BY <1>1 DEF TotalAfter, Applied, Remaining

LEMMA NoncesType ==
    ASSUME TypeOK, NEW i \in Invoice, NEW n \in Nonce
    PROVE  NoncesAfter(i, n) \in [Invoice -> SUBSET Nonce]
BY DEF TypeOK, NoncesAfter

(* What a settlement does to the balances: every balance stays natural, and  *)
(* the contract gives up the principal if it was Held, and nothing else.     *)
LEMMA SettleBalance ==
    ASSUME IInv, NEW i \in Invoice, NEW total \in Nat, Settle(i, total)
    PROVE  /\ balance' \in [Address -> Nat]
           /\ balance'[Contract] >= balance[Contract]
                  - (IF escrow[i].status = "Held" THEN escrow[i].amount ELSE 0)
<1> DEFINE fee      == PlatformFee(i, total)
           released == IF escrow[i].status = "Held" THEN BalanceAfterRelease(i) ELSE balance
           repaid   == Transfer(released, OwnerOf[i], invoice[i].investor, total - fee)
<1>1. balance \in [Address -> Nat] /\ Contract \in Address /\ Treasury \in Address
    BY DEF IInv, TypeOK, Address
<1>2. fee \in Nat
    BY FeeType DEF IInv
<1>3. OwnerOf[i] \in Address /\ OwnerOf[i] # Contract
    BY ConstantsOK, AddressesOK DEF Address
<1>4. invoice[i].investor \in Address /\ invoice[i].investor # Contract
    BY AddressesOK DEF Settle, IInv, TypeOK, InvoiceRow, Address
<1>5. /\ released \in [Address -> Nat]
      /\ released[Contract] = balance[Contract]
              - (IF escrow[i].status = "Held" THEN escrow[i].amount ELSE 0)
  <2>1. CASE escrow[i].status = "Held"
    <3>1. CanRelease(i)
        BY <2>1 DEF Settle
    <3>2. /\ escrow[i].payee \in Address
          /\ escrow[i].payee # Contract
          /\ escrow[i].amount \in Nat
        BY <2>1, HeldDeal, AddressesOK
        DEF Dealt, Absent, IInv, TypeOK, EscrowRow, Address
    <3>3. BalanceAfterRelease(i)[Contract] = balance[Contract] - escrow[i].amount
        BY <1>1, <3>2, TransferEffect DEF BalanceAfterRelease
    <3> QED BY <2>1, <3>1, <3>3, ReleaseType
  <2>2. CASE escrow[i].status # "Held"
      BY <1>1, <2>2
  <2> QED BY <2>1, <2>2
<1>6. /\ CanTransfer(released, OwnerOf[i], invoice[i].investor, total - fee)
      /\ fee > 0 => CanTransfer(repaid, OwnerOf[i], Treasury, fee)
      /\ balance' = IF fee > 0 THEN Transfer(repaid, OwnerOf[i], Treasury, fee) ELSE repaid
    BY DEF Settle
<1> HIDE DEF fee, released
<1>7. repaid \in [Address -> Nat] /\ repaid[Contract] = released[Contract]
    BY <1>1, <1>2, <1>3, <1>4, <1>5, <1>6, TransferType, TransferEffect
<1> HIDE DEF repaid
<1>8. CASE fee > 0
  <2>1. balance' = Transfer(repaid, OwnerOf[i], Treasury, fee)
      BY <1>6, <1>8
  <2>2. balance' \in [Address -> Nat]
      BY <1>1, <1>2, <1>3, <1>6, <1>7, <1>8, <2>1, TransferType
  <2>3. Transfer(repaid, OwnerOf[i], Treasury, fee)[Contract] >= repaid[Contract]
      BY <1>1, <1>2, <1>3, <1>7 DEF Transfer
  <2>4. released[Contract] \in Int
      BY <1>1, <1>5
  <2> QED BY <1>1, <1>5, <1>7, <2>1, <2>2, <2>3, <2>4
<1>9. CASE ~(fee > 0)
  <2>1. balance' = repaid
      BY <1>6, <1>9
  <2>2. released[Contract] \in Int
      BY <1>1, <1>5
  <2> QED BY <1>5, <1>7, <2>1, <2>2
<1> QED BY <1>8, <1>9

LEMMA SettleInv ==
    ASSUME IInv, NEW i \in Invoice, NEW total \in Nat, invoice[i].status = "Funded",
           nonces' \in [Invoice -> SUBSET Nonce], Settle(i, total)
    PROVE  IInv'
<1>1. balance' \in [Address -> Nat]
    BY SettleBalance
<1>2. Face[i] \in Nat
    BY ConstantsOK
<1>3. invoice' \in [Invoice -> InvoiceRow]
    BY <1>2 DEF Settle, IInv, TypeOK, InvoiceRow, InvStatus
<1>4. byStatus' \in [InvStatus -> SUBSET Invoice]
    BY ReindexedType DEF Settle, IInv, TypeOK
<1>5. escrow' = IF escrow[i].status = "Held"
                THEN [escrow EXCEPT ![i].status = "Released"] ELSE escrow
    BY DEF Settle
<1>6. escrow' \in [Invoice -> EscrowRow]
  <2>1. [escrow EXCEPT ![i].status = "Released"] \in [Invoice -> EscrowRow]
      BY EscrowStatusType DEF IInv, EscrowStatus
  <2> QED BY <1>5, <2>1 DEF IInv, TypeOK
<1>7. CloseInvestment(i, "Completed") /\ investment[i].status # Absent
    BY DEF Settle
<1>8. /\ investment' \in [Invoice -> InvestmentRow]
      /\ active' \in SUBSET Invoice
    BY <1>7, CloseInvestmentEffect DEF IInv, InvestmentStatus
<1>9. finalized' = finalized \cup {i} /\ i \notin finalized
    BY DEF Settle
<1>10. TypeOK'
    BY <1>1, <1>3, <1>4, <1>6, <1>8, <1>9 DEF Settle, IInv, TypeOK, bidVars
<1>11. DealInv'
  <2> SUFFICES ASSUME NEW k \in Invoice
               PROVE  (NoDeal(k) \/ Dealt(k))'
      BY DEF DealInv
  <2>1. CASE k = i
    <3>1. Dealt(i)
        BY <1>7 DEF IInv, DealInv, NoDeal, NoInvestment
    <3>2. /\ escrow'[i].status = IF escrow[i].status = "Held" THEN "Released"
                                 ELSE escrow[i].status
          /\ escrow'[i].investor = escrow[i].investor
          /\ escrow'[i].payee = escrow[i].payee
          /\ escrow'[i].amount = escrow[i].amount
        BY <1>5 DEF IInv, TypeOK, EscrowRow
    <3>3. /\ investment[i].status \in {"Active", "Completed"}
          /\ investment'[i].status = "Completed"
          /\ investment'[i].investor = investment[i].investor
          /\ investment'[i].amount = investment[i].amount
        BY <1>7, CloseInvestmentEffect DEF IInv, InvestmentStatus
    <3> QED BY <1>9, <2>1, <3>1, <3>2, <3>3 DEF Dealt, DealPairs
  <2>2. CASE k # i
    <3>1. escrow'[k] = escrow[k]
        BY <1>5, <2>2 DEF IInv, TypeOK
    <3>2. investment'[k] = investment[k]
        BY <1>7, <2>2, CloseInvestmentEffect DEF IInv, InvestmentStatus
    <3> QED BY <1>9, <3>1, <3>2 DEF IInv, DealInv, NoDeal, Dealt
  <2> QED BY <2>1, <2>2
<1> QED BY <1>10, <1>11, BidInvKept DEF Settle, IInv, TypeOK, bidVars

LEMMA PartialPaymentInv ==
    ASSUME IInv, NEW i \in Invoice, NEW amount \in PayAmounts, NEW n \in Nonce,
           PartialPayment(i, amount, n)
    PROVE  IInv'
<1> DEFINE total == TotalAfter(i, amount, n)
<1>1. total \in Nat
    BY TotalType, ConstantsOK DEF IInv
<1>2. nonces' \in [Invoice -> SUBSET Nonce]
    BY NoncesType DEF PartialPayment, IInv
<1>3. CASE total >= Face[i] /\ Settle(i, total)
    BY <1>1, <1>2, <1>3, SettleInv DEF PartialPayment, CanRecord
<1>4. CASE /\ invoice' = [invoice EXCEPT ![i].paid = total]
           /\ UNCHANGED <<now, byStatus, bidVars, dealVars, finalized, defaultGuard, balance>>
  <2>1. invoice' \in [Invoice -> InvoiceRow]
      BY <1>1, <1>4 DEF IInv, TypeOK, InvoiceRow
  <2>2. TypeOK'
      BY <1>2, <1>4, <2>1 DEF IInv, TypeOK, bidVars, dealVars
  <2> QED BY <1>4, <2>2, DealInvKept, BidInvKept DEF IInv, TypeOK, bidVars, dealVars
<1> QED BY <1>3, <1>4 DEF PartialPayment

LEMMA SettleInvoiceInv ==
    ASSUME IInv, NEW i \in Invoice, NEW amount \in PayAmounts, SettleInvoice(i, amount)
    PROVE  IInv'
<1>1. TotalAfter(i, amount, SettlementNonce) \in Nat
    BY TotalType, ConstantsOK DEF IInv
<1>2. nonces' \in [Invoice -> SUBSET Nonce]
    BY NoncesType, ConstantsOK DEF SettleInvoice, IInv
<1> QED BY <1>1, <1>2, SettleInv DEF SettleInvoice, CanRecord

----------------------------------------------------------------------------
(* Default and time. *)

LEMMA DefaultInv ==
    ASSUME IInv, NEW i \in Invoice, Default(i)
    PROVE  IInv'
<1> USE DEF Default, bidVars, settleVars
<1>1. /\ invoice' \in [Invoice -> InvoiceRow]
      /\ byStatus' \in [InvStatus -> SUBSET Invoice]
    BY SetStatusType DEF IInv, InvStatus
<1>2. /\ investment' \in [Invoice -> InvestmentRow]
      /\ active' \in SUBSET Invoice
    BY CloseInvestmentEffect DEF IInv, InvestmentStatus
<1>3. TypeOK'
    BY <1>1, <1>2 DEF IInv, TypeOK
<1>4. DealInv'
  <2> SUFFICES ASSUME NEW k \in Invoice
               PROVE  (NoDeal(k) \/ Dealt(k))'
      BY DEF DealInv
  <2>1. CASE k = i /\ investment[i].status # Absent
    <3>1. Dealt(i)
        BY <2>1 DEF IInv, DealInv, NoDeal, NoInvestment
    <3>2. /\ investment[i].status \in {"Active", "Defaulted"}
          /\ investment'[i].status = "Defaulted"
          /\ investment'[i].investor = investment[i].investor
          /\ investment'[i].amount = investment[i].amount
        BY <2>1, CloseInvestmentEffect DEF IInv, InvestmentStatus
    <3> QED BY <2>1, <3>1, <3>2 DEF Dealt, DealPairs
  <2>2. CASE k # i \/ investment[i].status = Absent
    <3>1. investment'[k] = investment[k]
        BY <2>2, CloseInvestmentEffect DEF IInv, InvestmentStatus
    <3> QED BY <3>1 DEF IInv, DealInv, NoDeal, Dealt
  <2> QED BY <2>1, <2>2
<1> QED BY <1>3, <1>4, BidInvKept DEF IInv, TypeOK

LEMMA TickInv ==
    ASSUME IInv, Tick
    PROVE  IInv'
<1> USE DEF Tick, bidVars, dealVars, settleVars
<1>1. TypeOK'
    BY DEF IInv, TypeOK
<1> QED BY <1>1, DealInvKept, BidInvKept DEF IInv, TypeOK

----------------------------------------------------------------------------
(* The invariant holds. *)

LEMMA StutterInv == ASSUME IInv, UNCHANGED vars PROVE IInv'
<1> USE DEF vars
<1>1. TypeOK'
    BY DEF IInv, TypeOK
<1> QED BY <1>1, DealInvKept, BidInvKept DEF IInv, TypeOK

LEMMA NextInv == IInv /\ [Next]_vars => IInv'
<1> SUFFICES ASSUME IInv, [Next]_vars PROVE IInv'
    OBVIOUS
<1>1. CASE Tick
    BY <1>1, TickInv
<1>2. ASSUME NEW i \in Invoice,
             \/ StoreInvoice(i) \/ UploadInvoice(i) \/ VerifyInvoice(i) \/ CancelInvoice(i)
             \/ CleanupExpiredBids(i) \/ ReleaseEscrow(i) \/ RefundEscrow(i) \/ HandleDefault(i)
      PROVE  IInv'
    BY <1>2, StoreInvoiceInv, InvoiceStatusInv, CleanupInv, ReleaseEscrowInv, RefundEscrowInv,
       DefaultInv DEF UploadInvoice, HandleDefault
<1>3. ASSUME NEW i \in Invoice, NEW st \in {"Verified", "Paid", "Defaulted", "Funded"},
             UpdateInvoiceStatus(i, st)
      PROVE  IInv'
    BY <1>3, UpdateInvoiceStatusInv
<1>4. ASSUME NEW i \in Invoice, NEW v \in Investor, NEW amount \in BidAmounts, NEW b \in Bid,
             PlaceBid(v, i, amount, b)
      PROVE  IInv'
    BY <1>4, PlaceBidInv
<1>5. ASSUME NEW i \in Invoice, NEW b \in Bid, AcceptBidAndFund(i, b) \/ AcceptBid(i, b)
      PROVE  IInv'
    BY <1>5, AcceptInv
<1>6. ASSUME NEW i \in Invoice, NEW amount \in PayAmounts, NEW n \in Nonce,
             PartialPayment(i, amount, n)
      PROVE  IInv'
    BY <1>6, PartialPaymentInv
<1>7. ASSUME NEW i \in Invoice, NEW amount \in PayAmounts, SettleInvoice(i, amount)
      PROVE  IInv'
    BY <1>7, SettleInvoiceInv
<1>8. ASSUME NEW i \in Invoice, NEW grace \in GracePeriods, DefaultAfterGrace(i, grace)
      PROVE  IInv'
    BY <1>8, DefaultInv DEF DefaultAfterGrace
<1>9. ASSUME NEW b \in Bid, WithdrawBid(b) \/ CancelBid(b)
      PROVE  IInv'
    BY <1>9, CloseBidInv
<1>10. CASE UNCHANGED vars
    BY <1>10, StutterInv
<1> QED BY <1>1, <1>2, <1>3, <1>4, <1>5, <1>6, <1>7, <1>8, <1>9, <1>10 DEF Next

(* The inductive invariant holds in every behaviour, whatever the callers do.*)
THEOREM Invariance == Spec => []IInv
<1>1. Init => IInv
    BY InitInv
<1>2. IInv /\ [Next]_vars => IInv'
    BY NextInv
<1> QED BY <1>1, <1>2, PTL DEF Spec

(* Types are kept: no call leaves a row malformed or a balance negative.     *)
THEOREM TypeCorrectness == Spec => []TypeOK
<1>1. IInv => TypeOK
    BY DEF IInv
<1> QED BY <1>1, Invariance, PTL

(* Escrow and investment of a deal never disagree: they come into being      *)
(* together, for the same investor and amount, and end together.             *)
THEOREM DealsConsistent == Spec => []DealInv
<1>1. IInv => DealInv
    BY DEF IInv
<1> QED BY <1>1, Invariance, PTL

----------------------------------------------------------------------------
(* InvoiceFinancing implements FundingDeal. *)

LEMMA PhaseOfDeal ==
    ASSUME NEW i \in Invoice
    PROVE  /\ NoDeal(i) => PhaseOf(i) = "Open"
           /\ Dealt(i) =>
                /\ PhaseOf(i) # "Open"
                /\ escrow[i].status = "Held" /\ investment[i].status = "Active" <=>
                       PhaseOf(i) = "Escrowed"
                /\ escrow[i].status = "Released" /\ investment[i].status = "Active" <=>
                       PhaseOf(i) = "Advanced"
                /\ investment[i].status = "Completed" <=> PhaseOf(i) = "Repaid"
                /\ escrow[i].status = "Refunded" <=> PhaseOf(i) = "Returned"
                /\ escrow[i].status = "Held" /\ investment[i].status = "Defaulted" <=>
                       PhaseOf(i) = "Stranded"
                /\ escrow[i].status = "Released" /\ investment[i].status = "Defaulted" <=>
                       PhaseOf(i) = "Lost"
BY DEF PhaseOf, NoDeal, Dealt, DealPairs, NoEscrow, NoInvestment, Absent

(* A step that changes the records of one deal only, moves that deal only.   *)
LEMMA OneDealMoves ==
    ASSUME NEW d \in Invoice, NEW st,
           \A k \in Invoice \ {d} : escrow'[k] = escrow[k] /\ investment'[k] = investment[k],
           PhaseOf(d)' = st
    PROVE  Promise!Moves(d, st)
<1>1. \A k \in Invoice \ {d} : PhaseOf(k)' = PhaseOf(k)
    BY DEF PhaseOf
<1> QED BY <1>1 DEF Promise!Moves

(* Records and custody that do not change leave the promise unchanged.       *)
LEMMA DealsUntouched ==
    ASSUME UNCHANGED <<escrow, investment>>, balance'[Contract] = balance[Contract]
    PROVE  UNCHANGED Promise!vars
<1>1. \A k \in Invoice : PhaseOf(k)' = PhaseOf(k)
    BY DEF PhaseOf
<1> QED BY <1>1 DEF Promise!vars

LEMMA InitRefines == Init => Promise!Init
<1> SUFFICES ASSUME Init PROVE Promise!Init
    OBVIOUS
<1>1. \A i \in Invoice : NoDeal(i)
    BY DEF Init, NoDeal
<1>2. \A i \in Invoice : PhaseOf(i) = "Open"
    BY <1>1, PhaseOfDeal
<1> QED BY <1>2 DEF Init, Promise!Init, NoInvestment

(* Each action takes a step of the promise or leaves it unchanged. *)

LEMMA FundRefines ==
    ASSUME IInv, NEW i \in Invoice, NEW j \in Invoice, NEW b \in Bid, NEW S \in SUBSET Invoice,
           CleanBids(S)[b].status = "Placed", Fund(i, j, b, CleanBids(S))
    PROVE  Promise!Fund(j)
<1> DEFINE offer == CleanBids(S)[b]
<1>1. offer.investor \in Investor /\ offer.amount \in Nat /\ offer.amount > 0
  <2>1. /\ offer.investor = bid[b].investor /\ offer.amount = bid[b].amount
        /\ bid[b].status # Absent
      BY CleanEffect DEF IInv, Absent
  <2>2. bid[b].amount \in Nat
      BY DEF IInv, TypeOK, BidRow
  <2> QED BY <2>1, <2>2 DEF IInv, BidInv
<1>2. /\ escrow[j].status = Absent
      /\ escrow' = [escrow EXCEPT ![j] = NewEscrow(i, offer)]
      /\ investment' = [investment EXCEPT ![j] = [status |-> "Active",
                            investor |-> offer.investor, amount |-> offer.amount]]
      /\ balance' = Transfer(balance, offer.investor, Contract, offer.amount)
    BY DEF Fund
<1> HIDE DEF offer
<1>3. NoDeal(j)
    BY <1>2 DEF IInv, DealInv, Dealt, DealPairs, Absent
<1>4. /\ escrow'[j].status = "Held" /\ investment'[j].status = "Active"
      /\ investment'[j].investor = offer.investor /\ investment'[j].amount = offer.amount
      /\ \A k \in Invoice \ {j} : escrow'[k] = escrow[k] /\ investment'[k] = investment[k]
    BY <1>2 DEF IInv, TypeOK, NewEscrow
<1>5. PhaseOf(j) = "Open" /\ PhaseOf(j)' = "Escrowed"
    BY <1>3, <1>4, PhaseOfDeal DEF PhaseOf
<1>6. Promise!Moves(j, "Escrowed")
    BY <1>4, <1>5, OneDealMoves
<1>7. balance'[Contract] = balance[Contract] + offer.amount
  <2>1. offer.investor \in Address /\ Contract \in Address /\ offer.investor # Contract
      BY <1>1, AddressesOK DEF Address
  <2> QED BY <1>1, <1>2, <2>1, TransferEffect DEF IInv, TypeOK
<1> DEFINE funder == [k \in Invoice |-> investment[k].investor]
           principal == [k \in Invoice |-> investment[k].amount]
<1>8. funder' = [funder EXCEPT ![j] = funder'[j]] /\ funder'[j] \in Investor
  <2>1. funder'[j] = offer.investor /\ \A k \in Invoice \ {j} : funder'[k] = funder[k]
      BY <1>4
  <2>2. funder' = [k \in Invoice |-> funder'[k]] /\ funder = [k \in Invoice |-> funder[k]]
      OBVIOUS
  <2> HIDE DEF funder
  <2> QED BY <1>1, <2>1, <2>2
<1>9. principal' = [principal EXCEPT ![j] = principal'[j]] /\ principal'[j] \in Nat \ {0}
  <2>1. principal'[j] = offer.amount /\ \A k \in Invoice \ {j} : principal'[k] = principal[k]
      BY <1>4
  <2>2. /\ principal' = [k \in Invoice |-> principal'[k]]
        /\ principal = [k \in Invoice |-> principal[k]]
      OBVIOUS
  <2> HIDE DEF principal
  <2> QED BY <1>1, <2>1, <2>2
<1>10. balance'[Contract] = balance[Contract] + principal'[j]
    BY <1>4, <1>7
<1>11. [k \in Invoice |-> PhaseOf(k)][j] = "Open"
    BY <1>5
<1> QED BY <1>6, <1>8, <1>9, <1>10, <1>11 DEF Promise!Fund

LEMMA ReleaseRefines ==
    ASSUME IInv, NEW i \in Invoice, ReleaseEscrow(i)
    PROVE  Promise!Advance(i) \/ Promise!Recover(i)
<1>1. /\ escrow[i].status = "Held" /\ Dealt(i)
      /\ escrow' = [escrow EXCEPT ![i].status = "Released"]
      /\ investment' = investment
      /\ balance' = BalanceAfterRelease(i)
    BY HeldDeal DEF ReleaseEscrow, CanRelease, Absent
<1>2. /\ escrow'[i].status = "Released"
      /\ \A k \in Invoice \ {i} : escrow'[k] = escrow[k] /\ investment'[k] = investment[k]
    BY <1>1 DEF IInv, TypeOK, EscrowRow
<1>3. balance'[Contract] = balance[Contract] - investment[i].amount
  <2>1. /\ escrow[i].payee \in Address /\ Contract \in Address /\ escrow[i].payee # Contract
        /\ escrow[i].amount \in Nat /\ escrow[i].amount = investment[i].amount
      BY <1>1, AddressesOK DEF Dealt, Address, IInv, TypeOK, EscrowRow
  <2> QED BY <1>1, <2>1, TransferEffect DEF BalanceAfterRelease, IInv, TypeOK
<1>4. CASE investment[i].status = "Active"
  <2>1. PhaseOf(i) = "Escrowed" /\ PhaseOf(i)' = "Advanced"
      BY <1>1, <1>2, <1>4 DEF PhaseOf
  <2>2. Promise!Moves(i, "Advanced")
      BY <1>2, <2>1, OneDealMoves
  <2> QED BY <1>1, <1>3, <2>1, <2>2 DEF Promise!Advance
<1>5. CASE investment[i].status = "Defaulted"
  <2>1. PhaseOf(i) = "Stranded" /\ PhaseOf(i)' = "Lost"
      BY <1>1, <1>2, <1>5 DEF PhaseOf
  <2>2. Promise!Moves(i, "Lost")
      BY <1>2, <2>1, OneDealMoves
  <2> QED BY <1>1, <1>3, <2>1, <2>2 DEF Promise!Recover
<1> QED BY <1>1, <1>4, <1>5 DEF Dealt, DealPairs

LEMMA RefundRefines ==
    ASSUME IInv, NEW i \in Invoice, RefundEscrow(i)
    PROVE  Promise!Return(i)
<1>1. /\ escrow[i].status = "Held" /\ Dealt(i)
      /\ escrow' = [escrow EXCEPT ![i].status = "Refunded"]
      /\ balance' = Transfer(balance, Contract, escrow[i].investor, escrow[i].amount)
      /\ CloseInvestment(i, "Refunded")
    BY HeldDeal DEF RefundEscrow, Absent
<1>2. /\ investment[i].status = "Active"
      /\ \A k \in Invoice \ {i} : investment'[k] = investment[k]
      /\ investment'[i].investor = investment[i].investor
      /\ investment'[i].amount = investment[i].amount
      /\ investment'[i].status = "Refunded"
    BY <1>1, CloseInvestmentEffect
    DEF IInv, InvestmentStatus, Dealt, DealPairs, Absent
<1>3. /\ escrow'[i].status = "Refunded"
      /\ \A k \in Invoice \ {i} : escrow'[k] = escrow[k]
    BY <1>1 DEF IInv, TypeOK, EscrowRow
<1>4. PhaseOf(i) = "Escrowed" /\ PhaseOf(i)' = "Returned"
    BY <1>1, <1>2, <1>3 DEF PhaseOf
<1>5. Promise!Moves(i, "Returned")
    BY <1>2, <1>3, <1>4, OneDealMoves
<1>6. balance'[Contract] = balance[Contract] - investment[i].amount
  <2>1. /\ escrow[i].investor \in Address /\ Contract \in Address
        /\ escrow[i].investor # Contract
        /\ escrow[i].amount \in Nat /\ escrow[i].amount = investment[i].amount
      BY <1>1, AddressesOK DEF Dealt, Address, IInv, TypeOK, EscrowRow
  <2> QED BY <1>1, <2>1, TransferEffect DEF IInv, TypeOK
<1> QED BY <1>2, <1>4, <1>5, <1>6 DEF Promise!Return

LEMMA SettleRefines ==
    ASSUME IInv, NEW i \in Invoice, NEW total \in Nat, Settle(i, total)
    PROVE  Promise!Repay(i)
<1>1. /\ i \notin finalized /\ investment[i].status # Absent
      /\ escrow' = IF escrow[i].status = "Held"
                   THEN [escrow EXCEPT ![i].status = "Released"] ELSE escrow
      /\ CloseInvestment(i, "Completed")
    BY DEF Settle
<1>2. Dealt(i)
    BY <1>1 DEF IInv, DealInv, NoDeal, NoInvestment
<1>3. /\ investment[i].status = "Active" /\ investment'[i].status = "Completed"
      /\ \A k \in Invoice \ {i} : investment'[k] = investment[k]
      /\ investment'[i].investor = investment[i].investor
      /\ investment'[i].amount = investment[i].amount
    BY <1>1, <1>2, CloseInvestmentEffect DEF IInv, InvestmentStatus, Dealt
<1>4. /\ escrow[i].status \in {"Held", "Released"} /\ escrow'[i].status = "Released"
      /\ \A k \in Invoice \ {i} : escrow'[k] = escrow[k]
  <2>1. escrow[i].status \in {"Held", "Released"}
      BY <1>2, <1>3 DEF Dealt, DealPairs
  <2>2. CASE escrow[i].status = "Held"
      BY <1>1, <2>2 DEF IInv, TypeOK, EscrowRow
  <2>3. CASE escrow[i].status = "Released"
      BY <1>1, <2>3
  <2> QED BY <2>1, <2>2, <2>3
<1>5. /\ PhaseOf(i) = IF escrow[i].status = "Held" THEN "Escrowed" ELSE "Advanced"
      /\ PhaseOf(i)' = "Repaid"
    BY <1>3, <1>4 DEF PhaseOf
<1>6. Promise!Moves(i, "Repaid")
    BY <1>3, <1>4, <1>5, OneDealMoves
<1>7. balance'[Contract] >= balance[Contract]
          - (IF PhaseOf(i) = "Escrowed" THEN investment[i].amount ELSE 0)
    BY <1>2, <1>5, SettleBalance DEF Dealt
<1> QED BY <1>3, <1>5, <1>6, <1>7 DEF Promise!Repay

LEMMA DefaultRefines ==
    ASSUME IInv, NEW i \in Invoice, Default(i)
    PROVE  Promise!WriteOff(i) \/ UNCHANGED Promise!vars
<1>1. escrow' = escrow /\ balance' = balance /\ CloseInvestment(i, "Defaulted")
    BY DEF Default
<1>2. CASE investment[i].status = "Active"
  <2>1. /\ investment'[i].status = "Defaulted"
        /\ \A k \in Invoice \ {i} : investment'[k] = investment[k]
        /\ investment'[i].investor = investment[i].investor
        /\ investment'[i].amount = investment[i].amount
      BY <1>1, <1>2, CloseInvestmentEffect DEF IInv, InvestmentStatus, Absent
  <2>2. Dealt(i)
      BY <1>2 DEF IInv, DealInv, NoDeal, NoInvestment, Absent
  <2>3. escrow[i].status \in {"Held", "Released"}
      BY <1>2, <2>2 DEF Dealt, DealPairs
  <2>4. /\ PhaseOf(i) = IF escrow[i].status = "Held" THEN "Escrowed" ELSE "Advanced"
        /\ PhaseOf(i)' = IF escrow[i].status = "Held" THEN "Stranded" ELSE "Lost"
      BY <1>1, <1>2, <2>1, <2>3 DEF PhaseOf
  <2>5. Promise!Moves(i, IF PhaseOf(i) = "Escrowed" THEN "Stranded" ELSE "Lost")
      BY <1>1, <2>1, <2>4, OneDealMoves
  <2> QED BY <1>1, <2>1, <2>4, <2>5 DEF Promise!WriteOff
<1>3. CASE investment[i].status # "Active"
  <2>1. investment' = investment
    <3>1. \A k \in Invoice \ {i} : investment'[k] = investment[k]
        BY <1>1, CloseInvestmentEffect DEF IInv, InvestmentStatus
    <3>2. investment'[i] = investment[i]
        BY <1>1, <1>3 DEF CloseInvestment, CanCloseInvestment, IInv, TypeOK, InvestmentRow
    <3>3. investment' \in [Invoice -> InvestmentRow]
        BY <1>1, CloseInvestmentEffect DEF IInv, InvestmentStatus
    <3> QED BY <3>1, <3>2, <3>3 DEF IInv, TypeOK
  <2> QED BY <1>1, <2>1, DealsUntouched
<1> QED BY <1>2, <1>3

LEMMA AcceptRefines ==
    ASSUME IInv, NEW i \in Invoice, NEW b \in Bid, AcceptBidAndFund(i, b) \/ AcceptBid(i, b)
    PROVE  Promise!Next
<1>1. CASE AcceptBidAndFund(i, b)
  <2>1. Promise!Fund(i)
      BY <1>1, FundRefines DEF AcceptBidAndFund
  <2> QED BY <2>1 DEF Promise!Next
<1>2. CASE AcceptBid(i, b)
  <2>1. PICK j \in Invoice : j = bid[b].invoice
      BY <1>2 DEF AcceptBid, IInv, BidInv
  <2>2. CleanBids({i, j})[b].status = "Placed" /\ Fund(i, j, b, CleanBids({i, j}))
      BY <1>2, <2>1 DEF AcceptBid
  <2>3. Promise!Fund(j)
      BY <2>2, FundRefines
  <2> QED BY <2>3 DEF Promise!Next
<1> QED BY <1>1, <1>2

LEMMA PaymentRefines ==
    ASSUME IInv, NEW i \in Invoice, NEW amount \in PayAmounts, NEW n \in Nonce,
           PartialPayment(i, amount, n)
    PROVE  Promise!Next \/ UNCHANGED Promise!vars
<1> DEFINE total == TotalAfter(i, amount, n)
<1>1. total \in Nat
    BY TotalType, ConstantsOK DEF IInv
<1>2. \/ UNCHANGED <<dealVars, balance>>
      \/ Settle(i, total)
    BY DEF PartialPayment
<1>3. CASE UNCHANGED <<dealVars, balance>>
    BY <1>3, DealsUntouched DEF dealVars
<1>4. CASE Settle(i, total)
  <2>1. Promise!Repay(i)
      BY <1>1, <1>4, SettleRefines
  <2> QED BY <2>1 DEF Promise!Next
<1> QED BY <1>2, <1>3, <1>4

LEMMA NextRefines == IInv /\ [Next]_vars => [Promise!Next]_Promise!vars
<1> SUFFICES ASSUME IInv, [Next]_vars PROVE Promise!Next \/ UNCHANGED Promise!vars
    OBVIOUS
<1>1. ASSUME NEW i \in Invoice,
             \/ StoreInvoice(i) \/ UploadInvoice(i) \/ VerifyInvoice(i) \/ CancelInvoice(i)
             \/ CleanupExpiredBids(i)
      PROVE  UNCHANGED Promise!vars
    BY <1>1, DealsUntouched
    DEF StoreInvoice, UploadInvoice, VerifyInvoice, CancelInvoice, CleanupExpiredBids, dealVars
<1>2. ASSUME NEW i \in Invoice, NEW st, UpdateInvoiceStatus(i, st)
      PROVE  UNCHANGED Promise!vars
    BY <1>2, DealsUntouched DEF UpdateInvoiceStatus, dealVars
<1>3. ASSUME NEW i \in Invoice, NEW v, NEW amount, NEW b, PlaceBid(v, i, amount, b)
      PROVE  UNCHANGED Promise!vars
  <2>1. UNCHANGED <<dealVars, balance>>
      BY <1>3 DEF PlaceBid
  <2> QED BY <2>1, DealsUntouched DEF dealVars
<1>4. ASSUME NEW b \in Bid, WithdrawBid(b) \/ CancelBid(b)
      PROVE  UNCHANGED Promise!vars
    BY <1>4, DealsUntouched DEF WithdrawBid, CancelBid, CloseBid, dealVars
<1>5. ASSUME NEW i \in Invoice, ReleaseEscrow(i) \/ RefundEscrow(i)
      PROVE  Promise!Next
  <2>1. Promise!Advance(i) \/ Promise!Recover(i) \/ Promise!Return(i)
      BY <1>5, ReleaseRefines, RefundRefines
  <2> QED BY <2>1 DEF Promise!Next
<1>6. ASSUME NEW i \in Invoice, NEW amount \in PayAmounts, SettleInvoice(i, amount)
      PROVE  Promise!Next
  <2>1. TotalAfter(i, amount, SettlementNonce) \in Nat
      BY TotalType, ConstantsOK DEF IInv
  <2>2. Promise!Repay(i)
      BY <1>6, <2>1, SettleRefines DEF SettleInvoice
  <2> QED BY <2>2 DEF Promise!Next
<1>7. ASSUME NEW i \in Invoice, NEW grace, HandleDefault(i) \/ DefaultAfterGrace(i, grace)
      PROVE  Promise!Next \/ UNCHANGED Promise!vars
  <2>1. Promise!WriteOff(i) \/ UNCHANGED Promise!vars
      BY <1>7, DefaultRefines DEF HandleDefault, DefaultAfterGrace
  <2> QED BY <2>1 DEF Promise!Next
<1>8. CASE Tick \/ UNCHANGED vars
    BY <1>8, DealsUntouched DEF Tick, vars, dealVars
<1> QED
    BY <1>1, <1>2, <1>3, <1>4, <1>5, <1>6, <1>7, <1>8, AcceptRefines, PaymentRefines DEF Next

(* The contract keeps the promise of FundingDeal for any number of invoices, *)
(* bids and participants and whatever the callers do: a deal is funded once, *)
(* its principal leaves the contract once, and a deal that is over stays so. *)
THEOREM Refinement == Spec => ImplementsDeal
<1>1. Init => Promise!Init
    BY InitRefines
<1>2. IInv /\ [Next]_vars => [Promise!Next]_Promise!vars
    BY NextRefines
<1>3. Spec => []IInv
    BY Invariance
<1> QED BY <1>1, <1>2, <1>3, PTL DEF Spec, ImplementsDeal, Promise!Spec
=============================================================================
