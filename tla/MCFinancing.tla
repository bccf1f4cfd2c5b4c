----------------------------- MODULE MCFinancing -----------------------------
(* Small instances of InvoiceFinancing for TLC. *)
EXTENDS FinancingProperties, TLC

CONSTANTS i1, i2, b1, b2, b3, v1, v2, o1, contract, treasury

MCInvoice == {i1, i2}
MCOwnerOf == [i \in {i1, i2} |-> o1]
MCFace    == i1 :> 20 @@ i2 :> 10

(* i1 falls due first, so that a deal can default while another still bids.  *)
MCDue     == i1 :> 1 @@ i2 :> 2

(* An investor may bid the face of either invoice, but not of both.          *)
MCLimit == [v \in Investor |-> 25]

(* v1 can pay for everything, v2 only for a small bid.                       *)
MCStartBalance == [a \in Address |-> CASE a = v1 -> 40
                                       [] a = v2 -> 10
                                       [] a = o1 -> 20
                                       [] OTHER  -> 0]

MCSymmetry == Permutations(Bid)

(* In the larger instance of all entry points the invoices are alike.        *)
SameFace == [i \in Invoice |-> 20]
SameDue  == [i \in Invoice |-> 1]

(* The business must collect a principal before it can repay a face.         *)
SameStartBalance == [a \in Address |-> CASE a = v1 -> 40
                                         [] a = o1 -> 10
                                         [] OTHER  -> 0]

SameSymmetry == Permutations(Bid) \cup Permutations(Invoice)
=============================================================================
