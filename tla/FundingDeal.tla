----------------------------- MODULE FundingDeal -----------------------------
(***************************************************************************)
(* What the contract promises about the money of a deal, without invoices, *)
(* bids, payments or time.  A deal is funded at most once, by one funder,  *)
(* for a principal that never changes; the principal leaves the contract's *)
(* custody at most once, either forward to the business or back to the     *)
(* funder; and a deal that is over stays over.                             *)
(*                                                                         *)
(*   Open --> Escrowed --> Advanced --> Repaid                             *)
(*               |  |           \--> Lost                                  *)
(*               |  +--> Repaid, Returned                                  *)
(*               +--> Stranded --> Lost                                    *)
(*                                                                         *)
(* Stranded is a deal that defaulted while its principal was in custody.   *)
(***************************************************************************)
EXTENDS Integers

CONSTANTS Deal, Funder, NoFunder,
          Opening      \* money in the contract's custody before the first deal

VARIABLES phase, funder, principal, custody

vars == <<phase, funder, principal, custody>>

Phase == {"Open", "Escrowed", "Advanced", "Repaid", "Returned", "Stranded", "Lost"}

Init ==
    /\ phase = [d \in Deal |-> "Open"]
    /\ funder = [d \in Deal |-> NoFunder]
    /\ principal = [d \in Deal |-> 0]
    /\ custody = Opening

Moves(d, st) == phase' = [phase EXCEPT ![d] = st]

(* The funder's money enters custody. *)
Fund(d) ==
    /\ phase[d] = "Open"
    /\ Moves(d, "Escrowed")
    /\ funder'[d] \in Funder
    /\ funder' = [funder EXCEPT ![d] = funder'[d]]
    /\ principal'[d] \in Nat \ {0}
    /\ principal' = [principal EXCEPT ![d] = principal'[d]]
    /\ custody' = custody + principal'[d]

(* The principal goes to the business. *)
Advance(d) ==
    /\ phase[d] = "Escrowed"
    /\ Moves(d, "Advanced")
    /\ custody' = custody - principal[d]
    /\ UNCHANGED <<funder, principal>>

(* The business repays; a principal still in custody goes to it first, and a *)
(* fee may stay in custody.                                                  *)
Repay(d) ==
    /\ phase[d] \in {"Escrowed", "Advanced"}
    /\ Moves(d, "Repaid")
    /\ custody' >= custody - (IF phase[d] = "Escrowed" THEN principal[d] ELSE 0)
    /\ UNCHANGED <<funder, principal>>

(* The principal goes back to its funder. *)
Return(d) ==
    /\ phase[d] = "Escrowed"
    /\ Moves(d, "Returned")
    /\ custody' = custody - principal[d]
    /\ UNCHANGED <<funder, principal>>

(* The business defaults. *)
WriteOff(d) ==
    /\ phase[d] \in {"Escrowed", "Advanced"}
    /\ Moves(d, IF phase[d] = "Escrowed" THEN "Stranded" ELSE "Lost")
    /\ UNCHANGED <<funder, principal, custody>>

(* The stranded principal goes to the business after all. *)
Recover(d) ==
    /\ phase[d] = "Stranded"
    /\ Moves(d, "Lost")
    /\ custody' = custody - principal[d]
    /\ UNCHANGED <<funder, principal>>

Next == \E d \in Deal :
    \/ Fund(d) \/ Advance(d) \/ Repay(d) \/ Return(d) \/ WriteOff(d) \/ Recover(d)

Spec == Init /\ [][Next]_vars
=============================================================================
