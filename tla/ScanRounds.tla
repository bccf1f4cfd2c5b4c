------------------------------ MODULE ScanRounds ------------------------------
(***************************************************************************)
(* OverdueScan with a record of what a round of scans has inspected.  A    *)
(* round starts with a call at position 0 and ends with a call that stores *)
(* position 0.  During a round nothing but the scan changes the list.       *)
(***************************************************************************)
EXTENDS OverdueScan

VARIABLE owed   \* listed when the round began, not inspected since

RoundInit == Init /\ owed = {}

(* A call inspects its window of the list, as far as it is still there.       *)
Inspect(limit) ==
    /\ Scan(limit)
    /\ owed' = (IF cursor = 0 THEN ToSet(funded) ELSE owed) \ Window(limit)

RoundNext ==
    \/ \E limit \in Limits : Inspect(limit)
    \/ \E i \in Invoice : Lapse(i) /\ UNCHANGED owed
    \/ \E i \in Invoice : cursor = 0 /\ Fund(i) /\ UNCHANGED owed

RoundSpec == RoundInit /\ [][RoundNext]_<<vars, owed>>

(* defaults.rs, scan_funded_invoice_expirations: "Callers that need full      *)
(* coverage must invoke the scan repeatedly until next_cursor wraps to 0."    *)
(* Every invoice that was Funded when the round began has then been inspected. *)
RoundCovers == cursor = 0 => owed = {}
=============================================================================
