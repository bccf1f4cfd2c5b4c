----------------------------- MODULE OverdueScan -----------------------------
(***************************************************************************)
(* The overdue scan of defaults.rs.  A call inspects a bounded window of   *)
(* the list of Funded invoices and defaults those past the end of their    *)
(* grace period; the position it stopped at is stored for the next call.   *)
(* Between two calls the list changes: it grows at its end as invoices are *)
(* funded, and closes up where they settle, are refunded or default.       *)
(*                                                                         *)
(* Every caller uses the grace period of the protocol, so that time shows  *)
(* only in an invoice becoming late.  The model value of a finished        *)
(* invoice may be used again for a new one: the list can change for ever.  *)
(*                                                                         *)
(* X_Fault is X with the fault its comment names; nothing uses it.         *)
(***************************************************************************)
EXTENDS Sublists, SequencesExt

CONSTANTS
    Invoice,    \* bound of the model: so many invoices are funded at a time
    Limits,     \* batch sizes that callers ask for
    MaxBatch    \* MAX_OVERDUE_SCAN_BATCH_LIMIT

ASSUME ScanConstantsOK ==
    /\ IsFiniteSet(Invoice) /\ Invoice # {}
    /\ Limits \subseteq Nat
    /\ MaxBatch \in Nat \ {0}

VARIABLES
    funded,   \* the list of Funded invoices, in the order of insertion
    cursor,   \* the stored position
    late,     \* invoices past their grace period
    over      \* invoices with their default guard set or their investment closed

vars == <<funded, cursor, late, over>>

Init ==
    /\ funded = <<>>
    /\ cursor = 0
    /\ late = {}
    /\ over = {}

----------------------------------------------------------------------------
(* The list. *)

IsFunded(i) == Contains(funded, i)

(* The last entry takes the place of a first one that is removed. *)
Remaining_Fault(gone) ==
    LET kept == Without(funded, gone) IN
    IF kept # <<>> /\ Head(funded) \in gone THEN <<Last(kept)>> \o Front(kept) ELSE kept

Remaining(gone) == Without(funded, gone)

(* Funding a new invoice. *)
Fund(i) ==
    /\ ~IsFunded(i)
    /\ funded' = Append(funded, i)
    /\ late' = late \ {i}
    /\ over' = over \ {i}
    /\ UNCHANGED cursor

(* Settlement and refund, which fail once the deal is over. *)
Close(i) ==
    /\ IsFunded(i) /\ i \notin over
    /\ funded' = Remaining({i})
    /\ over' = over \cup {i}
    /\ UNCHANGED <<cursor, late>>

(* update_invoice_status to Funded after the deal is over; an invoice that is *)
(* Funded already moves to the end of the list.                               *)
Reset(i) ==
    /\ i \in over
    /\ funded' = Append(Remaining({i}), i)
    /\ UNCHANGED <<cursor, late, over>>

(* The grace period of i ends. *)
Lapse(i) ==
    /\ IsFunded(i) /\ i \notin late
    /\ late' = late \cup {i}
    /\ UNCHANGED <<funded, cursor, over>>

----------------------------------------------------------------------------
(* Defaults. *)

(* The invoice stays in the list. *)
DefaultAll_Fault(gone) ==
    /\ gone \cap over = {}
    /\ funded' = funded
    /\ over' = over \cup gone

(* handle_default for each member: it returns Err on a set guard, and panics *)
(* on a closed investment; either rolls the whole call back.                 *)
DefaultAll(gone) ==
    /\ gone \cap over = {}
    /\ funded' = Remaining(gone)
    /\ over' = over \cup gone

MarkDefaulted(i) ==
    /\ IsFunded(i) /\ i \in late
    /\ DefaultAll({i})
    /\ UNCHANGED <<cursor, late>>

----------------------------------------------------------------------------
(* The scan. *)

AtLeast(a, b) == IF a < b THEN b ELSE a
AtMost(a, b)  == IF a > b THEN b ELSE a

(* resolve_scan_limit, and no more than the list holds. *)
BatchSize(limit) == AtMost(AtMost(AtLeast(limit, 1), MaxBatch), Len(funded))

(* normalize_cursor *)
Start == IF cursor >= Len(funded) THEN 0 ELSE cursor

(* The invoices inspected: BatchSize entries from Start, around the end.     *)
Window(limit) ==
    {funded[((Start + d) % Len(funded)) + 1] : d \in 0..(BatchSize(limit) - 1)}

(* The position is not carried over to the next call. *)
NextCursor_Fault(limit) == 0

(* The position does not wrap at the end of the list. *)
NextCursor_WrapFault(limit) == Start + BatchSize(limit)

NextCursor(limit) ==
    IF BatchSize(limit) >= Len(funded) THEN 0
    ELSE (Start + BatchSize(limit)) % Len(funded)

(* The position counts in the list as it was before the call removed some.   *)
Scan(limit) ==
    /\ funded # <<>>
    /\ DefaultAll(Window(limit) \cap late)
    /\ cursor' = NextCursor(limit)
    /\ UNCHANGED late

ScanOfNothing ==
    /\ funded = <<>>
    /\ cursor' = 0
    /\ UNCHANGED <<funded, late, over>>

AnyScan == ScanOfNothing \/ \E limit \in Limits : Scan(limit)

Next ==
    \/ AnyScan
    \/ \E i \in Invoice : Fund(i) \/ Close(i) \/ Lapse(i) \/ MarkDefaulted(i)

(* Somebody calls the scan again and again: default-handling.md, "Run bounded *)
(* overdue scans on a schedule".  Nobody is obliged to call anything else.    *)
Spec == Init /\ [][Next]_vars /\ WF_vars(AnyScan)

(* The same when update_invoice_status is used as well. *)
NextWithReset == Next \/ \E i \in Invoice : Reset(i)

SpecWithReset == Init /\ [][NextWithReset]_vars /\ WF_vars(AnyScan)

----------------------------------------------------------------------------
(* Properties. *)

(* The list holds an id at most once, and the stored position is always one  *)
(* that a list of this many invoices can have.                               *)
TypeOK ==
    /\ funded \in Seq(Invoice)
    /\ IsInjective(funded)
    /\ cursor \in 0..(Cardinality(Invoice) - 1)
    /\ late \subseteq Invoice
    /\ over \subseteq Invoice

(* default-handling.md, "Traversal order: funded index insertion order": as   *)
(* the list grows and closes up, no entry overtakes another, so that removals  *)
(* can push an entry behind the position only as often as it has entries in    *)
(* front of it.  An invoice made Funded once more goes to the end of the list. *)
NoOvertaking ==
    [][\A i, j \in Invoice \ over :
           Before(funded, i, j) => ~Before(funded', j, i)]_vars

(* No Funded invoice has its guard set or its investment closed.  This is     *)
(* what keeps scan_funded_invoice_expirations from failing: its ? on the      *)
(* result of a single invoice ends the whole call.                            *)
NoFundedIsOver == \A i \in over : ~IsFunded(i)

(* lib.rs, check_overdue_invoices: "Repeated invocations eventually cover the *)
(* full funded set as the stored cursor advances."  Whatever is funded and    *)
(* closed between the calls, and whatever batch size each call uses, an       *)
(* invoice with an open deal that is late does not stay Funded.               *)
ScanReachesEveryInvoice ==
    \A i \in Invoice :
        (IsFunded(i) /\ i \in late \ over) ~> ~IsFunded(i)
=============================================================================
