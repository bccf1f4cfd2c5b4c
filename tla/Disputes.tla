------------------------------- MODULE Disputes -------------------------------
(***************************************************************************)
(* Disputes (the entry points at the end of lib.rs, dispute.rs) and the    *)
(* timeline that is derived from one (dispute_timeline.rs).  A dispute is  *)
(* part of its invoice; the invoice goes on through its own lifecycle      *)
(* meanwhile, which is here one action.  restore_backup, which can put an  *)
(* older dispute back with its invoice, is left out.  A text is its        *)
(* length.                                                                 *)
(***************************************************************************)
EXTENDS Integers, Sequences, SequencesExt

CONSTANTS
    Invoice, Business, Investor, Stranger,   \* one business and one investor per invoice
    Admin,
    Texts,          \* lengths of reasons, evidence and resolutions
    MaxReason,      \* MAX_DISPUTE_REASON_LENGTH
    MaxText,        \* MAX_DISPUTE_EVIDENCE_LENGTH, MAX_DISPUTE_RESOLUTION_LENGTH
    PageSize,       \* TIMELINE_MAX_PAGE_SIZE
    MaxTime         \* bound of the model: the clock

VARIABLES
    status,     \* invoice -> InvoiceStatus
    dispute,    \* invoice -> [status, by, at, reason, evidence, resolution, resolvedAt]
    now

vars == <<status, dispute, now>>

Stages == <<"None", "Disputed", "UnderReview", "Resolved">>

StageOf(i) == CHOOSE n \in DOMAIN Stages : Stages[n] = dispute[i].status

NoDispute ==
    [status |-> "None", by |-> Stranger, at |-> 0, reason |-> 0, evidence |-> 0,
     resolution |-> 0, resolvedAt |-> 0]

Init ==
    /\ status = [i \in Invoice |-> "Pending"]
    /\ dispute = [i \in Invoice |-> NoDispute]
    /\ now = 1

Next_Status ==
    [Pending   |-> {"Verified", "Cancelled"},  Verified  |-> {"Funded", "Cancelled"},
     Funded    |-> {"Paid", "Defaulted", "Refunded"},
     Paid      |-> {}, Defaulted |-> {}, Refunded |-> {}, Cancelled |-> {}]

Parties(i) == {Business} \cup (IF status[i] \in {"Pending", "Verified", "Cancelled"}
                               THEN {} ELSE {Investor})

----------------------------------------------------------------------------
ValidReason(text) == text \in 1..MaxReason

ValidText(text) == text \in 1..MaxText

(* validate_dispute_eligibility *)
Eligible(i, creator) ==
    /\ status[i] \in {"Pending", "Verified", "Funded", "Paid"}
    /\ creator \in Parties(i)
    /\ dispute[i].status = "None"

CreateDispute(i, creator, reason, evidence) ==
    /\ ValidReason(reason) /\ ValidText(evidence)
    /\ Eligible(i, creator)
    /\ dispute' = [dispute EXCEPT ![i] =
          [status |-> "Disputed", by |-> creator, at |-> now, reason |-> reason,
           evidence |-> evidence, resolution |-> 0, resolvedAt |-> 0]]
    /\ UNCHANGED <<status, now>>

(* Any dispute may be put under review, a resolved one too. *)
PutUnderReview_Fault(i, admin) ==
    /\ admin = Admin
    /\ dispute[i].status # "None"
    /\ dispute' = [dispute EXCEPT ![i].status = "UnderReview"]
    /\ UNCHANGED <<status, now>>

PutUnderReview(i, admin) ==
    /\ admin = Admin
    /\ dispute[i].status = "Disputed"
    /\ dispute' = [dispute EXCEPT ![i].status = "UnderReview"]
    /\ UNCHANGED <<status, now>>

ResolveDispute(i, admin, resolution) ==
    /\ admin = Admin
    /\ ValidText(resolution)
    /\ dispute[i].status = "UnderReview"
    /\ dispute' = [dispute EXCEPT ![i].status = "Resolved", ![i].resolution = resolution,
                                  ![i].resolvedAt = now]
    /\ UNCHANGED <<status, now>>

(* The invoice is verified, funded, paid, ... whether or not it is disputed. *)
Advance(i) ==
    /\ \E s \in Next_Status[status[i]] : status' = [status EXCEPT ![i] = s]
    /\ UNCHANGED <<dispute, now>>

Tick == now < MaxTime /\ now' = now + 1 /\ UNCHANGED <<status, dispute>>

Next ==
    \/ Tick
    \/ \E i \in Invoice :
          \/ Advance(i)
          \/ \E a \in {Business, Investor, Stranger, Admin} :
                \/ PutUnderReview(i, a)
                \/ \E r, e \in Texts : CreateDispute(i, a, r, e)
                \/ \E r \in Texts : ResolveDispute(i, a, r)

Spec == Init /\ [][Next]_vars

----------------------------------------------------------------------------
(* What the getters return. *)

(* get_invoices_by_dispute_status, over the five statuses it looks in        *)
ByDisputeStatus(s) ==
    {i \in Invoice : /\ status[i] \in {"Pending", "Verified", "Funded", "Paid", "Defaulted"}
                     /\ dispute[i].status = s}

WithDisputes == UNION {ByDisputeStatus(s) : s \in {"Disputed", "UnderReview", "Resolved"}}

Entry(event, at, actor, summary) ==
    [event |-> event, at |-> at, actor |-> actor, summary |-> summary]

(* The time of the review is taken from the resolution, present or not. *)
BuildEntries_Fault(d) ==
    (IF d.status = "None" THEN <<>> ELSE <<Entry("Opened", d.at, d.by, d.reason)>>)
    \o (IF d.status \in {"UnderReview", "Resolved"}
        THEN <<Entry("UnderReview", d.resolvedAt, Stranger, 0)>> ELSE <<>>)
    \o (IF d.status = "Resolved" THEN <<Entry("Resolved", d.resolvedAt, Admin, d.resolution)>>
        ELSE <<>>)

(* build_all_entries.  The review has no time of its own: it shows the time  *)
(* of the resolution, or before that the time of the opening; its actor is   *)
(* hidden.                                                                   *)
BuildEntries(d) ==
    (IF d.status = "None" THEN <<>> ELSE <<Entry("Opened", d.at, d.by, d.reason)>>)
    \o (IF d.status \in {"UnderReview", "Resolved"}
        THEN <<Entry("UnderReview", IF d.resolvedAt > 0 THEN d.resolvedAt ELSE d.at, Stranger, 0)>>
        ELSE <<>>)
    \o (IF d.status = "Resolved" THEN <<Entry("Resolved", d.resolvedAt, Admin, d.resolution)>>
        ELSE <<>>)

Least(a, b) == IF a <= b THEN a ELSE b

(* The page ends one entry late. *)
Paginate_Fault(all, offset, limit) ==
    LET start == Least(offset, Len(all))
        end   == Least(start + Least(limit, PageSize) + 1, Len(all))
    IN  [entries |-> SubSeq(all, start + 1, end), hasMore |-> end < Len(all)]

(* paginate: positions count from 0. *)
Paginate(all, offset, limit) ==
    LET start == Least(offset, Len(all))
        end   == Least(start + Least(limit, PageSize), Len(all))
    IN  [entries |-> SubSeq(all, start + 1, end), hasMore |-> end < Len(all)]

Timeline(i, offset, limit) == Paginate(BuildEntries(dispute[i]), offset, limit)

----------------------------------------------------------------------------
TypeOK ==
    /\ status \in [Invoice -> DOMAIN Next_Status]
    /\ now \in 1..MaxTime
    /\ \A i \in Invoice :
          /\ dispute[i].status \in Range(Stages)
          /\ dispute[i].resolvedAt \in 0..MaxTime

(* A dispute goes one stage at a time and never back, and what its creator   *)
(* said and what the admin decided are never rewritten, whatever happens to  *)
(* the invoice meanwhile.                                                    *)
DisputeOnlyAdvances ==
    [][\A i \in Invoice : dispute'[i] # dispute[i] =>
          /\ StageOf(i)' = StageOf(i) + 1
          /\ dispute[i].status # "None" =>
                \A f \in {"by", "at", "reason", "evidence"} : dispute'[i][f] = dispute[i][f]]_vars

(* dispute-timeline.md: timestamps are non-decreasing across entries, and a  *)
(* reader that follows hasMore page by page sees each entry once: the pages  *)
(* of every size put together are the timeline, which has one entry for each *)
(* stage reached.                                                            *)
PagesFrom(i, limit) ==
    LET F[offset \in 0..3] ==
            LET page == Timeline(i, offset, limit) IN
            IF page.hasMore /\ offset + limit <= 3 THEN page.entries \o F[offset + limit]
            ELSE page.entries
    IN  F

Pages(i, limit) == PagesFrom(i, limit)[0]

TimelineComplete ==
    \A i \in Invoice :
        /\ \A n \in 1..PageSize : Pages(i, n) = BuildEntries(dispute[i])
        /\ Len(BuildEntries(dispute[i])) = StageOf(i) - 1
        /\ \A m, n \in DOMAIN BuildEntries(dispute[i]) :
              m <= n => BuildEntries(dispute[i])[m].at <= BuildEntries(dispute[i])[n].at
=============================================================================
