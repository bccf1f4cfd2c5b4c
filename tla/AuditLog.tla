------------------------------- MODULE AuditLog -------------------------------
(***************************************************************************)
(* The audit log (audit.rs): entries that are only ever appended, five     *)
(* indexes over them, and queries that start from the narrowest index.     *)
(* The contract exports the queries; in this version no flow calls         *)
(* log_operation yet, which is modelled as the code that will call it      *)
(* finds it.                                                               *)
(***************************************************************************)
EXTENDS Sublists

CONSTANTS
    Invoice, Operation, Actor,   \* Operation: the operations logged
    NoFilter,                    \* a filter that is not given
    Payloads,                    \* what is logged: [amount, old, new], -1 when absent
    MaxQueryLimit,               \* MAX_QUERY_LIMIT
    DayLength,                   \* 86_400 seconds
    MaxTime,                     \* bound of the model: the clock
    MaxEntries                   \* bound of the model: entries

VARIABLES
    entry,      \* id -> its entry; ids count up from 1
    trail,      \* key of an index -> the ids in it, oldest first
    now

vars == <<entry, trail, now>>

Id == DOMAIN entry

(* The keys of the indexes: per invoice, operation, actor and day, and all.  *)
Keys ==
    {<<"inv_aud", i>> : i \in Invoice} \cup {<<"op_aud", o>> : o \in Operation}
    \cup {<<"act_aud", a>> : a \in Actor} \cup {<<"ts_aud", d>> : d \in 0..(MaxTime \div DayLength)}
    \cup {<<"all_aud">>}

Init == entry = <<>> /\ trail = [k \in Keys |-> <<>>] /\ now = 0

(* The entry is missing from the index of its operation. *)
KeysOf_Fault(e) ==
    {<<"inv_aud", e.invoice>>, <<"act_aud", e.actor>>, <<"ts_aud", e.at \div DayLength>>,
     <<"all_aud">>}

KeysOf(e) ==
    {<<"inv_aud", e.invoice>>, <<"op_aud", e.operation>>, <<"act_aud", e.actor>>,
     <<"ts_aud", e.at \div DayLength>>, <<"all_aud">>}

(* log_operation.  The id holds a counter, so it is new even within one      *)
(* ledger.                                                                   *)
LogOperation(i, o, a, payload) ==
    LET e == [invoice |-> i, operation |-> o, actor |-> a, at |-> now, payload |-> payload]
    IN  /\ Len(entry) < MaxEntries
        /\ entry' = Append(entry, e)
        /\ trail' = [k \in Keys |-> IF k \in KeysOf(e) THEN Append(trail[k], Len(entry) + 1)
                                                       ELSE trail[k]]
        /\ UNCHANGED now

Tick == now < MaxTime /\ now' = now + 1 /\ UNCHANGED <<entry, trail>>

Next ==
    \/ Tick
    \/ \E i \in Invoice, o \in Operation, a \in Actor, payload \in Payloads :
          LogOperation(i, o, a, payload)

Spec == Init /\ [][Next]_vars

----------------------------------------------------------------------------
(* Queries.  A filter is [invoice, operation, actor, from, to]. *)

MatchesFilter(e, f) ==
    /\ f.invoice   \in {NoFilter, e.invoice}
    /\ f.operation \in {NoFilter, e.operation}
    /\ f.actor     \in {NoFilter, e.actor}
    /\ f.from # NoFilter => e.at >= f.from
    /\ f.to # NoFilter => e.at <= f.to

Source(f) ==
    trail[IF f.invoice # NoFilter THEN <<"inv_aud", f.invoice>>
          ELSE IF f.operation # NoFilter THEN <<"op_aud", f.operation>>
          ELSE IF f.actor # NoFilter THEN <<"act_aud", f.actor>>
          ELSE <<"all_aud">>]

FirstOf(s, n) == SubSeq(s, 1, IF n < Len(s) THEN n ELSE Len(s))

Capped(limit) == IF limit < MaxQueryLimit THEN limit ELSE MaxQueryLimit

(* The ids of the list whose entries match. *)
Matching(ids, f) == Sublist(ids, {n \in DOMAIN ids : MatchesFilter(entry[ids[n]], f)})

QueryAuditLogs(f, limit) == FirstOf(Matching(Source(f), f), Capped(limit))

(* get_audit_stats; without an entry the range is (MAX, 0). *)
AuditStats ==
    LET times == {entry[id].at : id \in Id} IN
    [total |-> Len(trail[<<"all_aud">>]), actors |-> {entry[id].actor : id \in Id},
     range |-> IF Id = {} THEN <<"MAX", 0>>
               ELSE <<CHOOSE t \in times : \A u \in times : t <= u,
                      CHOOSE t \in times : \A u \in times : t >= u>>]

(* validate_integrity.  The entry of log_invoice_cancelled, a change of      *)
(* status without the old one, does not pass it.                             *)
ValidEntry(e) ==
    /\ e.at <= now
    /\ e.operation \in {"InvoiceFunded", "PaymentProcessed"} => e.payload.amount > 0
    /\ e.operation = "InvoiceStatusChanged" => e.payload.old # -1 /\ e.payload.new # -1

InvoiceAuditIntegrity(i) ==
    \A n \in DOMAIN trail[<<"inv_aud", i>>] :
        /\ trail[<<"inv_aud", i>>][n] \in Id
        /\ ValidEntry(entry[trail[<<"inv_aud", i>>][n]])

----------------------------------------------------------------------------
TypeOK ==
    /\ now \in 0..MaxTime /\ Len(entry) <= MaxEntries
    /\ \A k \in Keys : \A n \in DOMAIN trail[k] : trail[k][n] \in Id

Filters ==
    [invoice : Invoice \cup {NoFilter}, operation : Operation \cup {NoFilter}, actor : Actor \cup {NoFilter},
     from : {NoFilter} \cup 0..MaxTime, to : {NoFilter} \cup 0..MaxTime]

(* Whichever index a query starts from, it returns the oldest entries that   *)
(* match its filter, oldest first, as many as were asked for up to the cap:  *)
(* none is missing from the index the query happened to take.  The statistic *)
(* counts each entry once.                                                   *)
QueriesComplete ==
    /\ AuditStats.total = Len(entry)
    /\ \A f \in Filters, limit \in 0..(MaxQueryLimit + 1) :
           QueryAuditLogs(f, limit) = FirstOf(Matching([n \in Id |-> n], f), Capped(limit))
=============================================================================
