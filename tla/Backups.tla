------------------------------- MODULE Backups -------------------------------
(***************************************************************************)
(* Backups of the invoices (backup.rs and the entry points of lib.rs) and  *)
(* the part of the invoice storage a restore rewrites: the records and the *)
(* status lists.  Of an invoice only the status is kept; how it changes is *)
(* InvoiceFinancing's business, here any status may follow any other.      *)
(***************************************************************************)
EXTENDS Sublists, SequencesExt

CONSTANTS
    Statuses,     \* statuses of invoices in use, the first is that of a new one
    Policies,     \* retention policies: [max, age, auto]
    MaxInvoices,  \* bound of the model: invoices
    MaxBackups,   \* bound of the model: backups ever made
    MaxTime       \* bound of the model: the clock

VARIABLES
    status,    \* invoice -> its status, or "None"
    byStatus,  \* status -> list of invoices
    backups,   \* backup -> its record, <<>> when there is none
    listed,    \* the list of backups
    policy,
    made,      \* backup ids handed out
    now

vars == <<status, byStatus, backups, listed, policy, made, now>>

Invoices == 1..MaxInvoices
NewStatus == Head(Statuses)

Init ==
    /\ status = [i \in Invoices |-> "None"]
    /\ byStatus = [s \in Range(Statuses) |-> <<>>]
    /\ backups = [b \in 1..MaxBackups |-> <<>>]
    /\ listed = <<>>
    /\ policy = [max |-> 5, age |-> 0, auto |-> TRUE]
    /\ made = 0
    /\ now = 0

----------------------------------------------------------------------------
(* The invoice storage. *)

(* add_to_status_index: no second entry in the same list. *)
Added(list, i) == IF Contains(list, i) THEN list ELSE Append(list, i)

(* The record is rewritten, its index is not. *)
Stored_Fault(inv, s) == byStatus

(* The lists once the invoices have been stored with these statuses, one     *)
(* after the other.                                                          *)
Stored(invs, lists) ==
    [s \in DOMAIN lists |->
        LET ids == Sublist([n \in DOMAIN invs |-> invs[n].id],
                           {n \in DOMAIN invs : invs[n].status = s})
        IN  lists[s] \o Deduped(Without(ids, Range(lists[s])))]

StoreInvoice(i) ==
    /\ status[i] = "None"
    /\ \A j \in Invoices : j < i => status[j] # "None"
    /\ status' = [status EXCEPT ![i] = NewStatus]
    /\ byStatus' = Stored(<<[id |-> i, status |-> NewStatus]>>, byStatus)
    /\ UNCHANGED <<backups, listed, policy, made, now>>

(* InvoiceStorage::update goes by the status stored before. *)
UpdateInvoice(i, s) ==
    /\ status[i] \notin {"None", s}
    /\ status' = [status EXCEPT ![i] = s]
    /\ byStatus' = [byStatus EXCEPT ![status[i]] = Without(@, {i}),
                                    ![s] = Added(@, i)]
    /\ UNCHANGED <<backups, listed, policy, made, now>>

(* clear_all removes three counters.  Neither records nor lists change, and  *)
(* an id that is taken is skipped when the counter counts again.             *)
Cleared == byStatus

----------------------------------------------------------------------------
(* Backups. *)

(* get_all_invoices: list by list, so an invoice in two lists comes twice. *)
AllInvoices ==
    Joined([n \in DOMAIN Statuses |->
        [m \in DOMAIN byStatus[Statuses[n]] |->
            LET i == byStatus[Statuses[n]][m] IN [id |-> i, status |-> status[i]]]])

(* validate_backup *)
Valid(b) == backups[b] # <<>> /\ backups[b].count = Len(backups[b].data)

Active(bs, list) == {b \in Range(list) : bs[b] # <<>> /\ bs[b].state = "Active"}

(* The youngest go first. *)
Kept_Fault(bs, list) ==
    LET fresh == {b \in Active(bs, list) : policy.age > 0 => now - bs[b].at <= policy.age}
    IN  IF policy.max = 0 THEN fresh
        ELSE {b \in fresh : Cardinality({c \in fresh : c < b}) < policy.max}

(* What cleanup_old_backups leaves of the active ones: first those too old   *)
(* go, then the oldest, until the count is within the limit.  Backups of one *)
(* time keep the order of the list, which is that of their ids.              *)
Kept(bs, list) ==
    LET fresh == {b \in Active(bs, list) : policy.age > 0 => now - bs[b].at <= policy.age}
        Younger(b) == {c \in fresh : bs[c].at > bs[b].at \/ (bs[c].at = bs[b].at /\ c > b)}
    IN  IF policy.max = 0 THEN fresh
        ELSE {b \in fresh : Cardinality(Younger(b)) < policy.max}

(* The record goes and the entry in the list stays. *)
Purge_Fault(bs, list, gone) ==
    /\ backups' = [b \in DOMAIN bs |-> IF b \in gone THEN <<>> ELSE bs[b]]
    /\ listed' = list

Purge(bs, list, gone) ==
    /\ backups' = [b \in DOMAIN bs |-> IF b \in gone THEN <<>> ELSE bs[b]]
    /\ listed' = Without(list, gone)

(* cleanup_old_backups *)
Cleanup(bs, list) ==
    Purge(bs, list, IF policy.auto THEN Active(bs, list) \ Kept(bs, list) ELSE {})

NewBackup == [at |-> now, state |-> "Active", count |-> Len(AllInvoices), data |-> AllInvoices]

CreateBackup ==
    /\ made < MaxBackups
    /\ made' = made + 1
    /\ Cleanup([backups EXCEPT ![made'] = NewBackup], Append(listed, made'))
    /\ UNCHANGED <<status, byStatus, policy, now>>

(* The entry point restores any backup that validates, also an archived one, *)
(* and does not archive it: that is restore_from_backup, which it does not   *)
(* call.                                                                     *)
RestoreBackup(b) ==
    /\ Valid(b)
    /\ LET Snap(i) == {backups[b].data[n].status : n \in {m \in 1..backups[b].count :
                                                        backups[b].data[m].id = i}}
       IN  status' = [i \in Invoices |-> IF Snap(i) = {} THEN status[i] ELSE CHOOSE s \in Snap(i) : TRUE]
    /\ byStatus' = Stored(backups[b].data, Cleared)
    /\ UNCHANGED <<backups, listed, policy, made, now>>

ArchiveBackup(b) ==
    /\ backups[b] # <<>>
    /\ backups' = [backups EXCEPT ![b].state = "Archived"]
    /\ listed' = Without(listed, {b})
    /\ UNCHANGED <<status, byStatus, policy, made, now>>

CleanupBackups ==
    /\ Cleanup(backups, listed)
    /\ UNCHANGED <<status, byStatus, policy, made, now>>

SetRetentionPolicy(p) ==
    /\ policy' = p
    /\ UNCHANGED <<status, byStatus, backups, listed, made, now>>

Tick ==
    /\ now < MaxTime
    /\ now' = now + 1
    /\ UNCHANGED <<status, byStatus, backups, listed, policy, made>>

Next ==
    \/ \E i \in Invoices : StoreInvoice(i) \/ \E s \in Range(Statuses) : UpdateInvoice(i, s)
    \/ CreateBackup
    \/ \E b \in 1..made : RestoreBackup(b) \/ ArchiveBackup(b)
    \/ CleanupBackups
    \/ \E p \in Policies : SetRetentionPolicy(p)
    \/ Tick

Spec == Init /\ [][Next]_vars

----------------------------------------------------------------------------
TypeOK ==
    /\ status \in [Invoices -> Range(Statuses) \cup {"None"}]
    /\ \A s \in Range(Statuses) : byStatus[s] \in Seq(Invoices) /\ IsInjective(byStatus[s])
    /\ listed \in Seq(1..made) /\ IsInjective(listed)
    /\ \A b \in DOMAIN backups : backups[b] # <<>> =>
          b <= made /\ backups[b].at <= now /\ backups[b].state \in {"Active", "Archived"}

(* Whatever was stored, moved and restored in whichever order, every invoice *)
(* is in the list of the status it has: no scan by status misses it.         *)
EveryInvoiceListed ==
    \A i \in Invoices : status[i] # "None" => Contains(byStatus[status[i]], i)

(* What the list of backups names can be restored, and an active backup is   *)
(* in the list: cleaning up by age and by number leaves no half of one.      *)
ListedAreComplete ==
    \A b \in DOMAIN backups :
        /\ Contains(listed, b) <=> (backups[b] # <<>> /\ backups[b].state = "Active")
        /\ Contains(listed, b) => Valid(b)

(* An archived backup is never cleaned up, and no active backup goes while   *)
(* an older one of the list stays.                                           *)
OldestGoFirst ==
    [][\A b \in DOMAIN backups : backups[b] # <<>> /\ backups'[b] = <<>> =>
          /\ backups[b].state = "Active"
          /\ \A c \in Active(backups', listed') : backups'[c].at >= backups[b].at]_vars
=============================================================================
