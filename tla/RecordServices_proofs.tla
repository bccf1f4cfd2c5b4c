------------------------ MODULE RecordServices_proofs -----------------------
(***************************************************************************)
(* The services that keep records and answer questions about them: on      *)
(* chain the audit log, the backups and the invoices with their indexes,   *)
(* off chain the webhook secrets, the read cache, the backfills and the    *)
(* ingestion of events; for any contents and settings, and any number of   *)
(* calls, fetches, runs and crashes.                                       *)
(***************************************************************************)
EXTENDS RecordServices, Collections_proofs, SequenceTheorems

----------------------------------------------------------------------------
(* The audit log. *)

AuditEntry == [invoice : AuditedInvoices, operation : Operations, actor : Loggers, at : Nat,
               payload : Payloads]

(* Every index enumerates the ids of the entries that have its key. *)
AuditInv ==
    /\ entry \in Seq(AuditEntry) /\ now \in Nat /\ DOMAIN trail = Aud!Keys
    /\ \A k \in Aud!Keys :
          Enumerates(trail[k], {id \in DOMAIN entry : k \in Aud!KeysOf(entry[id])})

LEMMA AuditInit == Aud!Init => AuditInv
<1> SUFFICES ASSUME Aud!Init PROVE AuditInv
  OBVIOUS
<1>1. \A k : {id \in DOMAIN entry : k \in Aud!KeysOf(entry[id])} = {}
  BY DEF Aud!Init
<1> QED BY <1>1, EnumeratesNone DEF Aud!Init, AuditInv

LEMMA AuditLogged ==
    ASSUME AuditInv, NEW i \in AuditedInvoices, NEW o \in Operations, NEW a \in Loggers,
           NEW payload \in Payloads, Aud!LogOperation(i, o, a, payload)
    PROVE  AuditInv'
<1> DEFINE e == [invoice |-> i, operation |-> o, actor |-> a, at |-> now, payload |-> payload]
           next == Len(entry) + 1
           keyed(k) == {id \in DOMAIN entry : k \in Aud!KeysOf(entry[id])}
<1>1. /\ entry' = Append(entry, e) /\ now' = now
      /\ trail' = [k \in Aud!Keys |-> IF k \in Aud!KeysOf(e) THEN Append(trail[k], next)
                                                             ELSE trail[k]]
  BY DEF Aud!LogOperation
<1>2. e \in AuditEntry
  BY DEF AuditInv, AuditEntry
<1> HIDE DEF e
<1>3. /\ entry' \in Seq(AuditEntry) /\ DOMAIN entry' = DOMAIN entry \cup {next}
      /\ next \in Nat /\ next \notin DOMAIN entry
      /\ \A id \in DOMAIN entry : id < next /\ entry'[id] = entry[id]
      /\ entry'[next] = e
  BY <1>1, <1>2 DEF AuditInv
<1> HIDE DEF next
<1>4. ASSUME NEW k \in Aud!Keys
      PROVE  Enumerates(trail'[k], {id \in DOMAIN entry' : k \in Aud!KeysOf(entry'[id])})
  <2>1. Enumerates(trail[k], keyed(k)) /\ \A id \in keyed(k) : id < next
    BY <1>3 DEF AuditInv
  <2>2. \A id \in DOMAIN entry : k \in Aud!KeysOf(entry'[id]) <=> k \in Aud!KeysOf(entry[id])
    BY <1>3
  <2>3. CASE k \in Aud!KeysOf(e)
    <3>1. trail'[k] = Append(trail[k], next)
      BY <1>1, <2>3
    <3>2. {id \in DOMAIN entry' : k \in Aud!KeysOf(entry'[id])} = keyed(k) \cup {next}
      BY <1>3, <2>2, <2>3
    <3> HIDE DEF keyed
    <3> QED BY <1>3, <2>1, <3>1, <3>2, EnumeratesAppend
  <2>4. CASE k \notin Aud!KeysOf(e)
    <3>1. trail'[k] = trail[k]
      BY <1>1, <2>4
    <3>2. {id \in DOMAIN entry' : k \in Aud!KeysOf(entry'[id])} = keyed(k)
      BY <1>3, <2>2, <2>4
    <3> QED BY <2>1, <3>1, <3>2
  <2> QED BY <2>3, <2>4
<1>5. Aud!Keys' = Aud!Keys
  BY DEF Aud!Keys
<1>6. \A k, id : (k \in Aud!KeysOf(entry[id]))' <=> k \in Aud!KeysOf(entry'[id])
  BY DEF Aud!KeysOf
<1>7. DOMAIN trail' = Aud!Keys
  BY <1>1
<1>8. now' \in Nat
  BY <1>1 DEF AuditInv
<1> QED BY <1>3, <1>4, <1>5, <1>6, <1>7, <1>8 DEF AuditInv

LEMMA AuditStep == ASSUME AuditInv, [Aud!Next]_(Aud!vars) PROVE AuditInv'
<1>1. ASSUME UNCHANGED <<entry, trail>>, now' \in Nat PROVE AuditInv'
  BY <1>1 DEF AuditInv
<1>2. CASE Aud!Tick
  BY <1>1, <1>2 DEF Aud!Tick, AuditInv
<1>3. CASE UNCHANGED Aud!vars
  BY <1>1, <1>3 DEF Aud!vars, AuditInv
<1> QED BY <1>2, <1>3, AuditLogged DEF Aud!Next

LEMMA AuditSublist ==
    ASSUME NEW list, NEW kept
    PROVE  Aud!Sublist(list, kept) = Sublist(list, kept)
BY DEF Aud!Sublist, Sublist, Aud!Cardinality, Cardinality, Aud!IsFiniteSet, IsFiniteSet

(* The matching entries of any enumeration that lacks none of them. *)
LEMMA MatchingIs ==
    ASSUME AuditInv, NEW f, NEW ids, NEW S \in SUBSET DOMAIN entry, Enumerates(ids, S),
           \A id \in DOMAIN entry : Aud!MatchesFilter(entry[id], f) => id \in S
    PROVE  Enumerates(Aud!Matching(ids, f),
                      {id \in DOMAIN entry : Aud!MatchesFilter(entry[id], f)})
<1> DEFINE kept == {n \in DOMAIN ids : Aud!MatchesFilter(entry[ids[n]], f)}
<1>1. Aud!Matching(ids, f) = Sublist(ids, kept)
  BY AuditSublist DEF Aud!Matching
<1>2. kept \in SUBSET DOMAIN ids
  OBVIOUS
<1>3. {ids[n] : n \in kept} = {id \in DOMAIN entry : Aud!MatchesFilter(entry[id], f)}
  BY DEF Enumerates
<1> HIDE DEF kept
<1> QED BY <1>1, <1>2, <1>3, EnumeratesSublist

(* The index a query takes has every entry that matches. *)
LEMMA SourceIsEnough ==
    ASSUME AuditInv, NEW f \in Aud!Filters
    PROVE  \E S \in SUBSET DOMAIN entry :
              /\ Enumerates(Aud!Source(f), S)
              /\ \A id \in DOMAIN entry : Aud!MatchesFilter(entry[id], f) => id \in S
<1> DEFINE key == IF f.invoice # Nobody THEN <<"inv_aud", f.invoice>>
                  ELSE IF f.operation # Nobody THEN <<"op_aud", f.operation>>
                  ELSE IF f.actor # Nobody THEN <<"act_aud", f.actor>>
                  ELSE <<"all_aud">>
           S == {id \in DOMAIN entry : key \in Aud!KeysOf(entry[id])}
<1>1. /\ f.invoice \in AuditedInvoices \cup {Nobody} /\ f.operation \in Operations \cup {Nobody}
      /\ f.actor \in Loggers \cup {Nobody}
  BY DEF Aud!Filters
<1>2. key \in Aud!Keys
  BY <1>1 DEF Aud!Keys
<1>3. Aud!Source(f) = trail[key]
  BY DEF Aud!Source
<1>4. ASSUME NEW id \in DOMAIN entry, Aud!MatchesFilter(entry[id], f)
      PROVE  key \in Aud!KeysOf(entry[id])
  BY <1>4 DEF Aud!MatchesFilter, Aud!KeysOf
<1> HIDE DEF key
<1>5. Enumerates(Aud!Source(f), S)
  BY <1>2, <1>3 DEF AuditInv
<1> QED BY <1>4, <1>5

LEMMA QueriesFindAll == ASSUME AuditInv PROVE Aud!QueriesComplete
<1>1. Aud!Id = DOMAIN entry
  BY DEF Aud!Id
<1>2. Enumerates([n \in DOMAIN entry |-> n], DOMAIN entry)
  BY EnumeratesDomain DEF AuditInv
<1>3. ASSUME NEW f \in Aud!Filters
      PROVE  Aud!Matching(Aud!Source(f), f) = Aud!Matching([n \in DOMAIN entry |-> n], f)
  <2>1. PICK S \in SUBSET DOMAIN entry :
              /\ Enumerates(Aud!Source(f), S)
              /\ \A id \in DOMAIN entry : Aud!MatchesFilter(entry[id], f) => id \in S
    BY SourceIsEnough
  <2>2. Enumerates(Aud!Matching(Aud!Source(f), f),
                   {id \in DOMAIN entry : Aud!MatchesFilter(entry[id], f)})
    BY <2>1, MatchingIs
  <2>3. Enumerates(Aud!Matching([n \in DOMAIN entry |-> n], f),
                   {id \in DOMAIN entry : Aud!MatchesFilter(entry[id], f)})
    BY <1>2, MatchingIs
  <2> QED BY <2>2, <2>3, EnumeratesUniquely
<1>4. \A f \in Aud!Filters, limit \in 0..(MaxFound + 1) :
         Aud!QueryAuditLogs(f, limit) =
             Aud!FirstOf(Aud!Matching([n \in Aud!Id |-> n], f), Aud!Capped(limit))
  BY <1>1, <1>3 DEF Aud!QueryAuditLogs
<1>5. Len(trail[<<"all_aud">>]) = Len(entry)
  <2>1. <<"all_aud">> \in Aud!Keys
    BY DEF Aud!Keys
  <2>2. {id \in DOMAIN entry : <<"all_aud">> \in Aud!KeysOf(entry[id])} = DOMAIN entry
    BY DEF Aud!KeysOf
  <2>3. Enumerates(trail[<<"all_aud">>], DOMAIN entry)
    BY <2>1, <2>2 DEF AuditInv
  <2>4. trail[<<"all_aud">>] = [n \in DOMAIN entry |-> n]
    BY <1>2, <2>3, EnumeratesUniquely
  <2>5. Len([n \in DOMAIN entry |-> n]) = Len(entry)
    BY DEF AuditInv
  <2> QED BY <2>4, <2>5
<1>6. Aud!AuditStats.total = Len(entry)
  BY <1>5 DEF Aud!AuditStats
<1> QED BY <1>4, <1>6 DEF Aud!QueriesComplete

LEMMA AuditInvariant == Aud!Spec => []AuditInv
<1>1. Aud!Init => AuditInv
  BY AuditInit
<1>2. AuditInv /\ [Aud!Next]_(Aud!vars) => AuditInv'
  BY AuditStep
<1> QED BY <1>1, <1>2, PTL DEF Aud!Spec

(* For any number of entries, any filter and a limit up to over the cap:     *)
(* whichever index a query starts from, it finds the oldest matching entries *)
(* and misses none (AuditStorage::query_audit_logs).                         *)
THEOREM QueriesHold == Aud!Spec => []QueriesComplete
<1>1. AuditInv => QueriesComplete
  BY QueriesFindAll DEF QueriesComplete
<1> QED BY AuditInvariant, <1>1, PTL DEF Aud!Spec

----------------------------------------------------------------------------
(* Backups. *)

BackedUp == 1..MaxInvoices

Stage0 == Bk!Range(StoredStages)

Snapshot == [id : BackedUp, status : Stage0]

Backup == [at : Nat, state : {"Active", "Archived"}, count : Nat, data : Seq(Snapshot)]

(* A list names invoices that are stored, and each invoice is in the list of *)
(* its status. *)
ListsInv(statuses, lists) ==
    /\ statuses \in [BackedUp -> Stage0 \cup {"None"}]
    /\ lists \in [Stage0 -> Seq(BackedUp)]
    /\ \A s \in Stage0, i \in BackedUp : Contains(lists[s], i) => statuses[i] # "None"
    /\ \A i \in BackedUp : statuses[i] # "None" => Contains(lists[statuses[i]], i)

IsBackup(r) == r = <<>> \/ (r \in Backup /\ r.count = Len(r.data))

IsActive(r) == r # <<>> /\ r.state = "Active"

(* The list has the active backups. *)
BackupsInv(bs, list) ==
    /\ list \in Seq(1..MaxBackups)
    /\ DOMAIN bs = 1..MaxBackups
    /\ \A b \in 1..MaxBackups : IsBackup(bs[b]) /\ (Contains(list, b) <=> IsActive(bs[b]))

BkInv ==
    /\ ListsInv(backedStatus, backedLists)
    /\ BackupsInv(backups, listed)
    /\ made \in 0..MaxBackups /\ now \in Nat
    /\ policy \in [max : Nat, age : Nat, auto : BOOLEAN]
    /\ \A b \in 1..MaxBackups : b > made => backups[b] = <<>>

(* The instance's operators on lists are the ones the lemmas are about. *)
LEMMA BkOperators ==
    /\ \A list, i : Bk!Contains(list, i) <=> Contains(list, i)
    /\ \A list, kept : Bk!Sublist(list, kept) = Sublist(list, kept)
    /\ \A list, gone : Bk!Without(list, gone) = Without(list, gone)
    /\ \A list : Bk!Deduped(list) = Deduped(list)
    /\ \A lists : Bk!Joined(lists) = Joined(lists)
<1>1. \A S : Bk!Cardinality(S) = Cardinality(S)
  BY Zenon DEF Bk!Cardinality, Cardinality
<1>2. \A list, i : Bk!Contains(list, i) <=> Contains(list, i)
  BY DEF Bk!Contains, Contains
<1>3. \A list, kept : Bk!Sublist(list, kept) = Sublist(list, kept)
  BY Zenon DEF Bk!Sublist, Sublist, Bk!Cardinality, Cardinality
<1>4. \A list, gone : Bk!Without(list, gone) = Without(list, gone)
  BY <1>3, Zenon DEF Bk!Without, Without
<1>5. \A list : Bk!Deduped(list) = Deduped(list)
  BY <1>3, Zenon DEF Bk!Deduped, Deduped
<1>6. \A lists : Bk!Joined(lists) = Joined(lists)
  BY Zenon DEF Bk!Joined, Joined, Bk!Cardinality, Cardinality
<1> QED BY <1>2, <1>3, <1>4, <1>5, <1>6

LEMMA ListRange ==
    ASSUME NEW S, NEW list \in Seq(S)
    PROVE  Bk!Range(list) \in SUBSET S /\ \A i : i \in Bk!Range(list) <=> Contains(list, i)
<1>1. DOMAIN list = 1..Len(list) /\ \A n \in 1..Len(list) : list[n] \in S
  OBVIOUS
<1> QED BY <1>1 DEF Bk!Range, Contains

LEMMA StagesAre ==
    /\ StoredStages \in Seq(Stage0) /\ DOMAIN StoredStages = 1..Len(StoredStages) /\ Len(StoredStages) \in Nat
    /\ Bk!NewStatus \in Stage0 /\ "None" \notin Stage0
<1>1. DOMAIN StoredStages = 1..Len(StoredStages) /\ Len(StoredStages) \in Nat \ {0}
  BY BackupOK
<1>2. Stage0 = {StoredStages[n] : n \in 1..Len(StoredStages)}
  BY <1>1 DEF Stage0, Bk!Range
<1>3. StoredStages \in Seq(Stage0)
  BY <1>1, <1>2, BackupOK
<1>4. Bk!NewStatus = StoredStages[1]
  BY <1>3 DEF Bk!NewStatus
<1>5. StoredStages[1] \in Stage0
  BY <1>1, <1>2
<1> QED BY <1>1, <1>2, <1>3, <1>4, <1>5, BackupOK

(* A backup is not the empty record. *)
LEMMA BackupIs == \A r \in Backup : r # <<>>
<1>1. \A r \in Backup : "at" \in DOMAIN r
  BY DEF Backup
<1>2. "at" \notin DOMAIN <<>>
  OBVIOUS
<1> QED BY <1>1, <1>2

----------------------------------------------------------------------------
(* The invoice storage. *)

(* Among the invoices is one of this number and status. *)
Names(invs, i, s) == \E n \in DOMAIN invs : invs[n].id = i /\ invs[n].status = s

(* Storing adds the invoices to the lists of their statuses and takes none   *)
(* away.                                                                     *)
LEMMA StoredLists ==
    ASSUME NEW lists \in [Stage0 -> Seq(BackedUp)], NEW invs \in Seq(Snapshot)
    PROVE  /\ Bk!Stored(invs, lists) \in [Stage0 -> Seq(BackedUp)]
           /\ \A s \in Stage0, i \in BackedUp :
                 Contains(Bk!Stored(invs, lists)[s], i) <=>
                     Contains(lists[s], i) \/ Names(invs, i, s)
<1> DEFINE ids == [n \in DOMAIN invs |-> invs[n].id]
           at(s) == {n \in DOMAIN invs : invs[n].status = s}
           of(s) == Sublist(ids, at(s))
           more(s) == Deduped(Without(of(s), Bk!Range(lists[s])))
<1>1. /\ ids \in Seq(BackedUp) /\ DOMAIN ids = DOMAIN invs
      /\ \A n \in DOMAIN invs : ids[n] = invs[n].id
  <2>1. DOMAIN invs = 1..Len(invs) /\ Len(invs) \in Nat
    OBVIOUS
  <2>2. ASSUME NEW n \in 1..Len(invs) PROVE invs[n].id \in BackedUp
    <3>1. invs[n] \in Snapshot
      BY <2>1
    <3> QED BY <3>1 DEF Snapshot
  <2>3. ids = [n \in 1..Len(invs) |-> invs[n].id]
    BY <2>1
  <2>4. ids \in [1..Len(invs) -> BackedUp]
    BY <2>2, <2>3
  <2>5. ids \in Seq(BackedUp)
    BY <2>1, <2>4
  <2> QED BY <2>5
<1>2. Bk!Stored(invs, lists) = [s \in Stage0 |-> lists[s] \o more(s)]
  BY BkOperators DEF Bk!Stored
<1>3. ASSUME NEW s \in Stage0
      PROVE  /\ lists[s] \o more(s) \in Seq(BackedUp)
             /\ \A i : Contains(lists[s] \o more(s), i) <=>
                   Contains(lists[s], i) \/ Names(invs, i, s)
  <2> DEFINE gone == Bk!Range(lists[s])
             rest == Without(of(s), gone)
  <2>1. at(s) \in SUBSET DOMAIN ids
    BY <1>1
  <2>2. \A i : (\E n \in at(s) : ids[n] = i) <=> Names(invs, i, s)
    BY <1>1 DEF Names
  <2> HIDE DEF ids, at
  <2>3. /\ of(s) \in Seq(BackedUp)
        /\ \A i : Contains(of(s), i) <=> \E n \in at(s) : ids[n] = i
    BY <1>1, <2>1, SublistOrder
  <2>4. lists[s] \in Seq(BackedUp)
    OBVIOUS
  <2>5. \A i : i \in gone <=> Contains(lists[s], i)
    BY DEF Contains, Bk!Range
  <2> HIDE DEF of, gone
  <2>6. /\ rest \in Seq(BackedUp)
        /\ \A i : Contains(rest, i) <=> Contains(of(s), i) /\ i \notin gone
    BY <2>3, WithoutKeeps
  <2> HIDE DEF rest
  <2>7. Deduped(rest) \in Seq(BackedUp) /\ \A i : Contains(Deduped(rest), i) <=> Contains(rest, i)
    BY <2>6, DedupedIsDistinct, DedupedContains
  <2>8. more(s) = Deduped(rest)
    BY DEF rest, gone, of
  <2> HIDE DEF more
  <2>9. /\ lists[s] \o more(s) \in Seq(BackedUp)
        /\ \A i : Contains(lists[s] \o more(s), i) <=> Contains(lists[s], i) \/ Contains(more(s), i)
    BY <2>4, <2>7, <2>8, ConcatContains
  <2> QED BY <2>2, <2>3, <2>5, <2>6, <2>7, <2>8, <2>9
<1> HIDE DEF more
<1> QED BY <1>2, <1>3

LEMMA StoreBacked ==
    ASSUME BkInv, NEW i \in BackedUp, Bk!StoreInvoice(i)
    PROVE  ListsInv(backedStatus', backedLists')
<1> DEFINE inv == [id |-> i, status |-> Bk!NewStatus]
           new == Bk!Stored(<<inv>>, backedLists)
<1>1. /\ backedStatus' = [backedStatus EXCEPT ![i] = Bk!NewStatus]
      /\ backedLists' = new
  BY DEF Bk!StoreInvoice
<1>2. inv \in Snapshot /\ <<inv>> \in Seq(Snapshot) /\ DOMAIN <<inv>> = {1} /\ <<inv>>[1] = inv
  BY StagesAre DEF Snapshot
<1>3. /\ backedLists \in [Stage0 -> Seq(BackedUp)]
      /\ backedStatus \in [BackedUp -> Stage0 \cup {"None"}]
  BY DEF BkInv, ListsInv
<1>4. /\ new \in [Stage0 -> Seq(BackedUp)]
      /\ \A s \in Stage0, j \in BackedUp :
            Contains(new[s], j) <=> Contains(backedLists[s], j) \/ (i = j /\ Bk!NewStatus = s)
  <2> DEFINE one == <<inv>>
  <2>1. \A s, j : Names(one, j, s) <=> i = j /\ Bk!NewStatus = s
    BY <1>2 DEF Names
  <2>2. one \in Seq(Snapshot)
    BY <1>2
  <2> HIDE DEF inv, one
  <2>3. Bk!Stored(one, backedLists) = new
    BY DEF one
  <2>4. /\ Bk!Stored(one, backedLists) \in [Stage0 -> Seq(BackedUp)]
        /\ \A s \in Stage0, j \in BackedUp :
              Contains(Bk!Stored(one, backedLists)[s], j) <=>
                  Contains(backedLists[s], j) \/ Names(one, j, s)
    BY <1>3, <2>2, StoredLists
  <2> HIDE DEF new
  <2> QED BY <2>1, <2>3, <2>4
<1> HIDE DEF new, inv
<1>5. \A j \in BackedUp : backedStatus'[j] = IF j = i THEN Bk!NewStatus ELSE backedStatus[j]
  BY <1>1, <1>3
<1>6. backedStatus' \in [BackedUp -> Stage0 \cup {"None"}]
  BY <1>1, <1>3, StagesAre
<1>7. Bk!NewStatus # "None" /\ Bk!NewStatus \in Stage0
  BY StagesAre
<1>8. \A s \in Stage0, j \in BackedUp : Contains(new[s], j) => backedStatus'[j] # "None"
  BY <1>4, <1>5, <1>7 DEF BkInv, ListsInv
<1>9. ASSUME NEW j \in BackedUp, backedStatus'[j] # "None" PROVE Contains(new[backedStatus'[j]], j)
  <2>1. CASE j = i
    BY <1>4, <1>5, <1>7, <2>1
  <2>2. CASE j # i
    <3>1. backedStatus'[j] = backedStatus[j] /\ backedStatus[j] \in Stage0
      BY <1>3, <1>5, <1>9, <2>2
    <3>2. Contains(backedLists[backedStatus[j]], j)
      BY <1>9, <3>1 DEF BkInv, ListsInv
    <3> QED BY <1>4, <3>1, <3>2
  <2> QED BY <2>1, <2>2
<1> QED BY <1>1, <1>4, <1>6, <1>8, <1>9 DEF ListsInv

LEMMA UpdateBacked ==
    ASSUME BkInv, NEW i \in BackedUp, NEW s \in Stage0, Bk!UpdateInvoice(i, s)
    PROVE  ListsInv(backedStatus', backedLists')
<1> DEFINE old == backedStatus[i]
           left == Without(backedLists[old], {i})
           joined == IF Contains(backedLists[s], i) THEN backedLists[s]
                     ELSE Append(backedLists[s], i)
<1>1. /\ old \notin {"None", s}
      /\ backedStatus' = [backedStatus EXCEPT ![i] = s]
      /\ backedLists' = [backedLists EXCEPT ![old] = left, ![s] = joined]
  <2>1. \A l, j : Bk!Added(l, j) = IF Contains(l, j) THEN l ELSE Append(l, j)
    BY BkOperators, Zenon DEF Bk!Added
  <2> QED BY <2>1, BkOperators DEF Bk!UpdateInvoice
<1>2. /\ backedLists \in [Stage0 -> Seq(BackedUp)]
      /\ backedStatus \in [BackedUp -> Stage0 \cup {"None"}]
      /\ old \in Stage0 /\ old # s
  BY <1>1 DEF BkInv, ListsInv
<1>3. /\ left \in Seq(BackedUp)
      /\ \A j : Contains(left, j) <=> Contains(backedLists[old], j) /\ j # i
  <2>1. backedLists[old] \in Seq(BackedUp)
    BY <1>2
  <2> HIDE DEF old
  <2> QED BY <2>1, WithoutKeeps
<1>4. /\ joined \in Seq(BackedUp)
      /\ \A j : Contains(joined, j) <=> Contains(backedLists[s], j) \/ j = i
  <2>1. backedLists[s] \in Seq(BackedUp)
    BY <1>2
  <2>2. /\ Append(backedLists[s], i) \in Seq(BackedUp)
        /\ \A j : Contains(Append(backedLists[s], i), j) <=> Contains(backedLists[s], j) \/ j = i
    BY <2>1, AppendKeeps
  <2> QED BY <2>1, <2>2
<1> HIDE DEF left, joined
<1>5. /\ backedLists' \in [Stage0 -> Seq(BackedUp)]
      /\ backedLists'[old] = left /\ backedLists'[s] = joined
      /\ \A t \in Stage0 : t # old /\ t # s => backedLists'[t] = backedLists[t]
  BY <1>1, <1>2, <1>3, <1>4
<1> HIDE DEF old
<1>6. /\ backedStatus' \in [BackedUp -> Stage0 \cup {"None"}]
      /\ backedStatus'[i] = s /\ \A j \in BackedUp : j # i => backedStatus'[j] = backedStatus[j]
  BY <1>1, <1>2
<1>7. "None" \notin Stage0
  BY StagesAre
<1>8. ASSUME NEW t \in Stage0, NEW j \in BackedUp, Contains(backedLists'[t], j)
      PROVE  backedStatus'[j] # "None"
  <2>1. CASE j = i
    BY <1>6, <1>7, <2>1
  <2>2. CASE j # i
    <3>1. Contains(backedLists[t], j)
      BY <1>3, <1>4, <1>5, <1>8, <2>2
    <3> QED BY <1>6, <2>2, <3>1 DEF BkInv, ListsInv
  <2> QED BY <2>1, <2>2
<1>9. ASSUME NEW j \in BackedUp, backedStatus'[j] # "None"
      PROVE  Contains(backedLists'[backedStatus'[j]], j)
  <2>1. CASE j = i
    BY <1>4, <1>5, <1>6, <2>1
  <2>2. CASE j # i
    <3>1. backedStatus'[j] = backedStatus[j] /\ backedStatus[j] \in Stage0
      BY <1>2, <1>6, <1>9, <2>2
    <3>2. Contains(backedLists[backedStatus[j]], j)
      BY <1>9, <3>1 DEF BkInv, ListsInv
    <3> QED BY <1>3, <1>4, <1>5, <2>2, <3>1, <3>2
  <2> QED BY <2>1, <2>2
<1> QED BY <1>5, <1>6, <1>8, <1>9 DEF ListsInv

LEMMA RestoreBacked ==
    ASSUME BkInv, NEW b \in 1..MaxBackups, Bk!RestoreBackup(b)
    PROVE  ListsInv(backedStatus', backedLists')
<1> DEFINE data == backups[b].data
           Snap(i) == {data[n].status : n \in {m \in DOMAIN data : data[m].id = i}}
           new == Bk!Stored(data, backedLists)
<1>1. backups[b] \in Backup /\ backups[b].count = Len(data)
  BY DEF Bk!RestoreBackup, Bk!Valid, BkInv, BackupsInv, IsBackup
<1>2. /\ data \in Seq(Snapshot) /\ DOMAIN data = 1..backups[b].count
      /\ \A n \in DOMAIN data : data[n] \in Snapshot
  BY <1>1 DEF Backup
<1>3. /\ backedLists' = new
      /\ backedStatus' = [i \in BackedUp |-> IF Snap(i) = {} THEN backedStatus[i]
                                             ELSE CHOOSE s \in Snap(i) : TRUE]
  BY <1>2 DEF Bk!RestoreBackup, Bk!Cleared, Bk!Invoices, BackedUp
<1>4. /\ backedLists \in [Stage0 -> Seq(BackedUp)]
      /\ backedStatus \in [BackedUp -> Stage0 \cup {"None"}]
  BY DEF BkInv, ListsInv
<1> HIDE DEF data
<1>5. /\ new \in [Stage0 -> Seq(BackedUp)]
      /\ \A s \in Stage0, i \in BackedUp :
            Contains(new[s], i) <=>
                Contains(backedLists[s], i) \/ Names(data, i, s)
  BY <1>2, <1>4, StoredLists
<1>6. \A i : Snap(i) \in SUBSET Stage0
  <2>1. \A n \in DOMAIN data : data[n] \in Snapshot
    BY <1>2
  <2>2. \A n \in DOMAIN data : data[n].status \in Stage0
    BY <2>1 DEF Snapshot
  <2> QED BY <2>2
<1>7. \A i, s : s \in Snap(i) <=> Names(data, i, s)
  BY DEF Names
<1> HIDE DEF Snap, new
<1>8. \A i \in BackedUp :
         \/ Snap(i) = {} /\ backedStatus'[i] = backedStatus[i]
         \/ Snap(i) # {} /\ backedStatus'[i] \in Snap(i)
  BY <1>3
<1>9. backedStatus' \in [BackedUp -> Stage0 \cup {"None"}]
  <2>1. \A i \in BackedUp : backedStatus'[i] \in Stage0 \cup {"None"}
    BY <1>4, <1>6, <1>8
  <2>2. backedStatus' = [i \in BackedUp |-> backedStatus'[i]]
    BY <1>3
  <2> QED BY <2>1, <2>2
<1>10. "None" \notin Stage0
  BY StagesAre
<1>11. ASSUME NEW s \in Stage0, NEW i \in BackedUp, Contains(new[s], i)
       PROVE  backedStatus'[i] # "None"
  <2>1. CASE Snap(i) = {}
    <3>1. Contains(backedLists[s], i)
      BY <1>5, <1>7, <1>11, <2>1
    <3> QED BY <1>8, <2>1, <3>1 DEF BkInv, ListsInv
  <2>2. CASE Snap(i) # {}
    BY <1>6, <1>8, <1>10, <2>2
  <2> QED BY <2>1, <2>2
<1>12. ASSUME NEW i \in BackedUp, backedStatus'[i] # "None"
       PROVE  Contains(new[backedStatus'[i]], i)
  <2>1. CASE Snap(i) = {}
    <3>1. backedStatus'[i] = backedStatus[i] /\ backedStatus[i] \in Stage0
      BY <1>4, <1>8, <1>12, <2>1
    <3>2. Contains(backedLists[backedStatus[i]], i)
      BY <1>12, <3>1 DEF BkInv, ListsInv
    <3> QED BY <1>5, <3>1, <3>2
  <2>2. CASE Snap(i) # {}
    <3>1. backedStatus'[i] \in Snap(i) /\ backedStatus'[i] \in Stage0
      BY <1>6, <1>8, <2>2
    <3> QED BY <1>5, <1>7, <3>1
  <2> QED BY <2>1, <2>2
<1> QED BY <1>3, <1>5, <1>9, <1>11, <1>12 DEF ListsInv

----------------------------------------------------------------------------
(* The list of backups. *)

(* Only an active backup stays behind an active one that is cleaned up, and  *)
(* it is no older: had it been, every younger one than the one to go would   *)
(* be younger than it.                                                       *)
LEMMA YoungestStay ==
    ASSUME NEW bs, NEW list, BackupsInv(bs, list), now \in Nat,
           policy \in [max : Nat, age : Nat, auto : BOOLEAN],
           NEW b \in Bk!Active(bs, list) \ Bk!Kept(bs, list), NEW c \in Bk!Kept(bs, list)
    PROVE  bs[c].at >= bs[b].at
<1> DEFINE active == Bk!Active(bs, list)
           fresh == {d \in active : policy.age > 0 => now - bs[d].at <= policy.age}
           younger(d) == {e \in fresh : bs[e].at > bs[d].at \/ (bs[e].at = bs[d].at /\ e > d)}
<1>1. Bk!Kept(bs, list) = IF policy.max = 0 THEN fresh
                          ELSE {d \in fresh : Cardinality(younger(d)) < policy.max}
  <2>1. \A S : Bk!Cardinality(S) = Cardinality(S)
    BY Zenon DEF Bk!Cardinality, Cardinality
  <2> HIDE DEF active
  <2> QED BY <2>1, Zenon DEF Bk!Kept, active
<1>2. active \in SUBSET (1..MaxBackups) /\ b \in active
  <2>1. Bk!Range(list) \in SUBSET (1..MaxBackups)
    BY ListRange DEF BackupsInv
  <2> QED BY <2>1 DEF Bk!Active
<1>3. ASSUME NEW d \in active PROVE bs[d].at \in Nat
  <2>1. bs[d] # <<>> /\ d \in 1..MaxBackups
    BY <1>2 DEF Bk!Active
  <2>2. bs[d] \in Backup
    BY <2>1 DEF BackupsInv, IsBackup
  <2> QED BY <2>2 DEF Backup
<1>4. policy.max \in Nat /\ policy.age \in Nat
  OBVIOUS
<1> HIDE DEF active
<1>5. c \in fresh /\ fresh \in SUBSET active
  BY <1>1
<1>6. CASE b \notin fresh
  <2>1. policy.age > 0 /\ ~(now - bs[b].at <= policy.age) /\ now - bs[c].at <= policy.age
    BY <1>2, <1>5, <1>6
  <2>2. bs[b].at \in Nat /\ bs[c].at \in Nat
    BY <1>2, <1>3, <1>5
  <2> QED BY <1>4, <2>1, <2>2
<1>7. CASE b \in fresh
  <2>1. policy.max # 0 /\ ~(Cardinality(younger(b)) < policy.max)
        /\ Cardinality(younger(c)) < policy.max
    BY <1>1, <1>7
  <2>2. IsFiniteSet(1..MaxBackups)
    BY FS_Interval, BackupOK
  <2>3. younger(c) \in SUBSET (1..MaxBackups) /\ younger(b) \in SUBSET (1..MaxBackups)
    BY <1>2, <1>5
  <2>4. SUFFICES ASSUME bs[c].at < bs[b].at PROVE FALSE
    BY <1>2, <1>3, <1>5
  <2>5. younger(b) \subseteq younger(c)
    <3>1. bs[b].at \in Nat /\ bs[c].at \in Nat
      BY <1>2, <1>3, <1>5
    <3>2. ASSUME NEW d \in younger(b) PROVE bs[d].at > bs[c].at
      <4>1. bs[d].at \in Nat
        BY <1>3, <1>5
      <4>2. bs[d].at > bs[b].at \/ bs[d].at = bs[b].at
        OBVIOUS
      <4> QED BY <2>4, <3>1, <4>1, <4>2
    <3> QED BY <3>2
  <2> HIDE DEF younger
  <2>6. IsFiniteSet(younger(c))
    BY <2>2, <2>3, FS_Subset
  <2>7. /\ Cardinality(younger(b)) \in Nat /\ Cardinality(younger(c)) \in Nat
        /\ Cardinality(younger(b)) <= Cardinality(younger(c))
    BY <2>5, <2>6, FS_Subset, FS_CardinalityType
  <2> QED BY <1>4, <2>1, <2>7
<1> QED BY <1>6, <1>7

(* Clean-up leaves a list of the active backups. *)
LEMMA CleanupKeeps ==
    ASSUME NEW bs, NEW list, BackupsInv(bs, list), now \in Nat,
           policy \in [max : Nat, age : Nat, auto : BOOLEAN], Bk!Cleanup(bs, list)
    PROVE  /\ BackupsInv(backups', listed')
           /\ \A b \in 1..MaxBackups : \/ backups'[b] = bs[b]
                 \/ /\ backups'[b] = <<>> /\ IsActive(bs[b])
                    /\ \A c \in Bk!Active(backups', listed') : backups'[c].at >= bs[b].at
<1> DEFINE active == Bk!Active(bs, list)
           gone == IF policy.auto THEN active \ Bk!Kept(bs, list) ELSE {}
<1>1. /\ backups' = [b \in 1..MaxBackups |-> IF b \in gone THEN <<>> ELSE bs[b]]
      /\ listed' = Without(list, gone)
  BY BkOperators DEF Bk!Cleanup, Bk!Purge, BackupsInv
<1>2. \A b : b \in active <=> Contains(list, b) /\ IsActive(bs[b])
  BY ListRange DEF Bk!Active, IsActive, BackupsInv
<1>3. \A b \in gone : IsActive(bs[b])
  BY <1>2
<1> DEFINE left == Without(list, gone)
<1>4. list \in Seq(1..MaxBackups)
  BY DEF BackupsInv
<1>5. left \in Seq(1..MaxBackups) /\ \A b : Contains(left, b) <=> Contains(list, b) /\ b \notin gone
  <2> HIDE DEF gone
  <2> QED BY <1>4, WithoutKeeps
<1>6. BackupsInv(backups', listed')
  <2> HIDE DEF gone, left
  <2>1. listed' \in Seq(1..MaxBackups) /\ DOMAIN backups' = 1..MaxBackups
    BY <1>1, <1>5 DEF left
  <2>2. ASSUME NEW b \in 1..MaxBackups
        PROVE  IsBackup(backups'[b]) /\ (Contains(listed', b) <=> IsActive(backups'[b]))
    <3>1. CASE b \in gone
      <4>1. backups'[b] = <<>>
        BY <1>1, <3>1
      <4>2. ~Contains(listed', b)
        BY <1>1, <1>5, <3>1 DEF left
      <4> QED BY <4>1, <4>2 DEF IsBackup, IsActive
    <3>2. CASE b \notin gone
      <4>1. backups'[b] = bs[b]
        BY <1>1, <3>2
      <4>2. Contains(listed', b) <=> Contains(list, b)
        BY <1>1, <1>5, <3>2 DEF left
      <4> QED BY <4>1, <4>2 DEF BackupsInv
    <3> QED BY <3>1, <3>2
  <2> QED BY <2>1, <2>2 DEF BackupsInv
<1>7. ASSUME NEW b \in 1..MaxBackups, backups'[b] # bs[b], NEW c \in Bk!Active(backups', listed')
      PROVE  backups'[b] = <<>> /\ IsActive(bs[b]) /\ backups'[c].at >= bs[b].at
  <2>1. b \in gone /\ backups'[b] = <<>>
    BY <1>1, <1>7
  <2>2. policy.auto /\ b \in active \ Bk!Kept(bs, list)
    BY <2>1
  <2>3. Contains(left, c)
    <3>1. left \in Seq(1..MaxBackups) /\ listed' = left
      BY <1>1, <1>5
    <3>2. c \in Bk!Range(left)
      BY <1>7, <3>1 DEF Bk!Active
    <3> HIDE DEF left
    <3> QED BY <3>1, <3>2, ListRange
  <2>4. c \notin gone /\ Contains(list, c) /\ c \in 1..MaxBackups
    <3>1. c \notin gone /\ Contains(list, c)
      BY <1>5, <2>3
    <3>2. c \in 1..MaxBackups
      BY <1>4, <3>1, ListRange
    <3> QED BY <3>1, <3>2
  <2>5. backups'[c] = bs[c] /\ IsActive(bs[c])
    <3>1. backups'[c] = bs[c]
      BY <1>1, <2>4
    <3> QED BY <3>1, <2>4 DEF BackupsInv
  <2>6. c \in Bk!Kept(bs, list)
    BY <1>2, <2>2, <2>4, <2>5
  <2>7. bs[c].at >= bs[b].at
    BY <2>2, <2>6, YoungestStay
  <2> QED BY <1>3, <2>1, <2>5, <2>7
<1>8. \A b \in 1..MaxBackups : backups'[b] # bs[b] => backups'[b] = <<>> /\ IsActive(bs[b])
  BY <1>1, <1>3
<1> QED BY <1>6, <1>7, <1>8

(* What a new backup holds is what is stored. *)
LEMMA NewBackupIs == BkInv => Bk!NewBackup \in Backup /\ Bk!NewBackup.count = Len(Bk!NewBackup.data)
                              /\ IsActive(Bk!NewBackup)
<1> SUFFICES ASSUME BkInv PROVE Bk!NewBackup \in Backup
                 /\ Bk!NewBackup.count = Len(Bk!NewBackup.data) /\ IsActive(Bk!NewBackup)
  OBVIOUS
<1> DEFINE piece(n) == [m \in DOMAIN backedLists[StoredStages[n]] |->
                          [id |-> backedLists[StoredStages[n]][m],
                           status |-> backedStatus[backedLists[StoredStages[n]][m]]]]
           pieces == [n \in DOMAIN StoredStages |-> piece(n)]
           all == Bk!AllInvoices
<1>1. all = Joined(pieces)
  BY BkOperators DEF Bk!AllInvoices
<1>2. ASSUME NEW n \in DOMAIN StoredStages PROVE piece(n) \in Seq(Snapshot)
  <2> DEFINE list == backedLists[StoredStages[n]]
  <2>1. StoredStages[n] \in Stage0
    BY StagesAre
  <2>2. /\ list \in Seq(BackedUp)
        /\ \A i \in BackedUp : Contains(list, i) => backedStatus[i] \in Stage0
    BY <2>1 DEF BkInv, ListsInv
  <2>3. piece(n) = [m \in DOMAIN list |-> [id |-> list[m], status |-> backedStatus[list[m]]]]
    OBVIOUS
  <2> HIDE DEF piece, list
  <2>4. DOMAIN list = 1..Len(list) /\ Len(list) \in Nat /\ \A m \in 1..Len(list) : list[m] \in BackedUp
    BY <2>2
  <2>5. \A m \in 1..Len(list) : backedStatus[list[m]] \in Stage0
    BY <2>2, <2>4 DEF Contains
  <2>6. \A m \in 1..Len(list) : [id |-> list[m], status |-> backedStatus[list[m]]] \in Snapshot
    BY <2>4, <2>5 DEF Snapshot
  <2>7. piece(n) \in [1..Len(list) -> Snapshot]
    BY <2>3, <2>4, <2>6
  <2> QED BY <2>4, <2>7
<1> HIDE DEF piece
<1>3. pieces \in Seq(Seq(Snapshot))
  <2>1. pieces \in [1..Len(StoredStages) -> Seq(Snapshot)]
    BY <1>2, StagesAre
  <2> HIDE DEF pieces
  <2> QED BY <2>1, StagesAre
<1> HIDE DEF pieces
<1>4. all \in Seq(Snapshot) /\ Len(all) \in Nat
  BY <1>1, <1>3, JoinedIs
<1>5. Bk!NewBackup = [at |-> now, state |-> "Active", count |-> Len(all), data |-> all]
  BY DEF Bk!NewBackup
<1> HIDE DEF all
<1>6. now \in Nat
  BY DEF BkInv
<1>7. Bk!NewBackup \in Backup
  BY <1>4, <1>5, <1>6 DEF Backup
<1> QED BY <1>5, <1>7, BackupIs DEF IsActive

(* The list and the records that create_backup hands to the clean-up. *)
LEMMA CreateLists ==
    ASSUME BkInv, made < MaxBackups, NEW bs, bs = [backups EXCEPT ![made + 1] = Bk!NewBackup]
    PROVE  /\ BackupsInv(bs, Append(listed, made + 1))
           /\ \A b \in 1..MaxBackups : b # made + 1 => bs[b] = backups[b]
<1> DEFINE id == made + 1
           more == Append(listed, id)
<1>1. id \in 1..MaxBackups /\ made \in Nat
  BY BackupOK DEF BkInv
<1> HIDE DEF id
<1>2. listed \in Seq(1..MaxBackups) /\ DOMAIN backups = 1..MaxBackups
  BY DEF BkInv, BackupsInv
<1>3. bs = [backups EXCEPT ![id] = Bk!NewBackup]
  BY DEF id
<1>4. /\ more \in Seq(1..MaxBackups)
      /\ \A b : Contains(more, b) <=> Contains(listed, b) \/ b = id
  BY <1>1, <1>2, AppendKeeps
<1> HIDE DEF more
<1>5. DOMAIN bs = 1..MaxBackups /\ bs[id] = Bk!NewBackup
      /\ \A b \in 1..MaxBackups : b # id => bs[b] = backups[b]
  BY <1>1, <1>2, <1>3
<1>6. IsBackup(Bk!NewBackup) /\ IsActive(Bk!NewBackup)
  BY NewBackupIs DEF IsBackup
<1>7. ASSUME NEW b \in 1..MaxBackups
      PROVE  IsBackup(bs[b]) /\ (Contains(more, b) <=> IsActive(bs[b]))
  <2>1. CASE b = id
    BY <1>4, <1>5, <1>6, <2>1
  <2>2. CASE b # id
    <3>1. IsBackup(backups[b]) /\ (Contains(listed, b) <=> IsActive(backups[b]))
      BY DEF BkInv, BackupsInv
    <3> QED BY <1>4, <1>5, <2>2, <3>1
  <2> QED BY <2>1, <2>2
<1>8. BackupsInv(bs, more)
  BY <1>4, <1>5, <1>7 DEF BackupsInv
<1> QED BY <1>5, <1>8 DEF id, more

LEMMA ArchiveKeeps ==
    ASSUME BkInv, NEW b \in 1..MaxBackups, Bk!ArchiveBackup(b)
    PROVE  /\ BackupsInv(backups', listed')
           /\ \A c \in 1..MaxBackups : backups[c] # <<>> <=> backups'[c] # <<>>
<1> DEFINE new == [backups[b] EXCEPT !.state = "Archived"]
           left == Without(listed, {b})
<1>1. backups[b] # <<>> /\ backups' = [backups EXCEPT ![b] = new] /\ listed' = left
  BY BkOperators DEF Bk!ArchiveBackup
<1>2. listed \in Seq(1..MaxBackups) /\ DOMAIN backups = 1..MaxBackups
  BY DEF BkInv, BackupsInv
<1>3. left \in Seq(1..MaxBackups) /\ \A c : Contains(left, c) <=> Contains(listed, c) /\ c # b
  BY <1>2, WithoutKeeps
<1> HIDE DEF left
<1>4. backups[b] \in Backup /\ backups[b].count = Len(backups[b].data)
  BY <1>1 DEF BkInv, BackupsInv, IsBackup
<1>5. new \in Backup /\ new.count = Len(new.data) /\ new.state = "Archived"
  BY <1>4 DEF Backup
<1> HIDE DEF new
<1>6. IsBackup(new) /\ ~IsActive(new) /\ new # <<>>
  BY <1>5, BackupIs DEF IsBackup, IsActive
<1>7. DOMAIN backups' = 1..MaxBackups /\ backups'[b] = new
      /\ \A c \in 1..MaxBackups : c # b => backups'[c] = backups[c]
  BY <1>1, <1>2
<1>8. ASSUME NEW c \in 1..MaxBackups
      PROVE  IsBackup(backups'[c]) /\ (Contains(left, c) <=> IsActive(backups'[c]))
  <2>1. CASE c = b
    BY <1>3, <1>6, <1>7, <2>1
  <2>2. CASE c # b
    <3>1. IsBackup(backups[c]) /\ (Contains(listed, c) <=> IsActive(backups[c]))
      BY DEF BkInv, BackupsInv
    <3> QED BY <1>3, <1>7, <2>2, <3>1
  <2> QED BY <2>1, <2>2
<1>9. BackupsInv(backups', listed')
  BY <1>1, <1>3, <1>7, <1>8 DEF BackupsInv
<1> QED BY <1>1, <1>6, <1>7, <1>9

(* A backup that goes was active, and no active one that stays is older. *)
Goes == \A b \in 1..MaxBackups : backups[b] # <<>> /\ backups'[b] = <<>> =>
            /\ IsActive(backups[b])
            /\ \A c \in Bk!Active(backups', listed') : backups'[c].at >= backups[b].at

LEMMA BkStep ==
    ASSUME BkInv, [Bk!Next]_(Bk!vars) PROVE BkInv' /\ Goes
<1>0. /\ \A p \in Policies : p \in [max : Nat, age : Nat, auto : BOOLEAN]
      /\ made \in 0..MaxBackups /\ now \in Nat /\ policy \in [max : Nat, age : Nat, auto : BOOLEAN]
      /\ MaxBackups \in Nat
  BY BackupOK DEF BkInv
<1>1. CASE UNCHANGED Bk!vars
  BY <1>1 DEF BkInv, Bk!vars, Goes
<1>2. ASSUME UNCHANGED <<backups, listed, made>>, ListsInv(backedStatus', backedLists'),
             now' \in Nat, policy' \in [max : Nat, age : Nat, auto : BOOLEAN]
      PROVE  BkInv' /\ Goes
  <2>1. BackupsInv(backups', listed') /\ made' = made /\ backups' = backups
    BY <1>2 DEF BkInv
  <2> QED BY <1>2, <2>1 DEF BkInv, Goes
<1>3. ASSUME NEW i \in BackedUp, Bk!StoreInvoice(i) PROVE BkInv' /\ Goes
  <2>1. ListsInv(backedStatus', backedLists')
    BY <1>3, StoreBacked
  <2>2. UNCHANGED <<backups, listed, policy, made, now>>
    BY <1>3 DEF Bk!StoreInvoice
  <2> QED BY <1>0, <1>2, <2>1, <2>2
<1>4. ASSUME NEW i \in BackedUp, NEW s \in Stage0, Bk!UpdateInvoice(i, s) PROVE BkInv' /\ Goes
  <2>1. ListsInv(backedStatus', backedLists')
    BY <1>4, UpdateBacked
  <2>2. UNCHANGED <<backups, listed, policy, made, now>>
    BY <1>4 DEF Bk!UpdateInvoice
  <2> QED BY <1>0, <1>2, <2>1, <2>2
<1>5. ASSUME NEW b \in 1..MaxBackups, Bk!RestoreBackup(b) PROVE BkInv' /\ Goes
  <2>1. ListsInv(backedStatus', backedLists')
    BY <1>5, RestoreBacked
  <2>2. UNCHANGED <<backups, listed, policy, made, now>>
    BY <1>5 DEF Bk!RestoreBackup
  <2> QED BY <1>0, <1>2, <2>1, <2>2
<1>6. ASSUME Bk!Tick \/ \E p \in Policies : Bk!SetRetentionPolicy(p) PROVE BkInv' /\ Goes
  <2>1. /\ UNCHANGED <<backups, listed, made, backedStatus, backedLists>>
        /\ now' \in Nat /\ policy' \in [max : Nat, age : Nat, auto : BOOLEAN]
    BY <1>0, <1>6 DEF Bk!Tick, Bk!SetRetentionPolicy
  <2>2. ListsInv(backedStatus', backedLists')
    BY <2>1 DEF BkInv
  <2> QED BY <1>2, <2>1, <2>2
<1>7. ASSUME UNCHANGED <<backedStatus, backedLists, policy, now>> PROVE
         /\ ListsInv(backedStatus', backedLists') /\ now' \in Nat
         /\ policy' \in [max : Nat, age : Nat, auto : BOOLEAN]
  BY <1>7 DEF BkInv
<1>8. ASSUME Bk!CreateBackup PROVE BkInv' /\ Goes
  <2> DEFINE bs == [backups EXCEPT ![made + 1] = Bk!NewBackup]
             more == Append(listed, made + 1)
  <2>1. /\ made < MaxBackups /\ made' = made + 1 /\ Bk!Cleanup(bs, more)
        /\ UNCHANGED <<backedStatus, backedLists, policy, now>>
    BY <1>8 DEF Bk!CreateBackup
  <2> HIDE DEF bs, more
  <2>2. BackupsInv(bs, more) /\ \A b \in 1..MaxBackups : b # made + 1 => bs[b] = backups[b]
    <3>1. bs = [backups EXCEPT ![made + 1] = Bk!NewBackup]
      BY DEF bs
    <3> QED BY <2>1, <3>1, CreateLists DEF more
  <2>3. /\ BackupsInv(backups', listed')
        /\ \A b \in 1..MaxBackups : \/ backups'[b] = bs[b]
              \/ /\ backups'[b] = <<>> /\ IsActive(bs[b])
                 /\ \A c \in Bk!Active(backups', listed') : backups'[c].at >= bs[b].at
    BY <1>0, <2>1, <2>2, CleanupKeeps
  <2>4. \A b \in 1..MaxBackups : b > made => backups[b] = <<>>
    BY DEF BkInv
  <2>5. \A b \in 1..MaxBackups : b > made' => b # made + 1 /\ b > made
    BY <1>0, <2>1
  <2>6. \A b \in 1..MaxBackups : b > made' => backups'[b] = <<>>
    BY <2>2, <2>3, <2>4, <2>5
  <2>7. ASSUME NEW b \in 1..MaxBackups, backups[b] # <<>>, backups'[b] = <<>>
        PROVE  /\ IsActive(backups[b])
               /\ \A c \in Bk!Active(backups', listed') : backups'[c].at >= backups[b].at
    <3>1. ~(b > made)
      BY <2>4, <2>7
    <3>2. b # made + 1
      BY <1>0, <3>1
    <3>3. bs[b] = backups[b]
      BY <2>2, <3>2
    <3> QED BY <2>3, <2>7, <3>3
  <2>8. Goes
    BY <2>7 DEF Goes
  <2>9. made' \in 0..MaxBackups
    BY <1>0, <2>1
  <2> QED BY <1>7, <2>1, <2>3, <2>6, <2>8, <2>9 DEF BkInv
<1>9. ASSUME Bk!CleanupBackups PROVE BkInv' /\ Goes
  <2>1. /\ Bk!Cleanup(backups, listed)
        /\ UNCHANGED <<backedStatus, backedLists, policy, now>> /\ made' = made
    BY <1>9 DEF Bk!CleanupBackups
  <2>2. BackupsInv(backups, listed) /\ \A b \in 1..MaxBackups : b > made => backups[b] = <<>>
    BY DEF BkInv
  <2>3. /\ BackupsInv(backups', listed')
        /\ \A b \in 1..MaxBackups : \/ backups'[b] = backups[b]
              \/ /\ backups'[b] = <<>> /\ IsActive(backups[b])
                 /\ \A c \in Bk!Active(backups', listed') : backups'[c].at >= backups[b].at
    BY <1>0, <2>1, <2>2, CleanupKeeps
  <2>4. \A b \in 1..MaxBackups : b > made' => backups'[b] = <<>>
    BY <2>1, <2>2, <2>3
  <2>5. Goes
    BY <2>3 DEF Goes
  <2> QED BY <1>0, <1>7, <2>1, <2>3, <2>4, <2>5 DEF BkInv
<1>10. ASSUME NEW b \in 1..MaxBackups, Bk!ArchiveBackup(b) PROVE BkInv' /\ Goes
  <2>1. UNCHANGED <<backedStatus, backedLists, policy, now>> /\ made' = made
    BY <1>10 DEF Bk!ArchiveBackup
  <2>2. /\ BackupsInv(backups', listed')
        /\ \A c \in 1..MaxBackups : backups[c] # <<>> <=> backups'[c] # <<>>
    BY <1>10, ArchiveKeeps
  <2>3. \A c \in 1..MaxBackups : c > made' => backups'[c] = <<>>
    BY <2>1, <2>2 DEF BkInv
  <2>4. Goes
    BY <2>2 DEF Goes
  <2> QED BY <1>0, <1>7, <2>1, <2>2, <2>3, <2>4 DEF BkInv
<1>11. \A b \in 1..made : b \in 1..MaxBackups
  BY <1>0
<1> QED
  BY <1>1, <1>3, <1>4, <1>5, <1>6, <1>8, <1>9, <1>10, <1>11
  DEF Bk!Next, Bk!Invoices, BackedUp, Stage0

LEMMA BackupInvariant == Bk!Spec => []BkInv
<1>1. Bk!Init => BkInv
  <2> SUFFICES ASSUME Bk!Init PROVE BkInv
    OBVIOUS
  <2>1. /\ backedStatus = [i \in BackedUp |-> "None"] /\ backedLists = [s \in Stage0 |-> <<>>]
        /\ backups = [b \in 1..MaxBackups |-> <<>>] /\ listed = <<>> /\ made = 0 /\ now = 0
        /\ policy = [max |-> 5, age |-> 0, auto |-> TRUE]
    BY DEF Bk!Init, Bk!Invoices, BackedUp, Stage0
  <2>2. \A i : ~Contains(<<>>, i)
    BY DEF Contains
  <2>3. ListsInv(backedStatus, backedLists)
    BY <2>1, <2>2 DEF ListsInv
  <2>4. BackupsInv(backups, listed)
    BY <2>1, <2>2 DEF BackupsInv, IsBackup, IsActive
  <2>5. policy \in [max : Nat, age : Nat, auto : BOOLEAN] /\ made \in 0..MaxBackups /\ now \in Nat
    BY <2>1, BackupOK
  <2> QED BY <2>1, <2>3, <2>4, <2>5 DEF BkInv
<1>2. BkInv /\ [Bk!Next]_(Bk!vars) => BkInv'
  BY BkStep
<1> QED BY <1>1, <1>2, PTL DEF Bk!Spec

(* After any mix of changes, restores and clean-ups every invoice is in the  *)
(* list of its status, what the list of backups has can be restored, and a   *)
(* clean-up takes the oldest active backups (BackupStorage).                 *)
THEOREM BackupsHold == Bk!Spec => BackupsComplete
<1>1. BkInv => Bk!EveryInvoiceListed /\ Bk!ListedAreComplete
  <2> SUFFICES ASSUME BkInv PROVE Bk!EveryInvoiceListed /\ Bk!ListedAreComplete
    OBVIOUS
  <2>1. Bk!EveryInvoiceListed
    BY BkOperators DEF BkInv, ListsInv, Bk!EveryInvoiceListed, Bk!Invoices, BackedUp
  <2>2. ASSUME NEW b \in 1..MaxBackups
        PROVE  /\ Contains(listed, b) <=> (backups[b] # <<>> /\ backups[b].state = "Active")
               /\ Contains(listed, b) => Bk!Valid(b)
    BY DEF BkInv, BackupsInv, IsBackup, IsActive, Bk!Valid
  <2>3. DOMAIN backups = 1..MaxBackups
    BY DEF BkInv, BackupsInv
  <2> QED BY <2>1, <2>2, <2>3, BkOperators DEF Bk!ListedAreComplete
<1>2. BkInv /\ [Bk!Next]_(Bk!vars) =>
         [\A b \in DOMAIN backups : backups[b] # <<>> /\ backups'[b] = <<>> =>
            /\ backups[b].state = "Active"
            /\ \A c \in Bk!Active(backups', listed') : backups'[c].at >= backups[b].at]_(Bk!vars)
  BY BkStep DEF Goes, IsActive, BkInv, BackupsInv
<1> QED BY BackupInvariant, <1>1, <1>2, PTL DEF Bk!Spec, Bk!OldestGoFirst, BackupsComplete

----------------------------------------------------------------------------
(* The catalogue of invoices. *)

Filed == 1..CatalogueSize

InvoiceStatuses == Cat!Range(Cat!Statuses)

Tags == {t.tag : t \in Spellings}

Rating == [by : Raters, score : 1..5]

FiledRecord ==
    [status : InvoiceStatuses, category : Categories, customer : Cat!Customers \cup {Nobody},
     taxId : Cat!TaxIds \cup {Nobody}, tags : Seq(Tags), ratings : Seq(Rating), average : Nat]

(* No rater rates twice, and the average has a rating on either side. *)
RatingsInv(ratings, average) ==
    /\ \A m, n \in DOMAIN ratings : ratings[m].by = ratings[n].by => m = n
    /\ ratings # <<>> => \E m, n \in DOMAIN ratings :
                            ratings[m].score <= average /\ average <= ratings[n].score

FiledInv(r) == r \in FiledRecord /\ IsInjective(r.tags) /\ RatingsInv(r.ratings, r.average)

(* Each list names once the invoices that have its key. *)
Indexed(index, keys, key) ==
    /\ index \in [keys -> Seq(Filed)]
    /\ \A k \in keys : /\ IsInjective(index[k])
                       /\ \A i \in Filed : Contains(index[k], i) <=> key[i] = k

KeyOfStatus == [i \in Filed |-> invoice[i].status]
KeyOfCustomer == [i \in Filed |-> IF i \in Cat!Stored THEN invoice[i].customer ELSE Nobody]
KeyOfTaxId == [i \in Filed |-> IF i \in Cat!Stored THEN invoice[i].taxId ELSE Nobody]

CatInv ==
    /\ DOMAIN invoice = Filed /\ invoice = [i \in Filed |-> invoice[i]]
    /\ \A i \in Filed : invoice[i] = Cat!Absent \/ FiledInv(invoice[i])
    /\ Indexed(byStatus, InvoiceStatuses, KeyOfStatus)
    /\ Indexed(byCustomer, Cat!Customers, KeyOfCustomer)
    /\ Indexed(byTaxId, Cat!TaxIds, KeyOfTaxId)

(* The instance's operators are the ones the lemmas are about. *)
LEMMA CatOperators ==
    /\ \A list, i : Cat!Contains(list, i) <=> Contains(list, i)
    /\ \A list, kept : Cat!Sublist(list, kept) = Sublist(list, kept)
    /\ \A list, gone : Cat!Without(list, gone) = Without(list, gone)
    /\ \A lists : Cat!Joined(lists) = Joined(lists)
    /\ \A f : Cat!IsInjective(f) <=> IsInjective(f)
    /\ \A S : Cat!Cardinality(S) = Cardinality(S)
<1>1. \A S : Cat!Cardinality(S) = Cardinality(S)
  BY Zenon DEF Cat!Cardinality, Cardinality
<1>2. \A list, i : Cat!Contains(list, i) <=> Contains(list, i)
  BY DEF Cat!Contains, Contains
<1>3. \A list, kept : Cat!Sublist(list, kept) = Sublist(list, kept)
  BY Zenon DEF Cat!Sublist, Sublist, Cat!Cardinality, Cardinality
<1>4. \A list, gone : Cat!Without(list, gone) = Without(list, gone)
  BY <1>3, Zenon DEF Cat!Without, Without
<1>5. \A lists : Cat!Joined(lists) = Joined(lists)
  BY Zenon DEF Cat!Joined, Joined, Cat!Cardinality, Cardinality
<1>6. \A f : Cat!IsInjective(f) <=> IsInjective(f)
  BY Zenon DEF Cat!IsInjective, IsInjective
<1> QED BY <1>1, <1>2, <1>3, <1>4, <1>5, <1>6

LEMMA CatTotal == \A f : Cat!Total(f) = Total(f)
BY Zenon DEF Cat!Total, Total, Cat!SumOver, SumOver, Cat!MapThenSumSet, MapThenSumSet,
             Cat!MapThenFoldSet, MapThenFoldSet

LEMMA SevenStatuses ==
    /\ DOMAIN Cat!Statuses = 1..7
    /\ InvoiceStatuses = {"Pending", "Verified", "Funded", "Paid", "Defaulted", "Cancelled", "Refunded"}
    /\ \A m, n \in 1..7 : Cat!Statuses[m] = Cat!Statuses[n] => m = n
<1>1. DOMAIN Cat!Statuses = 1..7
  BY DEF Cat!Statuses
<1>2. InvoiceStatuses = {Cat!Statuses[n] : n \in 1..7}
  BY <1>1 DEF InvoiceStatuses, Cat!Range
<1>3. /\ Cat!Statuses[1] = "Pending" /\ Cat!Statuses[2] = "Verified" /\ Cat!Statuses[3] = "Funded"
      /\ Cat!Statuses[4] = "Paid" /\ Cat!Statuses[5] = "Defaulted" /\ Cat!Statuses[6] = "Cancelled"
      /\ Cat!Statuses[7] = "Refunded"
  BY DEF Cat!Statuses
<1>4. \A n \in 1..7 : n = 1 \/ n = 2 \/ n = 3 \/ n = 4 \/ n = 5 \/ n = 6 \/ n = 7
  OBVIOUS
<1>5. \A m, n \in 1..7 : Cat!Statuses[m] = Cat!Statuses[n] => m = n
  BY <1>3, <1>4
<1>6. InvoiceStatuses = {"Pending", "Verified", "Funded", "Paid", "Defaulted", "Cancelled", "Refunded"}
  BY <1>2, <1>3, <1>4
<1> QED BY <1>1, <1>5, <1>6

LEMMA FiledIsStored ==
    /\ \A r : FiledInv(r) => r # Cat!Absent /\ r.status \in InvoiceStatuses
    /\ Cat!Absent.status \notin InvoiceStatuses
<1>1. Cat!Absent.status = "Absent"
  BY DEF Cat!Absent
<1>2. "Absent" \notin InvoiceStatuses
  BY SevenStatuses
<1>3. \A r : FiledInv(r) => r.status \in InvoiceStatuses
  BY DEF FiledInv, FiledRecord
<1> QED BY <1>1, <1>2, <1>3

----------------------------------------------------------------------------
(* The indexes. *)

(* An invoice leaves the list of its key and enters that of its new one. *)
LEMMA ReindexedKeeps ==
    ASSUME NEW keys, NEW key, NEW index, Indexed(index, keys, key), NEW i \in Filed, NEW new,
           NEW after, \A j \in Filed : after[j] = IF j = i THEN new ELSE key[j]
    PROVE  Indexed(Cat!Reindexed(index, key[i], new, i), keys, after)
<1> DEFINE left(k) == IF k = key[i] THEN Without(index[k], {i}) ELSE index[k]
           with(k) == IF Contains(left(k), i) THEN left(k) ELSE Append(left(k), i)
           list(k) == IF k = new THEN with(k) ELSE left(k)
           moved == Cat!Reindexed(index, key[i], new, i)
<1>1. DOMAIN index = keys /\ \A k \in keys : index[k] \in Seq(Filed)
  BY DEF Indexed
<1>2. moved = [k \in keys |-> list(k)]
  <2>1. \A l, j : Cat!With(l, j) = IF Contains(l, j) THEN l ELSE Append(l, j)
    BY CatOperators, Zenon DEF Cat!With
  <2> QED BY <1>1, <2>1, CatOperators DEF Cat!Reindexed
<1>3. ASSUME NEW k \in keys
      PROVE  /\ list(k) \in Seq(Filed) /\ IsInjective(list(k))
             /\ \A j \in Filed : Contains(list(k), j) <=> after[j] = k
  <2>1. /\ index[k] \in Seq(Filed) /\ IsInjective(index[k])
        /\ \A j \in Filed : Contains(index[k], j) <=> key[j] = k
    BY DEF Indexed
  <2>2. /\ left(k) \in Seq(Filed) /\ IsInjective(left(k))
        /\ \A j \in Filed : Contains(left(k), j) <=> key[j] = k /\ j # i
    <3>1. CASE k = key[i]
      <4>1. /\ Without(index[k], {i}) \in Seq(Filed) /\ IsInjective(Without(index[k], {i}))
            /\ \A j : Contains(Without(index[k], {i}), j) <=> Contains(index[k], j) /\ j \notin {i}
        BY <2>1, WithoutKeeps
      <4> QED BY <2>1, <3>1, <4>1
    <3>2. CASE k # key[i]
      BY <2>1, <3>2
    <3> QED BY <3>1, <3>2
  <2> HIDE DEF left
  <2>3. /\ with(k) \in Seq(Filed) /\ IsInjective(with(k))
        /\ \A j \in Filed : Contains(with(k), j) <=> Contains(left(k), j) \/ j = i
    <3>1. CASE Contains(left(k), i)
      BY <2>2, <3>1
    <3>2. CASE ~Contains(left(k), i)
      <4>1. /\ Append(left(k), i) \in Seq(Filed) /\ IsInjective(Append(left(k), i))
            /\ \A j : Contains(Append(left(k), i), j) <=> Contains(left(k), j) \/ j = i
        BY <2>2, <3>2, AppendKeeps
      <4> QED BY <3>2, <4>1
    <3> QED BY <3>1, <3>2
  <2> HIDE DEF with
  <2>4. CASE k = new
    <3>1. list(k) = with(k)
      BY <2>4
    <3>2. \A j \in Filed : Contains(with(k), j) <=> after[j] = k
      BY <2>2, <2>3, <2>4
    <3> QED BY <2>3, <3>1, <3>2
  <2>5. CASE k # new
    <3>1. list(k) = left(k)
      BY <2>5
    <3>2. \A j \in Filed : Contains(left(k), j) <=> after[j] = k
      BY <2>2, <2>5
    <3> QED BY <2>2, <3>1, <3>2
  <2> QED BY <2>4, <2>5
<1> HIDE DEF list
<1> QED BY <1>2, <1>3 DEF Indexed

LEMMA SameIndex ==
    ASSUME NEW keys, NEW key, NEW index, Indexed(index, keys, key),
           NEW after, \A j \in Filed : after[j] = key[j]
    PROVE  Indexed(index, keys, after)
BY DEF Indexed

(* What becomes of the records and the keys when one record is written. *)
Rewritten(i, r) ==
    /\ DOMAIN invoice' = Filed /\ invoice' = [j \in Filed |-> invoice'[j]]
    /\ \A j \in Filed : invoice'[j] = Cat!Absent \/ FiledInv(invoice'[j])
    /\ \A j \in Filed : KeyOfStatus'[j] = IF j = i THEN r.status ELSE KeyOfStatus[j]
    /\ \A j \in Filed : KeyOfCustomer'[j] = IF j = i THEN r.customer ELSE KeyOfCustomer[j]
    /\ \A j \in Filed : KeyOfTaxId'[j] = IF j = i THEN r.taxId ELSE KeyOfTaxId[j]

LEMMA OneRecord ==
    ASSUME CatInv, NEW i \in Filed, NEW r, FiledInv(r), invoice' = [invoice EXCEPT ![i] = r]
    PROVE  Rewritten(i, r)
<1>1. /\ DOMAIN invoice' = Filed /\ invoice'[i] = r
      /\ \A j \in Filed : j # i => invoice'[j] = invoice[j]
  BY DEF CatInv
<1>2. r # Cat!Absent
  BY FiledIsStored
<1>3. \A j \in Filed : j # i => (j \in Cat!Stored' <=> j \in Cat!Stored)
  BY <1>1 DEF Cat!Stored, Filed
<1>4. i \in Cat!Stored'
  BY <1>1, <1>2 DEF Cat!Stored, Filed
<1>5. invoice' = [j \in Filed |-> invoice'[j]]
  BY <1>1 DEF CatInv
<1>6. \A j \in Filed : invoice'[j] = Cat!Absent \/ FiledInv(invoice'[j])
  BY <1>1 DEF CatInv
<1>7. \A j \in Filed : KeyOfStatus'[j] = IF j = i THEN r.status ELSE KeyOfStatus[j]
  BY <1>1 DEF KeyOfStatus
<1>8. \A j \in Filed : KeyOfCustomer'[j] = IF j = i THEN r.customer ELSE KeyOfCustomer[j]
  BY <1>1, <1>3, <1>4 DEF KeyOfCustomer
<1>9. \A j \in Filed : KeyOfTaxId'[j] = IF j = i THEN r.taxId ELSE KeyOfTaxId[j]
  BY <1>1, <1>3, <1>4 DEF KeyOfTaxId
<1> QED BY <1>1, <1>5, <1>6, <1>7, <1>8, <1>9 DEF Rewritten

(* What is stored of an invoice. *)
LEMMA StoredIs ==
    ASSUME CatInv, NEW i \in Filed, i \in Cat!Stored
    PROVE  /\ FiledInv(invoice[i]) /\ invoice[i] \in FiledRecord
           /\ KeyOfStatus[i] = invoice[i].status /\ KeyOfCustomer[i] = invoice[i].customer
           /\ KeyOfTaxId[i] = invoice[i].taxId
<1>1. FiledInv(invoice[i])
  BY DEF CatInv, Cat!Stored
<1> QED BY <1>1 DEF FiledInv, KeyOfStatus, KeyOfCustomer, KeyOfTaxId

(* A record whose keys stay is written. *)
LEMMA KeysStay ==
    ASSUME CatInv, NEW i \in Filed, i \in Cat!Stored, NEW r, FiledInv(r),
           invoice' = [invoice EXCEPT ![i] = r], UNCHANGED <<byStatus, byCustomer, byTaxId>>,
           r.status = invoice[i].status, r.customer = invoice[i].customer, r.taxId = invoice[i].taxId
    PROVE  CatInv'
<1>1. /\ DOMAIN invoice' = Filed /\ invoice' = [j \in Filed |-> invoice'[j]]
      /\ \A j \in Filed : invoice'[j] = Cat!Absent \/ FiledInv(invoice'[j])
  <2>1. Rewritten(i, r)
    BY OneRecord
  <2> QED BY <2>1 DEF Rewritten
<1>2. \A j \in Filed : /\ KeyOfStatus'[j] = KeyOfStatus[j] /\ KeyOfCustomer'[j] = KeyOfCustomer[j]
                       /\ KeyOfTaxId'[j] = KeyOfTaxId[j]
  <2>1. /\ \A j \in Filed : KeyOfStatus'[j] = IF j = i THEN r.status ELSE KeyOfStatus[j]
        /\ \A j \in Filed : KeyOfCustomer'[j] = IF j = i THEN r.customer ELSE KeyOfCustomer[j]
        /\ \A j \in Filed : KeyOfTaxId'[j] = IF j = i THEN r.taxId ELSE KeyOfTaxId[j]
    <3>1. Rewritten(i, r)
      BY OneRecord
    <3> QED BY <3>1 DEF Rewritten
  <2>2. /\ KeyOfStatus[i] = r.status /\ KeyOfCustomer[i] = r.customer /\ KeyOfTaxId[i] = r.taxId
    BY StoredIs
  <2> QED BY <2>1, <2>2
<1>3. Indexed(byStatus, InvoiceStatuses, KeyOfStatus')
  BY <1>2, SameIndex DEF CatInv
<1>4. Indexed(byCustomer, Cat!Customers, KeyOfCustomer')
  BY <1>2, SameIndex DEF CatInv
<1>5. Indexed(byTaxId, Cat!TaxIds, KeyOfTaxId')
  BY <1>2, SameIndex DEF CatInv
<1> QED BY <1>1, <1>3, <1>4, <1>5 DEF CatInv

----------------------------------------------------------------------------
(* The steps. *)

LEMMA StoreFiles ==
    ASSUME CatInv, NEW i \in Filed, NEW c \in Categories, NEW texts \in GivenTags,
           Cat!Store(i, c, texts)
    PROVE  CatInv'
<1> DEFINE tags == [n \in DOMAIN texts |-> texts[n].tag]
           r == [status |-> "Pending", category |-> c, customer |-> Nobody, taxId |-> Nobody,
                 tags |-> tags, ratings |-> <<>>, average |-> 0]
<1>1. /\ invoice[i] = Cat!Absent /\ Cat!ValidTags(texts)
      /\ invoice' = [invoice EXCEPT ![i] = r]
      /\ byStatus' = [byStatus EXCEPT !["Pending"] = Cat!With(@, i)]
      /\ UNCHANGED <<byCustomer, byTaxId>>
  BY DEF Cat!Store
<1>2. tags \in Seq(Tags) /\ IsInjective(tags)
  <2>1. texts \in Seq(Spellings) /\ DOMAIN texts = 1..Len(texts) /\ Len(texts) \in Nat
    BY CatalogueOK
  <2>2. \A n \in 1..Len(texts) : texts[n].tag \in Tags
    BY <2>1 DEF Tags
  <2>3. tags \in [1..Len(texts) -> Tags]
    BY <2>1, <2>2
  <2>4. \A m, n \in DOMAIN texts : m # n => texts[m].tag # texts[n].tag
    BY <1>1 DEF Cat!ValidTags
  <2>5. IsInjective(tags)
    BY <2>4 DEF IsInjective
  <2> HIDE DEF tags
  <2> QED BY <2>1, <2>3, <2>5
<1> HIDE DEF tags
<1>3. FiledInv(r) /\ r.status = "Pending" /\ r.customer = Nobody /\ r.taxId = Nobody
  <2>1. "Pending" \in InvoiceStatuses
    BY SevenStatuses
  <2>2. <<>> \in Seq(Rating)
    OBVIOUS
  <2>3. r \in FiledRecord
    BY <1>2, <2>1, <2>2 DEF FiledRecord
  <2>4. RatingsInv(<<>>, 0)
    BY DEF RatingsInv
  <2> QED BY <1>2, <2>3, <2>4 DEF FiledInv
<1> HIDE DEF r
<1>4. /\ DOMAIN invoice' = Filed /\ invoice' = [j \in Filed |-> invoice'[j]]
      /\ \A j \in Filed : invoice'[j] = Cat!Absent \/ FiledInv(invoice'[j])
      /\ \A j \in Filed : KeyOfStatus'[j] = IF j = i THEN r.status ELSE KeyOfStatus[j]
      /\ \A j \in Filed : KeyOfCustomer'[j] = IF j = i THEN r.customer ELSE KeyOfCustomer[j]
      /\ \A j \in Filed : KeyOfTaxId'[j] = IF j = i THEN r.taxId ELSE KeyOfTaxId[j]
  <2>1. Rewritten(i, r)
    BY <1>1, <1>3, OneRecord
  <2> QED BY <2>1 DEF Rewritten
<1>5. KeyOfCustomer[i] = Nobody /\ KeyOfTaxId[i] = Nobody /\ KeyOfStatus[i] \notin InvoiceStatuses
  BY <1>1, FiledIsStored DEF KeyOfCustomer, KeyOfTaxId, KeyOfStatus, Cat!Stored
<1>6. Indexed(byCustomer, Cat!Customers, KeyOfCustomer')
  <2>1. \A j \in Filed : KeyOfCustomer'[j] = KeyOfCustomer[j]
    BY <1>3, <1>4, <1>5
  <2> QED BY <2>1, SameIndex DEF CatInv
<1>7. Indexed(byTaxId, Cat!TaxIds, KeyOfTaxId')
  <2>1. \A j \in Filed : KeyOfTaxId'[j] = KeyOfTaxId[j]
    BY <1>3, <1>4, <1>5
  <2> QED BY <2>1, SameIndex DEF CatInv
<1>8. Indexed(byStatus', InvoiceStatuses, KeyOfStatus')
  <2>1. DOMAIN byStatus = InvoiceStatuses /\ byStatus = [k \in InvoiceStatuses |-> byStatus[k]]
    BY DEF CatInv, Indexed
  <2>2. byStatus' = Cat!Reindexed(byStatus, KeyOfStatus[i], r.status, i)
    BY <1>1, <1>3, <1>5, <2>1 DEF Cat!Reindexed
  <2>3. Indexed(Cat!Reindexed(byStatus, KeyOfStatus[i], r.status, i), InvoiceStatuses, KeyOfStatus')
    BY <1>4, ReindexedKeeps DEF CatInv
  <2> QED BY <2>2, <2>3
<1> QED BY <1>1, <1>4, <1>6, <1>7, <1>8 DEF CatInv

(* The customer and the tax id change together. *)
LEMMA MetadataFiled ==
    ASSUME CatInv, NEW i \in Filed, i \in Cat!Stored,
           NEW name \in Cat!Customers \cup {Nobody}, NEW tax \in Cat!TaxIds \cup {Nobody},
           invoice' = [invoice EXCEPT ![i].customer = name, ![i].taxId = tax],
           byCustomer' = Cat!Reindexed(byCustomer, invoice[i].customer, name, i),
           byTaxId' = Cat!Reindexed(byTaxId, invoice[i].taxId, tax, i),
           UNCHANGED byStatus
    PROVE  CatInv'
<1> DEFINE r == [invoice[i] EXCEPT !.customer = name, !.taxId = tax]
<1>1. /\ FiledInv(invoice[i]) /\ invoice[i] \in FiledRecord
      /\ KeyOfStatus[i] = invoice[i].status /\ KeyOfCustomer[i] = invoice[i].customer
      /\ KeyOfTaxId[i] = invoice[i].taxId
  BY StoredIs
<1>2. invoice' = [invoice EXCEPT ![i] = r]
  BY DEF CatInv
<1>3. /\ r \in FiledRecord /\ r.status = invoice[i].status /\ r.customer = name /\ r.taxId = tax
      /\ r.tags = invoice[i].tags /\ r.ratings = invoice[i].ratings
      /\ r.average = invoice[i].average
  BY <1>1 DEF FiledRecord
<1> HIDE DEF r
<1>4. FiledInv(r)
  BY <1>1, <1>3 DEF FiledInv
<1>5. /\ DOMAIN invoice' = Filed /\ invoice' = [j \in Filed |-> invoice'[j]]
      /\ \A j \in Filed : invoice'[j] = Cat!Absent \/ FiledInv(invoice'[j])
      /\ \A j \in Filed : KeyOfStatus'[j] = IF j = i THEN r.status ELSE KeyOfStatus[j]
      /\ \A j \in Filed : KeyOfCustomer'[j] = IF j = i THEN r.customer ELSE KeyOfCustomer[j]
      /\ \A j \in Filed : KeyOfTaxId'[j] = IF j = i THEN r.taxId ELSE KeyOfTaxId[j]
  <2>1. Rewritten(i, r)
    BY <1>2, <1>4, OneRecord
  <2> QED BY <2>1 DEF Rewritten
<1>6. Indexed(byStatus, InvoiceStatuses, KeyOfStatus')
  <2>1. \A j \in Filed : KeyOfStatus'[j] = KeyOfStatus[j]
    BY <1>1, <1>3, <1>5
  <2> QED BY <2>1, SameIndex DEF CatInv
<1>7. Indexed(Cat!Reindexed(byCustomer, KeyOfCustomer[i], name, i), Cat!Customers, KeyOfCustomer')
  BY <1>3, <1>5, ReindexedKeeps DEF CatInv
<1>8. Indexed(Cat!Reindexed(byTaxId, KeyOfTaxId[i], tax, i), Cat!TaxIds, KeyOfTaxId')
  BY <1>3, <1>5, ReindexedKeeps DEF CatInv
<1> QED BY <1>1, <1>5, <1>6, <1>7, <1>8 DEF CatInv

LEMMA StatusFiled ==
    ASSUME CatInv, NEW i \in Filed, NEW s, Cat!UpdateInvoiceStatus(i, s)
    PROVE  CatInv'
<1> DEFINE r == [invoice[i] EXCEPT !.status = s]
<1>0. /\ i \in Cat!Stored /\ s \in {"Verified", "Funded", "Paid", "Defaulted"}
      /\ invoice' = [invoice EXCEPT ![i] = r]
      /\ byStatus' = Cat!Reindexed(byStatus, invoice[i].status, s, i)
      /\ UNCHANGED <<byCustomer, byTaxId>>
  BY DEF Cat!UpdateInvoiceStatus
<1>1. /\ FiledInv(invoice[i]) /\ invoice[i] \in FiledRecord
      /\ KeyOfStatus[i] = invoice[i].status /\ KeyOfCustomer[i] = invoice[i].customer
      /\ KeyOfTaxId[i] = invoice[i].taxId
  BY <1>0, StoredIs
<1>2. s \in InvoiceStatuses
  BY <1>0, SevenStatuses
<1>3. /\ r \in FiledRecord /\ r.status = s /\ r.customer = invoice[i].customer
      /\ r.taxId = invoice[i].taxId
      /\ r.tags = invoice[i].tags /\ r.ratings = invoice[i].ratings
      /\ r.average = invoice[i].average
  BY <1>1, <1>2 DEF FiledRecord
<1> HIDE DEF r
<1>4. FiledInv(r)
  BY <1>1, <1>3 DEF FiledInv
<1>5. /\ DOMAIN invoice' = Filed /\ invoice' = [j \in Filed |-> invoice'[j]]
      /\ \A j \in Filed : invoice'[j] = Cat!Absent \/ FiledInv(invoice'[j])
      /\ \A j \in Filed : KeyOfStatus'[j] = IF j = i THEN r.status ELSE KeyOfStatus[j]
      /\ \A j \in Filed : KeyOfCustomer'[j] = IF j = i THEN r.customer ELSE KeyOfCustomer[j]
      /\ \A j \in Filed : KeyOfTaxId'[j] = IF j = i THEN r.taxId ELSE KeyOfTaxId[j]
  <2>1. Rewritten(i, r)
    BY <1>0, <1>4, OneRecord
  <2> QED BY <2>1 DEF Rewritten
<1>6. Indexed(byCustomer, Cat!Customers, KeyOfCustomer')
  <2>1. \A j \in Filed : KeyOfCustomer'[j] = KeyOfCustomer[j]
    BY <1>1, <1>3, <1>5
  <2> QED BY <2>1, SameIndex DEF CatInv
<1>7. Indexed(byTaxId, Cat!TaxIds, KeyOfTaxId')
  <2>1. \A j \in Filed : KeyOfTaxId'[j] = KeyOfTaxId[j]
    BY <1>1, <1>3, <1>5
  <2> QED BY <2>1, SameIndex DEF CatInv
<1>8. Indexed(Cat!Reindexed(byStatus, KeyOfStatus[i], s, i), InvoiceStatuses, KeyOfStatus')
  BY <1>3, <1>5, ReindexedKeeps DEF CatInv
<1> QED BY <1>0, <1>1, <1>5, <1>6, <1>7, <1>8 DEF CatInv

LEMMA CategoryFiled ==
    ASSUME CatInv, NEW i \in Filed, NEW c \in Categories, Cat!UpdateInvoiceCategory(i, c)
    PROVE  CatInv'
<1> DEFINE r == [invoice[i] EXCEPT !.category = c]
<1>1. /\ i \in Cat!Stored /\ invoice' = [invoice EXCEPT ![i] = r]
      /\ UNCHANGED <<byStatus, byCustomer, byTaxId>>
  BY DEF Cat!UpdateInvoiceCategory
<1>2. FiledInv(invoice[i]) /\ invoice[i] \in FiledRecord
  BY <1>1, StoredIs
<1>3. /\ r \in FiledRecord /\ r.status = invoice[i].status
      /\ r.customer = invoice[i].customer /\ r.taxId = invoice[i].taxId
      /\ r.tags = invoice[i].tags /\ r.ratings = invoice[i].ratings
      /\ r.average = invoice[i].average
  BY <1>2 DEF FiledRecord
<1> HIDE DEF r
<1>4. FiledInv(r)
  BY <1>2, <1>3 DEF FiledInv
<1> QED BY <1>1, <1>3, <1>4, KeysStay

(* Other tags are written. *)
LEMMA TagsFiled ==
    ASSUME CatInv, NEW i \in Filed, i \in Cat!Stored, NEW tags \in Seq(Tags), IsInjective(tags),
           invoice' = [invoice EXCEPT ![i].tags = tags], UNCHANGED <<byStatus, byCustomer, byTaxId>>
    PROVE  CatInv'
<1> DEFINE r == [invoice[i] EXCEPT !.tags = tags]
<1>1. invoice' = [invoice EXCEPT ![i] = r]
  BY DEF CatInv
<1>2. FiledInv(invoice[i]) /\ invoice[i] \in FiledRecord
  BY StoredIs
<1>3. /\ r \in FiledRecord /\ r.status = invoice[i].status
      /\ r.customer = invoice[i].customer /\ r.taxId = invoice[i].taxId
      /\ r.tags = tags /\ r.ratings = invoice[i].ratings /\ r.average = invoice[i].average
  BY <1>2 DEF FiledRecord
<1> HIDE DEF r
<1>4. FiledInv(r)
  BY <1>2, <1>3 DEF FiledInv
<1> QED BY <1>1, <1>3, <1>4, KeysStay

LEMMA AddTagFiled ==
    ASSUME CatInv, NEW i \in Filed, NEW t \in Spellings,
           Cat!AddInvoiceTag(i, t) \/ Cat!RemoveInvoiceTag(i, t)
    PROVE  CatInv'
<1> DEFINE tags == invoice[i].tags
<1>1. i \in Cat!Stored /\ UNCHANGED <<byStatus, byCustomer, byTaxId>>
  BY DEF Cat!AddInvoiceTag, Cat!RemoveInvoiceTag
<1>2. tags \in Seq(Tags) /\ IsInjective(tags)
  BY <1>1, StoredIs DEF FiledInv, FiledRecord
<1>3. t.tag \in Tags
  BY DEF Tags
<1>4. CASE Cat!RemoveInvoiceTag(i, t)
  <2> DEFINE left == Without(tags, {t.tag})
  <2>1. invoice' = [invoice EXCEPT ![i].tags = left]
    BY <1>4, CatOperators DEF Cat!RemoveInvoiceTag
  <2> HIDE DEF tags
  <2>2. left \in Seq(Tags) /\ IsInjective(left)
    BY <1>2, WithoutKeeps
  <2> HIDE DEF left
  <2> QED BY <1>1, <2>1, <2>2, TagsFiled
<1>5. CASE Cat!AddInvoiceTag(i, t)
  <2> DEFINE more == Append(tags, t.tag)
             new == IF Contains(tags, t.tag) THEN tags ELSE more
  <2>1. invoice' = [invoice EXCEPT ![i].tags = new]
    BY <1>5, CatOperators DEF Cat!AddInvoiceTag, Cat!TagAdded
  <2> HIDE DEF tags
  <2>2. ~Contains(tags, t.tag) => more \in Seq(Tags) /\ IsInjective(more)
    BY <1>2, <1>3, AppendKeeps
  <2>3. new \in Seq(Tags) /\ IsInjective(new)
    BY <1>2, <2>2
  <2> HIDE DEF new
  <2> QED BY <1>1, <2>1, <2>3, TagsFiled
<1> QED BY <1>4, <1>5

LEMMA RatingFiled ==
    ASSUME CatInv, NEW i \in Filed, NEW by \in Raters, NEW score,
           Cat!AddInvoiceRating(i, by, score)
    PROVE  CatInv'
<1> DEFINE old == invoice[i].ratings
           rating == [by |-> by, score |-> score]
           new == Append(old, rating)
           scores == [n \in DOMAIN new |-> new[n].score]
           average == Total(scores) \div Len(new)
           r == [invoice[i] EXCEPT !.ratings = new, !.average = average]
<1>1. /\ i \in Cat!Stored /\ Cat!MayRate(i, by, score)
      /\ invoice' = [invoice EXCEPT ![i].ratings = new, ![i].average = average]
      /\ UNCHANGED <<byStatus, byCustomer, byTaxId>>
  <2>1. Cat!SumOf(new) = Total(scores)
    BY CatTotal, Zenon DEF Cat!SumOf
  <2> HIDE DEF scores
  <2> QED BY <2>1 DEF Cat!AddInvoiceRating
<1>2. invoice' = [invoice EXCEPT ![i] = r]
  <2> HIDE DEF new, average
  <2> QED BY <1>1 DEF CatInv, r
<1>3. FiledInv(invoice[i]) /\ invoice[i] \in FiledRecord
  BY <1>1, StoredIs
<1>4. old \in Seq(Rating) /\ DOMAIN old = 1..Len(old) /\ Len(old) \in Nat
      /\ \A m, n \in DOMAIN old : old[m].by = old[n].by => m = n
  BY <1>3 DEF FiledRecord, FiledInv, RatingsInv
<1>5. rating \in Rating /\ rating.by = by /\ \A n \in DOMAIN old : old[n].by # by
  BY <1>1 DEF Cat!MayRate, Rating
<1> HIDE DEF old, rating
<1> DEFINE last == Len(old) + 1
<1>6. /\ new \in Seq(Rating) /\ DOMAIN new = 1..last /\ Len(new) = last
      /\ last \in Nat \ {0} /\ new[last] = rating
      /\ \A n \in 1..last : n \in DOMAIN old \/ n = last
      /\ \A n \in DOMAIN old : new[n] = old[n]
  BY <1>4, <1>5
<1> HIDE DEF new, last
<1>7. \A m, n \in DOMAIN new : new[m].by = new[n].by => m = n
  BY <1>4, <1>5, <1>6
<1>8. /\ DOMAIN scores = 1..last
      /\ \A n \in 1..last : scores[n] \in Nat /\ scores[n] = new[n].score
  <2>1. \A n \in 1..last : new[n] \in Rating
    BY <1>6
  <2>2. \A n \in 1..last : new[n].score \in Nat
    BY <2>1 DEF Rating
  <2> QED BY <1>6, <2>2
<1> HIDE DEF scores
<1>9. /\ average \in Nat /\ \E m \in 1..last : scores[m] <= average
      /\ \E n \in 1..last : average <= scores[n]
  BY <1>6, <1>8, AverageBetween
<1> HIDE DEF average
<1>10. RatingsInv(new, average)
  BY <1>6, <1>7, <1>8, <1>9 DEF RatingsInv
<1>11. /\ r \in FiledRecord /\ r.status = invoice[i].status
       /\ r.customer = invoice[i].customer /\ r.taxId = invoice[i].taxId
       /\ r.tags = invoice[i].tags /\ r.ratings = new /\ r.average = average
  BY <1>3, <1>6, <1>9 DEF FiledRecord
<1> HIDE DEF r
<1>12. FiledInv(r)
  BY <1>3, <1>10, <1>11 DEF FiledInv
<1> QED BY <1>1, <1>2, <1>11, <1>12, KeysStay

LEMMA CatStep == ASSUME CatInv, [Cat!Next]_(Cat!vars) PROVE CatInv'
<1>1. CASE UNCHANGED Cat!vars
  BY <1>1 DEF CatInv, Cat!vars, Indexed, KeyOfStatus, KeyOfCustomer, KeyOfTaxId, Cat!Stored
<1>2. ASSUME NEW i \in Filed, Cat!ClearInvoiceMetadata(i) PROVE CatInv'
  BY <1>2, MetadataFiled DEF Cat!ClearInvoiceMetadata
<1>3. ASSUME NEW i \in Filed, NEW m \in GivenMetadata, Cat!UpdateInvoiceMetadata(i, m) PROVE CatInv'
  <2>1. m.customer # Nobody /\ m.taxId # Nobody
    BY <1>3 DEF Cat!UpdateInvoiceMetadata, Cat!ValidMetadata
  <2>2. m.customer \in Cat!Customers \cup {Nobody} /\ m.taxId \in Cat!TaxIds \cup {Nobody}
    BY <2>1 DEF Cat!Customers, Cat!TaxIds
  <2> QED BY <1>3, <2>2, MetadataFiled DEF Cat!UpdateInvoiceMetadata
<1> QED
  BY <1>1, <1>2, <1>3, StoreFiles, StatusFiled, CategoryFiled, AddTagFiled, RatingFiled
  DEF Cat!Next, Filed

----------------------------------------------------------------------------
(* The searches. *)

LEMMA NamedOnce ==
    ASSUME NEW list \in Seq(Filed), IsInjective(list), NEW i, Contains(list, i)
    PROVE  Cat!OnceIn(list, i)
<1>1. DOMAIN list = 1..Len(list)
  OBVIOUS
<1>2. PICK n \in 1..Len(list) : list[n] = i
  BY DEF Contains
<1> QED BY <1>1, <1>2 DEF Cat!OnceIn, IsInjective

LEMMA AmongIs ==
    ASSUME NEW list \in Seq(Filed), IsInjective(list), NEW these
    PROVE  /\ Cat!Among(list, these) \in Seq(Filed) /\ IsInjective(Cat!Among(list, these))
           /\ \A i : Contains(Cat!Among(list, these), i) <=> Contains(list, i) /\ i \in these
<1> DEFINE kept == {n \in DOMAIN list : list[n] \in these}
<1>1. Cat!Among(list, these) = Sublist(list, kept)
  BY CatOperators DEF Cat!Among
<1>2. kept \in SUBSET DOMAIN list /\ \A m, k \in kept : list[m] = list[k] => m = k
  BY DEF IsInjective
<1>3. \A i : (\E m \in kept : list[m] = i) <=> Contains(list, i) /\ i \in these
  BY DEF Contains
<1> HIDE DEF kept
<1>4. /\ Sublist(list, kept) \in Seq(Filed) /\ IsInjective(Sublist(list, kept))
      /\ \A i : Contains(Sublist(list, kept), i) <=> \E m \in kept : list[m] = i
  BY <1>2, SublistOrder
<1> QED BY <1>1, <1>3, <1>4

(* The lists of all statuses name each stored invoice once. *)
LEMMA AllIsAll ==
    ASSUME CatInv
    PROVE  /\ Cat!AllInvoiceIds \in Seq(Filed) /\ IsInjective(Cat!AllInvoiceIds)
           /\ \A i : Contains(Cat!AllInvoiceIds, i) <=> i \in Cat!Stored
<1> DEFINE lists == [n \in 1..7 |-> byStatus[Cat!Statuses[n]]]
           P == Places(lists)
<1>1. Cat!AllInvoiceIds = Joined(lists)
  BY CatOperators, SevenStatuses DEF Cat!AllInvoiceIds
<1>2. \A n \in 1..7 : Cat!Statuses[n] \in InvoiceStatuses
  BY SevenStatuses DEF InvoiceStatuses, Cat!Range
<1>3. ASSUME NEW n \in 1..7
      PROVE  /\ lists[n] \in Seq(Filed) /\ IsInjective(lists[n])
             /\ \A i \in Filed : Contains(lists[n], i) <=> KeyOfStatus[i] = Cat!Statuses[n]
  BY <1>2 DEF CatInv, Indexed
<1>4. DOMAIN lists = 1..7 /\ lists \in [1..7 -> Seq(Filed)]
  BY <1>3
<1> HIDE DEF lists
<1>5. lists \in Seq(Seq(Filed))
  <2> DEFINE size == 7
  <2>1. size \in Nat /\ lists \in [1..size -> Seq(Filed)]
    BY <1>4
  <2> HIDE DEF size
  <2> QED BY <2>1
<1>6. ASSUME NEW p \in P
      PROVE  /\ p = <<p[1], p[2]>> /\ p[1] \in 1..7 /\ p[2] \in DOMAIN lists[p[1]]
             /\ lists[p[1]][p[2]] \in Filed
             /\ KeyOfStatus[lists[p[1]][p[2]]] = Cat!Statuses[p[1]]
  <2>1. PICK n \in 1..7 : p \in {n} \X DOMAIN lists[n]
    BY <1>4 DEF Places
  <2>2. p = <<p[1], p[2]>> /\ p[1] = n /\ p[2] \in DOMAIN lists[n]
    BY <2>1
  <2>3. lists[n] \in Seq(Filed)
    BY <1>3
  <2>4. lists[n][p[2]] \in Filed /\ Contains(lists[n], lists[n][p[2]])
    BY <2>2, <2>3 DEF Contains
  <2> QED BY <1>3, <2>2, <2>4
<1>7. ASSUME NEW n \in 1..7, NEW m \in DOMAIN lists[n] PROVE <<n, m>> \in P
  BY <1>4 DEF Places
<1> HIDE DEF P
<1>8. ASSUME NEW p \in P, NEW q \in P, lists[p[1]][p[2]] = lists[q[1]][q[2]] PROVE p = q
  <2>1. p[1] = q[1]
    BY <1>6, <1>8, SevenStatuses
  <2>2. IsInjective(lists[p[1]]) /\ p[2] \in DOMAIN lists[p[1]] /\ q[2] \in DOMAIN lists[p[1]]
    BY <1>3, <1>6, <2>1
  <2>3. p[2] = q[2]
    BY <1>8, <2>1, <2>2 DEF IsInjective
  <2> QED BY <1>6, <2>1, <2>3
<1>9. \A i : (\E p \in P : lists[p[1]][p[2]] = i) <=> i \in Cat!Stored
  <2> TAKE i
  <2>1. ASSUME NEW p \in P, lists[p[1]][p[2]] = i PROVE i \in Cat!Stored
    <3>1. i \in Filed /\ KeyOfStatus[i] \in InvoiceStatuses
      BY <1>2, <1>6, <2>1
    <3>2. invoice[i] # Cat!Absent
      BY <3>1, FiledIsStored DEF KeyOfStatus
    <3> QED BY <3>1, <3>2 DEF Cat!Stored, Filed
  <2>2. ASSUME i \in Cat!Stored PROVE \E p \in P : lists[p[1]][p[2]] = i
    <3>1. i \in Filed
      BY <2>2 DEF Cat!Stored, Filed
    <3>2. KeyOfStatus[i] \in InvoiceStatuses
      BY <2>2, <3>1, StoredIs DEF FiledRecord
    <3>3. PICK n \in 1..7 : KeyOfStatus[i] = Cat!Statuses[n]
      BY <3>2, SevenStatuses DEF InvoiceStatuses, Cat!Range
    <3>4. Contains(lists[n], i) /\ lists[n] \in Seq(Filed)
      BY <1>3, <3>1, <3>3
    <3>5. PICK m \in DOMAIN lists[n] : lists[n][m] = i
      BY <3>4 DEF Contains
    <3>6. <<n, m>> \in P
      BY <1>7
    <3> QED BY <3>5, <3>6
  <2> QED BY <2>1, <2>2
<1>10. /\ Joined(lists) \in Seq(Filed) /\ IsInjective(Joined(lists))
       /\ \A i : Contains(Joined(lists), i) <=> \E p \in P : lists[p[1]][p[2]] = i
  BY <1>5, <1>8, JoinedIs DEF P
<1> QED BY <1>1, <1>9, <1>10

LEMMA CatalogueIsExact == ASSUME CatInv PROVE Cat!CatalogueExact
<1> DEFINE all == Cat!AllInvoiceIds
<1>1. /\ all \in Seq(Filed) /\ IsInjective(all) /\ \A i : Contains(all, i) <=> i \in Cat!Stored
  BY AllIsAll
<1>2. Cat!TotalInvoiceCount = Cat!Cardinality(Cat!Stored)
  <2>1. Cat!Stored = {i \in Filed : Contains(all, i)}
    BY <1>1 DEF Cat!Stored, Filed
  <2>2. Cat!TotalInvoiceCount = Len(all)
    BY DEF Cat!TotalInvoiceCount
  <2> HIDE DEF all
  <2>3. Cardinality({i \in Filed : Contains(all, i)}) = Len(all)
    BY <1>1, InjectiveSize
  <2> QED BY <2>1, <2>2, <2>3, CatOperators
<1> HIDE DEF all
<1>3. ASSUME NEW keys, NEW key, NEW index, Indexed(index, keys, key), NEW i \in Filed, NEW k \in keys
      PROVE  IF key[i] = k THEN Cat!OnceIn(index[k], i) ELSE ~Cat!Contains(index[k], i)
  <2>1. /\ index[k] \in Seq(Filed) /\ IsInjective(index[k])
        /\ Contains(index[k], i) <=> key[i] = k
    BY <1>3 DEF Indexed
  <2>2. CASE key[i] = k
    BY <2>1, <2>2, NamedOnce
  <2>3. CASE key[i] # k
    BY <2>1, <2>3, CatOperators
  <2> QED BY <2>2, <2>3
<1>4. ASSUME NEW i \in Filed
      PROVE  /\ \A s \in InvoiceStatuses : IF invoice[i].status = s THEN Cat!OnceIn(byStatus[s], i)
                                           ELSE ~Cat!Contains(byStatus[s], i)
             /\ \A n \in Cat!Customers :
                   IF i \in Cat!Stored /\ invoice[i].customer = n THEN Cat!OnceIn(byCustomer[n], i)
                   ELSE ~Cat!Contains(byCustomer[n], i)
             /\ \A x \in Cat!TaxIds :
                   IF i \in Cat!Stored /\ invoice[i].taxId = x THEN Cat!OnceIn(byTaxId[x], i)
                   ELSE ~Cat!Contains(byTaxId[x], i)
  <2>1. KeyOfStatus[i] = invoice[i].status
    BY DEF KeyOfStatus
  <2>2. \A n \in Cat!Customers : KeyOfCustomer[i] = n <=> i \in Cat!Stored /\ invoice[i].customer = n
    BY DEF KeyOfCustomer, Cat!Customers
  <2>3. \A x \in Cat!TaxIds : KeyOfTaxId[i] = x <=> i \in Cat!Stored /\ invoice[i].taxId = x
    BY DEF KeyOfTaxId, Cat!TaxIds
  <2>4. \A s \in InvoiceStatuses : IF KeyOfStatus[i] = s THEN Cat!OnceIn(byStatus[s], i)
                                  ELSE ~Cat!Contains(byStatus[s], i)
    BY <1>3 DEF CatInv
  <2>5. \A n \in Cat!Customers : IF KeyOfCustomer[i] = n THEN Cat!OnceIn(byCustomer[n], i)
                                ELSE ~Cat!Contains(byCustomer[n], i)
    BY <1>3 DEF CatInv
  <2>6. \A x \in Cat!TaxIds : IF KeyOfTaxId[i] = x THEN Cat!OnceIn(byTaxId[x], i)
                             ELSE ~Cat!Contains(byTaxId[x], i)
    BY <1>3 DEF CatInv
  <2> QED BY <2>1, <2>2, <2>3, <2>4, <2>5, <2>6
<1>5. ASSUME NEW i \in Cat!Stored
      PROVE  /\ Cat!OnceIn(Cat!InvoicesByCategory(invoice[i].category), i)
             /\ Cat!OnceIn(Cat!InvoicesByCatStatus(invoice[i].category, invoice[i].status), i)
  <2> DEFINE these == {j \in Cat!Stored : invoice[j].category = invoice[i].category}
             same == byStatus[invoice[i].status]
  <2>1. i \in these /\ Contains(all, i) /\ i \in Filed
    BY <1>1 DEF Cat!Stored, Filed
  <2>2. invoice[i].status \in InvoiceStatuses /\ KeyOfStatus[i] = invoice[i].status
    BY <2>1, StoredIs DEF FiledRecord
  <2>3. same \in Seq(Filed) /\ IsInjective(same) /\ Contains(same, i)
    BY <2>1, <2>2 DEF CatInv, Indexed
  <2>4. /\ Cat!InvoicesByCategory(invoice[i].category) = Cat!Among(all, these)
        /\ Cat!InvoicesByCatStatus(invoice[i].category, invoice[i].status) = Cat!Among(same, these)
    BY DEF Cat!InvoicesByCategory, Cat!InvoicesByCatStatus, all
  <2> HIDE DEF these, same
  <2>5. Cat!OnceIn(Cat!Among(all, these), i)
    BY <1>1, <2>1, AmongIs, NamedOnce
  <2>6. Cat!OnceIn(Cat!Among(same, these), i)
    BY <2>1, <2>3, AmongIs, NamedOnce
  <2> QED BY <2>4, <2>5, <2>6
<1> QED BY <1>2, <1>4, <1>5 DEF Cat!CatalogueExact, Filed, InvoiceStatuses

LEMMA TagsAndRatingsAreOnce == ASSUME CatInv PROVE Cat!TagsAndRatingsOnce
<1> SUFFICES ASSUME NEW i \in Cat!Stored
    PROVE  /\ Cat!IsInjective(invoice[i].tags)
           /\ Cat!IsInjective([n \in DOMAIN invoice[i].ratings |-> invoice[i].ratings[n].by])
           /\ invoice[i].ratings # <<>> => \E m, n \in DOMAIN invoice[i].ratings :
                  /\ invoice[i].ratings[m].score <= invoice[i].average
                  /\ invoice[i].average <= invoice[i].ratings[n].score
           /\ \A t \in Spellings : Cat!Contains(Cat!InvoicesByTags({t}), i) <=>
                                     ~t.long /\ t.tag \in Cat!Range(invoice[i].tags)
  BY DEF Cat!TagsAndRatingsOnce
<1> DEFINE tags == invoice[i].tags
           ratings == invoice[i].ratings
<1>1. i \in Filed
  BY DEF Cat!Stored, Filed
<1>2. /\ tags \in Seq(Tags) /\ IsInjective(tags) /\ RatingsInv(ratings, invoice[i].average)
  BY <1>1, StoredIs DEF FiledInv, FiledRecord
<1>3. IsInjective([n \in DOMAIN ratings |-> ratings[n].by])
  BY <1>2 DEF RatingsInv, IsInjective
<1>4. ASSUME NEW t \in Spellings
      PROVE  Cat!Contains(Cat!InvoicesByTags({t}), i) <=> ~t.long /\ t.tag \in Cat!Range(tags)
  <2> DEFINE these == {j \in Cat!Stored : \A u \in {t} : Cat!HasTag(j, u)}
             all == Cat!AllInvoiceIds
  <2>1. /\ all \in Seq(Filed) /\ IsInjective(all) /\ Contains(all, i)
    BY AllIsAll
  <2>2. Cat!InvoicesByTags({t}) = Cat!Among(all, these)
    BY DEF Cat!InvoicesByTags
  <2>3. i \in these <=> Cat!HasTag(i, t)
    OBVIOUS
  <2> HIDE DEF these, all
  <2>4. Contains(Cat!Among(all, these), i) <=> i \in these
    BY <2>1, AmongIs
  <2>5. Cat!HasTag(i, t) <=> ~t.long /\ Contains(tags, t.tag)
    BY CatOperators, Zenon DEF Cat!HasTag
  <2>6. Contains(tags, t.tag) <=> t.tag \in Cat!Range(tags)
    BY <1>2 DEF Contains, Cat!Range
  <2>7. Cat!Contains(Cat!InvoicesByTags({t}), i) <=> Contains(Cat!Among(all, these), i)
    BY <2>2, CatOperators, Zenon
  <2> QED BY <2>3, <2>4, <2>5, <2>6, <2>7, Zenon
<1>5. Cat!IsInjective(tags) /\ Cat!IsInjective([n \in DOMAIN ratings |-> ratings[n].by])
  BY <1>2, <1>3, CatOperators, Zenon
<1> QED BY <1>2, <1>4, <1>5 DEF RatingsInv

LEMMA CatalogueInvariant == Cat!Spec => []CatInv
<1>1. Cat!Init => CatInv
  <2> SUFFICES ASSUME Cat!Init PROVE CatInv
    OBVIOUS
  <2>1. /\ invoice = [i \in Filed |-> Cat!Absent] /\ byStatus = [s \in InvoiceStatuses |-> <<>>]
        /\ byCustomer = [n \in Cat!Customers |-> <<>>] /\ byTaxId = [x \in Cat!TaxIds |-> <<>>]
    BY DEF Cat!Init, Filed, InvoiceStatuses
  <2>2. ASSUME NEW keys, NEW key, \A i \in Filed : key[i] \notin keys
        PROVE  Indexed([k \in keys |-> <<>>], keys, key)
    <3>1. IsInjective(<<>>) /\ <<>> \in Seq(Filed) /\ \A i : ~Contains(<<>>, i)
      BY DEF IsInjective, Contains
    <3> QED BY <2>2, <3>1 DEF Indexed
  <2>3. \A i \in Filed : KeyOfStatus[i] \notin InvoiceStatuses
    BY <2>1, FiledIsStored DEF KeyOfStatus
  <2>4. \A i \in Filed : KeyOfCustomer[i] \notin Cat!Customers /\ KeyOfTaxId[i] \notin Cat!TaxIds
    BY <2>1 DEF KeyOfCustomer, KeyOfTaxId, Cat!Stored, Cat!Customers, Cat!TaxIds
  <2>5. Indexed(byStatus, InvoiceStatuses, KeyOfStatus)
    BY <2>1, <2>2, <2>3
  <2>6. Indexed(byCustomer, Cat!Customers, KeyOfCustomer) /\ Indexed(byTaxId, Cat!TaxIds, KeyOfTaxId)
    BY <2>1, <2>2, <2>4
  <2> QED BY <2>1, <2>5, <2>6 DEF CatInv
<1>2. CatInv /\ [Cat!Next]_(Cat!vars) => CatInv'
  BY CatStep
<1> QED BY <1>1, <1>2, PTL DEF Cat!Spec

(* For any number of invoices, whatever is changed in whatever order: each   *)
(* index names an invoice where it belongs, once and nowhere else, and no    *)
(* search misses or repeats one (InvoiceStorage).                            *)
THEOREM CatalogueHolds == Cat!Spec => []CatalogueExact
<1>1. CatInv => CatalogueExact
  BY CatalogueIsExact, TagsAndRatingsAreOnce DEF CatalogueExact
<1> QED BY CatalogueInvariant, <1>1, PTL DEF Cat!Spec

----------------------------------------------------------------------------
(* Webhook secrets. *)

Record == [primary : Nat \cup {Nobody}, pending : Nat \cup {Nobody}, since : Nat,
           grace : Nat, rotating : BOOLEAN]

(* Nothing was generated before the subscriber is registered, and from then  *)
(* on the secrets that were neither replaced nor taken back are those of the *)
(* record: the primary one and, while a rotation is going on, the pending.   *)
SecretInv ==
    /\ subscriber \in Record /\ generated \in Nat /\ now \in Nat /\ retired \subseteq 1..generated
    /\ subscriber.since <= now
    /\ generated = 0 => subscriber.primary = Nobody /\ ~subscriber.rotating
    /\ generated > 0 => subscriber.primary \in 1..generated \ retired
    /\ subscriber.rotating =>
          subscriber.pending \in (1..generated \ retired) \ {subscriber.primary}
    /\ \A n \in 1..generated \ retired :
          n = subscriber.primary \/ (subscriber.rotating /\ n = subscriber.pending)

LEMMA InitSecrets == Sec!Init => SecretInv
BY GraceOK DEF Sec!Init, SecretInv, Record

(* A record from which the rotation has been taken is a record. *)
LEMMA EndedRecord ==
    ASSUME NEW s \in Record
    PROVE  /\ Sec!Ended(s) \in Record
           /\ Sec!Ended(s).primary = s.primary /\ ~Sec!Ended(s).rotating /\ Sec!Ended(s).since = 0
           /\ Sec!Promoted(s) \in Record
           /\ Sec!Promoted(s).primary = s.pending /\ ~Sec!Promoted(s).rotating /\ Sec!Promoted(s).since = 0
BY GraceOK DEF Record, Sec!Ended, Sec!Promoted

(* The pending secret replaces the primary one, which is retired. *)
LEMMA PromotedSecrets ==
    ASSUME SecretInv, subscriber.rotating,
           subscriber' = Sec!Promoted(subscriber), retired' = retired \cup {subscriber.primary},
           generated' = generated, now' = now
    PROVE  SecretInv'
<1>1. subscriber' \in Record /\ subscriber'.primary = subscriber.pending
      /\ ~subscriber'.rotating /\ subscriber'.since = 0
  BY EndedRecord DEF SecretInv
<1>2. subscriber.pending \in (1..generated \ retired) \ {subscriber.primary} /\ generated > 0
  BY DEF SecretInv
<1>3. /\ retired' \subseteq 1..generated'
      /\ generated' > 0 => subscriber'.primary \in 1..generated' \ retired'
  BY <1>1, <1>2 DEF SecretInv
<1>4. ASSUME NEW n \in 1..generated' \ retired' PROVE n = subscriber'.primary
  BY <1>1, <1>2, <1>4 DEF SecretInv
<1> QED BY <1>1, <1>2, <1>3, <1>4 DEF SecretInv

LEMMA RegisterSecrets == ASSUME SecretInv, Sec!Register PROVE SecretInv'
<1>1. subscriber' \in Record /\ subscriber'.primary = 1 /\ ~subscriber'.rotating
      /\ subscriber'.since = subscriber.since
  BY DEF SecretInv, Sec!Register, Record
<1>2. retired = {}
  BY DEF SecretInv, Sec!Register
<1> QED BY <1>1, <1>2, GraceOK DEF SecretInv, Sec!Register

LEMMA InitiateSecrets ==
    ASSUME SecretInv, NEW grace \in GracePeriods, Sec!InitiateRotation(grace)
    PROVE  SecretInv'
<1> DEFINE s == [subscriber EXCEPT !.pending = generated + 1, !.since = now, !.grace = grace,
                                   !.rotating = TRUE]
<1>a. subscriber \in Record /\ generated + 1 \in Nat /\ now \in Nat /\ grace \in Nat
  BY GraceOK DEF SecretInv
<1>b. s \in Record /\ s.primary = subscriber.primary /\ s.rotating = TRUE
      /\ s.pending = generated + 1 /\ s.since = now
  BY <1>a DEF Record
<1>1. /\ subscriber' \in Record /\ subscriber'.primary = subscriber.primary
      /\ subscriber'.rotating /\ subscriber'.pending = generated + 1 /\ subscriber'.since = now
  BY <1>b DEF Sec!InitiateRotation
<1>2. generated > 0 /\ ~subscriber.rotating /\ generated' = generated + 1 /\ retired' = retired /\ now' = now
  BY GraceOK DEF SecretInv, Sec!InitiateRotation, Sec!MayRotate
<1> QED BY <1>1, <1>2 DEF SecretInv

LEMMA CancelSecrets == ASSUME SecretInv, Sec!CancelRotation PROVE SecretInv'
<1>1. /\ subscriber' \in Record /\ subscriber'.primary = subscriber.primary
      /\ ~subscriber'.rotating /\ subscriber'.since = 0
  BY EndedRecord DEF SecretInv, Sec!CancelRotation
<1>2. subscriber.pending \in (1..generated \ retired) \ {subscriber.primary} /\ generated > 0
  BY DEF SecretInv, Sec!CancelRotation
<1>3. /\ retired' \subseteq 1..generated'
      /\ generated' > 0 => subscriber'.primary \in 1..generated' \ retired'
  BY <1>1, <1>2 DEF SecretInv, Sec!CancelRotation
<1>4. ASSUME NEW n \in 1..generated' \ retired' PROVE n = subscriber'.primary
  BY <1>1, <1>2, <1>4 DEF SecretInv, Sec!CancelRotation
<1> QED BY <1>1, <1>2, <1>3, <1>4 DEF SecretInv, Sec!CancelRotation

LEMMA SecretsStep == ASSUME SecretInv, [Sec!Next]_(Sec!vars) PROVE SecretInv'
<1>1. CASE Sec!Register  BY <1>1, RegisterSecrets
<1>2. CASE Sec!FinalizeRotation  BY <1>2, PromotedSecrets DEF Sec!FinalizeRotation
<1>3. CASE Sec!CancelRotation  BY <1>3, CancelSecrets
<1>4. CASE Sec!Verify
  <2>1. CASE Sec!Expired(subscriber)
    BY <1>4, <2>1, PromotedSecrets DEF Sec!Verify, Sec!Effective, Sec!Expired
  <2>2. CASE ~Sec!Expired(subscriber)
    BY <1>4, <2>2 DEF Sec!Verify, Sec!Effective, SecretInv
  <2> QED BY <2>1, <2>2
<1>5. CASE Sec!Tick  BY <1>5 DEF Sec!Tick, SecretInv, Record
<1>6. ASSUME NEW grace \in GracePeriods, Sec!InitiateRotation(grace) PROVE SecretInv'
  BY <1>6, InitiateSecrets
<1>7. CASE UNCHANGED Sec!vars  BY <1>7 DEF Sec!vars, SecretInv
<1> QED BY <1>1, <1>2, <1>3, <1>4, <1>5, <1>6, <1>7 DEF Sec!Next

(* The secrets of the record, less the one whose period has run out, are     *)
(* what verifySignature accepts.                                             *)
LEMMA SecretsAccepted == ASSUME SecretInv PROVE Sec!SecretsOverlap
<1> DEFINE s == subscriber
<1>1. CASE Sec!Expired(s)
  <2>1. Sec!Effective(s).primary = s.pending /\ ~Sec!Effective(s).rotating
    BY <1>1, EndedRecord DEF Sec!Effective, SecretInv
  <2>2. s.rotating /\ now >= s.since + s.grace
    BY <1>1 DEF Sec!Expired, SecretInv, Record
  <2>3. 1..generated \ retired = {s.primary, s.pending} /\ s.pending # s.primary /\ s.pending # Nobody
    BY <2>2, GraceOK DEF SecretInv
  <2> QED BY <2>1, <2>2, <2>3 DEF Sec!SecretsOverlap, Sec!Accepted
<1>2. CASE ~Sec!Expired(s)
  <2>1. Sec!Effective(s) = s
    BY <1>2 DEF Sec!Effective
  <2>2. ~(s.rotating /\ now >= s.since + s.grace)
    BY <1>2 DEF Sec!Expired, SecretInv, Record
  <2>3. CASE generated = 0
    BY <2>1, <2>2, <2>3 DEF Sec!SecretsOverlap, Sec!Accepted, SecretInv
  <2>4. CASE generated > 0 /\ s.rotating
    BY <2>1, <2>2, <2>4, GraceOK DEF Sec!SecretsOverlap, Sec!Accepted, SecretInv
  <2>5. CASE generated > 0 /\ ~s.rotating
    BY <2>1, <2>2, <2>5, GraceOK DEF Sec!SecretsOverlap, Sec!Accepted, SecretInv
  <2> QED BY <2>3, <2>4, <2>5 DEF SecretInv
<1> QED BY <1>1, <1>2

LEMMA SecretsInvariant == Sec!Spec => []SecretInv
<1>1. Sec!Init => SecretInv  BY InitSecrets
<1>2. SecretInv /\ [Sec!Next]_(Sec!vars) => SecretInv'  BY SecretsStep
<1> QED BY <1>1, <1>2, PTL DEF Sec!Spec

(* At any time, whatever rotations, cancellations and lapsed periods there   *)
(* were, the accepted secrets are those neither replaced nor taken back.     *)
THEOREM SecretsCurrent == Sec!Spec => []SecretsOverlap
<1>1. SecretInv => SecretsOverlap  BY SecretsAccepted DEF SecretsOverlap
<1> QED BY SecretsInvariant, <1>1, PTL DEF Sec!Spec

----------------------------------------------------------------------------
(* The read cache. *)

Fetch == [step : {"none", "asked", "read"}, key : Cache!Key, from : Nat, value : Nat, read : Nat,
          background : BOOLEAN]

Entry == [value : Nat, read : Nat, expires : Nat, overtaken : BOOLEAN]

Change == [type : {"invoice", "bid", "escrow"}, version : [Cache!Key -> Nat]]

(* What a stale answer may be older than the time to live. *)
Slack == IF serveStale THEN Latency ELSE 0

(* A fetch under way began at most Latency ago, in the background only where *)
(* stale answers are allowed, and has read the chain in between.             *)
FetchFits(f) ==
    f.step # "none" =>
        /\ f.from <= now /\ now <= f.from + Latency
        /\ f.background => serveStale
        /\ f.step = "read" => f.from <= f.read /\ f.read <= now

EntryFits(e, known) ==
    /\ e.expires <= e.read + Ttl + Slack
    /\ e.value < known => e.overtaken

CacheInv ==
    /\ now \in Nat /\ serveStale \in BOOLEAN
    /\ version \in [Cache!Key -> Nat] /\ announced \in [Cache!Key -> Nat]
    /\ unseen \subseteq Change
    /\ call \in [Cache!Caller -> Fetch] /\ cached \in [Cache!Key -> SUBSET Entry]
    /\ \A c \in Cache!Caller : FetchFits(call[c])
    /\ \A k \in Cache!Key : \A e \in cached[k] : EntryFits(e, announced[k])

LEMMA InitCache == Cache!Init => CacheInv
BY CacheOK DEF Cache!Init, CacheInv, Cache!NoCall, Cache!Key, Fetch, FetchFits

(* A step that only changes one fetch. *)
LEMMA CallStep ==
    ASSUME CacheInv, NEW c \in Cache!Caller, NEW f \in Fetch, FetchFits(f),
           call' = [call EXCEPT ![c] = f],
           UNCHANGED <<serveStale, version, unseen, cached, now, announced>>
    PROVE  CacheInv'
<1>1. call' \in [Cache!Caller -> Fetch] /\ \A d \in Cache!Caller : FetchFits(call'[d])
  BY DEF CacheInv
<1>2. \A d \in Cache!Caller : FetchFits(call[d])'
  BY <1>1 DEF FetchFits
<1> QED BY <1>1, <1>2 DEF CacheInv, EntryFits, Slack

LEMMA AskCache ==
    ASSUME CacheInv, NEW c \in Cache!Caller, NEW k \in Cache!Key,
           Cache!Revalidate(c, k) \/ Cache!Miss(c, k)
    PROVE  CacheInv'
<1>1. PICK f \in Fetch : /\ f.from = now /\ f.step = "asked" /\ (f.background => serveStale)
                         /\ call' = [call EXCEPT ![c] = f]
  <2>1. ASSUME NEW g \in Fetch, ~g.background
        PROVE  LET b == [g EXCEPT !.step = "asked", !.key = k, !.from = now, !.background = TRUE]
                   f == [g EXCEPT !.step = "asked", !.key = k, !.from = now]
               IN  /\ b \in Fetch /\ b.step = "asked" /\ b.from = now
                   /\ f \in Fetch /\ f.step = "asked" /\ f.from = now /\ ~f.background
    BY <2>1 DEF Fetch, CacheInv
  <2>2. Cache!NoCall \in Fetch /\ ~Cache!NoCall.background
    BY DEF Cache!NoCall, Fetch, Cache!Key
  <2>3. CASE Cache!Revalidate(c, k)
    BY <2>1, <2>2, <2>3, Zenon DEF Cache!Revalidate
  <2>4. CASE Cache!Miss(c, k)
    BY <2>1, <2>2, <2>4, Zenon DEF Cache!Miss
  <2> QED BY <2>3, <2>4
<1>2. FetchFits(f)
  BY <1>1, CacheOK DEF FetchFits, CacheInv
<1> QED BY <1>1, <1>2, CallStep DEF Cache!Revalidate, Cache!Miss

LEMMA ReadChain ==
    ASSUME CacheInv, NEW c \in Cache!Caller, Cache!Read(c) PROVE CacheInv'
<1> DEFINE f == [call[c] EXCEPT !.step = "read", !.value = version[call[c].key], !.read = now]
<1>1. call[c] \in Fetch /\ FetchFits(call[c]) /\ call[c].step = "asked"
  BY DEF CacheInv, Cache!Read
<1>2. version[call[c].key] \in Nat /\ now \in Nat
  BY <1>1 DEF Fetch, CacheInv
<1>3. f \in Fetch /\ f.from = call[c].from /\ f.read = now /\ f.background = call[c].background
  BY <1>1, <1>2 DEF Fetch
<1>4. call' = [call EXCEPT ![c] = f]
  BY DEF Cache!Read, CacheInv
<1> HIDE DEF f
<1>5. FetchFits(f)
  BY <1>1, <1>2, <1>3 DEF FetchFits, Fetch
<1> QED BY <1>3, <1>4, <1>5, CallStep DEF Cache!Read

LEMMA FailFetch ==
    ASSUME CacheInv, NEW c \in Cache!Caller, Cache!FetchFails(c) PROVE CacheInv'
<1>1. Cache!NoCall \in Fetch /\ FetchFits(Cache!NoCall)
  BY DEF Cache!NoCall, Fetch, FetchFits, Cache!Key
<1> QED BY <1>1, CallStep DEF Cache!FetchFails

LEMMA FillCache ==
    ASSUME CacheInv, NEW c \in Cache!Caller, Cache!Fill(c) PROVE CacheInv'
<1> DEFINE f == call[c]
           e == [value |-> f.value, read |-> f.read, expires |-> Cache!CachedAt(f) + Ttl,
                 overtaken |-> f.value < announced[f.key]]
<1>1. f \in Fetch /\ FetchFits(f) /\ f.step = "read"
  BY DEF CacheInv, Cache!Fill
<1>2. Cache!CachedAt(f) \in Nat /\ Cache!CachedAt(f) <= f.read + Slack
  BY <1>1, CacheOK DEF Cache!CachedAt, FetchFits, Fetch, CacheInv, Slack
<1>a. Slack \in Nat /\ Ttl \in Nat /\ f.read \in Nat /\ f.value \in Nat
      /\ announced[f.key] \in Nat
  BY <1>1, CacheOK DEF Slack, CacheInv, Fetch
<1>b. e \in Entry /\ e.expires <= e.read + Ttl + Slack
  BY <1>2, <1>a DEF Entry
<1>3. e \in Entry /\ EntryFits(e, announced[f.key])
  BY <1>b DEF EntryFits
<1>4. cached' = [cached EXCEPT ![f.key] = {e}] /\ call' = [call EXCEPT ![c] = Cache!NoCall]
      /\ UNCHANGED <<serveStale, version, unseen, now, announced>>
  BY DEF Cache!Fill
<1>5. f.key \in Cache!Key
  BY <1>1 DEF Fetch
<1>6. Cache!NoCall \in Fetch /\ FetchFits(Cache!NoCall)
  BY DEF Cache!NoCall, Fetch, FetchFits, Cache!Key
<1> HIDE DEF e, f
<1>7. /\ cached' \in [Cache!Key -> SUBSET Entry]
      /\ \A k \in Cache!Key : \A d \in cached'[k] : EntryFits(d, announced[k])
  BY <1>3, <1>4, <1>5 DEF CacheInv
<1>8. call' \in [Cache!Caller -> Fetch] /\ \A d \in Cache!Caller : FetchFits(call'[d])
  BY <1>4, <1>6 DEF CacheInv
<1>9. \A d \in Cache!Caller : FetchFits(call[d])'
  BY <1>4, <1>8 DEF FetchFits
<1>10. \A k \in Cache!Key : \A d \in cached'[k] : EntryFits(d, announced[k])'
  BY <1>4, <1>7 DEF EntryFits, Slack
<1> QED BY <1>4, <1>7, <1>8, <1>9, <1>10 DEF CacheInv

(* An event of which the code knows the lists evicts what it announces. *)
LEMMA InvalidateCache ==
    ASSUME CacheInv, NEW e \in unseen, Cache!Invalidate(e) PROVE CacheInv'
<1>1. e \in Change
  BY DEF CacheInv
<1>2. announced' \in [Cache!Key -> Nat] /\ cached' \in [Cache!Key -> SUBSET Entry]
  BY <1>1 DEF CacheInv, Cache!Invalidate, Change
<1>3. ASSUME NEW k \in Cache!Key, NEW d \in cached'[k] PROVE d \in cached[k] /\ announced'[k] = announced[k]
  <2>1. k \notin Cache!Evicts(e.type) /\ d \in cached[k]
    BY <1>3 DEF Cache!Invalidate, CacheInv
  <2>2. e.type = "escrow" \/ k \notin Cache!Concerns(e.type)
    BY <1>1, <2>1 DEF Change, Cache!Evicts, Cache!Concerns
  <2> QED BY <2>1, <2>2 DEF Cache!Invalidate, CacheInv
<1>4. \A k \in Cache!Key : \A d \in cached'[k] : EntryFits(d, announced'[k])
  BY <1>3 DEF CacheInv
<1>5. UNCHANGED <<serveStale, version, call, now>> /\ unseen' \subseteq Change
  BY DEF Cache!Invalidate, CacheInv
<1> QED BY <1>2, <1>4, <1>5 DEF CacheInv, EntryFits, FetchFits, Slack

LEMMA ChangeChain ==
    ASSUME CacheInv, NEW type \in {"invoice", "bid", "escrow"}, Cache!Change(type) PROVE CacheInv'
<1>1. version' \in [Cache!Key -> Nat]
  BY DEF CacheInv, Cache!Change
<1>2. [type |-> type, version |-> version'] \in Change
  BY <1>1 DEF Change
<1> QED BY <1>1, <1>2 DEF CacheInv, Cache!Change, EntryFits, FetchFits, Slack

LEMMA CacheStep == ASSUME CacheInv, [Cache!Next]_(Cache!vars) PROVE CacheInv'
<1>1. ASSUME NEW type \in {"invoice", "bid", "escrow"}, Cache!Change(type) PROVE CacheInv'
  BY <1>1, ChangeChain
<1>2. ASSUME NEW e \in unseen, Cache!Invalidate(e) PROVE CacheInv'
  BY <1>2, InvalidateCache
<1>3. ASSUME NEW c \in Cache!Caller, NEW k \in Cache!Key,
             Cache!Revalidate(c, k) \/ Cache!Miss(c, k)
      PROVE  CacheInv'
  BY <1>3, AskCache
<1>4. ASSUME NEW c \in Cache!Caller, Cache!Read(c) \/ Cache!Fill(c) \/ Cache!FetchFails(c)
      PROVE  CacheInv'
  BY <1>4, ReadChain, FillCache, FailFetch
<1>5. CASE Cache!Flush
  BY <1>5 DEF Cache!Flush, CacheInv, EntryFits, FetchFits, Slack
<1>6. CASE Cache!Tick
  <2>1. \A c \in Cache!Caller : FetchFits(call[c])'
    BY <1>6, CacheOK DEF Cache!Tick, CacheInv, FetchFits, Fetch
  <2> QED BY <1>6, <2>1 DEF Cache!Tick, CacheInv, EntryFits, Slack
<1>7. CASE UNCHANGED Cache!vars
  BY <1>7 DEF Cache!vars, CacheInv, EntryFits, FetchFits, Slack
<1> QED BY <1>1, <1>2, <1>3, <1>4, <1>5, <1>6, <1>7 DEF Cache!Next

LEMMA CacheInvariant == Cache!Spec => []CacheInv
<1>1. Cache!Init => CacheInv
  BY InitCache
<1>2. CacheInv /\ [Cache!Next]_(Cache!vars) => CacheInv'
  BY CacheStep
<1> QED BY <1>1, <1>2, PTL DEF Cache!Spec

(* What get returns without a mark was read at most the time to live ago,    *)
(* and what an event overtakes is in the cache only because a fetch was      *)
(* under way, for any number of callers and any order of fetches and events. *)
THEOREM AnswersFresh == Cache!Spec => []CacheFresh
<1>1. ASSUME CacheInv PROVE CacheFresh
  <2>1. ASSUME NEW k \in Cache!Key, NEW e \in cached[k], ~Cache!IsStale(e)
        PROVE  now - e.read <= Ttl + Slack
    <3>1. e \in Entry /\ EntryFits(e, announced[k])
      BY <1>1 DEF CacheInv
    <3> QED BY <1>1, <2>1, <3>1, CacheOK DEF CacheInv, Entry, EntryFits, Cache!IsStale, Slack
  <2>2. Cache!UnmarkedIsFresh
    BY <2>1 DEF Cache!UnmarkedIsFresh, Slack
  <2>3. Cache!EvictedUnlessOvertaken
    BY <1>1 DEF CacheInv, EntryFits, Cache!EvictedUnlessOvertaken
  <2> QED BY <2>2, <2>3 DEF CacheFresh, Cache!CacheFresh
<1> QED BY CacheInvariant, <1>1, PTL DEF Cache!Spec

----------------------------------------------------------------------------
(* Backfills. *)

Statuses == {"running", "paused", "completed", "failed"}

Run == [key : RequestKeys \cup {Nobody}, first : Nat, last : Nat, status : Statuses, processed : Nat,
        cursor : Nat]

Waits == {"schedule", "completed"}

Counts(run) ==
    /\ run.processed = run.cursor - run.first
    /\ run.cursor <= run.last + 1
    /\ run.status = "completed" => run.cursor = run.last + 1

(* w are the calls that wait, ticks and stands whether the run is in timer and in stalled. *)
Driven(run, w, ticks, stands) ==
    run.status = "running" => ticks \/ stands \/ \E n \in DOMAIN w : w[n] = "schedule"

RunInv ==
    /\ runs \in Seq(Run) /\ waiting \in Seq(Seq(Waits)) /\ Len(waiting) = Len(runs)
    /\ timer \subseteq DOMAIN runs /\ stalled \subseteq DOMAIN runs
    /\ \A r \in DOMAIN runs :
          /\ Counts(runs[r])
          /\ Driven(runs[r], waiting[r], r \in timer, r \in stalled)

(* Every call but the one that starts a run changes one run and what waits on it. *)
OneRun(r, run, w) ==
    /\ runs' = [runs EXCEPT ![r] = run] /\ waiting' = [waiting EXCEPT ![r] = w]
    /\ timer' \ {r} = timer \ {r} /\ stalled' \ {r} = stalled \ {r}

LEMMA OneRunInv ==
    ASSUME RunInv, NEW r \in DOMAIN runs, NEW run \in Run, NEW w \in Seq(Waits),
           OneRun(r, run, w), Counts(run), Driven(run, w, r \in timer', r \in stalled')
    PROVE  RunInv'
<1>1. runs' \in Seq(Run) /\ DOMAIN runs' = DOMAIN runs /\ runs'[r] = run
      /\ \A q \in DOMAIN runs : q # r => runs'[q] = runs[q]
  BY DEF RunInv, OneRun
<1>2. waiting' \in Seq(Seq(Waits)) /\ Len(waiting') = Len(waiting) /\ waiting'[r] = w
      /\ \A q \in DOMAIN runs : q # r => waiting'[q] = waiting[q]
  BY DEF RunInv, OneRun
<1>3. timer' \subseteq DOMAIN runs /\ stalled' \subseteq DOMAIN runs
      /\ \A q \in DOMAIN runs : q # r => (q \in timer' <=> q \in timer) /\ (q \in stalled' <=> q \in stalled)
  BY DEF RunInv, OneRun
<1>4. ASSUME NEW q \in DOMAIN runs
      PROVE  Counts(runs'[q]) /\ Driven(runs'[q], waiting'[q], q \in timer', q \in stalled')
  <2>1. CASE q = r
    BY <1>1, <1>2, <2>1, Zenon
  <2>2. CASE q # r
    BY <1>1, <1>2, <1>3, <2>2 DEF RunInv, Driven
  <2> QED BY <2>1, <2>2
<1>5. Len(waiting') = Len(runs')
  BY <1>1, <1>2 DEF RunInv
<1> QED BY <1>1, <1>2, <1>3, <1>4, <1>5 DEF RunInv, Counts, Driven

(* A run as it is where one of its calls is to be made. *)
LEMMA RunIs ==
    ASSUME RunInv, NEW r \in DOMAIN runs
    PROVE  /\ runs[r] \in Run /\ waiting[r] \in Seq(Waits)
           /\ Counts(runs[r]) /\ Driven(runs[r], waiting[r], r \in timer, r \in stalled)
           /\ waiting = [waiting EXCEPT ![r] = waiting[r]]
           /\ runs = [runs EXCEPT ![r] = runs[r]]
BY DEF RunInv

(* Another status leaves the count as it was. *)
LEMMA Restated ==
    ASSUME NEW run \in Run, NEW s \in Statuses, Counts(run), s # "completed"
    PROVE  LET new == [run EXCEPT !.status = s]
           IN  new \in Run /\ Counts(new) /\ new.status = s /\ new.cursor = run.cursor
BY DEF Run, Counts

LEMMA AwaitKeeps ==
    ASSUME NEW w \in Seq(Waits), NEW what \in Waits
    PROVE  /\ Append(w, what) \in Seq(Waits)
           /\ what = "schedule" => \E n \in DOMAIN Append(w, what) : Append(w, what)[n] = "schedule"
<1>1. Append(w, what)[Len(w) + 1] = what /\ Len(w) + 1 \in DOMAIN Append(w, what)
  OBVIOUS
<1> QED BY <1>1

(* A call that no longer waits takes no other with it. *)
LEMMA AnsweredKeeps ==
    ASSUME NEW w \in Seq(Waits), NEW n \in DOMAIN w
    PROVE  /\ Bf!RemoveAt(w, n) \in Seq(Waits)
           /\ \A m \in DOMAIN w : m # n => \E k \in DOMAIN Bf!RemoveAt(w, n) :
                                               Bf!RemoveAt(w, n)[k] = w[m]
<1> DEFINE v == Bf!RemoveAt(w, n)
           a == SubSeq(w, 1, n - 1)
           b == SubSeq(w, n + 1, Len(w))
<1>1. v = a \o b
  BY DEF Bf!RemoveAt
<1>2. /\ a \in Seq(Waits) /\ b \in Seq(Waits) /\ Len(a) = n - 1 /\ Len(b) = Len(w) - n
      /\ \A m \in 1..(n - 1) : a[m] = w[m]
      /\ \A m \in 1..(Len(w) - n) : b[m] = w[m + n]
  OBVIOUS
<1> HIDE DEF v, a, b
<1>3. v \in Seq(Waits) /\ Len(v) = Len(w) - 1
  BY <1>1, <1>2
<1>4. ASSUME NEW m \in DOMAIN w, m # n PROVE \E k \in DOMAIN v : v[k] = w[m]
  <2>1. CASE m < n
    <3>1. m \in DOMAIN v /\ v[m] = a[m]
      BY <1>1, <1>2, <1>3, <2>1
    <3> QED BY <1>2, <2>1, <3>1
  <2>2. CASE m > n
    <3>1. m - 1 \in DOMAIN v /\ v[m - 1] = b[m - n]
      BY <1>1, <1>2, <1>3, <2>2
    <3>2. m - n \in 1..(Len(w) - n) /\ (m - n) + n = m
      BY <2>2
    <3>3. b[m - n] = w[m]
      BY <1>2, <3>2
    <3> QED BY <3>1, <3>3
  <2> QED BY <1>4, <2>1, <2>2
<1> QED BY <1>3, <1>4 DEF v

LEMMA StartInv ==
    ASSUME RunInv, NEW key \in RequestKeys \cup {Nobody}, NEW range \in Ranges,
           Bf!Start(key, range)
    PROVE  RunInv'
<1> DEFINE run == [key |-> key, first |-> range.first, last |-> range.last,
                   status |-> "running", processed |-> 0, cursor |-> range.first]
           new == Len(runs) + 1
<1>1. run \in Run /\ Counts(run)
  BY BackfillOK DEF Run, Counts, Bf!Start, Statuses
<1>2. runs' = Append(runs, run) /\ waiting' = Append(waiting, <<"schedule">>)
      /\ UNCHANGED <<timer, stalled>>
  BY DEF Bf!Start
<1> HIDE DEF run
<1>3. runs' \in Seq(Run) /\ DOMAIN runs' = DOMAIN runs \cup {new} /\ runs'[new] = run
      /\ \A q \in DOMAIN runs : runs'[q] = runs[q]
  BY <1>1, <1>2 DEF RunInv
<1>4. <<"schedule">> \in Seq(Waits)
  BY DEF Waits
<1>5. waiting' \in Seq(Seq(Waits)) /\ Len(waiting') = Len(runs') /\ waiting'[new] = <<"schedule">>
      /\ \A q \in DOMAIN runs : waiting'[q] = waiting[q]
  BY <1>2, <1>4 DEF RunInv
<1>6. ASSUME NEW q \in DOMAIN runs
      PROVE  Counts(runs'[q]) /\ Driven(runs'[q], waiting'[q], q \in timer', q \in stalled')
  BY <1>2, <1>3, <1>5 DEF RunInv, Driven
<1>7. Driven(run, waiting'[new], new \in timer', new \in stalled')
  BY <1>5 DEF Driven
<1>8. timer' \subseteq DOMAIN runs' /\ stalled' \subseteq DOMAIN runs'
  BY <1>2, <1>3 DEF RunInv
<1>9. \A q \in DOMAIN runs' :
        Counts(runs'[q]) /\ Driven(runs'[q], waiting'[q], q \in timer', q \in stalled')
  BY <1>1, <1>3, <1>6, <1>7
<1> QED BY <1>3, <1>5, <1>8, <1>9 DEF RunInv, Counts, Driven

LEMMA PauseInv == ASSUME RunInv, NEW r \in DOMAIN runs, Bf!Pause(r) PROVE RunInv'
<1> DEFINE new == [runs[r] EXCEPT !.status = "paused"]
<1>1. new \in Run /\ Counts(new) /\ new.status = "paused"
  BY RunIs, Restated DEF Statuses
<1>2. runs' = [runs EXCEPT ![r] = new]
  BY DEF Bf!Pause
<1>3. OneRun(r, new, waiting[r])
  BY <1>2, RunIs DEF OneRun, Bf!Pause
<1> HIDE DEF new
<1> QED BY <1>1, <1>3, RunIs, OneRunInv DEF Driven

LEMMA ResumeInv == ASSUME RunInv, NEW r \in DOMAIN runs, Bf!Resume(r) PROVE RunInv'
<1> DEFINE new == [runs[r] EXCEPT !.status = "running"]
           w == Append(waiting[r], "schedule")
<1>1. new \in Run /\ Counts(new) /\ new.status = "running"
  BY RunIs, Restated DEF Statuses
<1>2. runs' = [runs EXCEPT ![r] = new] /\ waiting' = [waiting EXCEPT ![r] = w]
  BY DEF Bf!Resume, Bf!Await, Bf!AfterResume
<1>3. OneRun(r, new, w)
  BY <1>2 DEF OneRun, Bf!Resume
<1>4. w \in Seq(Waits) /\ \E n \in DOMAIN w : w[n] = "schedule"
  BY RunIs, AwaitKeeps DEF Waits
<1> HIDE DEF new, w
<1> QED BY <1>1, <1>3, <1>4, OneRunInv DEF Driven

LEMMA WrittenInv ==
    ASSUME RunInv, NEW r \in DOMAIN runs, NEW n \in DOMAIN waiting[r],
           Bf!Written(r, n) \/ Bf!NotWritten(r, n)
    PROVE  RunInv'
<1> DEFINE w == Bf!RemoveAt(waiting[r], n)
           failed == [runs[r] EXCEPT !.status = "failed"]
<1>1. waiting' = [waiting EXCEPT ![r] = w] /\ w \in Seq(Waits)
  BY RunIs, AnsweredKeeps DEF Bf!Written, Bf!NotWritten
<1>2. waiting[r][n] # "schedule" /\ (\E m \in DOMAIN waiting[r] : waiting[r][m] = "schedule")
        => \E m \in DOMAIN w : w[m] = "schedule"
  BY RunIs, AnsweredKeeps
<1>3. failed \in Run /\ Counts(failed) /\ failed.status = "failed"
  BY RunIs, Restated DEF Statuses
<1>4. waiting[r][n] \in Waits
  BY RunIs
<1> HIDE DEF w, failed
<1>5. CASE Bf!Written(r, n)
  <2>1. OneRun(r, runs[r], w)
    BY <1>1, <1>5, RunIs DEF OneRun, Bf!Written
  <2>2. Driven(runs[r], w, r \in timer', r \in stalled')
    BY <1>2, <1>5, RunIs DEF Driven, Bf!Written
  <2> QED BY <1>1, <2>1, <2>2, RunIs, OneRunInv
<1>6. CASE Bf!NotWritten(r, n) /\ waiting[r][n] = "completed"
  <2>1. OneRun(r, failed, w)
    BY <1>1, <1>6 DEF OneRun, Bf!NotWritten, failed
  <2> QED BY <1>1, <1>3, <2>1, OneRunInv DEF Driven
<1>7. CASE Bf!NotWritten(r, n) /\ waiting[r][n] = "schedule"
  <2>1. OneRun(r, runs[r], w) /\ r \in stalled'
    BY <1>1, <1>7, RunIs DEF OneRun, Bf!NotWritten
  <2> QED BY <1>1, <2>1, RunIs, OneRunInv DEF Driven
<1> QED BY <1>4, <1>5, <1>6, <1>7 DEF Waits

(* A chunk begins where the last one ended and does not pass the end. *)
LEMMA ChunkFits ==
    ASSUME NEW run \in Run, Counts(run)
    PROVE  LET end == Bf!ChunkEnd(run)
           IN  end \in Int /\ end + 1 >= run.cursor /\ end <= run.last
<1>1. run.cursor \in Nat /\ run.last \in Nat /\ run.first \in Nat
      /\ Chunk \in Nat /\ Chunk > 0
  BY BackfillOK DEF Run
<1> QED BY <1>1 DEF Bf!ChunkEnd, Counts

(* A chunk that ends at end is counted as long as it is, the last one too. *)
LEMMA ChunkCounts ==
    ASSUME NEW run \in Run, Counts(run), run.status = "running",
           NEW end \in Int, end + 1 >= run.cursor, end <= run.last
    PROVE  LET new  == [run EXCEPT !.processed = @ + end - run.cursor + 1, !.cursor = end + 1]
               done == [run EXCEPT !.processed = @ + end - run.cursor + 1, !.cursor = end + 1,
                                   !.status = "completed"]
           IN  /\ new \in Run /\ Counts(new)
               /\ end = run.last => done \in Run /\ Counts(done)
               /\ done.status = "completed"
<1> DEFINE p == run.processed + end - run.cursor + 1
           c == end + 1
<1>1. run.cursor \in Nat /\ run.last \in Nat /\ run.first \in Nat /\ run.processed \in Nat
  BY DEF Run
<1>2. p \in Nat /\ c \in Nat /\ p = c - run.first /\ c <= run.last + 1
  BY <1>1 DEF Counts
<1> HIDE DEF p, c
<1>3. ASSUME NEW s \in Statuses
      PROVE  LET r == [run EXCEPT !.processed = p, !.cursor = c, !.status = s]
             IN  r \in Run /\ r.processed = p /\ r.cursor = c /\ r.status = s
                 /\ r.first = run.first /\ r.last = run.last
  BY <1>2 DEF Run
<1>4. LET r == [run EXCEPT !.processed = p, !.cursor = c]
      IN  r \in Run /\ r.processed = p /\ r.cursor = c /\ r.status = run.status
          /\ r.first = run.first /\ r.last = run.last
  BY <1>2 DEF Run
<1> DEFINE new  == [run EXCEPT !.processed = p, !.cursor = c]
           done == [run EXCEPT !.processed = p, !.cursor = c, !.status = "completed"]
<1>5. new \in Run /\ Counts(new)
  BY <1>2, <1>4 DEF Counts
<1>6. done \in Run /\ done.status = "completed" /\ done.processed = p /\ done.cursor = c
      /\ done.first = run.first /\ done.last = run.last
  BY <1>3 DEF Statuses
<1> HIDE DEF done
<1>7. end = run.last => Counts(done)
  BY <1>2, <1>6 DEF Counts, c
<1> QED BY <1>5, <1>6, <1>7 DEF done, p, c

LEMMA TickInv ==
    ASSUME RunInv, NEW r \in DOMAIN runs,
           Bf!Tick(r) \/ Bf!ProcessChunk(r) \/ Bf!Complete(r) \/ Bf!ChunkFails(r)
    PROVE  RunInv'
<1> DEFINE end == Bf!ChunkEnd(runs[r])
           p == runs[r].processed + end - runs[r].cursor + 1
           new == [runs[r] EXCEPT !.processed = p, !.cursor = end + 1]
           done == [runs[r] EXCEPT !.processed = p, !.cursor = end + 1, !.status = "completed"]
           failed == [runs[r] EXCEPT !.status = "failed"]
<1>1. runs[r] \in Run /\ Counts(runs[r])
      /\ end \in Int /\ end + 1 >= runs[r].cursor /\ end <= runs[r].last
  BY RunIs, ChunkFits
<1>2. CASE Bf!Tick(r)
  <2>1. OneRun(r, runs[r], waiting[r]) /\ runs[r].status # "running"
    BY <1>2, RunIs DEF OneRun, Bf!Tick, Bf!Works
  <2> QED BY <2>1, RunIs, OneRunInv DEF Driven
<1>3. CASE Bf!ProcessChunk(r)
  <2>1. runs[r].status = "running" /\ r \in timer /\ timer' = timer
        /\ runs' = [runs EXCEPT ![r] = new] /\ waiting' = waiting /\ stalled' = stalled
    BY <1>3 DEF Bf!ProcessChunk, Bf!Works
  <2>2. new \in Run /\ Counts(new)
    BY <1>1, <2>1, ChunkCounts
  <2> HIDE DEF new
  <2>3. OneRun(r, new, waiting[r])
    BY <2>1, RunIs DEF OneRun
  <2>4. Driven(new, waiting[r], r \in timer', r \in stalled')
    BY <2>1 DEF Driven
  <2> QED BY <2>2, <2>3, <2>4, RunIs, OneRunInv
<1>4. CASE Bf!Complete(r)
  <2> DEFINE w == Append(waiting[r], "completed")
  <2>1. runs[r].status = "running" /\ runs' = [runs EXCEPT ![r] = done]
        /\ waiting' = [waiting EXCEPT ![r] = w] /\ timer' = timer \ {r} /\ stalled' = stalled
    BY <1>4 DEF Bf!Complete, Bf!Works, Bf!Await
  <2>2. end = runs[r].last
    BY <1>1, <1>4 DEF Bf!Complete, Run
  <2>3. done \in Run /\ Counts(done) /\ done.status = "completed"
    BY <1>1, <2>1, <2>2, ChunkCounts
  <2>4. w \in Seq(Waits)
    BY RunIs, AwaitKeeps DEF Waits
  <2> HIDE DEF done, w
  <2>5. OneRun(r, done, w)
    BY <2>1 DEF OneRun
  <2>6. Driven(done, w, r \in timer', r \in stalled')
    BY <2>3 DEF Driven
  <2> QED BY <2>3, <2>4, <2>5, <2>6, OneRunInv
<1>5. CASE Bf!ChunkFails(r)
  <2>1. failed \in Run /\ Counts(failed) /\ failed.status = "failed"
    BY <1>1, Restated DEF Statuses
  <2>2. OneRun(r, failed, waiting[r])
    BY <1>5, RunIs DEF OneRun, Bf!ChunkFails
  <2> HIDE DEF failed
  <2> QED BY <2>1, <2>2, RunIs, OneRunInv DEF Driven
<1> QED BY <1>2, <1>3, <1>4, <1>5

LEMMA BackfillStep == ASSUME RunInv, [Bf!Next]_(Bf!vars) PROVE RunInv'
<1>1. ASSUME NEW key \in RequestKeys \cup {Nobody}, NEW range \in Ranges, Bf!Start(key, range)
      PROVE  RunInv'
  BY <1>1, StartInv
<1>2. ASSUME NEW r \in DOMAIN runs, Bf!Pause(r) \/ Bf!Resume(r)
      PROVE  RunInv'
  BY <1>2, PauseInv, ResumeInv
<1>3. ASSUME NEW r \in DOMAIN runs,
             Bf!Tick(r) \/ Bf!ProcessChunk(r) \/ Bf!Complete(r) \/ Bf!ChunkFails(r)
      PROVE  RunInv'
  BY <1>3, TickInv
<1>4. ASSUME NEW r \in DOMAIN runs, NEW n \in DOMAIN waiting[r],
             Bf!Written(r, n) \/ Bf!NotWritten(r, n)
      PROVE  RunInv'
  BY <1>4, WrittenInv
<1>5. CASE UNCHANGED Bf!vars
  BY <1>5 DEF Bf!vars, RunInv, Counts, Driven
<1> QED BY <1>1, <1>2, <1>3, <1>4, <1>5 DEF Bf!Next

PauseHolds == \A r \in DOMAIN runs : runs[r].status = "paused" => runs'[r].cursor = runs[r].cursor

(* Only a run that is running moves its cursor. *)
LEMMA PausedStep == ASSUME RunInv, [Bf!Next]_(Bf!vars) PROVE PauseHolds
<1>1. ASSUME NEW key \in RequestKeys \cup {Nobody}, NEW range \in Ranges, Bf!Start(key, range)
      PROVE  PauseHolds
  BY <1>1 DEF Bf!Start, RunInv, PauseHolds
<1>2. ASSUME NEW r \in DOMAIN runs, NEW s \in Statuses,
             runs' = [runs EXCEPT ![r] = [runs[r] EXCEPT !.status = s]]
      PROVE  PauseHolds
  <2>1. [runs[r] EXCEPT !.status = s].cursor = runs[r].cursor
    BY RunIs DEF Run
  <2> QED BY <1>2, <2>1 DEF RunInv, PauseHolds
<1>3. ASSUME NEW r \in DOMAIN runs, runs[r].status = "running",
             \A q \in DOMAIN runs : q # r => runs'[q] = runs[q]
      PROVE  PauseHolds
  BY <1>3 DEF PauseHolds
<1>4. ASSUME NEW r \in DOMAIN runs, Bf!Pause(r) \/ Bf!Resume(r) \/ Bf!ChunkFails(r)
      PROVE  PauseHolds
  BY <1>2, <1>4 DEF Bf!Pause, Bf!Resume, Bf!ChunkFails, Statuses
<1>5. ASSUME NEW r \in DOMAIN runs, Bf!ProcessChunk(r) \/ Bf!Complete(r) PROVE PauseHolds
  <2>1. runs[r].status = "running" /\ \A q \in DOMAIN runs : q # r => runs'[q] = runs[q]
    BY <1>5 DEF Bf!ProcessChunk, Bf!Complete, Bf!Works, RunInv
  <2> QED BY <1>3, <2>1
<1>6. ASSUME NEW r \in DOMAIN runs, NEW n \in DOMAIN waiting[r], Bf!NotWritten(r, n)
      PROVE  PauseHolds
  BY <1>2, <1>6 DEF Bf!NotWritten, PauseHolds, Statuses
<1>7. ASSUME runs' = runs PROVE PauseHolds
  BY <1>7 DEF PauseHolds
<1>8. ASSUME NEW r \in DOMAIN runs, Bf!Tick(r) \/ \E n \in DOMAIN waiting[r] : Bf!Written(r, n)
      PROVE  PauseHolds
  BY <1>7, <1>8 DEF Bf!Tick, Bf!Written
<1>9. CASE UNCHANGED Bf!vars
  BY <1>7, <1>9 DEF Bf!vars
<1> QED BY <1>1, <1>4, <1>5, <1>6, <1>8, <1>9 DEF Bf!Next

LEMMA BackfillInvariant == Bf!Spec => []RunInv
<1>1. Bf!Init => RunInv
  BY DEF Bf!Init, RunInv
<1>2. RunInv /\ [Bf!Next]_(Bf!vars) => RunInv'
  BY BackfillStep
<1> QED BY <1>1, <1>2, PTL DEF Bf!Spec

(* Every ledger of a run is counted once, over pauses, failures and repeated *)
(* resumptions; a run that is running has a next step unless the audit file  *)
(* failed it; a paused one does not move.  For any number of runs, keys and  *)
(* calls that wait, and any chunk and ranges.                                *)
THEOREM BackfillsAccounted == Bf!Spec => BackfillsCounted
<1>1. RunInv => Bf!CountedOnce
  BY DEF RunInv, Counts, Bf!CountedOnce
<1>2. RunInv => Bf!RunningIsDriven
  BY DEF RunInv, Driven, Bf!RunningIsDriven
<1>3. RunInv /\ [Bf!Next]_(Bf!vars) => PauseHolds
  BY PausedStep
<1> QED BY BackfillInvariant, <1>1, <1>2, <1>3, PTL
      DEF Bf!Spec, BackfillsCounted, Bf!BackfillsCounted, Bf!PausedStands, PauseHolds

----------------------------------------------------------------------------
(* Event ingestion. *)

(* Inside a call of ingest incoming is an event that may follow the stored   *)
(* one, which is the ingester's own until the store has taken incoming; an   *)
(* idle ingester has what the store has.                                     *)
IngInv ==
    /\ handled \in Seq(Ing!Range(Chain))
    /\ doing \in {"down", "idle", "handling", "storing", "noting"}
    /\ doing \in {"handling", "storing", "noting"} => incoming \in Ing!Range(Chain)
    /\ doing \in {"idle", "handling", "storing"} => lastCursor = stored
    /\ doing \in {"handling", "storing"} /\ stored # Nobody => Ing!IsNext(stored, incoming)
    /\ doing = "storing" => incoming \in Ing!Range(handled)
    /\ doing = "noting" => incoming = stored
    /\ stored # Nobody => stored \in Ing!Range(Chain) /\ stored \in Ing!Range(handled)

LEMMA StepsOrder ==
    /\ Ing!Steps[1] = "handling"
    /\ Ing!Proceed("handling") => doing = "handling" /\ doing' = "storing"
    /\ Ing!Proceed("storing") => doing = "storing" /\ doing' = "noting"
<1>1. Ing!Steps[1] = "handling" /\ Ing!Steps[2] = "storing" /\ Ing!Steps[3] = "noting"
  BY DEF Ing!Steps
<1>2. \A n \in 2..3 : n = 2 \/ n = 3
  OBVIOUS
<1>3. (CHOOSE n \in 2..3 : Ing!Steps[n - 1] = "handling") = 2
  <2>1. 2 \in 2..3 /\ Ing!Steps[2 - 1] = "handling"
    BY <1>1
  <2>2. \A n \in 2..3 : Ing!Steps[n - 1] = "handling" => n = 2
    BY <1>1, <1>2
  <2> QED BY <2>1, <2>2
<1>4. (CHOOSE n \in 2..3 : Ing!Steps[n - 1] = "storing") = 3
  <2>1. 3 \in 2..3 /\ Ing!Steps[3 - 1] = "storing"
    BY <1>1
  <2>2. \A n \in 2..3 : Ing!Steps[n - 1] = "storing" => n = 3
    BY <1>1, <1>2
  <2> QED BY <2>1, <2>2
<1> QED BY <1>1, <1>3, <1>4 DEF Ing!Proceed

(* What compareCursors takes as the next event is at the next position. *)
LEMMA AfterIsNext ==
    ASSUME NEW p, NEW q, Ing!Compare(p, q) = "after"
    PROVE  Ing!IsNext(p, q)
BY DEF Ing!Compare, Ing!IsNext

LEMMA HandledGrows ==
    ASSUME NEW S, NEW s \in Seq(S), NEW e \in S
    PROVE  /\ Append(s, e) \in Seq(S)
           /\ Append(s, e)[Len(Append(s, e))] = e
           /\ Ing!Range(s) \subseteq Ing!Range(Append(s, e))
           /\ e \in Ing!Range(Append(s, e))
<1>1. /\ Append(s, e) \in Seq(S) /\ Len(Append(s, e)) = Len(s) + 1
      /\ \A n \in 1..Len(s) : Append(s, e)[n] = s[n]
      /\ Append(s, e)[Len(s) + 1] = e
      /\ Len(s) \in Nat
      /\ DOMAIN s = 1..Len(s) /\ DOMAIN Append(s, e) = 1..Len(s) + 1
  OBVIOUS
<1> QED BY <1>1 DEF Ing!Range

LEMMA InitIngestion == Ing!Init => IngInv
BY DEF Ing!Init, IngInv

LEMMA NextIngestion == ASSUME IngInv, [Ing!Next]_(Ing!vars) PROVE IngInv'
<1>1. ASSUME NEW e \in Ing!Range(Chain), Ing!Accept(e) PROVE IngInv'
  <2>1. stored # Nobody => Ing!IsNext(stored, e)
    BY <1>1, AfterIsNext DEF Ing!Accept, Ing!Accepts, IngInv
  <2>2. doing' = "handling" /\ incoming' = e /\ doing = "idle"
        /\ UNCHANGED <<stored, lastCursor, handled>>
    BY <1>1, StepsOrder DEF Ing!Accept
  <2> QED BY <2>1, <2>2 DEF IngInv, Ing!IsNext
<1>2. ASSUME NEW e \in Ing!Range(Chain), Ing!Refuse(e) PROVE IngInv'
  BY <1>2 DEF Ing!Refuse, IngInv, Ing!IsNext
<1>3. CASE Ing!Resume  BY <1>3 DEF Ing!Resume, Ing!Resumed, IngInv, Ing!IsNext
<1>4. CASE Ing!Handle
  <2>1. doing = "handling" /\ doing' = "storing" /\ handled' = Append(handled, incoming)
        /\ UNCHANGED <<stored, lastCursor, incoming>>
    BY <1>4, StepsOrder DEF Ing!Handle
  <2>2. /\ handled' \in Seq(Ing!Range(Chain)) /\ Ing!Range(handled) \subseteq Ing!Range(handled')
        /\ incoming \in Ing!Range(handled')
    BY <2>1, HandledGrows DEF IngInv
  <2> QED BY <2>1, <2>2 DEF IngInv, Ing!IsNext
<1>5. CASE Ing!Store
  <2>1. doing = "storing" /\ doing' = "noting" /\ stored' = incoming
        /\ UNCHANGED <<lastCursor, incoming, handled>>
    BY <1>5, StepsOrder DEF Ing!Store
  <2> QED BY <2>1 DEF IngInv
<1>6. CASE Ing!Note  BY <1>6 DEF Ing!Note, IngInv
<1>7. CASE Ing!Crash  BY <1>7 DEF Ing!Crash, IngInv
<1>8. CASE UNCHANGED Ing!vars  BY <1>8 DEF Ing!vars, IngInv, Ing!IsNext
<1> QED BY <1>1, <1>2, <1>3, <1>4, <1>5, <1>6, <1>7, <1>8 DEF Ing!Next

LEMMA StepHandlesNext ==
    ASSUME IngInv, [Ing!Next]_(Ing!vars), handled' # handled, stored # Nobody
    PROVE  Ing!IsNext(stored, handled'[Len(handled')])
<1>1. Ing!Handle
  BY DEF Ing!Next, Ing!vars, Ing!Accept, Ing!Refuse, Ing!Resume, Ing!Store, Ing!Note, Ing!Crash
<1>2. doing = "handling" /\ handled' = Append(handled, incoming)
  BY <1>1, StepsOrder DEF Ing!Handle
<1>3. handled'[Len(handled')] = incoming
  BY <1>2, HandledGrows DEF IngInv
<1> QED BY <1>2, <1>3 DEF IngInv

LEMMA StepStoresNext ==
    ASSUME IngInv, [Ing!Next]_(Ing!vars), stored' # stored, stored # Nobody
    PROVE  Ing!IsNext(stored, stored')
<1>1. Ing!Store
  BY DEF Ing!Next, Ing!vars, Ing!Accept, Ing!Refuse, Ing!Resume, Ing!Handle, Ing!Note, Ing!Crash
<1>2. doing = "storing" /\ stored' = incoming
  BY <1>1, StepsOrder DEF Ing!Store
<1> QED BY <1>2 DEF IngInv

LEMMA IngestionInvariant == Ing!Spec => []IngInv
<1>1. Ing!Init => IngInv  BY InitIngestion
<1>2. IngInv /\ [Ing!Next]_(Ing!vars) => IngInv'  BY NextIngestion
<1> QED BY <1>1, <1>2, PTL DEF Ing!Spec

(* Wherever the process dies inside a call, and whatever the source delivers *)
(* after it, the event the store points at has been handled, and the next    *)
(* call compares with that one.                                              *)
THEOREM NoEventLost == Ing!Spec => [](Ing!CommittedWasHandled /\ Ing!CopyFollowsStore)
<1>1. IngInv => Ing!CommittedWasHandled /\ Ing!CopyFollowsStore
  BY DEF IngInv, Ing!CommittedWasHandled, Ing!CopyFollowsStore
<1> QED BY IngestionInvariant, <1>1, PTL DEF Ing!Spec

(* No event before the stored position is handled again and none after the   *)
(* next one is handled early, although the transaction is not compared.      *)
THEOREM HandlesInOrder == Ing!Spec => Ing!HandledOnce /\ Ing!CursorMovesOn
<1>1. IngInv /\ [Ing!Next]_(Ing!vars) =>
         [handled' # handled /\ stored # Nobody => Ing!IsNext(stored, handled'[Len(handled')])]_(Ing!vars)
  BY StepHandlesNext
<1>2. IngInv /\ [Ing!Next]_(Ing!vars) =>
         [stored' # stored /\ stored # Nobody => Ing!IsNext(stored, stored')]_(Ing!vars)
  BY StepStoresNext
<1> QED BY <1>1, <1>2, IngestionInvariant, PTL DEF Ing!Spec, Ing!HandledOnce, Ing!CursorMovesOn

(* Wherever the process dies and whatever the source repeats or reorders, no *)
(* event is lost and none but the one a crash interrupted is handled again.  *)
THEOREM RestartsAreSafe == Ing!Spec => EventsOnce
<1>1. Ing!Spec => [](Ing!CommittedWasHandled /\ Ing!CopyFollowsStore)
  BY NoEventLost
<1>2. Ing!Spec => Ing!HandledOnce /\ Ing!CursorMovesOn
  BY HandlesInOrder
<1> QED BY <1>1, <1>2, PTL DEF EventsOnce, Ing!EventsOnce

----------------------------------------------------------------------------
(* The entries of these services have their types. *)

LEMMA AuditTyped == Aud!Spec => []Aud!TypeOK
<1>1. Aud!Init => Aud!TypeOK
  BY RecordBoundsOK DEF Aud!Init, Aud!TypeOK
<1>2. AuditInv /\ Aud!TypeOK /\ [Aud!Next]_(Aud!vars) /\ AuditInv' => Aud!TypeOK'
  <2> SUFFICES ASSUME AuditInv, Aud!TypeOK, [Aud!Next]_(Aud!vars), AuditInv' PROVE Aud!TypeOK'
    OBVIOUS
  <2>1. now' \in 0..MaxAuditTime
    <3>1. now' = now \/ (now < MaxAuditTime /\ now' = now + 1)
      BY DEF Aud!Next, Aud!vars, Aud!Tick, Aud!LogOperation
    <3> QED BY <3>1, RecordBoundsOK DEF Aud!TypeOK
  <2>2. entry \in Seq(AuditEntry) /\ Len(entry) \in Nat /\ MaxEntries \in Nat /\ Len(entry) <= MaxEntries
    BY RecordBoundsOK DEF AuditInv, Aud!TypeOK
  <2>3. Len(entry') <= MaxEntries
    <3>1. CASE entry' = entry
      BY <2>2, <3>1
    <3>2. ASSUME NEW e, entry' = Append(entry, e), Len(entry) < MaxEntries PROVE Len(entry') <= MaxEntries
      BY <2>2, <3>2
    <3> QED BY <3>1, <3>2 DEF Aud!Next, Aud!vars, Aud!Tick, Aud!LogOperation
  <2>4. \A k \in Aud!Keys : \A n \in DOMAIN trail'[k] : trail'[k][n] \in DOMAIN entry'
    BY DEF AuditInv, Enumerates
  <2> QED BY <2>1, <2>3, <2>4 DEF Aud!TypeOK, Aud!Id
<1> QED BY <1>1, <1>2, AuditInvariant, PTL DEF Aud!Spec

LEMMA SecretsTyped == Sec!Spec => []Sec!TypeOK
<1> DEFINE Idle == ~subscriber.rotating => subscriber.pending = Nobody
<1>1. Sec!Init => Idle
  BY DEF Sec!Init
<1>2. SecretInv /\ Idle /\ [Sec!Next]_(Sec!vars) => Idle'
  <2> SUFFICES ASSUME SecretInv, Idle, [Sec!Next]_(Sec!vars) PROVE Idle'
    OBVIOUS
  <2>1. /\ DOMAIN subscriber = {"primary", "pending", "since", "grace", "rotating"}
        /\ subscriber \in Record
    BY DEF SecretInv, Record
  <2>2. ASSUME NEW s \in Record PROVE Sec!Ended(s).pending = Nobody /\ Sec!Promoted(s).pending = Nobody
    BY <2>2 DEF Record, Sec!Ended, Sec!Promoted
  <2>3. ASSUME Sec!Register PROVE Idle'
    <3>1. subscriber' = [subscriber EXCEPT !.primary = 1]
      BY <2>3 DEF Sec!Register
    <3>2. subscriber'.pending = subscriber.pending /\ subscriber'.rotating = subscriber.rotating
      BY <2>1, <3>1
    <3> QED BY <3>2, Zenon
  <2>4. ASSUME NEW grace, Sec!InitiateRotation(grace) PROVE Idle'
    <3>1. subscriber' = [subscriber EXCEPT !.pending = generated + 1, !.since = now, !.grace = grace,
                                          !.rotating = TRUE]
      BY <2>4 DEF Sec!InitiateRotation
    <3>2. subscriber'.rotating = TRUE
      BY <2>1, <3>1
    <3> QED BY <3>2
  <2>5. ASSUME Sec!FinalizeRotation \/ Sec!CancelRotation \/ Sec!Verify PROVE Idle'
    <3>1. subscriber' \in {subscriber, Sec!Ended(subscriber), Sec!Promoted(subscriber)}
      BY <2>5, Zenon DEF Sec!FinalizeRotation, Sec!CancelRotation, Sec!Verify, Sec!Effective
    <3>2. CASE subscriber' = subscriber
      BY <3>2, Zenon
    <3>3. CASE subscriber' \in {Sec!Ended(subscriber), Sec!Promoted(subscriber)}
      BY <2>1, <2>2, <3>3
    <3> QED BY <3>1, <3>2, <3>3
  <2>6. ASSUME Sec!Tick \/ UNCHANGED Sec!vars PROVE Idle'
    BY <2>6, Zenon DEF Sec!Tick, Sec!vars
  <2> QED BY <2>3, <2>4, <2>5, <2>6 DEF Sec!Next
<1>3. SecretInv /\ Idle => Sec!TypeOK
  <2> SUFFICES ASSUME SecretInv, Idle PROVE Sec!TypeOK
    OBVIOUS
  <2>1. /\ generated \in Nat /\ retired \subseteq 1..generated
        /\ generated = 0 => subscriber.primary = Nobody /\ ~subscriber.rotating
        /\ generated > 0 => subscriber.primary \in 1..generated
        /\ subscriber.rotating => subscriber.pending \in 1..generated
    BY DEF SecretInv
  <2>2. subscriber.primary \in 1..generated \cup {Nobody}
    BY <2>1
  <2>3. subscriber.pending \in 1..generated \cup {Nobody}
    BY <2>1, Zenon
  <2>4. subscriber.rotating => subscriber.pending # Nobody
    <3>1. Nobody \notin 1..generated
      BY GraceOK
    <3> QED BY <2>1, <3>1, Zenon
  <2>5. subscriber.rotating \in BOOLEAN
    BY DEF SecretInv, Record
  <2>6. subscriber.rotating <=> subscriber.pending # Nobody
    BY <2>4, <2>5, Zenon
  <2> QED BY <2>1, <2>2, <2>3, <2>6, Zenon DEF Sec!TypeOK
<1> HIDE DEF Idle
<1> QED BY <1>1, <1>2, <1>3, SecretsInvariant, PTL DEF Sec!Spec

LEMMA BackfillTyped == Bf!Spec => []Bf!TypeOK
<1>1. RunInv => Bf!TypeOK
  <2> SUFFICES ASSUME RunInv PROVE Bf!TypeOK
    OBVIOUS
  <2>1. DOMAIN waiting = DOMAIN runs
    BY DEF RunInv
  <2>2. ASSUME NEW r \in DOMAIN runs PROVE runs[r].status \in Statuses /\ runs[r].processed \in Nat
    <3>1. runs[r] \in Run
      BY DEF RunInv
    <3> QED BY <3>1 DEF Run
  <2> QED BY <2>1, <2>2 DEF RunInv, Bf!TypeOK, Statuses
<1> QED BY <1>1, BackfillInvariant, PTL

(* Nothing is on its way but an event, and only one that still can be handled. *)
Delivery ==
    /\ lastCursor \in Ing!Range(Chain) \cup {Nobody} /\ incoming \in Ing!Range(Chain) \cup {Nobody}
    /\ stuck => doing = "idle"
    /\ Len(handled) <= MaxHandled
    /\ doing = "handling" => Len(handled) < MaxHandled

LEMMA DeliveryStep == ASSUME IngInv, Delivery, [Ing!Next]_(Ing!vars) PROVE Delivery'
<1>1. stored \in Ing!Range(Chain) \cup {Nobody} /\ Len(handled) \in Nat /\ MaxHandled \in Nat
  BY RecordBoundsOK DEF IngInv
<1>2. lastCursor' \in Ing!Range(Chain) \cup {Nobody} /\ incoming' \in Ing!Range(Chain) \cup {Nobody}
  <2>1. /\ lastCursor' \in {lastCursor, stored, incoming, Nobody}
        /\ incoming' \in {incoming, Nobody} \cup Ing!Range(Chain)
    BY DEF Ing!Next, Ing!vars, Ing!Accept, Ing!Refuse, Ing!Resume, Ing!Resumed, Ing!Handle, Ing!Store,
       Ing!Note, Ing!Crash
  <2> QED BY <1>1, <2>1 DEF Delivery
<1>3. stuck' => doing' = "idle"
  <2>1. ASSUME NEW e, Ing!Accept(e) PROVE ~stuck'
    BY <2>1, Zenon DEF Ing!Accept
  <2>2. ASSUME NEW e, Ing!Refuse(e) PROVE doing' = "idle"
    BY <2>2 DEF Ing!Refuse
  <2>3. ASSUME Ing!Resume PROVE doing' = "idle"
    BY <2>3 DEF Ing!Resume
  <2>4. ASSUME Ing!Handle \/ Ing!Store PROVE ~stuck'
    <3>1. doing # "idle" /\ stuck' = stuck
      BY <2>4 DEF Ing!Handle, Ing!Store, Ing!Proceed
    <3> QED BY <3>1, Zenon DEF Delivery
  <2>5. ASSUME Ing!Note PROVE doing' = "idle"
    BY <2>5 DEF Ing!Note
  <2>6. ASSUME Ing!Crash PROVE ~stuck'
    BY <2>6 DEF Ing!Crash
  <2>7. ASSUME UNCHANGED Ing!vars PROVE stuck' => doing' = "idle"
    BY <2>7, Zenon DEF Ing!vars, Delivery
  <2> QED BY <2>1, <2>2, <2>3, <2>4, <2>5, <2>6, <2>7, Zenon DEF Ing!Next
<1>4. Len(handled') <= MaxHandled /\ (doing' = "handling" => Len(handled') < MaxHandled)
  <2>1. ASSUME NEW e, Ing!Accept(e) PROVE handled' = handled /\ Len(handled) < MaxHandled
    BY <2>1 DEF Ing!Accept
  <2>2. ASSUME Ing!Handle
        PROVE  Len(handled) < MaxHandled /\ Len(handled') = Len(handled) + 1 /\ doing' = "storing"
    <3>1. doing = "handling" /\ doing' = "storing" /\ handled' = Append(handled, incoming)
      BY <2>2, StepsOrder DEF Ing!Handle
    <3>2. Len(handled') = Len(handled) + 1
      BY <3>1 DEF IngInv
    <3> QED BY <3>1, <3>2 DEF Delivery
  <2>3. ASSUME \/ Ing!Resume \/ Ing!Store \/ Ing!Note \/ Ing!Crash \/ UNCHANGED Ing!vars
               \/ \E e : Ing!Refuse(e)
        PROVE  handled' = handled /\ (doing' = "handling" => doing = "handling")
    <3>1. Ing!Store => doing' = "noting" /\ handled' = handled
      BY StepsOrder DEF Ing!Store
    <3> QED BY <2>3, <3>1 DEF Ing!Resume, Ing!Note, Ing!Crash, Ing!vars, Ing!Refuse
  <2>4. CASE \E e : Ing!Accept(e)
    BY <1>1, <2>1, <2>4
  <2>5. CASE Ing!Handle
    BY <1>1, <2>2, <2>5
  <2>6. CASE handled' = handled /\ (doing' = "handling" => doing = "handling")
    BY <2>6 DEF Delivery
  <2> QED BY <2>3, <2>4, <2>5, <2>6 DEF Ing!Next
<1> QED BY <1>2, <1>3, <1>4, Zenon DEF Delivery

LEMMA IngestionTyped == Ing!Spec => []Ing!TypeOK
<1>1. Ing!Init => Delivery
  <2> SUFFICES ASSUME Ing!Init PROVE Delivery
    OBVIOUS
  <2>1. Len(handled) = 0 /\ Len(handled) <= MaxHandled
    BY RecordBoundsOK DEF Ing!Init
  <2> QED BY <2>1 DEF Ing!Init, Delivery
<1>2. IngInv /\ Delivery /\ [Ing!Next]_(Ing!vars) => Delivery'
  BY DeliveryStep
<1>3. IngInv /\ Delivery => Ing!TypeOK
  <2> SUFFICES ASSUME IngInv, Delivery PROVE Ing!TypeOK
    OBVIOUS
  <2>1. Ing!Range(Ing!Steps) = {"handling", "storing", "noting"}
    BY DEF Ing!Range, Ing!Steps
  <2>2. doing \in {"down", "idle"} \cup Ing!Range(Ing!Steps)
    BY <2>1 DEF IngInv
  <2>3. {stored, lastCursor, incoming} \subseteq Ing!Range(Chain) \cup {Nobody}
    BY DEF IngInv, Delivery
  <2>4. (stuck => doing = "idle") /\ Len(handled) <= MaxHandled
    BY Zenon DEF Delivery
  <2> QED BY <2>2, <2>3, <2>4, Zenon DEF Ing!TypeOK
<1> QED BY <1>1, <1>2, <1>3, IngestionInvariant, PTL DEF Ing!Spec

(* The chain is never behind an event, and there is one entry per key. *)
Chained ==
    /\ \A k \in Cache!Key : announced[k] <= version[k] /\ (cached[k] = {} \/ \E e : cached[k] = {e})
    /\ \A e \in unseen, k \in Cache!Key : e.version[k] <= version[k]

LEMMA ChainedStep == ASSUME CacheInv, Chained, [Cache!Next]_(Cache!vars) PROVE Chained'
<1>1. ASSUME NEW type \in {"invoice", "bid", "escrow"}, Cache!Change(type) PROVE Chained'
  <2>1. \A k \in Cache!Key : version[k] \in Nat /\ announced[k] \in Nat /\ \A e \in unseen : e.version[k] \in Nat
    BY DEF CacheInv, Change
  <2>2. \A k \in Cache!Key : version'[k] = version[k] \/ version'[k] = version[k] + 1
    BY <1>1 DEF Cache!Change
  <2>3. \A k \in Cache!Key : version[k] <= version'[k]
    BY <2>1, <2>2
  <2>4. /\ UNCHANGED <<cached, announced>>
        /\ unseen' = unseen \cup {[type |-> type, version |-> version']}
    BY <1>1 DEF Cache!Change
  <2>5. \A k \in Cache!Key : version'[k] \in Nat
    BY <2>1, <2>2
  <2>6. ASSUME NEW e \in unseen', NEW k \in Cache!Key PROVE e.version[k] <= version'[k]
    <3>1. CASE e \in unseen
      BY <2>1, <2>3, <2>5, <3>1 DEF Chained
    <3>2. CASE e = [type |-> type, version |-> version']
      <4>1. e.version = version'
        BY <3>2
      <4> QED BY <2>5, <4>1
    <3> QED BY <2>4, <3>1, <3>2
  <2>7. \A k \in Cache!Key : announced'[k] <= version'[k]
    BY <2>1, <2>3, <2>4, <2>5 DEF Chained
  <2> QED BY <2>4, <2>6, <2>7 DEF Chained
<1>2. ASSUME NEW e \in unseen, Cache!Invalidate(e) PROVE Chained'
  <2>1. \A k \in Cache!Key : announced'[k] = e.version[k] \/ announced'[k] = announced[k]
    BY <1>2 DEF Cache!Invalidate
  <2>2. \A k \in Cache!Key : cached'[k] = {} \/ cached'[k] = cached[k]
    BY <1>2 DEF Cache!Invalidate
  <2>3. unseen' \subseteq unseen /\ version' = version
    BY <1>2 DEF Cache!Invalidate
  <2> QED BY <2>1, <2>2, <2>3 DEF Chained
<1>3. ASSUME NEW c \in Cache!Caller, Cache!Fill(c) PROVE Chained'
  <2>1. UNCHANGED <<version, announced, unseen>>
    BY <1>3 DEF Cache!Fill
  <2>2. \E k, e : cached' = [cached EXCEPT ![k] = {e}]
    BY <1>3, Zenon DEF Cache!Fill
  <2>3. \A k \in Cache!Key : cached'[k] = cached[k] \/ \E e : cached'[k] = {e}
    BY <2>2 DEF CacheInv
  <2> QED BY <2>1, <2>3 DEF Chained
<1>4. ASSUME Cache!Flush PROVE Chained'
  BY <1>4 DEF Cache!Flush, Chained
<1>5. ASSUME UNCHANGED <<version, announced, unseen, cached>> PROVE Chained'
  BY <1>5 DEF Chained
<1> QED BY <1>1, <1>2, <1>3, <1>4, <1>5 DEF Cache!Next, Cache!vars, Cache!Revalidate, Cache!Miss,
       Cache!Read, Cache!FetchFails, Cache!Tick

LEMMA CacheCardinality == \A S : Cache!Cardinality(S) = Cardinality(S)
BY Zenon DEF Cardinality, Cache!Cardinality

(* A set of one has one element. *)
LEMMA AtMostOne == Cardinality({}) <= 1 /\ \A x : Cardinality({x}) <= 1
<1>1. Cardinality({}) = 0 /\ \A x : Cardinality({x}) = 1
  BY FS_EmptySet, FS_Singleton
<1> QED BY <1>1

LEMMA CacheTyped == Cache!Spec => []Cache!TypeOK
<1>1. Cache!Init => Chained
  BY DEF Cache!Init, Chained
<1>2. CacheInv /\ Chained /\ [Cache!Next]_(Cache!vars) => Chained'
  BY ChainedStep
<1>3. CacheInv /\ Chained => Cache!TypeOK
  <2> SUFFICES ASSUME CacheInv, Chained PROVE Cache!TypeOK
    OBVIOUS
  <2>3. ASSUME NEW k \in Cache!Key PROVE Cache!Cardinality(cached[k]) <= 1 /\ announced[k] <= version[k]
    BY AtMostOne, CacheCardinality DEF Chained
  <2>4. ASSUME NEW c \in Cache!Caller PROVE call[c].step \in {"none", "asked", "read"}
    <3>1. call[c] \in Fetch
      BY DEF CacheInv
    <3> QED BY <3>1 DEF Fetch
  <2> QED BY <2>3, <2>4 DEF Cache!TypeOK
<1> QED BY <1>1, <1>2, <1>3, CacheInvariant, PTL DEF Cache!Spec

(* Storing invoices puts none twice in a list. *)
LEMMA StoredDistinct ==
    ASSUME NEW lists \in [Stage0 -> Seq(BackedUp)], NEW invs \in Seq(Snapshot),
           \A s \in Stage0 : IsInjective(lists[s])
    PROVE  \A s \in Stage0 : IsInjective(Bk!Stored(invs, lists)[s])
<1> DEFINE ids == [n \in DOMAIN invs |-> invs[n].id]
           at(s) == {n \in DOMAIN invs : invs[n].status = s}
           of(s) == Sublist(ids, at(s))
           rest(s) == Without(of(s), Bk!Range(lists[s]))
<1>1. ids \in Seq(BackedUp) /\ DOMAIN ids = DOMAIN invs
  <2>1. DOMAIN invs = 1..Len(invs) /\ Len(invs) \in Nat
    OBVIOUS
  <2>2. ASSUME NEW n \in 1..Len(invs) PROVE invs[n].id \in BackedUp
    <3>1. invs[n] \in Snapshot
      BY <2>1
    <3> QED BY <3>1 DEF Snapshot
  <2>3. ids = [n \in 1..Len(invs) |-> invs[n].id]
    BY <2>1
  <2>4. ids \in [1..Len(invs) -> BackedUp]
    BY <2>2, <2>3
  <2> QED BY <2>1, <2>4
<1>2. Bk!Stored(invs, lists) = [s \in Stage0 |-> lists[s] \o Deduped(rest(s))]
  BY BkOperators DEF Bk!Stored
<1>3. ASSUME NEW s \in Stage0 PROVE IsInjective(lists[s] \o Deduped(rest(s)))
  <2>1. at(s) \in SUBSET DOMAIN ids
    BY <1>1
  <2> HIDE DEF ids, at
  <2>2. of(s) \in Seq(BackedUp)
    BY <1>1, <2>1, SublistOrder
  <2>3. \A i : i \in Bk!Range(lists[s]) <=> Contains(lists[s], i)
    BY DEF Contains, Bk!Range
  <2> HIDE DEF of
  <2>4. rest(s) \in Seq(BackedUp) /\ \A i : Contains(rest(s), i) => ~Contains(lists[s], i)
    BY <2>2, <2>3, WithoutKeeps
  <2> DEFINE list == rest(s)
  <2>5. list \in Seq(BackedUp) /\ \A i : Contains(list, i) => ~Contains(lists[s], i)
    BY <2>4
  <2> HIDE DEF list
  <2>6. /\ Deduped(list) \in Seq(BackedUp) /\ IsInjective(Deduped(list))
        /\ \A i : Contains(Deduped(list), i) <=> Contains(list, i)
    BY <2>5, DedupedIsDistinct, DedupedContains
  <2>7. IsInjective(lists[s] \o Deduped(list))
    BY <2>5, <2>6, ConcatDistinct
  <2> QED BY <2>7 DEF list
<1> HIDE DEF rest
<1> QED BY <1>2, <1>3

(* No list has an entry twice, and no backup is of a later time. *)
DistinctBacked ==
    /\ \A s \in Stage0 : IsInjective(backedLists[s])
    /\ IsInjective(listed)
    /\ \A b \in 1..MaxBackups : backups[b] # <<>> => backups[b].at <= now

LEMMA DistinctStored == ASSUME BkInv, DistinctBacked, [Bk!Next]_(Bk!vars)
                        PROVE  \A s \in Stage0 : IsInjective(backedLists'[s])
<1>1. backedLists \in [Stage0 -> Seq(BackedUp)] /\ \A s \in Stage0 : IsInjective(backedLists[s])
  BY DEF BkInv, ListsInv, DistinctBacked
<1> DEFINE Fine == \A s \in Stage0 : IsInjective(backedLists'[s])
<1>2. ASSUME NEW invs \in Seq(Snapshot), backedLists' = Bk!Stored(invs, backedLists) PROVE Fine
  BY <1>1, <1>2, StoredDistinct
<1>3. ASSUME NEW i \in BackedUp, Bk!StoreInvoice(i) PROVE Fine
  <2> DEFINE inv == [id |-> i, status |-> Bk!NewStatus]
  <2>1. inv \in Snapshot
    BY StagesAre DEF Snapshot
  <2>2. backedLists' = Bk!Stored(<<inv>>, backedLists)
    BY <1>3 DEF Bk!StoreInvoice
  <2> HIDE DEF inv, Fine
  <2>3. <<inv>> \in Seq(Snapshot)
    BY <2>1
  <2> QED BY <1>2, <2>2, <2>3
<1>4. ASSUME NEW i \in BackedUp, NEW s \in Stage0, Bk!UpdateInvoice(i, s) PROVE Fine
  <2> DEFINE old == backedStatus[i]
             joined == IF Contains(backedLists[s], i) THEN backedLists[s] ELSE Append(backedLists[s], i)
             left == Without(backedLists[old], {i})
  <2>1. backedLists' = [backedLists EXCEPT ![old] = left, ![s] = joined]
    <3>1. \A l, j : Bk!Added(l, j) = IF Contains(l, j) THEN l ELSE Append(l, j)
      BY BkOperators, Zenon DEF Bk!Added
    <3>2. backedLists' = [backedLists EXCEPT ![backedStatus[i]] = Bk!Without(@, {i}), ![s] = Bk!Added(@, i)]
          /\ old # s
      BY <1>4 DEF Bk!UpdateInvoice
    <3> QED BY <3>1, <3>2, BkOperators
  <2>2. old \in Stage0
    BY <1>4 DEF BkInv, ListsInv, Bk!UpdateInvoice
  <2> HIDE DEF old
  <2>3. IsInjective(left)
    BY <1>1, <2>2, WithoutKeeps
  <2>4. IsInjective(joined)
    BY <1>1, AppendKeeps
  <2> HIDE DEF left, joined
  <2> QED BY <1>1, <2>1, <2>3, <2>4
<1>5. ASSUME NEW b \in 1..MaxBackups, Bk!RestoreBackup(b) PROVE Fine
  <2>1. backedLists' = Bk!Stored(backups[b].data, backedLists) /\ backups[b] # <<>>
    BY <1>5 DEF Bk!RestoreBackup, Bk!Cleared, Bk!Valid
  <2>2. backups[b] \in Backup
    BY <2>1 DEF BkInv, BackupsInv, IsBackup
  <2>3. backups[b].data \in Seq(Snapshot)
    BY <2>2 DEF Backup
  <2> HIDE DEF Fine
  <2> QED BY <1>2, <2>1, <2>3
<1>6. ASSUME backedLists' = backedLists PROVE Fine
  BY <1>1, <1>6
<1>7. \A b \in 1..made : b \in 1..MaxBackups
  BY BackupOK DEF BkInv
<1> HIDE DEF Fine
<1>8. Fine
  BY <1>3, <1>4, <1>5, <1>6, <1>7 DEF Bk!Next, Bk!vars, Bk!Invoices, BackedUp, Stage0, Bk!CreateBackup,
     Bk!ArchiveBackup, Bk!CleanupBackups, Bk!SetRetentionPolicy, Bk!Tick
<1> QED BY <1>8 DEF Fine

(* A clean-up takes from the list and from the backups. *)
LEMMA DistinctCleanup ==
    ASSUME BkInv, NEW bs, DOMAIN bs = 1..MaxBackups, NEW list \in Seq(1..MaxBackups), IsInjective(list),
           \A b \in 1..MaxBackups : bs[b] # <<>> => bs[b].at <= now,
           Bk!Cleanup(bs, list), now' = now
    PROVE  /\ IsInjective(listed')
           /\ \A b \in 1..MaxBackups : backups'[b] # <<>> => backups'[b].at <= now'
<1>1. PICK gone : Bk!Purge(bs, list, gone)
  BY Zenon DEF Bk!Cleanup
<1>2. listed' = Without(list, gone) /\ backups' = [b \in DOMAIN bs |-> IF b \in gone THEN <<>> ELSE bs[b]]
  BY <1>1, BkOperators DEF Bk!Purge
<1>3. IsInjective(listed')
  BY <1>2, WithoutKeeps
<1>4. \A b \in 1..MaxBackups : backups'[b] = <<>> \/ backups'[b] = bs[b]
  BY <1>2
<1> QED BY <1>3, <1>4

LEMMA DistinctStep == ASSUME BkInv, DistinctBacked, [Bk!Next]_(Bk!vars) PROVE DistinctBacked'
<1> DEFINE Fine == /\ IsInjective(listed')
                   /\ \A b \in 1..MaxBackups : backups'[b] # <<>> => backups'[b].at <= now'
<1>1. /\ made \in 0..MaxBackups /\ now \in Nat /\ MaxBackups \in Nat
      /\ listed \in Seq(1..MaxBackups) /\ IsInjective(listed) /\ DOMAIN backups = 1..MaxBackups
      /\ \A b \in 1..MaxBackups : backups[b] # <<>> => backups[b].at <= now /\ backups[b] \in Backup
  BY BackupOK DEF BkInv, BackupsInv, DistinctBacked, IsBackup
<1>2. ASSUME Bk!CreateBackup PROVE Fine
  <2> DEFINE bs == [backups EXCEPT ![made + 1] = Bk!NewBackup]
             more == Append(listed, made + 1)
  <2>1. made < MaxBackups /\ Bk!Cleanup(bs, more) /\ now' = now
    BY <1>2 DEF Bk!CreateBackup
  <2>2. made + 1 \in 1..MaxBackups
    BY <1>1, <2>1
  <2>3. ~Contains(listed, made + 1)
    <3>1. backups[made + 1] = <<>>
      BY <1>1, <2>2 DEF BkInv
    <3> QED BY <2>2, <3>1 DEF BkInv, BackupsInv, IsActive
  <2>4. more \in Seq(1..MaxBackups) /\ IsInjective(more)
    BY <1>1, <2>2, <2>3, AppendKeeps
  <2>5. Bk!NewBackup.at = now
    BY DEF Bk!NewBackup
  <2>6. DOMAIN bs = 1..MaxBackups
    BY <1>1
  <2>7. \A b \in 1..MaxBackups : bs[b] = backups[b] \/ bs[b] = Bk!NewBackup
    BY <1>1
  <2>8. now <= now
    BY <1>1
  <2> HIDE DEF bs, more
  <2>9. \A b \in 1..MaxBackups : bs[b] # <<>> => bs[b].at <= now
    BY <1>1, <2>5, <2>7, <2>8, Zenon
  <2> QED BY <2>1, <2>4, <2>6, <2>9, DistinctCleanup
<1>3. ASSUME Bk!CleanupBackups PROVE Fine
  BY <1>1, <1>3, DistinctCleanup DEF Bk!CleanupBackups
<1>4. ASSUME NEW b \in 1..MaxBackups, Bk!ArchiveBackup(b) PROVE Fine
  <2> DEFINE r == [backups[b] EXCEPT !.state = "Archived"]
  <2>1. /\ backups[b] # <<>> /\ backups' = [backups EXCEPT ![b] = r]
        /\ listed' = Without(listed, {b}) /\ now' = now
    BY <1>4, BkOperators DEF Bk!ArchiveBackup
  <2>2. r.at = backups[b].at
    BY <1>1, <2>1 DEF Backup
  <2>3. IsInjective(listed')
    BY <1>1, <2>1, WithoutKeeps
  <2> HIDE DEF r
  <2>4. \A c \in 1..MaxBackups : backups'[c] = backups[c] \/ (c = b /\ backups'[c] = r)
    BY <1>1, <2>1
  <2>5. ASSUME NEW c \in 1..MaxBackups, backups'[c] # <<>> PROVE backups'[c].at <= now'
    BY <1>1, <2>1, <2>2, <2>4, <2>5, Zenon
  <2> QED BY <2>3, <2>5
<1>5. ASSUME UNCHANGED <<backups, listed>>, now' = now \/ now' = now + 1 PROVE Fine
  <2>1. ASSUME NEW b \in 1..MaxBackups, backups[b] # <<>> PROVE backups[b].at <= now'
    <3>1. backups[b].at \in Nat /\ backups[b].at <= now
      BY <1>1, <2>1 DEF Backup
    <3> QED BY <1>1, <1>5, <3>1
  <2> QED BY <1>1, <1>5, <2>1
<1>6. \A b \in 1..made : b \in 1..MaxBackups
  BY <1>1
<1> HIDE DEF Fine
<1>7. ASSUME Bk!Next PROVE Fine
  <2>1. ASSUME NEW i, Bk!StoreInvoice(i) \/ \E s : Bk!UpdateInvoice(i, s) PROVE Fine
    BY <1>5, <2>1 DEF Bk!StoreInvoice, Bk!UpdateInvoice
  <2>2. ASSUME NEW b \in 1..made, Bk!RestoreBackup(b) PROVE Fine
    BY <1>5, <2>2 DEF Bk!RestoreBackup
  <2>3. ASSUME Bk!Tick \/ \E p : Bk!SetRetentionPolicy(p) PROVE Fine
    BY <1>5, <2>3 DEF Bk!Tick, Bk!SetRetentionPolicy
  <2> QED BY <1>2, <1>3, <1>4, <1>6, <1>7, <2>1, <2>2, <2>3, Zenon DEF Bk!Next
<1>8. Fine
  BY <1>5, <1>7 DEF Bk!vars
<1> QED BY <1>8, DistinctStored DEF Fine, DistinctBacked

LEMMA BackupsTyped == Bk!Spec => []Bk!TypeOK
<1>1. Bk!Init => DistinctBacked
  BY DEF Bk!Init, DistinctBacked, IsInjective, Stage0
<1>2. BkInv /\ DistinctBacked /\ [Bk!Next]_(Bk!vars) => DistinctBacked'
  BY DistinctStep
<1>3. BkInv /\ DistinctBacked => Bk!TypeOK
  <2> SUFFICES ASSUME BkInv, DistinctBacked PROVE Bk!TypeOK
    OBVIOUS
  <2>1. \A f : Bk!IsInjective(f) <=> IsInjective(f)
    BY DEF Bk!IsInjective, IsInjective
  <2>2. /\ made \in 0..MaxBackups /\ MaxBackups \in Nat /\ listed \in Seq(1..MaxBackups)
        /\ DOMAIN backups = 1..MaxBackups
    BY BackupOK DEF BkInv, BackupsInv
  <2>3. ASSUME NEW b \in 1..MaxBackups, backups[b] # <<>>
        PROVE  b <= made /\ backups[b].at <= now /\ backups[b].state \in {"Active", "Archived"}
    <3>1. backups[b] \in Backup
      BY <2>3 DEF BkInv, BackupsInv, IsBackup
    <3>2. backups[b].state \in {"Active", "Archived"}
      BY <3>1 DEF Backup
    <3>3. b <= made
      BY <2>2, <2>3 DEF BkInv
    <3> QED BY <2>3, <3>2, <3>3 DEF DistinctBacked
  <2>4. listed \in Seq(1..made)
    <3>1. ASSUME NEW n \in 1..Len(listed) PROVE listed[n] \in 1..made
      <4>1. listed[n] \in 1..MaxBackups /\ Contains(listed, listed[n])
        BY <2>2 DEF Contains
      <4>2. backups[listed[n]] # <<>>
        BY <4>1 DEF BkInv, BackupsInv, IsActive
      <4> QED BY <2>2, <2>3, <4>1, <4>2
    <3> QED BY <2>2, <3>1
  <2>5. backedStatus \in [BackedUp -> Stage0 \cup {"None"}] /\ backedLists \in [Stage0 -> Seq(BackedUp)]
    BY DEF BkInv, ListsInv
  <2> QED BY <2>1, <2>2, <2>3, <2>4, <2>5
      DEF DistinctBacked, Bk!TypeOK, BackedUp, Bk!Invoices, Stage0
<1> QED BY <1>1, <1>2, <1>3, BackupInvariant, PTL DEF Bk!Spec

(* An invoice nobody has rated has no average. *)
Averaged == \A i \in Filed : invoice[i] # Cat!Absent /\ invoice[i].ratings = <<>> => invoice[i].average = 0

LEMMA AveragedStep == ASSUME CatInv, Averaged, [Cat!Next]_(Cat!vars) PROVE Averaged'
<1> DEFINE Same(r, q) == r.ratings = q.ratings /\ r.average = q.average
           Rated(r) == r.ratings = <<>> => r.average = 0
<1>1. ASSUME NEW i \in Filed, NEW r, invoice' = [invoice EXCEPT ![i] = r],
             Rated(r) \/ (invoice[i] # Cat!Absent /\ Same(r, invoice[i]))
      PROVE  Averaged'
  <2> HIDE DEF Same, Rated
  <2>1. \A j \in Filed : invoice'[j] = IF j = i THEN r ELSE invoice[j]
    BY <1>1 DEF CatInv
  <2>2. \A j \in Filed : invoice[j] # Cat!Absent => Rated(invoice[j])
    BY DEF Averaged, Rated
  <2>3. Rated(r)
    BY <1>1, <2>2 DEF Same, Rated
  <2> QED BY <2>1, <2>2, <2>3 DEF Averaged, Rated, Cat!Absent
<1>2. ASSUME NEW i \in Filed, NEW c, NEW texts, Cat!Store(i, c, texts) PROVE Averaged'
  <2> DEFINE r == [status |-> "Pending", category |-> c, customer |-> Nobody, taxId |-> Nobody,
                   tags |-> [n \in DOMAIN texts |-> texts[n].tag], ratings |-> <<>>, average |-> 0]
  <2>1. invoice' = [invoice EXCEPT ![i] = r] /\ r.average = 0
    BY <1>2 DEF Cat!Store
  <2> HIDE DEF r
  <2> QED BY <1>1, <2>1
<1>3. ASSUME NEW i \in Filed, NEW rater, NEW score, Cat!AddInvoiceRating(i, rater, score) PROVE Averaged'
  <2> DEFINE ratings == Append(invoice[i].ratings, [by |-> rater, score |-> score])
             average == Cat!SumOf(ratings) \div Len(ratings)
             r == [invoice[i] EXCEPT !.ratings = ratings, !.average = average]
  <2>1. /\ invoice[i] \in FiledRecord
    BY <1>3 DEF Cat!AddInvoiceRating, Cat!Stored, CatInv, FiledInv
  <2>2. /\ invoice[i].ratings \in Seq(Rating)
        /\ DOMAIN invoice[i] = DOMAIN [ratings |-> 1, average |-> 1] \cup DOMAIN invoice[i]
    BY <2>1 DEF FiledRecord
  <2>3. ratings # <<>>
    BY <2>2
  <2>4. invoice' = [invoice EXCEPT ![i] = r]
    BY <1>3 DEF Cat!AddInvoiceRating
  <2> HIDE DEF ratings, average
  <2>5. r.ratings = ratings
    BY <2>1 DEF FiledRecord
  <2> HIDE DEF r
  <2> QED BY <1>1, <2>3, <2>4, <2>5
<1>4. ASSUME NEW i \in Filed, NEW r, NEW s, NEW t, invoice[i] \in FiledRecord,
             r \in {[invoice[i] EXCEPT !.customer = s, !.taxId = t], [invoice[i] EXCEPT !.status = s],
                    [invoice[i] EXCEPT !.category = s], [invoice[i] EXCEPT !.tags = s]}
      PROVE  Same(r, invoice[i])
  BY <1>4 DEF FiledRecord
<1>5. ASSUME NEW i \in Filed,
             \/ Cat!ClearInvoiceMetadata(i) \/ \E m : Cat!UpdateInvoiceMetadata(i, m)
             \/ \E s : Cat!UpdateInvoiceStatus(i, s) \/ Cat!UpdateInvoiceCategory(i, s)
                       \/ Cat!AddInvoiceTag(i, s) \/ Cat!RemoveInvoiceTag(i, s)
      PROVE  Averaged'
  <2>1. PICK s, t, r : /\ invoice' = [invoice EXCEPT ![i] = r] /\ i \in Cat!Stored
                       /\ r \in {[invoice[i] EXCEPT !.customer = s, !.taxId = t],
                                 [invoice[i] EXCEPT !.status = s],
                                 [invoice[i] EXCEPT !.category = s], [invoice[i] EXCEPT !.tags = s]}
    <3> DEFINE One(r, s, t) ==
                 /\ invoice' = [invoice EXCEPT ![i] = r] /\ i \in Cat!Stored
                 /\ r \in {[invoice[i] EXCEPT !.customer = s, !.taxId = t],
                           [invoice[i] EXCEPT !.status = s],
                           [invoice[i] EXCEPT !.category = s], [invoice[i] EXCEPT !.tags = s]}
    <3>1. ASSUME Cat!ClearInvoiceMetadata(i)
          PROVE  One([invoice[i] EXCEPT !.customer = Nobody, !.taxId = Nobody], Nobody, Nobody)
      BY <3>1 DEF Cat!ClearInvoiceMetadata
    <3>2. ASSUME NEW m, Cat!UpdateInvoiceMetadata(i, m)
          PROVE One([invoice[i] EXCEPT !.customer = m.customer, !.taxId = m.taxId], m.customer, m.taxId)
      BY <3>2 DEF Cat!UpdateInvoiceMetadata
    <3>3. ASSUME NEW s, Cat!UpdateInvoiceStatus(i, s) PROVE One([invoice[i] EXCEPT !.status = s], s, s)
      BY <3>3 DEF Cat!UpdateInvoiceStatus
    <3>4. ASSUME NEW s, Cat!UpdateInvoiceCategory(i, s) PROVE One([invoice[i] EXCEPT !.category = s], s, s)
      BY <3>4 DEF Cat!UpdateInvoiceCategory
    <3>5. ASSUME NEW s, Cat!AddInvoiceTag(i, s) PROVE \E tags : One([invoice[i] EXCEPT !.tags = tags], tags, tags)
      BY <3>5 DEF Cat!AddInvoiceTag
    <3>6. ASSUME NEW s, Cat!RemoveInvoiceTag(i, s) PROVE \E tags : One([invoice[i] EXCEPT !.tags = tags], tags, tags)
      BY <3>6 DEF Cat!RemoveInvoiceTag
    <3> HIDE DEF One
    <3>7. \E r, s, t : One(r, s, t)
      BY <1>5, <3>1, <3>2, <3>3, <3>4, <3>5, <3>6, Zenon
    <3> QED BY <3>7 DEF One
  <2>2. invoice[i] \in FiledRecord /\ invoice[i] # Cat!Absent
    BY <2>1 DEF Cat!Stored, CatInv, FiledInv
  <2>3. Same(r, invoice[i])
    BY <1>4, <2>1, <2>2
  <2> HIDE DEF Same, Rated
  <2> QED BY <1>1, <2>1, <2>2, <2>3
<1>6. ASSUME UNCHANGED Cat!vars PROVE Averaged'
  BY <1>6 DEF Cat!vars, Averaged, Cat!Absent
<1> QED BY <1>2, <1>3, <1>5, <1>6, Zenon DEF Cat!Next, Filed

LEMMA CatalogueTyped == Cat!Spec => []Cat!TypeOK
<1>1. Cat!Init => Averaged
  BY DEF Cat!Init, Averaged, Filed
<1>2. CatInv /\ Averaged /\ [Cat!Next]_(Cat!vars) => Averaged'
  BY AveragedStep
<1>3. CatInv /\ Averaged => Cat!TypeOK
  <2> SUFFICES ASSUME CatInv, Averaged, NEW i \in Filed, invoice[i] # Cat!Absent
               PROVE  /\ invoice[i].status \in InvoiceStatuses
                      /\ invoice[i].category \in Categories
                      /\ invoice[i].customer \in Cat!Customers \cup {Nobody}
                      /\ invoice[i].average \in 0..5
    BY DEF Cat!TypeOK, Cat!Stored, Filed, InvoiceStatuses
  <2>1. invoice[i] \in FiledRecord /\ RatingsInv(invoice[i].ratings, invoice[i].average)
    BY DEF CatInv, FiledInv
  <2>2. /\ invoice[i].status \in InvoiceStatuses
        /\ invoice[i].category \in Categories
        /\ invoice[i].customer \in Cat!Customers \cup {Nobody}
        /\ invoice[i].average \in Nat /\ invoice[i].ratings \in Seq(Rating)
    BY <2>1 DEF FiledRecord
  <2>3. \A n \in DOMAIN invoice[i].ratings : invoice[i].ratings[n] \in Rating
    BY <2>2, MemberOf
  <2>4. \A n \in DOMAIN invoice[i].ratings : invoice[i].ratings[n].score \in 1..5
    BY <2>3 DEF Rating
  <2>5. invoice[i].average <= 5
    <3>1. CASE invoice[i].ratings = <<>>
      BY <3>1 DEF Averaged
    <3>2. CASE invoice[i].ratings # <<>>
      <4>1. PICK n \in DOMAIN invoice[i].ratings : invoice[i].average <= invoice[i].ratings[n].score
        BY <2>1, <3>2 DEF RatingsInv
      <4> QED BY <2>2, <2>4, <4>1
    <3> QED BY <3>1, <3>2
  <2> QED BY <2>2, <2>5
<1> QED BY <1>1, <1>2, <1>3, CatalogueInvariant, PTL DEF Cat!Spec
=============================================================================
