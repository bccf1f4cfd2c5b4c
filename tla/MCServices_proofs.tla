-------------------------- MODULE MCServices_proofs --------------------------
(***************************************************************************)
(* The services together: every behaviour of MCServices is one of the      *)
(* service it is about, so that every entry keeps its type there and what  *)
(* each service promises of its own behaviours holds of the run's.         *)
(***************************************************************************)
EXTENDS MCServices, ContractServices_proofs, MoneyServices_proofs, RecordServices_proofs

----------------------------------------------------------------------------
(* The overdue scan: OverdueScan_proofs, about these invoices and limits. *)
ScanP == INSTANCE OverdueScan_proofs WITH
    Invoice <- {"i1", "i2", "i3"}, Limits <- {0, 2, 9}, MaxBatch <- 2

(* Its operators are those of the instance in MCServices. *)
LEMMA ScanConstants == ScanP!IsFiniteSet({"i1", "i2", "i3"})
<1>1. IsFiniteSet({"i1"} \cup {"i2"} \cup {"i3"})
  BY FS_Singleton, FS_Union
<1>2. {"i1", "i2", "i3"} = {"i1"} \cup {"i2"} \cup {"i3"}
  OBVIOUS
<1>3. \A S : ScanP!IsFiniteSet(S) <=> IsFiniteSet(S)
  BY Zenon DEF IsFiniteSet, ScanP!IsFiniteSet
<1> QED BY <1>1, <1>2, <1>3

LEMMA ScanCounts ==
    /\ \A S : Scan!Cardinality(S) = ScanP!Cardinality(S)
    /\ \A f : Scan!IsInjective(f) <=> ScanP!IsInjective(f)
    /\ \A list, i : Scan!Contains(list, i) <=> ScanP!Contains(list, i)
    /\ \A list, gone : Scan!Without(list, gone) = ScanP!Without(list, gone)
<1>1. \A S : Scan!Cardinality(S) = ScanP!Cardinality(S)
  BY Zenon DEF Scan!Cardinality, ScanP!Cardinality
<1>2. \A f : Scan!IsInjective(f) <=> ScanP!IsInjective(f)
  BY Zenon DEF Scan!IsInjective, ScanP!IsInjective
<1>3. \A list, i : Scan!Contains(list, i) <=> ScanP!Contains(list, i)
  BY Zenon DEF Scan!Contains, ScanP!Contains
<1>4. \A list, gone : Scan!Without(list, gone) = ScanP!Without(list, gone)
  BY Zenon DEF Scan!Without, ScanP!Without, Scan!Sublist, ScanP!Sublist, Scan!Cardinality, ScanP!Cardinality
<1> QED BY <1>1, <1>2, <1>3, <1>4

LEMMA ScanPInit == ScanP!Init => ScanP!TypeOK
BY ScanConstants, ScanP!InitTyped

LEMMA ScanPStep == ScanP!TypeOK /\ [ScanP!NextWithReset]_(ScanP!vars) => ScanP!TypeOK'
BY ScanConstants, ScanP!StepKeepsTypes

LEMMA ScanInitSame == Scan!Init = ScanP!Init
BY DEF Scan!Init, ScanP!Init

LEMMA ScanTypeSame == Scan!TypeOK <=> ScanP!TypeOK
BY ScanCounts DEF Scan!TypeOK, ScanP!TypeOK

LEMMA ScanNextSame == Scan!NextWithReset => ScanP!NextWithReset
<1>1. ASSUME NEW i, Scan!Fund(i) PROVE ScanP!Fund(i)
  BY <1>1, ScanCounts, Zenon DEF Scan!Fund, ScanP!Fund, Scan!IsFunded, ScanP!IsFunded
<1>2. ASSUME NEW i, Scan!Close(i) PROVE ScanP!Close(i)
  BY <1>2, ScanCounts, Zenon DEF Scan!Close, ScanP!Close, Scan!IsFunded, ScanP!IsFunded,
     Scan!Remaining, ScanP!Remaining
<1>3. ASSUME NEW i, Scan!Lapse(i) PROVE ScanP!Lapse(i)
  BY <1>3, ScanCounts, Zenon DEF Scan!Lapse, ScanP!Lapse, Scan!IsFunded, ScanP!IsFunded
<1>4. ASSUME NEW i, Scan!MarkDefaulted(i) PROVE ScanP!MarkDefaulted(i)
  BY <1>4, ScanCounts, Zenon DEF Scan!MarkDefaulted, ScanP!MarkDefaulted, Scan!IsFunded, ScanP!IsFunded,
     Scan!Remaining, ScanP!Remaining, Scan!DefaultAll, ScanP!DefaultAll
<1>5. ASSUME NEW i, Scan!Reset(i) PROVE ScanP!Reset(i)
  BY <1>5, ScanCounts, Zenon DEF Scan!Reset, ScanP!Reset, Scan!Remaining, ScanP!Remaining
<1>6. Scan!ScanOfNothing => ScanP!ScanOfNothing
  BY Zenon DEF Scan!ScanOfNothing, ScanP!ScanOfNothing
<1>7. ASSUME NEW limit
      PROVE  Scan!Window(limit) = ScanP!Window(limit) /\ Scan!NextCursor(limit) = ScanP!NextCursor(limit)
  BY Zenon DEF Scan!Window, ScanP!Window, Scan!NextCursor, ScanP!NextCursor, Scan!Start, ScanP!Start,
     Scan!BatchSize, ScanP!BatchSize, Scan!AtMost, ScanP!AtMost, Scan!AtLeast, ScanP!AtLeast
<1>8. ASSUME NEW limit, Scan!Scan(limit) PROVE ScanP!Scan(limit)
  BY <1>7, <1>8, ScanCounts, Zenon DEF Scan!Scan, ScanP!Scan, Scan!Remaining, ScanP!Remaining,
     Scan!DefaultAll, ScanP!DefaultAll
<1> QED BY <1>1, <1>2, <1>3, <1>4, <1>5, <1>6, <1>8, Zenon
        DEF Scan!NextWithReset, ScanP!NextWithReset, Scan!Next, ScanP!Next, Scan!AnyScan, ScanP!AnyScan

LEMMA ScanTyped == Scan!Init /\ [][Scan!NextWithReset]_(Scan!vars) => []Scan!TypeOK
<1>1. Scan!Init => Scan!TypeOK
  BY ScanPInit, ScanInitSame, ScanTypeSame
<1>2. Scan!TypeOK /\ [Scan!NextWithReset]_(Scan!vars) => Scan!TypeOK'
  <2> SUFFICES ASSUME Scan!TypeOK, [Scan!NextWithReset]_(Scan!vars) PROVE Scan!TypeOK'
    OBVIOUS
  <2>1. ScanP!TypeOK
    BY ScanTypeSame
  <2>2. [ScanP!NextWithReset]_(ScanP!vars)
    BY ScanNextSame, Zenon DEF Scan!vars, ScanP!vars
  <2>3. ScanP!TypeOK'
    BY ScanPStep, <2>1, <2>2
  <2>4. Scan!TypeOK'
    BY <2>3, ScanCounts DEF Scan!TypeOK, ScanP!TypeOK
  <2> QED BY <2>4
<1> QED BY <1>1, <1>2, PTL

----------------------------------------------------------------------------
(* A service that has no clock runs or stands still in every behaviour of     *)
(* MCServices, whichever part that is about.                                  *)

LEMMA StepStays ==
    ASSUME [Next]_vars
    PROVE  part' = part /\ (UNCHANGED vars \/ OthersStay)
BY DEF Next, vars

LEMMA InsuranceRuns == Spec => Ins!Spec
<1>1. Init => Ins!Init
  BY DEF Init
<1>2. [Next]_vars => [Ins!Next]_(Ins!vars)
  <2> SUFFICES ASSUME [Next]_vars PROVE [Ins!Next]_(Ins!vars)
    OBVIOUS
  <2>1. CASE part = "insurance"
    BY <2>1 DEF Next, vars, insuranceVars, Ins!vars
  <2>2. CASE part # "insurance"
    <3>1. UNCHANGED insuranceVars
      BY <2>2, StepStays DEF OthersStay, Still, vars
    <3> QED BY <3>1 DEF insuranceVars, Ins!vars
  <2> QED BY <2>1, <2>2
<1> QED BY <1>1, <1>2, PTL DEF Spec, Ins!Spec

LEMMA GovernanceRuns == Spec => Gov!Spec
<1>1. Init => Gov!Init
  BY DEF Init
<1>2. [Next]_vars => [Gov!Next]_(Gov!vars)
  <2> SUFFICES ASSUME [Next]_vars PROVE [Gov!Next]_(Gov!vars)
    OBVIOUS
  <2>1. CASE part = "governance"
    BY <2>1 DEF Next, vars, governanceVars, Gov!vars, Gov!settings
  <2>2. CASE part # "governance"
    <3>1. UNCHANGED governanceVars
      BY <2>2, StepStays DEF OthersStay, Still, vars
    <3> QED BY <3>1 DEF governanceVars, Gov!vars, Gov!settings
  <2> QED BY <2>1, <2>2
<1> QED BY <1>1, <1>2, PTL DEF Spec, Gov!Spec

LEMMA DisputesRuns == Spec => Dis!Spec
<1>1. Init => Dis!Init
  BY DEF Init
<1>2. [Next]_vars => [Dis!Next]_(Dis!vars)
  <2> SUFFICES ASSUME [Next]_vars PROVE [Dis!Next]_(Dis!vars)
    OBVIOUS
  <2>1. CASE part = "disputes"
    BY <2>1 DEF Next, vars, disputeVars, Dis!vars
  <2>2. CASE part # "disputes"
    <3>1. UNCHANGED disputeVars
      BY <2>2, StepStays DEF OthersStay, Still, vars
    <3> QED BY <3>1 DEF disputeVars, Dis!vars
  <2> QED BY <2>1, <2>2
<1> QED BY <1>1, <1>2, PTL DEF Spec, Dis!Spec

LEMMA KycRuns == Spec => Kyc!Spec
<1>1. Init => Kyc!Init
  BY DEF Init
<1>2. [Next]_vars => [Kyc!Next]_(Kyc!vars)
  <2> SUFFICES ASSUME [Next]_vars PROVE [Kyc!Next]_(Kyc!vars)
    OBVIOUS
  <2>1. CASE part = "kyc"
    BY <2>1 DEF Next, vars, kycVars, Kyc!vars
  <2>2. CASE part # "kyc"
    <3>1. UNCHANGED kycVars
      BY <2>2, StepStays DEF OthersStay, Still, vars
    <3> QED BY <3>1 DEF kycVars, Kyc!vars
  <2> QED BY <2>1, <2>2
<1> QED BY <1>1, <1>2, PTL DEF Spec, Kyc!Spec

LEMMA InvestorRuns == Spec => Inv!Spec
<1>1. Init => Inv!Init
  BY DEF Init
<1>2. [Next]_vars => [Inv!Next]_(Inv!vars)
  <2> SUFFICES ASSUME [Next]_vars PROVE [Inv!Next]_(Inv!vars)
    OBVIOUS
  <2>1. CASE part = "investors"
    BY <2>1 DEF Next, vars, investorVars, Inv!vars
  <2>2. CASE part # "investors"
    <3>1. UNCHANGED investorVars
      BY <2>2, StepStays DEF OthersStay, Still, vars
    <3> QED BY <3>1 DEF investorVars, Inv!vars
  <2> QED BY <2>1, <2>2
<1> QED BY <1>1, <1>2, PTL DEF Spec, Inv!Spec

LEMMA CatalogueRuns == Spec => Cat!Spec
<1>1. Init => Cat!Init
  BY DEF Init
<1>2. [Next]_vars => [Cat!Next]_(Cat!vars)
  <2> SUFFICES ASSUME [Next]_vars PROVE [Cat!Next]_(Cat!vars)
    OBVIOUS
  <2>1. CASE part = "catalogue"
    BY <2>1 DEF Next, vars, catalogueVars, Cat!vars
  <2>2. CASE part # "catalogue"
    <3>1. UNCHANGED catalogueVars
      BY <2>2, StepStays DEF OthersStay, Still, vars
    <3> QED BY <3>1 DEF catalogueVars, Cat!vars
  <2> QED BY <2>1, <2>2
<1> QED BY <1>1, <1>2, PTL DEF Spec, Cat!Spec

LEMMA IngestionRuns == Spec => Ing!Spec
<1>1. Init => Ing!Init
  BY DEF Init
<1>2. [Next]_vars => [Ing!Next]_(Ing!vars)
  <2> SUFFICES ASSUME [Next]_vars PROVE [Ing!Next]_(Ing!vars)
    OBVIOUS
  <2>1. CASE part = "ingestion"
    BY <2>1 DEF Next, vars, ingestionVars, Ing!vars
  <2>2. CASE part # "ingestion"
    <3>1. UNCHANGED ingestionVars
      BY <2>2, StepStays DEF OthersStay, Still, vars
    <3> QED BY <3>1 DEF ingestionVars, Ing!vars
  <2> QED BY <2>1, <2>2
<1> QED BY <1>1, <1>2, PTL DEF Spec, Ing!Spec

LEMMA BackfillRuns == Spec => Bf!Spec
<1>1. Init => Bf!Init
  BY DEF Init
<1>2. [Next]_vars => [Bf!Next]_(Bf!vars)
  <2> SUFFICES ASSUME [Next]_vars PROVE [Bf!Next]_(Bf!vars)
    OBVIOUS
  <2>1. CASE part = "backfill"
    BY <2>1 DEF Next, vars, backfillVars, Bf!vars
  <2>2. CASE part # "backfill"
    <3>1. UNCHANGED backfillVars
      BY <2>2, StepStays DEF OthersStay, Still, vars
    <3> QED BY <3>1 DEF backfillVars, Bf!vars
  <2> QED BY <2>1, <2>2
<1> QED BY <1>1, <1>2, PTL DEF Spec, Bf!Spec

LEMMA ScanRuns == Spec => Scan!Init /\ [][Scan!NextWithReset]_(Scan!vars)
<1>1. Init => Scan!Init
  BY DEF Init
<1>2. [Next]_vars => [Scan!NextWithReset]_(Scan!vars)
  <2> SUFFICES ASSUME [Next]_vars PROVE [Scan!NextWithReset]_(Scan!vars)
    OBVIOUS
  <2>1. CASE part = "scan"
    BY <2>1 DEF Next, vars, scanVars, Scan!vars
  <2>2. CASE part # "scan"
    <3>1. UNCHANGED scanVars
      BY <2>2, StepStays DEF OthersStay, Still, vars
    <3> QED BY <3>1 DEF scanVars, Scan!vars
  <2> QED BY <2>1, <2>2
<1> QED BY <1>1, <1>2, PTL DEF Spec

----------------------------------------------------------------------------
(* The clock is common to the others: a service that has one runs in the      *)
(* behaviours that are about it.                                              *)

Plays(p) == part = p

LEMMA PlaysOn == ASSUME NEW p, [Next]_vars PROVE Plays(p)' <=> Plays(p)
BY StepStays DEF Plays

LEMMA BackupsRuns == Spec /\ Plays("backups") => Bk!Spec
<1>1. Init => Bk!Init
  BY DEF Init
<1>2. [Next]_vars /\ Plays("backups") => [Bk!Next]_(Bk!vars)
  BY DEF Plays, Next, vars, backupVars, Bk!vars
<1>3. [Next]_vars => (Plays("backups")' <=> Plays("backups"))
  BY PlaysOn
<1> QED BY <1>1, <1>2, <1>3, PTL DEF Spec, Bk!Spec

LEMMA VestingRuns == Spec /\ Plays("vesting") => Vest!Spec
<1>1. Init => Vest!Init
  BY DEF Init
<1>2. [Next]_vars /\ Plays("vesting") => [Vest!Next]_(Vest!vars)
  BY DEF Plays, Next, vars, vestingVars, Vest!vars
<1>3. [Next]_vars => (Plays("vesting")' <=> Plays("vesting"))
  BY PlaysOn
<1> QED BY <1>1, <1>2, <1>3, PTL DEF Spec, Vest!Spec

LEMMA EmergencyRuns == Spec /\ Plays("emergency") => Emg!Spec
<1>1. Init => Emg!Init
  BY DEF Init
<1>2. [Next]_vars /\ Plays("emergency") => [Emg!Next]_(Emg!vars)
  BY DEF Plays, Next, vars, emergencyVars, Emg!vars
<1>3. [Next]_vars => (Plays("emergency")' <=> Plays("emergency"))
  BY PlaysOn
<1> QED BY <1>1, <1>2, <1>3, PTL DEF Spec, Emg!Spec

LEMMA FeesRuns == Spec /\ Plays("fees") => Fee!Spec
<1>1. Init => Fee!Init
  BY DEF Init
<1>2. [Next]_vars /\ Plays("fees") => [Fee!Next]_(Fee!vars)
  BY DEF Plays, Next, vars, feeVars, Fee!vars
<1>3. [Next]_vars => (Plays("fees")' <=> Plays("fees"))
  BY PlaysOn
<1> QED BY <1>1, <1>2, <1>3, PTL DEF Spec, Fee!Spec

LEMMA NoticesRuns == Spec /\ Plays("notices") => Ntf!Spec
<1>1. Init => Ntf!Init
  BY DEF Init
<1>2. [Next]_vars /\ Plays("notices") => [Ntf!Next]_(Ntf!vars)
  BY DEF Plays, Next, vars, noticeVars, Ntf!vars
<1>3. [Next]_vars => (Plays("notices")' <=> Plays("notices"))
  BY PlaysOn
<1> QED BY <1>1, <1>2, <1>3, PTL DEF Spec, Ntf!Spec

LEMMA AuditRuns == Spec /\ Plays("audit") => Aud!Spec
<1>1. Init => Aud!Init
  BY DEF Init
<1>2. [Next]_vars /\ Plays("audit") => [Aud!Next]_(Aud!vars)
  BY DEF Plays, Next, vars, auditVars, Aud!vars
<1>3. [Next]_vars => (Plays("audit")' <=> Plays("audit"))
  BY PlaysOn
<1> QED BY <1>1, <1>2, <1>3, PTL DEF Spec, Aud!Spec

LEMMA AnalyticsRuns == Spec /\ Plays("analytics") => Ana!Spec
<1>1. Init => Ana!Init
  BY DEF Init
<1>2. [Next]_vars /\ Plays("analytics") => [Ana!Next]_(Ana!vars)
  BY DEF Plays, Next, vars, analyticsVars, Ana!vars
<1>3. [Next]_vars => (Plays("analytics")' <=> Plays("analytics"))
  BY PlaysOn
<1> QED BY <1>1, <1>2, <1>3, PTL DEF Spec, Ana!Spec

LEMMA BookRuns == Spec /\ Plays("book") => Bids!Spec
<1>1. Init => Bids!Init
  BY DEF Init
<1>2. [Next]_vars /\ Plays("book") => [Bids!Next]_(Bids!vars)
  BY DEF Plays, Next, vars, bookVars, Bids!vars
<1>3. [Next]_vars => (Plays("book")' <=> Plays("book"))
  BY PlaysOn
<1> QED BY <1>1, <1>2, <1>3, PTL DEF Spec, Bids!Spec

LEMMA CacheRuns == Spec /\ Plays("cache") => Cache!Spec
<1>1. Init => Cache!Init
  BY DEF Init
<1>2. [Next]_vars /\ Plays("cache") => [Cache!Next]_(Cache!vars)
  BY DEF Plays, Next, vars, cacheVars, Cache!vars
<1>3. [Next]_vars => (Plays("cache")' <=> Plays("cache"))
  BY PlaysOn
<1> QED BY <1>1, <1>2, <1>3, PTL DEF Spec, Cache!Spec

LEMMA SecretsRuns == Spec /\ Plays("secrets") => Sec!Spec
<1>1. Init => Sec!Init
  BY DEF Init
<1>2. [Next]_vars /\ Plays("secrets") => [Sec!Next]_(Sec!vars)
  BY DEF Plays, Next, vars, secretVars, Sec!vars
<1>3. [Next]_vars => (Plays("secrets")' <=> Plays("secrets"))
  BY PlaysOn
<1> QED BY <1>1, <1>2, <1>3, PTL DEF Spec, Sec!Spec

----------------------------------------------------------------------------
(* In every behaviour of the services the entries of the one it is about keep *)
(* their types.                                                               *)
THEOREM ServicesTyped == Spec => []TypeOK
<1>1. Spec => [](Plays("backups") => Bk!TypeOK)
  <2>1. [Next]_vars => (Plays("backups")' <=> Plays("backups"))
    BY PlaysOn
  <2> QED BY <2>1, BackupsRuns, BackupsTyped, PTL DEF Spec
<1>2. Spec => [](Plays("vesting") => Vest!TypeOK)
  <2>1. [Next]_vars => (Plays("vesting")' <=> Plays("vesting"))
    BY PlaysOn
  <2> QED BY <2>1, VestingRuns, VestingTyped, PTL DEF Spec
<1>3. Spec => [](Plays("emergency") => Emg!TypeOK)
  <2>1. [Next]_vars => (Plays("emergency")' <=> Plays("emergency"))
    BY PlaysOn
  <2> QED BY <2>1, EmergencyRuns, EmergencyTyped, PTL DEF Spec
<1>4. Spec => [](Plays("fees") => Fee!TypeOK)
  <2>1. [Next]_vars => (Plays("fees")' <=> Plays("fees"))
    BY PlaysOn
  <2> QED BY <2>1, FeesRuns, FeesTyped, PTL DEF Spec
<1>5. Spec => [](Plays("notices") => Ntf!TypeOK)
  <2>1. [Next]_vars => (Plays("notices")' <=> Plays("notices"))
    BY PlaysOn
  <2> QED BY <2>1, NoticesRuns, NoticesTyped, PTL DEF Spec
<1>6. Spec => [](Plays("audit") => Aud!TypeOK)
  <2>1. [Next]_vars => (Plays("audit")' <=> Plays("audit"))
    BY PlaysOn
  <2> QED BY <2>1, AuditRuns, AuditTyped, PTL DEF Spec
<1>7. Spec => [](Plays("analytics") => Ana!TypeOK)
  <2>1. [Next]_vars => (Plays("analytics")' <=> Plays("analytics"))
    BY PlaysOn
  <2> QED BY <2>1, AnalyticsRuns, AnalyticsTyped, PTL DEF Spec
<1>8. Spec => [](Plays("book") => Bids!TypeOK)
  <2>1. [Next]_vars => (Plays("book")' <=> Plays("book"))
    BY PlaysOn
  <2> QED BY <2>1, BookRuns, BookTyped, PTL DEF Spec
<1>9. Spec => [](Plays("cache") => Cache!TypeOK)
  <2>1. [Next]_vars => (Plays("cache")' <=> Plays("cache"))
    BY PlaysOn
  <2> QED BY <2>1, CacheRuns, CacheTyped, PTL DEF Spec
<1>10. Spec => [](Plays("secrets") => Sec!TypeOK)
  <2>1. [Next]_vars => (Plays("secrets")' <=> Plays("secrets"))
    BY PlaysOn
  <2> QED BY <2>1, SecretsRuns, SecretsTyped, PTL DEF Spec
<1>11. Spec => []Ins!TypeOK
  BY InsuranceRuns, InsuranceTyped, PTL
<1>12. Spec => []Gov!TypeOK
  BY GovernanceRuns, GovernanceTyped, PTL
<1>13. Spec => []Dis!TypeOK
  BY DisputesRuns, DisputesTyped, PTL
<1>14. Spec => []Kyc!TypeOK
  BY KycRuns, KycTyped, PTL
<1>15. Spec => []Inv!TypeOK
  BY InvestorRuns, InvestorTyped, PTL
<1>16. Spec => []Cat!TypeOK
  BY CatalogueRuns, CatalogueTyped, PTL
<1>17. Spec => []Ing!TypeOK
  BY IngestionRuns, IngestionTyped, PTL
<1>18. Spec => []Bf!TypeOK
  BY BackfillRuns, BackfillTyped, PTL
<1>19. Spec => []Scan!TypeOK
  BY ScanRuns, ScanTyped, PTL
<1>20. Spec => [](part \in Parts)
  <2>1. Init => part \in Parts
    BY DEF Init
  <2>2. part \in Parts /\ [Next]_vars => (part \in Parts)'
    BY StepStays
  <2> QED BY <2>1, <2>2, PTL DEF Spec
<1> DEFINE
    Clocked ==
        /\ (Plays("backups") => Bk!TypeOK)
        /\ (Plays("vesting") => Vest!TypeOK)
        /\ (Plays("emergency") => Emg!TypeOK)
        /\ (Plays("fees") => Fee!TypeOK)
        /\ (Plays("notices") => Ntf!TypeOK)
        /\ (Plays("audit") => Aud!TypeOK)
        /\ (Plays("analytics") => Ana!TypeOK)
        /\ (Plays("book") => Bids!TypeOK)
        /\ (Plays("cache") => Cache!TypeOK)
        /\ (Plays("secrets") => Sec!TypeOK)
    Unclocked ==
        /\ Ins!TypeOK
        /\ Gov!TypeOK
        /\ Dis!TypeOK
        /\ Kyc!TypeOK
        /\ Inv!TypeOK
        /\ Cat!TypeOK
        /\ Ing!TypeOK
        /\ Bf!TypeOK
        /\ Scan!TypeOK
<1>21. Clocked /\ Unclocked /\ part \in Parts => TypeOK
  <2> SUFFICES ASSUME Clocked, Unclocked, part \in Parts PROVE TypeOK
    OBVIOUS
  <2>1. CASE part = "backups"
    BY <2>1, Zenon DEF TypeOK, Plays
  <2>2. CASE part = "insurance"
    BY <2>2, Zenon DEF TypeOK, Plays
  <2>3. CASE part = "vesting"
    BY <2>3, Zenon DEF TypeOK, Plays
  <2>4. CASE part = "emergency"
    BY <2>4, Zenon DEF TypeOK, Plays
  <2>5. CASE part = "governance"
    BY <2>5, Zenon DEF TypeOK, Plays
  <2>6. CASE part = "fees"
    BY <2>6, Zenon DEF TypeOK, Plays
  <2>7. CASE part = "disputes"
    BY <2>7, Zenon DEF TypeOK, Plays
  <2>8. CASE part = "kyc"
    BY <2>8, Zenon DEF TypeOK, Plays
  <2>9. CASE part = "investors"
    BY <2>9, Zenon DEF TypeOK, Plays
  <2>10. CASE part = "catalogue"
    BY <2>10, Zenon DEF TypeOK, Plays
  <2>11. CASE part = "notices"
    BY <2>11, Zenon DEF TypeOK, Plays
  <2>12. CASE part = "audit"
    BY <2>12, Zenon DEF TypeOK, Plays
  <2>13. CASE part = "analytics"
    BY <2>13, Zenon DEF TypeOK, Plays
  <2>14. CASE part = "book"
    BY <2>14, Zenon DEF TypeOK, Plays
  <2>15. CASE part = "scan"
    BY <2>15, Zenon DEF TypeOK, Plays
  <2>16. CASE part = "ingestion"
    BY <2>16, Zenon DEF TypeOK, Plays
  <2>17. CASE part = "cache"
    BY <2>17, Zenon DEF TypeOK, Plays
  <2>18. CASE part = "secrets"
    BY <2>18, Zenon DEF TypeOK, Plays
  <2>19. CASE part = "backfill"
    BY <2>19, Zenon DEF TypeOK, Plays
  <2> QED
    BY <2>1, <2>2, <2>3, <2>4, <2>5, <2>6, <2>7, <2>8, <2>9, <2>10, <2>11, <2>12,
       <2>13, <2>14, <2>15, <2>16, <2>17, <2>18, <2>19 DEF Parts
<1>22. Spec => []Clocked
  BY <1>1, <1>2, <1>3, <1>4, <1>5, <1>6, <1>7, <1>8, <1>9, <1>10, PTL
<1>23. Spec => []Unclocked
  BY <1>11, <1>12, <1>13, <1>14, <1>15, <1>16, <1>17, <1>18, <1>19, PTL
<1> HIDE DEF Clocked, Unclocked
<1> QED BY <1>20, <1>21, <1>22, <1>23, PTL

----------------------------------------------------------------------------
(* What each service promises, of the services together. *)

(* Claims, vesting, fees, the catalogue, the audit log, reports, the order    *)
(* book, the read cache and webhook secrets keep their invariants in every    *)
(* behaviour of the services, the clock ticking for whichever has one.        *)
THEOREM ServicesSafe ==
    Spec => /\ []QueriesComplete /\ []VestingPaid /\ []RevenueAccounted /\ []FeesMonotone
            /\ []ReportsAgree /\ []BookConsistent /\ []CacheFresh /\ []SecretsOverlap
            /\ []ClaimsPaid /\ []CatalogueExact
<1>1. Spec => []QueriesComplete
  <2>1. [Next]_vars => (Plays("audit")' <=> Plays("audit"))
    BY PlaysOn
  <2>2. ~Plays("audit") => QueriesComplete
    BY DEF Plays, QueriesComplete
  <2> QED BY <2>1, <2>2, AuditRuns, QueriesHold, PTL DEF Spec
<1>2. Spec => []VestingPaid
  <2>1. [Next]_vars => (Plays("vesting")' <=> Plays("vesting"))
    BY PlaysOn
  <2>2. ~Plays("vesting") => VestingPaid
    BY DEF Plays, VestingPaid
  <2> QED BY <2>1, <2>2, VestingRuns, VestingHolds, PTL DEF Spec
<1>3. Spec => []RevenueAccounted
  <2>1. [Next]_vars => (Plays("fees")' <=> Plays("fees"))
    BY PlaysOn
  <2>2. ~Plays("fees") => RevenueAccounted
    BY DEF Plays, RevenueAccounted
  <2> QED BY <2>1, <2>2, FeesRuns, RevenueHolds, PTL DEF Spec
<1>4. Spec => []FeesMonotone
  <2>1. [Next]_vars => (Plays("fees")' <=> Plays("fees"))
    BY PlaysOn
  <2>2. ~Plays("fees") => FeesMonotone
    BY DEF Plays, FeesMonotone
  <2> QED BY <2>1, <2>2, FeesRuns, FeesGrow, PTL DEF Spec
<1>5. Spec => []ReportsAgree
  <2>1. [Next]_vars => (Plays("analytics")' <=> Plays("analytics"))
    BY PlaysOn
  <2>2. ~Plays("analytics") => ReportsAgree
    BY DEF Plays, ReportsAgree
  <2> QED BY <2>1, <2>2, AnalyticsRuns, ReportsHold, PTL DEF Spec
<1>6. Spec => []BookConsistent
  <2>1. [Next]_vars => (Plays("book")' <=> Plays("book"))
    BY PlaysOn
  <2>2. ~Plays("book") => BookConsistent
    BY DEF Plays, BookConsistent
  <2> QED BY <2>1, <2>2, BookRuns, BookHolds, PTL DEF Spec
<1>7. Spec => []CacheFresh
  <2>1. [Next]_vars => (Plays("cache")' <=> Plays("cache"))
    BY PlaysOn
  <2>2. ~Plays("cache") => CacheFresh
    BY DEF Plays, CacheFresh
  <2> QED BY <2>1, <2>2, CacheRuns, AnswersFresh, PTL DEF Spec
<1>8. Spec => []SecretsOverlap
  <2>1. [Next]_vars => (Plays("secrets")' <=> Plays("secrets"))
    BY PlaysOn
  <2>2. ~Plays("secrets") => SecretsOverlap
    BY DEF Plays, SecretsOverlap
  <2> QED BY <2>1, <2>2, SecretsRuns, SecretsCurrent, PTL DEF Spec
<1>9. Spec => []ClaimsPaid
  BY InsuranceRuns, ClaimsHold, PTL
<1>10. Spec => []CatalogueExact
  BY CatalogueRuns, CatalogueHolds, PTL
<1> QED BY <1>1, <1>2, <1>3, <1>4, <1>5, <1>6, <1>7, <1>8, <1>9, <1>10, PTL

(* What other services ask of a step, while theirs stands still.              *)
LEMMA OtherStepsWithdrawNothing ==
    Spec /\ []~Plays("emergency") => WithdrawnAsAgreed
<1>1. Init => vault \in Nat
  BY EmergencyOK DEF Init, Emg!Init
<1>2. vault \in Nat /\ [Next]_vars /\ ~Plays("emergency") => (vault \in Nat)'
  BY StepStays DEF Plays, OthersStay, Still, vars, emergencyVars
<1>3. [Next]_vars /\ ~Plays("emergency") => UNCHANGED <<log, vault>>
  BY StepStays DEF Plays, OthersStay, Still, vars, emergencyVars
<1>4. vault \in Nat /\ UNCHANGED <<log, vault>> =>
        [\A n \in 1..MaxNonce : log'[n].paid /\ ~log[n].paid =>
          /\ now >= log[n].at + Timelock /\ now < log[n].at + Timelock + Expiration
          /\ vault - vault' = log[n].amount /\ log[n].target # Contract]_(Emg!vars)
  OBVIOUS
<1>5. vault \in Nat /\ UNCHANGED <<log, vault>> =>
        [/\ \A n \in 1..MaxNonce : log[n].paid => log'[n] = log[n]
         /\ vault' < vault /\ escrowed' = escrowed =>
              \E n \in 1..MaxNonce : ~log[n].paid /\ log'[n].paid /\ n \notin cancelled]_(Emg!vars)
  OBVIOUS
<1> QED BY <1>1, <1>2, <1>3, <1>4, <1>5, PTL
        DEF Spec, WithdrawnAsAgreed, Emg!WithdrawnAsAgreed, Emg!ExecutedAsRequested, Emg!PaidOnceOrCancelled

LEMMA OtherStepsNotifyNobody == Spec /\ []~Plays("notices") => OptOutRespected
<1>1. [Next]_vars /\ ~Plays("notices") => inbox' = inbox
  BY StepStays DEF Plays, OthersStay, Still, vars, noticeVars
<1>2. inbox' = inbox =>
         [\A u \in Ntf!User :
             Raised \cap preferences[u].types = {} => inbox'[u] = inbox[u]]_(Ntf!vars)
  OBVIOUS
<1> QED BY <1>1, <1>2, PTL DEF Spec, OptOutRespected, Ntf!OptOutRespected

LEMMA OtherStepsCleanNothing == Spec /\ []~Plays("backups") => BackupsComplete
<1>1. [Next]_vars /\ ~Plays("backups") => backups' = backups
  BY StepStays DEF Plays, OthersStay, Still, vars, backupVars
<1>2. backups' = backups =>
        [\A b \in DOMAIN backups : backups[b] # <<>> /\ backups'[b] = <<>> =>
            /\ backups[b].state = "Active"
            /\ \A c \in Bk!Active(backups', listed') : backups'[c].at >= backups[b].at]_(Bk!vars)
  OBVIOUS
<1>3. ~Plays("backups") => (part = "backups" => Bk!EveryInvoiceListed /\ Bk!ListedAreComplete)
  BY DEF Plays
<1> QED BY <1>1, <1>2, <1>3, PTL DEF Spec, Bk!OldestGoFirst, BackupsComplete

LEMMA ScanKeepsOrder == Spec => NoOvertaking
<1> DEFINE Ordered == \A i, j \in {"i1", "i2", "i3"} \ over :
                         Scan!Before(funded, i, j) => ~Scan!Before(funded', j, i)
<1>1. \A list, i, j : Scan!Before(list, i, j) <=> ScanP!Before(list, i, j)
  BY Zenon DEF Scan!Before, ScanP!Before
<1>2. Scan!TypeOK /\ [Scan!NextWithReset]_(Scan!vars) => Ordered
  <2> SUFFICES ASSUME Scan!TypeOK, [Scan!NextWithReset]_(Scan!vars),
                      NEW i \in {"i1", "i2", "i3"} \ over, NEW j \in {"i1", "i2", "i3"} \ over,
                      Scan!Before(funded, i, j)
               PROVE  ~Scan!Before(funded', j, i)
    OBVIOUS
  <2>1. ScanP!TypeOK
    BY ScanTypeSame
  <2>2. [ScanP!NextWithReset]_(ScanP!vars)
    BY ScanNextSame, Zenon DEF Scan!vars, ScanP!vars
  <2>3. ScanP!Before(funded, i, j)
    BY <1>1
  <2>4. ~ScanP!Before(funded', j, i)
    BY ScanConstants, ScanP!StepKeepsOrder, <2>1, <2>2, <2>3
  <2> QED BY <1>1, <2>4
<1> QED BY <1>2, ScanRuns, ScanTyped, PTL DEF NoOvertaking, Scan!NoOvertaking

(* Withdrawals, governance, KYC, disputes, notifications, ingestion,          *)
(* backfills, investor limits, backups and the overdue scan take no step      *)
(* against what they promise, in whatever behaviour of the services.          *)
THEOREM ServicesStep ==
    Spec => /\ WithdrawnAsAgreed /\ AdminAuthorises /\ KycConsistent /\ DisputesAdvance
            /\ OptOutRespected /\ EventsOnce /\ BackfillsCounted /\ LimitsStable
            /\ BackupsComplete /\ NoOvertaking
<1>1. Spec => WithdrawnAsAgreed
  <2>1. [Next]_vars => (Plays("emergency")' <=> Plays("emergency"))
    BY PlaysOn
  <2> QED BY <2>1, EmergencyRuns, MoneyLeavesAsAgreed, OtherStepsWithdrawNothing, PTL DEF Spec
<1>2. Spec => OptOutRespected
  <2>1. [Next]_vars => (Plays("notices")' <=> Plays("notices"))
    BY PlaysOn
  <2> QED BY <2>1, NoticesRuns, OptOutHolds, OtherStepsNotifyNobody, PTL DEF Spec
<1>3. Spec => BackupsComplete
  <2>1. [Next]_vars => (Plays("backups")' <=> Plays("backups"))
    BY PlaysOn
  <2> QED BY <2>1, BackupsRuns, BackupsHold, OtherStepsCleanNothing, PTL DEF Spec
<1>4. Spec => AdminAuthorises
  BY GovernanceRuns, GovernanceHolds, PTL
<1>5. Spec => KycConsistent
  BY KycRuns, KycHolds, PTL
<1>6. Spec => DisputesAdvance
  BY DisputesRuns, DisputesHold, PTL
<1>7. Spec => EventsOnce
  BY IngestionRuns, RestartsAreSafe, PTL
<1>8. Spec => BackfillsCounted
  BY BackfillRuns, BackfillsAccounted, PTL
<1>9. Spec => LimitsStable
  BY InvestorRuns, LimitsHold, PTL
<1> QED BY <1>1, <1>2, <1>3, <1>4, <1>5, <1>6, <1>7, <1>8, <1>9, ScanKeepsOrder, PTL
=============================================================================
