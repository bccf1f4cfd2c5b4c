----------------------------- MODULE MCServices -----------------------------
(***************************************************************************)
(* The services around the financing core, of the contract and of the      *)
(* backend, on small instances, in one run: those of the three modules     *)
(* below and the overdue scan, one part at a time.                         *)
(***************************************************************************)
EXTENDS ContractServices, MoneyServices, RecordServices

VARIABLES
    funded, cursor, late, over                                        \* OverdueScan

backupVars     == <<backedStatus, backedLists, backups, listed, policy, made>>
insuranceVars  == <<insured, claims>>
vestingVars    == <<schedules, grantor, vestingVault, received, paused>>
emergencyVars  == <<keeper, nonce, pending, cancelled, vault, escrowed, log>>
governanceVars == <<admin, adminInit, protoInit, config, limits, feeBps, treasury,
                    whitelist, halted, bidTtl, maxActive, caller>>
feeVars        == <<fees, platform, rotation, volume, revenue, split, paid, rotated>>
disputeVars    == <<status, dispute, day>>
kycVars        == <<record, businesses, investors, frozen>>
investorVars   == <<profile, granted, updates>>
catalogueVars  == <<invoice, byStatus, byCustomer, byTaxId>>
noticeVars     == <<notice, inbox, preferences>>
auditVars      == <<entry, trail>>
analyticsVars  == <<counted, investment, reports>>
bookVars       == <<bids, book, reader>>
scanVars       == <<funded, cursor, late, over>>
ingestionVars  == <<stored, lastCursor, stuck, doing, incoming, handled>>
cacheVars      == <<serveStale, version, unseen, cached, call, announced>>
secretVars     == <<subscriber, generated, retired>>
backfillVars   == <<runs, timer, waiting, stalled>>

vars == <<part, now, backupVars, insuranceVars, vestingVars, emergencyVars, governanceVars,
          feeVars, disputeVars, kycVars, investorVars, catalogueVars, noticeVars, auditVars,
          analyticsVars, bookVars, scanVars, ingestionVars, cacheVars, secretVars,
          backfillVars>>

Parts == {"backups", "insurance", "vesting", "emergency", "governance", "fees", "disputes",
          "kyc", "investors", "catalogue", "notices", "audit", "analytics", "book", "scan",
          "ingestion", "cache", "secrets", "backfill"}

----------------------------------------------------------------------------
(* Values for the constants of the services. *)

AskedSettings ==
    {[min |-> 1, due |-> 30, grace |-> 604800], [min |-> 5, due |-> 1, grace |-> 86401],
     [min |-> 0, due |-> 30, grace |-> 0]}

AskedWhitelists == {<<>>, <<"t", "u">>, <<"t", "t">>}

Event(ledger, tx, index) == [ledger |-> ledger, tx |-> tx, index |-> index]

SmallChain == <<Event(1, "a", 0), Event(1, "a", 1), Event(1, "a", 2), Event(1, "b", 0),
                Event(2, "c", 0), Event(4, "d", 0)>>

AskedRanges == {[first |-> 1, last |-> 3]}

SomeHistories == {<<0, 0>>, <<200000, 12>>, <<2000000, 25>>, <<5500000, 60>>}

OneBusiness == [i \in {"i1", "i2"} |-> "b"]

OneInvestor == [i1 |-> "v", i2 |-> Nobody]

AllTypes == {"InvoiceCreated", "InvoiceVerified", "InvoiceStatusChanged", "BidReceived",
             "BidAccepted", "PaymentReceived", "PaymentOverdue", "InvoiceDefaulted",
             "SystemAlert", "General"}

SomeWishes == {[types |-> AllTypes, minimum |-> "Low"],
               [types |-> AllTypes \ {"PaymentOverdue"}, minimum |-> "Medium"]}

OneFee(t, n) == [u \in {"Platform", "Processing", "Verification", "EarlyPayment", "LatePayment"} |->
                    IF u = t THEN n ELSE 0]

LowTiers == [Silver |-> 3, Gold |-> 6, Platinum |-> 9]

AskedStructures ==
    {[type |-> "Platform", bps |-> 100, min |-> 60, max |-> 10, active |-> TRUE],
     [type |-> "Platform", bps |-> 100, min |-> 20, max |-> 50, active |-> TRUE],
     [type |-> "LatePayment", bps |-> 100, min |-> 60, max |-> 90, active |-> TRUE]}

SomePayments == {[OneFee("Platform", 2) EXCEPT !["LatePayment"] = 1], OneFee("Processing", 2)}

AskedSplits == {[treasury |-> "x", tBps |-> 3333, dBps |-> 3333, pBps |-> 3334, min |-> 2]}

SomePolicies == {[max |-> 1, age |-> 0, auto |-> TRUE], [max |-> 0, age |-> 1, auto |-> TRUE]}

TwoStatuses == <<"Pending", "Verified">>

Spelled(long) == [tag |-> "t", long |-> long]

TwoSpellings == {Spelled(FALSE), Spelled(TRUE)}

SomeTags == {<<>>, <<Spelled(FALSE), Spelled(TRUE)>>}

Items(price) == <<[count |-> 2, price |-> 1, total |-> 2], [count |-> 1, price |-> price, total |-> 1]>>

SomeMetadata == {[customer |-> "n1", taxId |-> "x1", items |-> Items(1)],
                 [customer |-> "n2", taxId |-> "x1", items |-> Items(1)],
                 [customer |-> "n3", taxId |-> "x3", items |-> Items(2)]}

TwoSpans == [AllTime |-> -1, Daily |-> 1]

TwoOffers == {<<10, 12>>, <<20, 22>>}

SomePayloads == {[amount |-> 1, old |-> -1, new |-> -1]}

----------------------------------------------------------------------------
(* The other instance. *)

Scan == INSTANCE OverdueScan WITH
    Invoice <- {"i1", "i2", "i3"}, Limits <- {0, 2, 9}, MaxBatch <- 2

----------------------------------------------------------------------------
Init ==
    /\ part \in Parts
    /\ Bk!Init /\ Vest!Init /\ Gov!Init /\ Fee!Init /\ Dis!Init /\ Kyc!Init /\ Cat!Init
    /\ Ntf!Init /\ Aud!Init /\ Ana!Init /\ Bids!Init /\ Scan!Init /\ Ing!Init /\ Sec!Init /\ Bf!Init
    /\ Cache!Init /\ (part # "cache" => ~serveStale)
    /\ Ins!Init /\ (part # "insurance" => insured.amount = 1)
    /\ Emg!Init /\ (part # "emergency" => keeper = "a1")
    /\ Inv!Init /\ (part # "investors" => granted = 1 /\ profile = Inv!Scored(Inv!NewProfile(50), 1))

Still(p, partVars) == IF part = p THEN TRUE ELSE UNCHANGED partVars

OthersStay ==
    /\ Still("backups", backupVars) /\ Still("insurance", insuranceVars)
    /\ Still("vesting", vestingVars) /\ Still("emergency", emergencyVars)
    /\ Still("governance", governanceVars) /\ Still("fees", feeVars)
    /\ Still("disputes", disputeVars) /\ Still("kyc", kycVars)
    /\ Still("investors", investorVars) /\ Still("catalogue", catalogueVars)
    /\ Still("notices", noticeVars) /\ Still("audit", auditVars)
    /\ Still("analytics", analyticsVars) /\ Still("book", bookVars) /\ Still("scan", scanVars)
    /\ Still("ingestion", ingestionVars) /\ Still("cache", cacheVars)
    /\ Still("secrets", secretVars) /\ Still("backfill", backfillVars)

Next ==
    /\ \/ part = "backups" /\ Bk!Next
       \/ part = "insurance" /\ Ins!Next /\ UNCHANGED now
       \/ part = "vesting" /\ Vest!Next
       \/ part = "emergency" /\ Emg!Next
       \/ part = "governance" /\ Gov!Next /\ UNCHANGED now
       \/ part = "fees" /\ Fee!Next
       \/ part = "disputes" /\ Dis!Next /\ UNCHANGED now
       \/ part = "kyc" /\ Kyc!Next /\ UNCHANGED now
       \/ part = "investors" /\ Inv!Next /\ UNCHANGED now
       \/ part = "catalogue" /\ Cat!Next /\ UNCHANGED now
       \/ part = "notices" /\ Ntf!Next
       \/ part = "audit" /\ Aud!Next
       \/ part = "analytics" /\ Ana!Next
       \/ part = "book" /\ Bids!Next
       \/ part = "scan" /\ Scan!NextWithReset /\ UNCHANGED now
       \/ part = "ingestion" /\ Ing!Next /\ UNCHANGED now
       \/ part = "cache" /\ Cache!Next
       \/ part = "secrets" /\ Sec!Next
       \/ part = "backfill" /\ Bf!Next /\ UNCHANGED now
    /\ OthersStay
    /\ UNCHANGED part

Spec == Init /\ [][Next]_vars

----------------------------------------------------------------------------
(* Properties: each is stated of the part it is about, in whose module it is *)
(* explained.                                                                *)

(* Every entry has its type, in every service. *)
TypeOK ==
    CASE part = "backups"     -> Bk!TypeOK
      [] part = "insurance"   -> Ins!TypeOK
      [] part = "vesting"     -> Vest!TypeOK
      [] part = "emergency"   -> Emg!TypeOK
      [] part = "governance"  -> Gov!TypeOK
      [] part = "fees"        -> Fee!TypeOK
      [] part = "disputes"    -> Dis!TypeOK
      [] part = "kyc"         -> Kyc!TypeOK
      [] part = "investors"   -> Inv!TypeOK
      [] part = "catalogue"   -> Cat!TypeOK
      [] part = "notices"     -> Ntf!TypeOK
      [] part = "audit"       -> Aud!TypeOK
      [] part = "analytics"   -> Ana!TypeOK
      [] part = "book"        -> Bids!TypeOK
      [] part = "scan"        -> Scan!TypeOK
      [] part = "ingestion"   -> Ing!TypeOK
      [] part = "cache"       -> Cache!TypeOK
      [] part = "secrets"     -> Sec!TypeOK
      [] part = "backfill"    -> Bf!TypeOK

(* defaults.rs, storage.rs: no entry of the Funded list overtakes another.   *)
NoOvertaking == Scan!NoOvertaking

(* lib.rs, submit_kyc_application: as emergency.md has it, nobody submits KYC *)
(* data while the contract is paused.  The code does not keep this.          *)
NoSubmissionWhilePaused == Kyc!NoSubmissionWhilePaused

(* profits.rs, set_platform_fee: as fees.md has it, changing the fee keeps   *)
(* the treasury.  The code does not keep this.                               *)
TreasuryPersists == Fee!TreasuryPersists
=============================================================================
