--------------------------- MODULE RecordServices ---------------------------
(***************************************************************************)
(* The services that keep records and answer questions about them: on      *)
(* chain the audit log, the backups and the catalogue of invoices, off     *)
(* chain the webhook secrets, the read cache, the backfills and the        *)
(* ingestion of events.                                                    *)
(***************************************************************************)
EXTENDS Services

CONSTANTS
    AuditedInvoices, Operations, Loggers, Payloads, MaxFound,
    DayLength, MaxEntries,                                            \* AuditLog
    StoredStages, Policies, MaxInvoices, MaxBackups,                  \* Backups
    CatalogueSize, Categories, Raters, InvoiceTotal, Spellings,
    GivenTags, GivenMetadata, GivenScores, MaxTags, MaxHeld,
    MaxRatings,                                                       \* InvoiceCatalogue
    GracePeriods, DefaultGrace, MaxSecrets,                           \* WebhookSecrets
    Calls, Ttl, Latency, MaxVersion,                                  \* ReadCache
    RequestKeys, Ranges, Chunk, MaxRange, MaxRuns, MaxWaiting,        \* BackfillRuns
    Chain, MaxHandled,                                                \* EventIngestion
    MaxFetchTime, MaxAuditTime, MaxBackupTime                         \* bounds: the clocks

VARIABLES
    entry, trail,                                                     \* AuditLog
    backedStatus, backedLists, backups, listed, policy, made,         \* Backups
    invoice, byStatus, byCustomer, byTaxId,                           \* InvoiceCatalogue
    subscriber, generated, retired,                                   \* WebhookSecrets
    serveStale, version, unseen, cached, call, announced,             \* ReadCache
    runs, timer, waiting, stalled,                                    \* BackfillRuns
    stored, lastCursor, stuck, doing, incoming, handled               \* EventIngestion

(* The bounds of the model. *)
ASSUME RecordBoundsOK ==
    {MaxTime, MaxFetchTime, MaxAuditTime, MaxBackupTime, MaxEntries, MaxHandled} \subseteq Nat

-----------------------------------------------------------------------------
(* The audit log. *)

Aud == INSTANCE AuditLog WITH
    Invoice <- AuditedInvoices, Operation <- Operations, Actor <- Loggers, NoFilter <- Nobody,
    MaxQueryLimit <- MaxFound, MaxTime <- MaxAuditTime

(* audit.rs: whichever index a query takes, no matching entry is missing.    *)
QueriesComplete == part = "audit" => Aud!QueriesComplete

-----------------------------------------------------------------------------
(* Backups. *)

Bk == INSTANCE Backups WITH
    status <- backedStatus, byStatus <- backedLists, Statuses <- StoredStages,
    MaxTime <- MaxBackupTime

(* There is a first status, none of them is that of no invoice, and limits   *)
(* are natural numbers.                                                      *)
ASSUME BackupOK ==
    /\ Len(StoredStages) \in Nat \ {0}
    /\ StoredStages = [n \in 1..Len(StoredStages) |-> StoredStages[n]]
    /\ \A n \in 1..Len(StoredStages) : StoredStages[n] # "None"
    /\ Policies \subseteq [max : Nat, age : Nat, auto : BOOLEAN]
    /\ MaxInvoices \in Nat /\ MaxBackups \in Nat

(* backup.rs, storage.rs: after any mix of changes, restores and clean-ups   *)
(* every invoice is listed under its status, and every backup listed can be  *)
(* restored.  A clean-up removes the oldest first, and no archived one.      *)
BackupsComplete ==
    /\ [](part = "backups" => Bk!EveryInvoiceListed /\ Bk!ListedAreComplete)
    /\ Bk!OldestGoFirst

-----------------------------------------------------------------------------
(* The catalogue of invoices. *)

Cat == INSTANCE InvoiceCatalogue WITH
    Invoice <- 1..CatalogueSize, Category <- Categories, Rater <- Raters, NoText <- Nobody,
    Amount <- InvoiceTotal, Text <- Spellings, NoTag <- Nobody, Tagged <- GivenTags,
    Metadata <- GivenMetadata, Scores <- GivenScores

(* Invoices are given tags in some spelling. *)
ASSUME CatalogueOK ==
    /\ CatalogueSize \in Nat
    /\ \A texts \in GivenTags : texts \in Seq(Spellings)

(* storage.rs, invoice.rs: every index names an invoice where it belongs and *)
(* once; tags and raters are distinct.                                       *)
CatalogueExact == part = "catalogue" => Cat!CatalogueExact /\ Cat!TagsAndRatingsOnce

-----------------------------------------------------------------------------
(* Webhook secrets. *)

Sec == INSTANCE WebhookSecrets WITH made <- generated, NoSecret <- Nobody

(* Grace periods are seconds, and null is no secret. *)
ASSUME GraceOK ==
    /\ GracePeriods \subseteq Nat /\ DefaultGrace \in Nat
    /\ MaxSecrets \in Nat /\ MaxTime \in Nat
    /\ Nobody \notin Nat

(* webhookSecretService.ts: both secrets are accepted through the grace      *)
(* period, and then only the one that remains.                               *)
SecretsOverlap == part = "secrets" => Sec!SecretsOverlap

-----------------------------------------------------------------------------
(* The read cache. *)

Cache == INSTANCE ReadCache WITH MaxTime <- MaxFetchTime

ASSUME CacheOK == Ttl \in Nat /\ Latency \in Nat

(* read-through-cache.ts: what is served without a mark is fresh, and an     *)
(* event clears what is older, but for a fetch under way.                    *)
CacheFresh == part = "cache" => Cache!CacheFresh

-----------------------------------------------------------------------------
(* Backfills. *)

Bf == INSTANCE BackfillRuns WITH NoKey <- Nobody, Keys <- RequestKeys

(* Ledgers are numbers, and a chunk has at least one.  *)
ASSUME BackfillOK == Ranges \subseteq [first : Nat, last : Nat] /\ Chunk \in Nat \ {0}

(* backfillService.ts: every ledger is counted once, a paused run stands     *)
(* still, and a running one has a next step.                                 *)
BackfillsCounted == Bf!BackfillsCounted

-----------------------------------------------------------------------------
(* Event ingestion. *)

Ing == INSTANCE EventIngestion WITH halted <- stuck, NoCursor <- Nobody

(* cursor.ts: the stored cursor moves from one position to the next, its     *)
(* event has been handled whenever the process dies, and no other event than *)
(* the one a crash interrupted is handled again.                             *)
EventsOnce == Ing!EventsOnce
=============================================================================
