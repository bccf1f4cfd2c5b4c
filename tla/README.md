# QuickLendX: a verification project

QuickLendX is a Soroban (Stellar) smart contract for invoice financing, with an
indexer, a backend and a web frontend around it. A business stores an invoice,
investors bid on it, an accepted bid locks the investor's money in an escrow, and
the deal ends by settlement, refund or default. This directory holds TLA+ models
of the contract and of the services around it, the TLC runs that check them and
the TLAPS proofs about them. Paths below are relative to the repository; files
named without a path are in `quicklendx-contracts/src/`.

    tlc -workers 2 -config core_strict.cfg MCFinancing     # about 1 minute
    tlc -workers 2 -config core_full.cfg MCFinancing       # about 1.5 minutes
    tlc -workers 2 -config services.cfg MCServices         # about 3 minutes
    tlc -workers 2 -config scan_liveness.cfg OverdueScan   # seconds
    tlapm InvoiceFinancing_proofs.tla                      # about 1 minute
    tlapm FinancingSafety_proofs.tla                       # about 5 minutes
    tlapm Collections_proofs.tla                           # 1 minute
    tlapm OverdueScan_proofs.tla                           # seconds
    tlapm ContractServices_proofs.tla                      # about 12 minutes
    tlapm MoneyServices_proofs.tla                         # about 5 minutes
    tlapm RecordServices_proofs.tla                        # about 9 minutes
    tlapm MCServices_proofs.tla                            # about 8 minutes

## 1. The system

### Parts, their state and what makes them correct

| Part | State | Operations that change it | Correct when |
|---|---|---|---|
| Invoices (`invoice.rs`, `storage.rs`, `lib.rs`) | rows; lists by status, business, customer, tax id, metadata | store, upload, verify, cancel, update status, clear all | each list holds exactly the invoices of its key; a terminal status is final |
| Bids (`bid.rs`, `lib.rs`, `verification.rs`) | rows; list per invoice; list per investor; active-bid limit, bid life | place, withdraw, cancel, accept, clean up | no lapsed bid is accepted; the limits hold over live bids; a closed bid stays closed |
| Escrow (`escrow.rs`, `payments.rs`) | one row per invoice; token balances | create, release, refund | the contract holds every Held amount; a principal leaves once |
| Investments (`investment.rs`) | rows; list of active ones; insurance | store, update, add insurance, pay claims | the list is exact; a closed investment stays closed |
| Settlement (`settlement.rs`) | payments, used transaction ids, finalisation marks | partial payment, settle | paid at most the face, a replay counts nothing, the investor gets the principal back, settled once |
| Defaults (`defaults.rs`) | transition guard, scan position | mark defaulted, handle default, scan | only overdue funded invoices default; the scan reaches every funded invoice |
| Fees (`fees.rs`, `profits.rs`) | fee structures, volumes, revenue, treasury and its pending rotation | update, charge, distribute, rotate | a fee never exceeds profit; revenue is distributed once; a lapsed rotation has no effect |
| Governance (`admin.rs`, `init.rs`, `pause.rs`) | admin, two initialised flags, pause flag, settings | initialise, transfer, set, pause | one initialisation, one admin, settings but the whitelist change by the admin only |
| Emergency withdrawal (`emergency.rs`) | one pending withdrawal, nonces, cancelled nonces | initiate, cancel, execute | executed once, inside its window, never after a cancellation |
| KYC (`verification.rs`) | verification rows, lists by status, investor profiles and limits | submit, verify, reject, set limit, update profile | each list is exact; verified stays verified; limits neither grow nor erode |
| Disputes (`dispute.rs`, `dispute_timeline.rs`) | dispute in the invoice, timeline derived from it | create, review, resolve | at most one dispute, moving forward only; pages show each stage once |
| Vesting (`vesting.rs`) | schedules, tokens held for them | create, release | on the line from start to end, nothing before the cliff, covered by tokens |
| Backups (`backup.rs`) | snapshots, list, retention policy | create, restore, archive, clean up | what is listed can be restored, and no restore hides an invoice |
| Limits, currencies (`protocol_limits.rs`, `currency.rs`) | parameters, whitelist | set, add, remove | bounds are respected, a token is listed once |
| Notifications (`notifications.rs`) | records, inboxes, preferences | notify, set status, set preferences | a user who opted out is told nothing |
| Audit log (`audit.rs`) | entries, five indexes | append | whichever index a query takes, nothing is missing |
| Analytics (`analytics.rs`) | reports | generate | two computations of one figure agree |
| Bid pages (`bid.rs`, `investment_queries.rs`) | the bid index, which reads prune | every getter | best bid and ranking agree; no page repeats a bid |
| Event ingestion (`quicklendx-frontend/app/lib/indexer/cursor.ts`) | stored cursor, its copy, halted | resume, ingest | an event is handled once, in order, also over crashes |
| Read cache (`quicklendx-frontend/app/lib/cache/`) | entries, fetches under way | get, invalidate, flush | what is not marked stale is fresh |
| Webhook secrets (`backend/.../webhookSecretService.ts`) | two secrets, a grace period | register, rotate, finalise, cancel, verify | both are accepted in the period, one after it |
| Backfills (`backend/.../backfillService.ts`) | runs, timers, calls that wait for the audit file | start, pause, resume, tick | each ledger is counted once; a running run has a next step |
| Rest of the backend, frontend, `quicklendx-backend/`, `src/` (second crate) | sample data, configuration, user interface, pure arithmetic | | see section 6 |

### How they interact

The contract. Every entry point is a method of `lib.rs` and runs as one
transaction of the host: it commits as a whole or, on `Err` or a panic, has no
effect. There are no threads. What makes the contract hard is the order of
calls: any participant may call any entry point at any ledger time, and the
records of one deal live in four stores that each entry point updates one by
one.

- Accepting a bid writes the escrow, the bid, the invoice, the status lists, the
  investment and the list of active investments.
- Settlement releases an escrow that is still Held, moves the business's money,
  charges the fee, and closes invoice and investment. Refund and default each
  close a different subset of the four records.
- Bids expire by the clock, but a bid only becomes `Expired` when some call
  refreshes a list that contains it. The list of an invoice and the list of an
  investor are refreshed by different calls.
- Some entry points rely on a check made elsewhere, and it is not made there:
  see `Unchecked` below.

The backend and the frontend follow the contract's events. Here there is
concurrency: TypeScript tasks interleave at their awaits, processes die between
two of them, sources deliver events again, out of order or not at all, and timers
fire late. The indexer stores a cursor after it has handled an event; an event
evicts cache entries, while fetches for them may be under way; a backfill waits
for its audit file between changing a run and setting its timer.

The commit carries two versions of some methods. `types.rs` repeats `Invoice`'s
methods and writes a field, `updated_at`, which the struct does not have;
`invoice.rs` has the version that fits the struct, and the models follow it.
Likewise `lib.rs` imports `bid.rs`'s `Bid`, and the models follow that one.

### What is hard to test

`PROJECT.json` lists the hazards with their lines. The kinds are: calls in an
order nobody wrote a test for (a release, then a settlement, then a status
update); indexes that go stale (status lists, bid lists, active investments,
customers); records updated one by one; reads that prune what they page through;
a crash between handling and storing; a pause or a resume in the middle of
another call; a grace period that ends only when somebody looks; rounding in
fees, limits and vesting; retried payments; limits counted over lists that still
hold lapsed bids; the boundary of a grace period or of a payment cap.

## 2. The modules

| Module | What it is |
|---|---|
| `InvoiceFinancing` | the financing life cycle: 17 entry points and the clock |
| `FundingDeal` | what the contract promises about the money of a deal |
| `FinancingProperties` | the properties of `InvoiceFinancing`, and the mapping to `FundingDeal` |
| `InvoiceFinancing_proofs` | types, the invariant of a deal and the refinement: theorems and their proofs |
| `FinancingSafety_proofs` | the properties of `FinancingProperties`, those about sums and counts last: theorems and their proofs |
| `Sums`, `Sublists` | the sum of a function over a set; lists that have lost entries |
| `Collections_proofs` | the lemmas on sums, counts and lists that the other proofs rest on |
| `MCFinancing` | the small instances of `InvoiceFinancing` |
| `OverdueScan` | the overdue scan: the list of Funded invoices and the position in it, with its properties |
| `OverdueScan_proofs` | its safety properties: theorems and their proofs |
| `ScanRounds` | `OverdueScan` with a record of what a round of scans inspected |
| `Backups`, `Insurance`, `VestingSchedules`, `EmergencyWithdrawal`, `ProtocolGovernance`, `FeeTreasury`, `Disputes`, `KycVerification`, `InvestorScoring`, `InvestorAnalytics`, `InvoiceCatalogue`, `Notifications`, `AuditLog`, `Analytics`, `BidRanking` | one service of the contract each, with its properties |
| `EventIngestion`, `ReadCache`, `WebhookSecrets`, `BackfillRuns` | one service of the backend or the frontend each, with its properties |
| `Services` | what the services have in common |
| `ContractServices`, `MoneyServices`, `RecordServices` | instances and properties of eighteen of these services, for any constants that satisfy the assumptions named there |
| `ContractServices_proofs` | emergency withdrawal, governance, KYC, disputes, notifications, the order book: theorems and their proofs |
| `MoneyServices_proofs` | limits, vesting, insurance, fees and revenue, reports: theorems and their proofs |
| `RecordServices_proofs` | audit log, backups, catalogue, and the backend and frontend services: theorems and their proofs |
| `MCServices` | extends these three by the overdue scan and checks all nineteen services on small instances |
| `MCServices_proofs` | what holds of all of them together: theorems and their proofs |

### InvoiceFinancing

One variable per store: `invoice`, `bid`, `escrow` and `investment` are the rows,
`byStatus`, `invoiceBids`, `investorBids` and `active` the lists kept beside
them, `nonces` and `finalized` the persistent marks of `settlement.rs`,
`defaultGuard` that of `defaults.rs`, `balance` the token contract, `now` the
ledger timestamp. An escrow and an investment are kept by invoice, as the code
looks them up by invoice.

One action per entry point, with the guard of its early returns and every write:

| Action | Code |
|---|---|
| `StoreInvoice`, `UploadInvoice`, `VerifyInvoice`, `CancelInvoice`, `UpdateInvoiceStatus` | the entry points of those names in `lib.rs` |
| `PlaceBid` | `place_bid`, `validate_bid`, `validate_investor_investment` and both refreshes |
| `WithdrawBid`, `CancelBid`, `CleanupExpiredBids` | the same in `lib.rs`, `bid.rs` |
| `AcceptBidAndFund` | `escrow.rs`, the checked path |
| `AcceptBid` | `accept_bid_impl` of `lib.rs`, which has its own checks |
| `ReleaseEscrow` | `release_escrow_funds`, and `verify_invoice` of a Funded invoice |
| `RefundEscrow` | `refund_escrow_funds` |
| `PartialPayment`, `SettleInvoice` | `process_partial_payment`, `settle_invoice` and `settle_invoice_internal` |
| `HandleDefault`, `DefaultAfterGrace` | `handle_default`; `mark_invoice_defaulted`, `check_invoice_expiration` and one entry of the overdue scan |
| `Tick` | the ledger closes |

Lists are sets: every list is checked for duplicates before an insertion, and no
transition depends on its order. Names, descriptions, metadata, events and logs
are left out. Participants have passed KYC, with a fixed limit per investor: how
limits come about is `InvestorScoring`'s matter, insurance claims are
`Insurance`'s. The cap on the number of payments per invoice is left out. All
amounts are in one currency.
Authorisation is by the caller's choice of arguments: an action that needs the
signature of a business or of an investor is that participant's call.

`Unchecked` names entry points that skip a check the others rely on. It
separates two questions. With `Unchecked = {}` a behaviour contains only the
calls a careful client makes, and the properties say what the entry points keep
for such clients. With all four names in it every call the code accepts is a
step. The four are `accept_bid` with a bid of another invoice, `cancel_invoice`
in any status, `handle_default` before the grace period has ended, and
`update_invoice_status`.

An operator `X_Fault` (or `X_WrapFault`) is `X` with one fault; no action uses
it. It shows that the property it is listed with in `PROJECT.json` notices that
fault.

### FundingDeal and the refinement

`FundingDeal` has no invoices, bids or time: a deal is funded once, its principal
leaves custody at most once, forward to the business or back to the funder, and
a deal that is over stays over. `FinancingProperties` reads the phase of a deal
off its escrow and its investment (`PhaseOf`) and maps custody to the contract's
balance. `ImplementsDeal` states that `InvoiceFinancing` implements it.

### OverdueScan and ScanRounds

`DefaultAfterGrace` of `InvoiceFinancing` defaults one invoice, whoever asks for
it. `OverdueScan` is the machine that is to find the invoices: `funded` is the
list of Funded invoices as a sequence, `cursor` the position `defaults.rs` keeps
in storage between calls, `late` the invoices past their grace period, `over`
those for which `handle_default` fails (guard set, or investment closed). `AnyScan`
is `scan_funded_invoice_expirations` with `resolve_scan_limit` (`BatchSize`) and
`normalize_cursor` (`Start`). `Fund` and `Close` stand for everything else that
adds to the list and takes from it. `Reset`, of `NextWithReset`, is
`update_invoice_status` on an invoice that has defaulted. The
removal from the status list of invoices is not in the commit (`storage.rs` calls
`remove_from_status_index`, whose definition for invoices is missing); `Remaining`
follows the definitions for bids and investments, which agree. `Without` and
`Sublist` of `Sublists`, from which it is built, are the lists a filter leaves,
said without recursion.

Assumed: every caller passes the protocol's grace period. A caller with a longer
one moves the position on without defaulting, and could always be first.

`ScanRounds` adds one variable, `owed`, and no behaviour: the invoices that were
listed when the round began and have not been inspected.

### The services of the contract

One module each. Its header says what is left out; every action is an entry
point that succeeds (a call that fails has no effect), and an error path that
does change state is an action or a disjunct of its own.

| Module | State | Worth knowing |
|---|---|---|
| `InvoiceCatalogue` | invoices with metadata, tags, ratings; lists by status, customer, tax id | entry points and `update` both rewrite the lists; `Reindexed` is what the two do together. Searches are operators over the lists |
| `BidRanking` | bids, the index of one invoice, a reader between two pages | every getter prunes lapsed bids; the ranking is a selection sort, the best bid a fold, with one comparator |
| `KycVerification` | KYC records, lists per status, pause flag | an address is a business or an investor, since both records share a storage key |
| `InvestorScoring`, `InvestorAnalytics` | none; the profile of one investor | scores, tiers and limits as operators; the base of a limit is recovered from the limit by division at each update, and the standing comes from the record before the update. No entry point calls `update_investor_analytics` yet |
| `Insurance` | one investment, history of claims | coverage per provider, in whole percent; claims are events |
| `VestingSchedules` | schedules, tokens held and received | `Vested` is the code's integer division |
| `EmergencyWithdrawal` | pending request, nonces, balances | the balance is shared with escrowed money |
| `ProtocolGovernance` | admin, both initialised flags, all settings | two entry points that make an admin; settings stored twice; `caller`, a history variable, is who authorised a call, which for `AddCurrency` and `SetCurrencies` is anyone |
| `FeeTreasury` | fee structures, volumes, revenue per period, treasury, rotation | two modules write the platform fee's entry |
| `Disputes` | dispute and status of an invoice | the timeline is derived, paged and redacted |
| `Backups` | records, status lists, backups, policy | `clear_all_invoices` removes three counters only |
| `Notifications` | records by ledger time, inboxes, preferences | the id is a hash of the ledger time |
| `AuditLog` | entries, five indexes | no flow of the commit appends yet |
| `Analytics` | invoices and investments as far as metrics see them, reports | a report's id is a hash of ledger time and sequence |

### The services of the backend and the frontend

| Module | State | Steps between which others come |
|---|---|---|
| `EventIngestion` | stored cursor, its copy, `doing`; `handled` is history | `Accept`, `Handle`, `Store`, `Note`, as `_accept` awaits; `Crash` between any two; the source offers any event of `Chain` at any time |
| `ReadCache` | entries, fetches (`call`), events not yet passed on (`unseen`) | `Miss` or `Revalidate` begins a fetch, `Read` is the chain's answer, `Fill` stores it; `Change` and `Invalidate` come in between |
| `WebhookSecrets` | the record of one subscriber; `retired` is history | calls run without an await; time passes between them |
| `BackfillRuns` | runs, timers, calls that wait for the audit file | `Start` and `Resume` change the run, `Written` or `NotWritten` is the rest of the call; `Tick`, `ProcessChunk`, `Complete`, `ChunkFails` are the timer |

### Services and MCServices

`ContractServices`, `MoneyServices` and `RecordServices` declare the constants
and the variables of their services and instantiate each with its own;
`services.cfg` gives the constants their values, the structured ones by
definitions at the head of `MCServices`, so that the runs and the proofs are
about the same modules. Each service is modelled over storage of its own; the
admin, the pause flag and the clock, which several read, are in each module as
far as it needs them, and set at will there. So `part`, chosen at the start, is
the service a behaviour is about, and the others stay as initialised. One run
thus checks them all, in the sum of their states.

Two things services do to each other are not covered by that:

- `restore_backup` (`lib.rs:2426-2441`) writes whole invoice rows, with disputes,
  tags, metadata and ratings, and leaves the other indexes as they are. `Backups`
  models what that does to statuses and their lists. It is no action of
  `InvoiceFinancing`, `Disputes` or `InvoiceCatalogue`, so what is said there of
  any order of calls is said of orders without a restore.
- Escrow, vesting and emergency withdrawal use one token balance. `Solvency`
  speaks of escrowed tokens, `VestingPaid` of vested ones, each as if the others
  took nothing; `EmergencyWithdrawal` has the balance and the escrowed part of
  it, and shows the withdrawals, not what they leave uncovered.

## 3. What the runs check

No run of `InvoiceFinancing` has fairness and none checks a liveness property:
every action is the choice of an outside caller, and nothing in the contract
obliges one to call. `CHECK_DEADLOCK` is off there, since a behaviour ends when
the clock has reached its bound and every invoice is closed.

`OverdueScan` assumes weak fairness of the scan, with no say in the batch size:
`default-handling.md` asks operators to run it on a schedule. Nothing is assumed
about funding, closing or the passing of time.

| Run | Instance | Result |
|---|---|---|
| `core_strict` | 2 invoices of different face and due date, 3 bids, 2 investors, 1 business, 4 ledger times, `Unchecked = {}` | 15 properties hold, about 319,000 states |
| `core_full` | 2 like invoices, 2 bids, 1 investor, 2 ledger times, every entry point | 2 properties hold, about 222,000 states |
| `cross_accept`, `held_on_default`, `limit_after_funding`, `cancel_funded` | as above | the documented property is violated |
| `scan_liveness` | lists of up to 4 invoices, batches of 1, 2 and 3 (asked for as 0, 2 and 9) | 2 properties hold, about 6,000 states |
| `scan_reset`, `scan_rounds` | lists of up to 3 invoices, batches of 1 | the documented property is violated |
| `services` | `MCServices`, nineteen small instances | 21 properties hold, about 517,000 states |
| `kyc_while_paused`, `treasury_persists` | as `services` | the documented property is violated |

The properties:

- `StatusAlignment`, `FundedAmounts`: the four records of a deal agree in status,
  investor and amount (INV-1, INV-2 and INV-5 of `docs/contracts/lifecycle.md`).
- `StatusIndexExact`, `ActiveIndexExact`, `BidIndexesComplete`: the lists hold
  what they should. The bid lists may keep a lapsed bid but never lose one that
  counts, although they are pruned by different calls.
- `BidLimits`: the caps hold over live bids.
- `OnlyLiveBidsAccepted`, `TerminalBidsStay`: what may happen to a bid.
- `Solvency`: the contract's balance is exactly the sum of the Held escrows.
- `MoneyFollowsRecords`: the balance of every participant but the treasury
  follows from the records; no principal, repayment or fee moves twice.
- `InvestorMadeWhole`, `PaidInFullIsSettled`, `ReplayNeverCounts`: settlement.
- `TerminalIsFinal`, `NoEarlyDefault`: the life cycle.
- `ImplementsDeal`: the refinement.
- `ScanReachesEveryInvoice`: a late invoice does not stay Funded. The position
  counts in a list that moves under it, so an invoice can be passed over; what
  saves the scan is `NoOvertaking`: each time, an entry in front of it is gone.
- `NoFundedIsOver`: no entry makes a scan fail.

Of the services (each is the conjunction of the named ones, in the module of the
service, in one of the three modules that instantiate them, or in `MCServices`):

- `BackupsComplete`: `EveryInvoiceListed`, `ListedAreComplete`, `OldestGoFirst`.
  However changes, restores and clean-ups alternate, no invoice is missing from
  the list of its status, no half of a backup is left, the oldest go first.
- `ClaimsPaid`, `VestingPaid`, `WithdrawnAsAgreed`, `RevenueAccounted`: money.
  Claims within the investment and once; releases on the line and covered; a
  withdrawal as requested, in its window, once; fees collected are pending or
  paid out, to the last unit, and a treasury took over within its window.
- `FeesMonotone`: after any sequence of accepted fee structures, a larger
  transaction is not cheaper, nor a loyal user's dearer.
- `AdminAuthorises`: `ChangesAuthorised` (a call that the present admin did not
  authorise changes nothing but the whitelist, and that only once there is an
  admin; see the disagreements below), `InitializedIsComplete` (an initialised
  protocol lacks no setting) and `WhitelistDistinct` (a token is listed once).
- `KycConsistent`, `LimitsStable`: lists follow records, verified parties have a
  limit and stay verified; a limit computed again and again stays the same while
  the investor's standing does, and within the grant (also for the function that
  no entry point calls yet).
- `DisputesAdvance`: stage by stage, statements stay, the pages of the timeline
  show each stage once.
- `CatalogueExact`, `QueriesComplete`, `BookConsistent`, `ReportsAgree`: indexes
  and searches agree with the records; the same answer by two computations.
- `OptOutRespected`: preferences at the time decide who is told.
- `NoOvertaking`: see the scan; here also with `Reset`.
- `EventsOnce`: `CommittedWasHandled` (no crash loses an event),
  `CopyFollowsStore` (what the next event is compared with is what is stored),
  `HandledOnce` (none is repeated but the one a crash interrupted) and
  `CursorMovesOn`.
- `CacheFresh`: an unmarked answer was read at most the time to live ago; an
  event clears what is older, but for a fetch it interrupted.
- `SecretsOverlap`: through all rotations, both secrets are accepted in the
  grace period, and afterwards none that was replaced or taken back.
- `BackfillsCounted`: `CountedOnce`, `PausedStands`, `RunningIsDriven`.

Why these bounds. Two invoices are needed to mix up a bid's invoice and the one
named, and to count limits across invoices; no action involves a third. Three
bids let two compete on an invoice while one is on the other, with caps of two,
so that a cap is reached. The limit, 25, admits any one bid and not two of 20.
The second investor can pay for a small bid only, so that funding fails for lack
of money. Amounts 10 and 20 and faces 20 and 10 give partial, exact, capped and
profitable payments; the fee is 10% so that it does not round to 0. A bid lives 1
tick and the clock has 4 values, so that bids lapse before and after clean-ups,
and both grace periods expire before the end for either due date. Symmetry is
over bids, and over the invoices where they are alike; both are sets of model
values that no constant tells apart there.

For the scan, four entries let a batch of 2 wrap around the end, let an invoice
be passed over more than once, and exceed the largest batch, 3. A model value is
used again after its invoice is finished, so behaviours fund and close for ever.
The one thing the bound on the list does exclude is a list that grows faster than
the scan walks it: then the position never wraps.

The bounds of the services are in `services.cfg` and `MCServices`, each the least
with which all actions happen, the limits are reached and every fault listed in
`PROJECT.json` is noticed. What decided them:

- Two of a thing where lists are kept (invoices, raters, investors, bid offers),
  so that one can be where the other belongs; three bids, so that one can lapse
  between two others; three backups and two policies, so that clean-up by number
  and by age both have a choice.
- Amounts and percentages around the boundaries of the code: coverage of 33, 34
  and 100 percent of amounts that do not divide, an invalid 0 and 101; a fee
  limit of 1,000 with 1,001 next to it; fee bounds that could cross; a split of
  3,333, 3,333 and 3,334 basis points of 3; histories on both sides of each tier.
- Clocks long enough for every deadline to pass once and a new period to begin:
  five ticks for vesting with a cliff, four for a timelock and an expiration.
- `EventIngestion`: three ledgers with a missing one, one with two transactions,
  and three events handled, so that a repeat after a crash shows.
- `ReadCache`: two fetches at a time, one change per key, a fetch of up to one
  tick and a time to live of one.
- `BackfillRuns`: two runs of three ledgers in chunks of two, so that the last
  chunk is short; two calls of a run waiting at a time, so that a pause and a
  second resume come in before the first has ended.
- The parameters `MaxTime`, `MaxListed`, `MaxVersion` and the like, named as
  bounds in the modules, only end behaviours.

No run of `MCServices` has fairness: all its steps are calls of outsiders, and
`CHECK_DEADLOCK` is off since its clocks end.

Violations found, each quoted in `PROJECT.json`:

- `cross_accept`: `accept_bid` does not compare the invoice it is given with the
  bid's. The escrow and the investment belong to one invoice and the status
  `Funded` to the other. A test says this call must fail.
- `held_on_default`: a default does not touch the escrow. `lifecycle.md` says no
  Held escrow exists for a Defaulted invoice.
- `limit_after_funding`: the investor's limit is meant to cover funded
  investments, but nothing updates the total it adds.
- `cancel_funded`: `cancel_invoice` is said to work for Pending and Verified
  invoices only; `invoice.rs` does not check it.
- `scan_reset`: an invoice that `update_invoice_status` makes Funded again after
  its default fails every scan of its window, for ever.
- `scan_rounds`: a round of scans until the position is 0 again can miss
  invoices, because its own defaults move the list.
- `kyc_while_paused`: `submit_kyc_application` drops the result of the pause
  check; `emergency.md` says it is blocked.
- `treasury_persists`: `set_platform_fee` rewrites the entry without the
  treasury; `fees.md` says it stays.

Other disagreements between documents and code that the models show and no run
states as a property:

- The whitelist: `add_currency` and `set_currencies` compare the address they are
  given with the admin's and ask for no authorisation (`currency.rs:44`, `:160`,
  `admin.rs:243-255`, and nothing in `lib.rs:436-473`), so both also succeed
  without the admin. `currency.rs:9-13` says all write operations require two
  checks, and `currency-whitelist.md:112-119` that both functions now call
  `require_auth`. `ChangesAuthorised` therefore leaves the whitelist out.
  `set_currencies` and `clear_currencies` also drop the result of the pause check.
- Investor limits: `update_investor_analytics` scores the stored record and writes
  the new one afterwards (`verification.rs:1327-1338`), so score, tier and level
  are one investment behind; `verification.rs:1326` says "Recalculate risk score
  and tier". The function has no caller, though `analytics.md:130` lists it.
- Backups: a restore writes the snapshot's statuses over later ones and leaves
  invoices stored since in place, and a list may still name an invoice whose
  status has moved back (`backup.md:213`, `:222` against `storage.rs:907`).
- A rejected business cannot submit again (`SubmitKycApplication` is disabled
  there): the submission clears the reason, and
  `validate_rejection_reason_immutability` (`verification.rs:147`) refuses a
  record without it. `verification.md:102` says that the reason is cleared on
  resubmission.
- Limits: the grace period of the protocol limits is not the one in force
  (`protocol-limits.md:11`, `:22`): `defaults.rs:108` reads that of the protocol
  configuration, which is set separately.
- Disputes: those of Cancelled and Refunded invoices are in no list
  (`lib.rs`, the lists by dispute status; `dispute.md:142`).
- Notifications of one ledger time share one record (`notifications.rs:93`), and
  reports of one ledger overwrite each other (`analytics.rs:293` against
  `analytics.md:140`).
- A walk through the bid history may skip a bid when lapsed ones leave the list
  between two pages (`queries.md:138`).
- `compareCursors` does not look at the transaction: the first event of a second
  transaction in a ledger has an index already used and is taken for a duplicate
  or a rewind, although `backend-webhook-cursor-cache.md` says the cursor
  "uniquely identifies any on-chain event". A missing last event of a ledger is
  not noticed; a ledger without events halts the ingester, and `resume` does not
  help. On an empty store any first event is accepted.
- `escrow.*` events evict no cache entry, although the same document lists both
  keys for them. A background refresh takes its time after the fetch, so a value
  may be served unmarked for the time to live plus the fetch.
- A backfill that has completed is marked failed when its audit entry cannot be
  written; a start or a resume whose entry cannot be written leaves the run
  `running` without a timer, until it is paused and resumed.
- `cancelRotation` after the grace period brings back the old secret if no
  signature was verified since, and is an error otherwise.

## 4. What is proved

`InvoiceFinancing_proofs` proves, for any constants that satisfy `ConstantsOK`
and `AddressesOK` and for every value of `Unchecked`:

- `TypeCorrectness`: `Spec => []TypeOK`. In particular no balance ever goes
  below zero.
- `DealsConsistent`: the escrow and the investment of an invoice exist together,
  for one investor and amount, and in one of six pairs of statuses.
- `Refinement`: `Spec => ImplementsDeal`. Every step of the contract is a step of
  `FundingDeal` or leaves it unchanged.

The assumptions say that amounts are natural numbers, the fee is at most 10%
(the bound `fees.rs` enforces), the contract is neither an investor nor a
business, and `NoOne` is no address.

The argument. `TypeOK` is not inductive: a transfer needs to know that the payee
of an escrow is an address, and that the amount is not 0. `IInv` adds `BidInv` (a
stored bid names a real invoice and investor and a positive amount, so the
escrow made from it does too) and `DealInv`, whose core is `DealPairs`. The
statuses of the invoice cannot be part of it, because `update_invoice_status`
sets them at will. What makes a second settlement, refund or write-off
impossible nevertheless is on the other side: `update_investment` refuses to
leave a closed status, and a completed investment belongs to a finalized
invoice, which cannot be settled again. So a pair never moves backwards, and
each move is one of `FundingDeal`'s. The proofs have one lemma per action for
the invariant (`...Inv`) and one per action for the refinement (`...Refines`).

`FinancingSafety_proofs` builds on `IInv` and proves the safety properties of
the runs. Four hold for every value of `Unchecked`, whatever the callers do:

- `BidIndexes` (`BidIndexesComplete`), `BidsStayTerminal` (`TerminalBidsStay`),
  `AcceptedWereLive` (`OnlyLiveBidsAccepted`) and `ActiveInvestmentsListed`
  (`ActiveIndexExact`).

Eight assume `Careful == Unchecked = {}`, that no caller uses an entry point that
skips a check. `update_invoice_status` is one of the four, which sets a status at
will; `cross_accept` and `cancel_funded` show what two others break:

- `StatusListsExact` (`StatusIndexExact`), `NeverOverpaid`
  (`PaidInFullIsSettled`), `ReplaysNeverCount` (`ReplayNeverCounts`),
  `TerminalStaysFinal` (`TerminalIsFinal`), `NeverEarly` (`NoEarlyDefault`),
  `StatusesAligned` (`StatusAlignment`), `FundedAmountsAgree` (`FundedAmounts`)
  and `PrincipalRepaid` (`InvestorMadeWhole`).

Three strengthenings carry them. `IndexInv` adds to `BidIndexesComplete` that no
index lists a bid that was never placed: such an entry would be taken for the
bid placed later under that number. `AlignInv` is an invariant per invoice: the
statuses of invoice, escrow and investment and the one Accepted bid belong
together (`Aligned`), and name one investor and amount (`Agreed`). It contains
`IndexInv`, because a refund finds the Accepted bid by scanning the index of the
invoice: were the index incomplete, the refund would leave the bid Accepted.
`OwnInv` says that no business bids on its own invoice: otherwise a settlement
would move money from an account to itself and the investor would gain nothing.
The lemma `StepMoves` lists what any step can do to the row of an invoice, so
that the properties about invoices need no case per action.

Three more speak of sums and counts, for finite sets of identifiers (`FiniteIds`;
the store of a ledger is finite):

- `ContractSolvent` (`Solvency`), for every value of `Unchecked`.
- `MoneyAccounted` (`MoneyFollowsRecords`), for `Careful` callers.
- `BidLimitsKept` (`BidLimits`), for every value of `Unchecked`.

`OverdueScan_proofs`: `ScanTypeCorrect` and `OrderIsKept` (`NoOvertaking`) also with
`Reset`, `OpenDealsOnly` (`NoFundedIsOver`) without it; `scan_reset` shows why.

The services, whose assumptions are those named where they are instantiated
(amounts, times and bounds are natural numbers, or integers where the code takes
either sign; tiers are in their order; preferences are about types of
notification that exist; the period of all time has no length; a page asked for
has an entry; `Nobody` is no address and no status). TLC evaluates them on every
run of `MCServices`.

| Theorem | Property | Inductive invariant |
|---|---|---|
| `MoneyLeavesAsAgreed` | `WithdrawnAsAgreed` | the stored request is the last one logged, not paid, and cancelled only if its nonce is marked |
| `GovernanceHolds` | `AdminAuthorises` (of the whitelist only that a token is in it once, and that none is there before an admin) | there is an admin exactly when the admin flag is set, and an initialised protocol has one and every setting; the whitelist has no repetitions |
| `KycHolds` | `KycConsistent` | how often a list names an address follows from its record: once or never |
| `DisputesHold` | `DisputesAdvance` | a stage reached is dated, not in the future and not before the one in front of it; no other is dated |
| `OptOutHolds` | `OptOutRespected` | none is needed: a call that meets a blocked recipient has added nothing for it |
| `LimitsHold` | `LimitsStable` | score, tier and limit belong together, and the limit comes from a base within the grant |
| `VestingHolds` | `VestingPaid` | what was released lies on or below the line; the tokens held are the sum of the rest |
| `ClaimsHold` | `ClaimsPaid` | 100 times the coverages is at most the amount times the percentages, which are at most 100; all are active before the default and none after |
| `RevenueHolds` | `RevenueAccounted` | per period: collected = distributed + pending = the sum over the types; what the recipients got is what the periods distributed; the split adds up to 10,000; a rotation ends its life after it began |
| `FeesGrow` | `FeesMonotone` | no structure has its least fee above its greatest |
| `ReportsHold` | `ReportsAgree` | every stored report agrees with itself; what is invested in is stored and what is funded is invested in |
| `BookHolds` | `BookConsistent` | the index enumerates, in increasing order, ids that include every placed bid; what a reader was given is increasing, and up to each of them there is no more left to show than its offset |
| `SecretsCurrent` | `SecretsOverlap` | every secret neither replaced nor taken back is the primary or, during a rotation, the pending one |
| `AnswersFresh` | `CacheFresh` | when an entry was read, bounded by when it was stored, and by events announced since only for a fetch under way |
| `BackfillsAccounted` | `BackfillsCounted` | a run has counted what lies before its position, all of it when completed; a running run has a timer, a call that will set one, or an audit entry that failed |
| `QueriesHold` | `QueriesComplete` | each trail enumerates, in increasing order, the ids of the entries that have its key |
| `BackupsHold` | `BackupsComplete` | each invoice is in the list of its status and a list names stored invoices only; the list of backups has exactly the active ones, and each has as many invoices as it counts |
| `CatalogueHolds` | `CatalogueExact` | each list names, once, exactly the invoices whose key is its own; no tag and no rater of an invoice occurs twice, and its average is that of its ratings |
| `RestartsAreSafe` | `EventsOnce` | which event each step of a call is about: handled before stored, stored before noted |

These are about the behaviours of one service each. `MCServices_proofs` is about the
specification the run checks, in which a behaviour is about one service and the
rest stand still:

- `ServicesTyped` (`TypeOK` of `MCServices`): the entries of every service keep their
  types. One lemma per service (`...Typed`, at the end of the module about it)
  gets its `TypeOK` from the invariant above and what that does not say; that of
  the overdue scan comes from `OverdueScan_proofs`, instantiated for the three
  invoices of `MCServices`.
- `ServicesSafe` and `ServicesStep`: the ten invariants and the ten action
  properties of `services`, of that specification.

A service without a clock takes a step of its own or none in every step of
`MCServices` (`...Runs`), so it satisfies its own specification in every behaviour.
The others share `now`, which ticks for whichever has one; theirs is satisfied
in the behaviours about them, and in the rest their properties hold because
nothing they speak of but the time changes (`OtherSteps...`).

Six arguments carry most of this.

*Sums without induction.* The library's induction theorems take an operator as a
parameter, which no installed prover can instantiate. `Collections_proofs` reads
a sum instead as the number of its units (`Size`), shows by the smallest set
that would be a counterexample that the two agree, and so gets from the theorems
on cardinalities what a change of one value does to `SumOver`, that sums of
ordered values are ordered, and that the sum of sums is the sum. With these, a
step that moves one balance moves one sum. In `ContractSolvent` the sum runs
over the Held escrows, and `DealInv` says that each of them is closed once. In
`MoneyAccounted` each of the sums of `MoneyFollowsRecords` is one of a function
of the rows of one invoice, and a lemma per action says which of these functions
changes and by what. In `BidLimitsKept` clean-up and lapse only take from the
set that is counted; a placed bid is added to the set the code counted, which by
`BidIndexesComplete` has every live one.

*Lists that lose entries.* `Sublists` says what a filter does with a strictly
increasing map of positions. `Collections_proofs` shows that there is exactly one
such list for a set of entries, that order, absence of repetitions and the number
of occurrences carry over, and that a list changes as its entries do. The status
lists of KYC, the Funded list of the scan, the pages of the dispute timeline, the
trails of the audit log and the list of backups rest on it. Two increasing lists
of one set are equal, because the n-th entry is the one of rank n: so a query that
starts from an index finds what a walk through all entries would find. `Joined`,
one list after the other, is built the same way: if no entry is in two of the lists
nor twice in one, none is twice in the result, and a list without repetitions is as
long as the set of its entries. So the searches of the catalogue, which walk
through the lists of all statuses, meet every invoice once.

*Rounding.* The divisions of the code round down, so that each proof needs a fact
about quotients: that the quotient of a product does not exceed its factor
(vesting, coverage), that the base recovered from a limit is the least with that
limit and gives it again (limits), that an average lies between its least and its
greatest term (ratings), and that a smaller discount on a larger fee does
not leave less (fees).

*Recursion.* `BookConsistent` is about two folds and a selection sort, and about
a walk through pages, all recursive functions. Their values are those of a
CHOOSE, so each needs a function that satisfies its equations to exist.
`RecursionSolved` gives one for any recursion over numbers that follows a step,
and `Induction`, about a set of numbers, replaces the induction over a
predicate. Then `BestIs` says that the best bid is in the list and beaten by no
other in it, `RankingIs` that the ranking has exactly the live bids, each better
than the next, and since `compare_bids` puts different bids in a strict order
(`BeatsOrders`: the bid number decides when all else is equal) the two agree.
For the pages the invariant bounds ranks: of what a reader could still be shown
up to a bid it was given, there is no more than its offset. Bids only leave the
index, but for new ones with greater ids, so ranks never grow; and what comes
after the offset is greater than all that was given.

*Counts and sums by kind.* The figures of a report are sizes and sums of subsets
of the invoices of a period. Where the kinds exclude each other their sizes add up
to at most the whole, and so do their rates, which round down (`PartsFit`); where
they exhaust it the sums add up to the total (`VolumeByKind`).

*Instances.* The operators of a library module that an instanced module uses are
its own copies to the prover. Where two modules must agree about such a copy, a
lemma says so by its definition (`ScanCounts`, `BkOperators`, `EmgCardinality`).

Two statements changed on the way. `Tier` of `FeeTreasury` was a CASE with
overlapping guards, of which TLC takes the first and the semantics any: it is the
nested test of the code now. `MoneyFollowsRecords` is about every participant but
the treasury: what it gets is the sum of the fees and it may itself be a business
or an investor.

Only model-checked, of the properties of the passing runs:

- `ScanReachesEveryInvoice`: liveness is out of the prover's reach. What the
  argument for it rests on, `OrderIsKept`, is proved.

## 5. Plan

Done: the financing core with its proofs; the overdue scan; every service of the
contract that keeps state; of the backend and the frontend the four services with
concurrency, failures or deadlines. Next:

1. An abstract "pending change" (proposed, lapsed, cancelled, applied once) that
   emergency withdrawal, treasury rotation and secret rotation implement.
2. Ingestion by batches with two workers (`backend/src/services/ingestion.ts`),
   whose check and commit are separate steps, and the cache fed by the ingester.

## 6. Not modelled, and why

- `invoice_search.rs` uses types (`SearchRank` and others) that the commit does
  not define. `freshness.rs` labels answers and keeps no state. Of
  `analytics.rs`, `calculate_investor_analytics` and the investor performance
  metrics, sums that repeat the figures of a report.
- `maintenance.rs` and `contract.rs`: no modules of the crate. `events.rs`,
  `errors.rs`: payloads. `src/`: a second crate of pure arithmetic.
- Sanitation of texts, hashes, signatures and their encodings: a text is a model
  value or its length, a secret its number.
- The rest of the backend: routes, middleware, reconciliation and lag over sample
  data, e-mail notifications, retention, versioning, a single webhook delivery
  without queue or retries. The rest of the frontend: pages. The backend's
  configuration and the documentation tooling: no protocol state.
- `ReadThroughCache.set` and `invalidate` by hand: nothing calls them. Stores
  that answer late; the one in the repository answers at once.
- Overflow of `i128` amounts: the code uses saturating or checked arithmetic on
  amounts bounded by the limits of `protocol_limits.rs`, far below 2^127.
