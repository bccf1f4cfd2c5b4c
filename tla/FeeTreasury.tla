----------------------------- MODULE FeeTreasury -----------------------------
(***************************************************************************)
(* The fee manager (fees.rs): the fee structures and what a transaction is *)
(* charged by them, the volume tiers of the users, the fees collected per  *)
(* period and their distribution, the treasury and its two-step rotation.  *)
(*                                                                         *)
(* Only initialisation, the treasury, the platform fee and the split       *)
(* compare the caller with the admin; the other calls ask for the          *)
(* authorisation of whoever is given as admin, so anybody may make them.   *)
(* Amounts beyond 32 bits are CONSTANTS with the source's value beside.    *)
(***************************************************************************)
EXTENDS Sums, Sequences

CONSTANTS
    User,            \* parties that pay fees
    Address,         \* addresses of treasuries
    NoOne,           \* no treasury
    TierFrom,        \* tier -> least volume: 10^11, 5*10^11, 10^12
    AbsoluteMaxFee,  \* ABSOLUTE_MAX_FEE: 10^13
    MaxTotalMinFees, \* MAX_TOTAL_MIN_FEES: 25*10^11
    RotationTtl,     \* ROTATION_TTL_SECONDS
    PeriodLength,    \* 2_592_000 seconds
    Structures,      \* structures asked for: [type, bps, min, max, active]
    PlatformBps,     \* platform fees asked for
    Payments,        \* fees paid at once: [FeeType -> Nat]
    Amounts,         \* totals given for them, and volumes reported
    Transactions,    \* amounts of transactions
    Splits,          \* splits asked for: [treasury, tBps, dBps, pBps, min]
    MaxTime,         \* bound of the model: the clock
    MaxCollected,    \* bound of the model: fees of a period
    MaxVolume,       \* bound of the model: a user's volume
    MaxRotations     \* bound of the model: confirmed rotations

VARIABLES
    fees,       \* type -> its structure, <<>> when there is none
    platform,   \* PlatformFeeConfig: [bps, treasury], <<>> when there is none
    rotation,   \* the pending request [to, at, until], <<>> when none
    volume,     \* user -> total volume
    revenue,    \* period -> its RevenueData
    split,      \* the revenue configuration, <<>> when none
    now,
    paid,       \* history: share -> what distributions paid out
    rotated     \* history: the confirmed rotations

vars == <<fees, platform, rotation, volume, revenue, split, now, paid, rotated>>

FeeType == {"Platform", "Processing", "Verification", "EarlyPayment", "LatePayment"}

Bps == 10000
MaxBps == 1000
Shares == {"treasury", "developer", "platform"}
Periods == 0..(MaxTime \div PeriodLength)

NoRevenue ==
    [collected |-> 0, byType |-> [t \in FeeType |-> 0], distributed |-> 0, pending |-> 0]

Structure(t, bps, min, max) ==
    [type |-> t, bps |-> bps, min |-> min, max |-> max, active |-> TRUE]

DefaultFees ==
    [t \in FeeType |->
        CASE t = "Platform"     -> Structure(t, 200, 100, 1000000)
          [] t = "Processing"   -> Structure(t, 50, 50, 500000)
          [] t = "Verification" -> Structure(t, 100, 100, 100000)
          [] OTHER              -> <<>>]

Init ==
    /\ fees = [t \in FeeType |-> <<>>] /\ platform = <<>>
    /\ rotation = <<>> /\ split = <<>>
    /\ volume = [u \in User |-> 0]
    /\ revenue = [p \in Periods |-> NoRevenue]
    /\ now = 0
    /\ paid = [s \in Shares |-> 0] /\ rotated = <<>>

----------------------------------------------------------------------------
(* What a transaction is charged. *)

(* The highest tier that the volume reaches. *)
Tier(v) ==
    IF v >= TierFrom.Platinum THEN "Platinum"
    ELSE IF v >= TierFrom.Gold THEN "Gold"
    ELSE IF v >= TierFrom.Silver THEN "Silver" ELSE "Standard"

(* Silver and Gold are swapped. *)
TierDiscount_Fault(tier) ==
    CASE tier = "Platinum" -> 1500 [] tier = "Gold" -> 500 [] tier = "Silver" -> 1000 [] OTHER -> 0

TierDiscount(tier) ==
    CASE tier = "Platinum" -> 1500 [] tier = "Gold" -> 1000 [] tier = "Silver" -> 500 [] OTHER -> 0

Part(x, bps) == (x * bps) \div Bps

(* calculate_base_fee: the fee is kept between its bounds. *)
BaseFee(s, amount) ==
    LET fee == Part(amount, s.bps) IN
    IF fee < s.min THEN s.min ELSE IF fee > s.max THEN s.max ELSE fee

(* early and late tell when the payment is made. *)
Applies(t, early, late) ==
    /\ fees[t] # <<>> /\ fees[t].active
    /\ t = "EarlyPayment" => early
    /\ t = "LatePayment" => late

Charged(t, tier, amount, early, late) ==
    LET base       == BaseFee(fees[t], amount)
        discounted == IF t = "LatePayment" THEN base ELSE base - Part(base, TierDiscount(tier))
    IN  CASE t = "Platform" /\ early   -> discounted - Part(discounted, 1000)
          [] t = "LatePayment" /\ late -> discounted + Part(discounted, 2000)
          [] OTHER                     -> discounted

(* calculate_total_fees, of a positive amount *)
TotalFees(u, amount, early, late) ==
    Total([t \in {t \in FeeType : Applies(t, early, late)} |->
              Charged(t, Tier(volume[u]), amount, early, late)])

----------------------------------------------------------------------------
(* Configuration. *)

Initialized == fees["Platform"] # <<>>

(* The treasury set before, if any, is forgotten. *)
Initialize ==
    /\ ~Initialized
    /\ fees' = DefaultFees
    /\ platform' = [bps |-> 200, treasury |-> NoOne]
    /\ UNCHANGED <<rotation, volume, revenue, split, now, paid, rotated>>

UpdatePlatformFee(bps) ==
    /\ platform # <<>>
    /\ bps <= MaxBps
    /\ platform' = [platform EXCEPT !.bps = bps]
    /\ UNCHANGED <<fees, rotation, volume, revenue, split, now, paid, rotated>>

(* set_platform_fee, the other way to change the fee, writes the same entry  *)
(* (profits.rs): without the treasury.                                       *)
SetPlatformFee(bps) ==
    /\ bps <= MaxBps
    /\ bps # (IF platform = <<>> THEN 200 ELSE platform.bps)
    /\ platform' = [bps |-> bps, treasury |-> NoOne]
    /\ UNCHANGED <<fees, rotation, volume, revenue, split, now, paid, rotated>>

(* The least fee may exceed the greatest. *)
Consistent_Fault(s) ==
    LET factor == IF s.type \in {"EarlyPayment", "LatePayment"} THEN 500 ELSE 100 IN
    /\ s.min >= 0 /\ s.max >= 0 /\ s.max <= AbsoluteMaxFee
    /\ s.bps > 0 => s.max <= s.bps * factor * 100

(* validate_fee_structure_consistency *)
Consistent(s) ==
    LET factor == IF s.type \in {"EarlyPayment", "LatePayment"} THEN 500 ELSE 100 IN
    /\ s.min >= 0 /\ s.max >= s.min /\ s.max <= AbsoluteMaxFee
    /\ s.bps > 0 => s.max <= s.bps * factor * 100

(* validate_cross_fee_consistency: the structure to be replaced counts too.  *)
CrossConsistent(s) ==
    LET active == {u \in FeeType : fees[u] # <<>> /\ fees[u].active} IN
    /\ s.type = "LatePayment" /\ fees["Platform"] # <<>> => s.min >= fees["Platform"].min
    /\ Total([u \in active |-> fees[u].min]) + s.min <= MaxTotalMinFees

UpdateFeeStructure(s) ==
    /\ Initialized
    /\ s.bps <= MaxBps
    /\ Consistent(s) /\ CrossConsistent(s)
    /\ fees' = [fees EXCEPT ![s.type] = s]
    /\ UNCHANGED <<platform, rotation, volume, revenue, split, now, paid, rotated>>

(* validate_revenue_shares, and the least amount of a distribution *)
ValidSplit(c) ==
    /\ {c.tBps, c.dBps, c.pBps} \subseteq 0..Bps
    /\ c.tBps + c.dBps + c.pBps = Bps
    /\ c.min >= 0

ConfigureRevenueDistribution(c) ==
    /\ ValidSplit(c)
    /\ split' = c
    /\ UNCHANGED <<fees, platform, rotation, volume, revenue, now, paid, rotated>>

----------------------------------------------------------------------------
(* Revenue. *)

(* The parts are not added up. *)
AddsUp_Fault(payment, amount) == \A t \in FeeType : payment[t] >= 0

(* validate_fee_collection_map *)
AddsUp(payment, amount) == (\A t \in FeeType : payment[t] >= 0) /\ Total(payment) = amount

(* collect_fees.  The fees count as the user's volume. *)
CollectFees(u, payment, amount) ==
    LET p == now \div PeriodLength
        r == revenue[p]
    IN  /\ amount > 0
        /\ AddsUp(payment, amount)
        /\ r.collected + amount <= MaxCollected /\ volume[u] + amount <= MaxVolume
        /\ revenue' = [revenue EXCEPT ![p] =
              [r EXCEPT !.collected = @ + amount, !.pending = @ + amount,
                        !.byType = [t \in FeeType |-> @[t] + payment[t]]]]
        /\ volume' = [volume EXCEPT ![u] = @ + amount]
        /\ UNCHANGED <<fees, platform, rotation, split, now, paid, rotated>>

(* update_user_transaction_volume: anybody may report a transaction. *)
UpdateUserVolume(u, amount) ==
    /\ volume[u] + amount <= MaxVolume
    /\ volume' = [volume EXCEPT ![u] = @ + amount]
    /\ UNCHANGED <<fees, platform, rotation, revenue, split, now, paid, rotated>>

(* Each share is rounded down. *)
Parts_Fault(amount) ==
    [s \in Shares |->
        Part(amount, CASE s = "treasury" -> split.tBps [] s = "developer" -> split.dBps
                       [] OTHER -> split.pBps)]

(* The platform receives what is left of the pending amount. *)
Parts(amount) ==
    LET treasury  == Part(amount, split.tBps)
        developer == Part(amount, split.dBps)
    IN  [s \in Shares |-> CASE s = "treasury" -> treasury [] s = "developer" -> developer
                            [] OTHER -> amount - treasury - developer]

(* The split names the treasury the fees are routed to, where there is one.  *)
SameTreasury ==
    split.tBps > 0 /\ platform # <<>> =>
        platform.treasury \in {NoOne, split.treasury}

DistributeRevenue(p) ==
    LET r == revenue[p] IN
    /\ split # <<>>
    /\ SameTreasury
    /\ r.pending > 0 /\ r.pending >= split.min
    /\ revenue' = [revenue EXCEPT ![p] =
          [r EXCEPT !.distributed = @ + r.pending, !.pending = 0]]
    /\ paid' = [s \in Shares |-> paid[s] + Parts(r.pending)[s]]
    /\ UNCHANGED <<fees, platform, rotation, volume, split, now, rotated>>

----------------------------------------------------------------------------
(* The treasury. *)

ConfigureTreasury(a) ==
    /\ platform # <<>>
    /\ platform.treasury # a
    /\ platform' = [platform EXCEPT !.treasury = a]
    /\ UNCHANGED <<fees, rotation, volume, revenue, split, now, paid, rotated>>

InitiateRotation(a) ==
    /\ rotation = <<>> /\ Len(rotated) < MaxRotations
    /\ platform # <<>> => platform.treasury # a
    /\ rotation' = [to |-> a, at |-> now, until |-> now + RotationTtl]
    /\ UNCHANGED <<fees, platform, volume, revenue, split, now, paid, rotated>>

(* The deadline is not looked at. *)
InTime_Fault == TRUE

(* After the deadline the confirmation is an error, which undoes the removal *)
(* of the request: only cancelling it makes room for another.                *)
InTime == now <= rotation.until

ConfirmRotation(a) ==
    /\ rotation # <<>> /\ rotation.to = a
    /\ InTime
    /\ platform # <<>>
    /\ platform' = [platform EXCEPT !.treasury = a]
    /\ rotation' = <<>>
    /\ rotated' = Append(rotated, [to |-> a, after |-> now - rotation.at])
    /\ UNCHANGED <<fees, volume, revenue, split, now, paid>>

CancelRotation ==
    /\ rotation # <<>>
    /\ rotation' = <<>>
    /\ UNCHANGED <<fees, platform, volume, revenue, split, now, paid, rotated>>

Tick ==
    /\ now < MaxTime
    /\ now' = now + 1
    /\ UNCHANGED <<fees, platform, rotation, volume, revenue, split, paid, rotated>>

Next ==
    \/ Initialize \/ CancelRotation \/ Tick
    \/ \E bps \in PlatformBps : UpdatePlatformFee(bps) \/ SetPlatformFee(bps)
    \/ \E s \in Structures : UpdateFeeStructure(s)
    \/ \E c \in Splits : ConfigureRevenueDistribution(c)
    \/ \E u \in User, amount \in Amounts :
          \/ UpdateUserVolume(u, amount)
          \/ \E payment \in Payments : CollectFees(u, payment, amount)
    \/ \E p \in Periods : DistributeRevenue(p)
    \/ \E a \in Address : ConfigureTreasury(a) \/ InitiateRotation(a) \/ ConfirmRotation(a)

Spec == Init /\ [][Next]_vars

----------------------------------------------------------------------------
TypeOK ==
    /\ \A t \in FeeType : fees[t] # <<>> =>
          fees[t].bps \in 0..MaxBps /\ fees[t].min \in Nat /\ fees[t].max \in Nat
    /\ platform # <<>> => platform.bps \in 0..MaxBps /\ platform.treasury \in Address \cup {NoOne}
    /\ rotation # <<>> => rotation.to \in Address /\ rotation.until \in Nat
    /\ volume \in [User -> Int] /\ paid \in [Shares -> Nat] /\ now \in 0..MaxTime

(* Collected fees are never lost or paid twice: in each period what was      *)
(* collected is what is pending and what was distributed, by type and in     *)
(* total, and the three recipients together got all that was distributed.    *)
RevenueAccounted ==
    /\ \A p \in Periods :
          /\ revenue[p].collected = revenue[p].distributed + revenue[p].pending
          /\ revenue[p].collected = Total(revenue[p].byType)
    /\ Total(paid) = Total([p \in Periods |-> revenue[p].distributed])

(* Whatever structures were set, one by one: a larger transaction is never   *)
(* charged less than a smaller one, and a user with more volume never more   *)
(* than a user with less.                                                    *)
FeesMonotone ==
    LET charges == {[volume |-> volume[u], amount |-> a, early |-> early, late |-> late,
                     fee |-> TotalFees(u, a, early, late)] :
                        u \in User, a \in Transactions, early \in BOOLEAN, late \in BOOLEAN}
    IN  \A c, d \in charges :
            /\ c.early = d.early /\ c.late = d.late
            /\ c.amount <= d.amount /\ c.volume >= d.volume
            => c.fee <= d.fee

(* A treasury took over within the window of the request it confirmed.       *)
RotatedInTime == \A n \in DOMAIN rotated : rotated[n].after <= RotationTtl

(* fees.md: "Setting treasury address, then updating fee BPS, preserves      *)
(* treasury routing."                                                        *)
TreasuryPersists ==
    [][Initialized /\ platform'.bps # platform.bps =>
          platform'.treasury = platform.treasury]_vars
=============================================================================
