------------------------- MODULE ProtocolGovernance -------------------------
(***************************************************************************)
(* Who governs the protocol and by which settings: the admin (admin.rs and *)
(* the older set_admin of lib.rs), the one initialisation and the setters  *)
(* (init.rs), the limits (protocol_limits.rs), the currency whitelist      *)
(* (currency.rs), the pause flag (pause.rs) and the bid settings (bid.rs). *)
(* The minimum amount, the due date and the grace period are stored twice: *)
(* in the configuration, and in the limits.                                *)
(***************************************************************************)
EXTENDS Sublists, SequencesExt

CONSTANTS
    Actor,         \* addresses
    NoOne,         \* no address
    Settings,      \* [min, due, grace] asked for: amount, days, seconds
    FeeBps,        \* fees asked for
    Currencies,    \* tokens
    Whitelists,    \* lists of tokens asked for
    Ttls,          \* days of life of a bid asked for
    Caps           \* caps on invoices and on active bids asked for

VARIABLES
    admin,
    adminInit,     \* ADMIN_INITIALIZED_KEY
    protoInit,     \* PROTOCOL_INITIALIZED_KEY
    config,        \* ProtocolConfig, <<>> when not stored
    limits,        \* ProtocolLimits, <<>> when not stored
    feeBps,
    treasury,
    whitelist,
    paused,
    bidTtl,
    maxActive,
    caller         \* history: who authorised the last call

settings == <<config, limits, feeBps, treasury, paused, bidTtl, maxActive>>
vars == <<admin, adminInit, protoInit, settings, whitelist, caller>>

MaxFeeBps == 1000
MaxDueDays == 730
MaxGrace == 2592000
Day == 86400
BidTtlDays == 1..30
DefaultBidTtl == 7
DefaultMaxActive == 20

Init ==
    /\ admin = NoOne /\ adminInit = FALSE
    /\ protoInit = FALSE
    /\ config = <<>> /\ limits = <<>>
    /\ feeBps = 200 /\ treasury = NoOne
    /\ whitelist = <<>>
    /\ paused = FALSE
    /\ bidTtl = DefaultBidTtl /\ maxActive = DefaultMaxActive
    /\ caller = NoOne

(* require_admin *)
IsAdmin(c) == adminInit /\ admin = c

(* The bounds of set_protocol_config and of initialize. *)
ValidConfig(s) == s.min > 0 /\ s.due \in 1..MaxDueDays /\ s.grace \in 0..MaxGrace

(* validate_protocol_limits_params: the grace period fits the due date. *)
ValidLimits(s) == ValidConfig(s) /\ s.grace <= s.due * Day

NewLimits(s, cap) == [min |-> s.min, due |-> s.due, grace |-> s.grace, cap |-> cap]

IsInitialized == protoInit \/ adminInit

----------------------------------------------------------------------------
(* The admin. *)

InitializeAdmin(c) ==
    /\ ~adminInit
    /\ admin' = c /\ adminInit' = TRUE /\ caller' = c
    /\ UNCHANGED <<protoInit, settings, whitelist>>

TransferAdmin(c, new) ==
    /\ IsAdmin(c)
    /\ new # c
    /\ admin' = new /\ caller' = c
    /\ UNCHANGED <<adminInit, protoInit, settings, whitelist>>

(* Anybody may call it. *)
MaySetAdmin_Fault(c, new) == c \in Actor

(* set_admin asks the present admin, or the new one where there is none. *)
MaySetAdmin(c, new) == IF admin = NoOne THEN c = new ELSE c = admin

SetAdmin(c, new) ==
    /\ MaySetAdmin(c, new)
    /\ admin' = new /\ adminInit' = TRUE /\ caller' = c
    /\ UNCHANGED <<protoInit, settings, whitelist>>

----------------------------------------------------------------------------
(* Initialisation. *)

(* validate_initialization_params, and that the limits accept the settings *)
ValidParams(c, s, fee, t, list) ==
    /\ fee \in 0..MaxFeeBps
    /\ ValidConfig(s)
    /\ t # c
    /\ IsInjective(list)
    /\ ValidLimits(s)

(* The limits are not stored with the configuration. *)
StoredLimits_Fault(s) == limits

StoredLimits(s) == NewLimits(s, 100)

(* A second call returns without effect when all the parameters are those    *)
(* stored, and is an error otherwise.                                        *)
Initialize(c, s, fee, t, list) ==
    /\ ~IsInitialized
    /\ ValidParams(c, s, fee, t, list)
    /\ admin' = c /\ adminInit' = TRUE /\ protoInit' = TRUE /\ caller' = c
    /\ config' = s
    /\ limits' = StoredLimits(s)
    /\ feeBps' = fee
    /\ treasury' = t
    /\ whitelist' = IF list = <<>> THEN whitelist ELSE list
    /\ UNCHANGED <<paused, bidTtl, maxActive>>

SetProtocolConfig(c, s) ==
    /\ IsAdmin(c) /\ ValidConfig(s)
    /\ config' = s /\ caller' = c
    /\ UNCHANGED <<admin, adminInit, protoInit, limits, feeBps, treasury, whitelist, paused,
                   bidTtl, maxActive>>

SetFeeConfig(c, fee) ==
    /\ IsAdmin(c) /\ fee \in 0..MaxFeeBps
    /\ feeBps' = fee /\ caller' = c
    /\ UNCHANGED <<admin, adminInit, protoInit, config, limits, treasury, whitelist, paused,
                   bidTtl, maxActive>>

SetTreasury(c, t) ==
    /\ IsAdmin(c) /\ t # c
    /\ treasury' = t /\ caller' = c
    /\ UNCHANGED <<admin, adminInit, protoInit, config, limits, feeBps, whitelist, paused,
                   bidTtl, maxActive>>

----------------------------------------------------------------------------
(* Limits, bids, pause. *)

(* set_protocol_limits, update_protocol_limits and                           *)
(* update_limits_max_invoices; the first call may come through               *)
(* initialize_protocol_limits.  The configuration stays as it is, and the    *)
(* pause check has no effect.                                                *)
SetProtocolLimits(c, s, cap) ==
    /\ IsAdmin(c) /\ ValidLimits(s)
    /\ limits' = NewLimits(s, cap) /\ caller' = c
    /\ UNCHANGED <<admin, adminInit, protoInit, config, feeBps, treasury, whitelist, paused,
                   bidTtl, maxActive>>

SetPaused(c, flag) ==
    /\ IsAdmin(c)
    /\ paused' = flag /\ caller' = c
    /\ UNCHANGED <<admin, adminInit, protoInit, config, limits, feeBps, treasury, whitelist,
                   bidTtl, maxActive>>

SetBidTtlDays(c, days) ==
    /\ ~paused
    /\ IsAdmin(c) /\ days \in BidTtlDays
    /\ bidTtl' = days /\ caller' = c
    /\ UNCHANGED <<admin, adminInit, protoInit, config, limits, feeBps, treasury, whitelist,
                   paused, maxActive>>

ResetBidTtl(c) ==
    /\ IsAdmin(c)
    /\ bidTtl' = DefaultBidTtl /\ caller' = c
    /\ UNCHANGED <<admin, adminInit, protoInit, config, limits, feeBps, treasury, whitelist,
                   paused, maxActive>>

SetMaxActiveBids(c, cap) ==
    /\ IsAdmin(c)
    /\ maxActive' = cap /\ caller' = c
    /\ UNCHANGED <<admin, adminInit, protoInit, config, limits, feeBps, treasury, whitelist,
                   paused, bidTtl>>

----------------------------------------------------------------------------
(* Currencies.  Adding and setting only compare the address they are given  *)
(* with the admin's, which anyone can give; removing and clearing also need  *)
(* its authorisation.                                                        *)

OnlyWhitelist(c, list) ==
    /\ whitelist' = list
    /\ caller' = c
    /\ UNCHANGED <<admin, adminInit, protoInit, settings>>

(* Without a look at the list. *)
Added_Fault(t) == Append(whitelist, t)

Added(t) == IF Contains(whitelist, t) THEN whitelist ELSE Append(whitelist, t)

AddCurrency(c, t) == ~paused /\ adminInit /\ OnlyWhitelist(c, Added(t))

RemoveCurrency(c, t) ==
    /\ ~paused /\ IsAdmin(c)
    /\ OnlyWhitelist(c, Without(whitelist, {t}))

SetCurrencies(c, list) == adminInit /\ OnlyWhitelist(c, Deduped(list))

ClearCurrencies(c) == IsAdmin(c) /\ OnlyWhitelist(c, <<>>)

(* require_allowed_currency: an empty list allows every token. *)
Allowed(t) == whitelist = <<>> \/ Contains(whitelist, t)

----------------------------------------------------------------------------
Next ==
    \E c \in Actor :
        \/ InitializeAdmin(c) \/ ResetBidTtl(c) \/ ClearCurrencies(c)
        \/ \E a \in Actor : TransferAdmin(c, a) \/ SetAdmin(c, a) \/ SetTreasury(c, a)
        \/ \E s \in Settings :
              \/ SetProtocolConfig(c, s)
              \/ \E cap \in Caps : SetProtocolLimits(c, s, cap)
              \/ \E fee \in FeeBps, t \in Actor, list \in Whitelists : Initialize(c, s, fee, t, list)
        \/ \E fee \in FeeBps : SetFeeConfig(c, fee)
        \/ \E flag \in BOOLEAN : SetPaused(c, flag)
        \/ \E days \in Ttls : SetBidTtlDays(c, days)
        \/ \E cap \in Caps : SetMaxActiveBids(c, cap)
        \/ \E t \in Currencies : AddCurrency(c, t) \/ RemoveCurrency(c, t)
        \/ \E list \in Whitelists : SetCurrencies(c, list)

Spec == Init /\ [][Next]_vars

----------------------------------------------------------------------------
TypeOK ==
    /\ admin \in Actor \cup {NoOne} /\ caller \in Actor \cup {NoOne}
    /\ treasury \in Actor \cup {NoOne}
    /\ adminInit \in BOOLEAN /\ protoInit \in BOOLEAN /\ paused \in BOOLEAN
    /\ feeBps \in 0..MaxFeeBps /\ bidTtl \in BidTtlDays
    /\ config # <<>> => ValidConfig(config)
    /\ limits # <<>> => ValidLimits(limits)

(* The protocol counts as initialised only with an admin, and after          *)
(* initialize only with everything the other components read: nothing of it  *)
(* is missing whichever of the older entry points ran before.                *)
InitializedIsComplete ==
    /\ IsInitialized <=> admin # NoOne
    /\ protoInit => config # <<>> /\ limits # <<>> /\ treasury # NoOne

(* A token is in the whitelist once, by whichever of the four functions it   *)
(* came there: removing it once disallows it.                                *)
WhitelistDistinct == IsInjective(whitelist)

(* Over the older and the newer entry points in any order: a call that the   *)
(* present admin did not authorise leaves the admin, both flags and every    *)
(* setting as they are, and cannot give a protocol without an admin a        *)
(* whitelist.  The first admin authorises itself.  Once there is an admin,   *)
(* the whitelist is not protected: add_currency and set_currencies ask for   *)
(* no authorisation, unlike what currency.rs says of them.                   *)
ChangesAuthorised ==
    [][\/ caller' = IF admin = NoOne THEN admin' ELSE admin
       \/ /\ UNCHANGED <<admin, adminInit, protoInit, settings>>
          /\ whitelist' # whitelist => adminInit]_vars

(* Who governs is settled by the admin, and what is governed is complete.    *)
AdminAuthorises == ChangesAuthorised /\ [](InitializedIsComplete /\ WhitelistDistinct)
=============================================================================
