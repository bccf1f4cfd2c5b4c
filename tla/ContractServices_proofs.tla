----------------------- MODULE ContractServices_proofs ----------------------
(***************************************************************************)
(* Services of the contract, for any addresses, amounts, texts and         *)
(* settings.                                                               *)
(***************************************************************************)
EXTENDS ContractServices, Collections_proofs, SequenceTheorems

----------------------------------------------------------------------------
(* Emergency withdrawal. *)

Request == [at : Nat, amount : Nat, target : Actor \cup {Contract}, paid : BOOLEAN]

Pending == [amount : Nat, target : Actor \cup {Contract}, nonce : Nat, unlock : Nat,
            expires : Nat, cancelled : BOOLEAN]

(* p is what was stored for request r with nonce n. *)
Stores(p, n, r, marked) ==
    /\ p \in Pending
    /\ p.nonce = n /\ n \in 1..MaxNonce
    /\ p.amount = r.amount
    /\ p.unlock = r.at + Timelock
    /\ p.expires = r.at + Timelock + Expiration
    /\ r.target # Contract /\ ~r.paid
    /\ p.cancelled <=> n \in marked

(* The stored request is the last one made, not yet paid, and is marked when  *)
(* its nonce is.  No nonce not yet given is marked or paid.                   *)
EmgInv ==
    /\ nonce \in Nat \ {0} /\ vault \in Int /\ escrowed \in Int /\ now \in Nat
    /\ DOMAIN log = 1..MaxNonce
    /\ \A n \in 1..MaxNonce : log[n] \in Request
    /\ \A p \in pending : Stores(p, nonce, log[nonce], cancelled)
    /\ cancelled \subseteq 1..nonce
    /\ \A n \in 1..MaxNonce : n > nonce => ~log[n].paid

LEMMA InitiateInv ==
    ASSUME EmgInv, NEW amount \in Amounts,
           NEW target \in Actor \cup {Contract}, Emg!Initiate(amount, target)
    PROVE  EmgInv'
<1> DEFINE n == nonce + 1
           p == [amount |-> amount, target |-> target, nonce |-> n,
                 unlock |-> now + Timelock, expires |-> now + Timelock + Expiration,
                 cancelled |-> FALSE]
           r == [at |-> now, amount |-> amount, target |-> target, paid |-> FALSE]
<1>1. /\ n \in 1..MaxNonce /\ n \in Nat \ {0} /\ amount \in Nat /\ target # Contract
      /\ nonce' = n /\ pending' = {p} /\ log' = [log EXCEPT ![n] = r]
      /\ UNCHANGED <<keeper, cancelled, vault, escrowed, now>>
  BY EmergencyOK DEF Emg!Initiate, Emg!NextNonce, EmgInv
<1>2. r \in Request
  BY <1>1 DEF EmgInv, Request
<1>3. n \notin cancelled /\ cancelled' \subseteq 1..n
  BY <1>1 DEF EmgInv
<1>4. Stores(p, n, r, cancelled)
  BY <1>1, <1>3, EmergencyOK DEF Stores, Pending, EmgInv
<1>5. \A m \in 1..MaxNonce : m > n => m > nonce
  BY <1>1 DEF EmgInv
<1> HIDE DEF n, p, r
<1>7. /\ DOMAIN log' = 1..MaxNonce /\ log'[n] = r
      /\ \A m \in 1..MaxNonce : m # n => log'[m] = log[m]
  BY <1>1 DEF EmgInv
<1>8. \A m \in 1..MaxNonce : log'[m] \in Request
  BY <1>2, <1>7 DEF EmgInv
<1>9. \A m \in 1..MaxNonce : m > n => ~log'[m].paid
  BY <1>1, <1>5, <1>7 DEF EmgInv
<1>10. \A q \in pending' : Stores(q, nonce', log'[nonce'], cancelled')
  BY <1>1, <1>4, <1>7
<1>11. nonce' \in Nat \ {0} /\ vault' \in Int /\ escrowed' \in Int /\ now' \in Nat
  BY <1>1 DEF EmgInv
<1> QED BY <1>1, <1>3, <1>7, <1>8, <1>9, <1>10, <1>11 DEF EmgInv

LEMMA ExecuteInv == ASSUME EmgInv, Emg!Execute PROVE EmgInv'
<1>1. PICK p \in pending :
        /\ vault' = vault - p.amount /\ pending' = {}
        /\ log' = [log EXCEPT ![p.nonce].paid = TRUE]
        /\ UNCHANGED <<keeper, nonce, cancelled, escrowed, now>>
  BY DEF Emg!Execute, Emg!AfterExecute
<1>2. p.nonce = nonce /\ nonce \in 1..MaxNonce /\ p.amount \in Nat
  BY DEF EmgInv, Stores, Pending
<1>3. /\ DOMAIN log' = 1..MaxNonce
      /\ log'[nonce] = [log[nonce] EXCEPT !.paid = TRUE]
      /\ \A n \in 1..MaxNonce : n # nonce => log'[n] = log[n]
  BY <1>1, <1>2 DEF EmgInv
<1>4. [log[nonce] EXCEPT !.paid = TRUE] \in Request
  BY <1>2 DEF EmgInv, Request
<1>5. \A n \in 1..MaxNonce : log'[n] \in Request
  BY <1>3, <1>4 DEF EmgInv
<1>6. \A n \in 1..MaxNonce : n > nonce => ~log'[n].paid
  BY <1>2, <1>3 DEF EmgInv
<1>7. vault' \in Int
  BY <1>1, <1>2 DEF EmgInv
<1> QED BY <1>1, <1>3, <1>5, <1>6, <1>7 DEF EmgInv

LEMMA CancelInv == ASSUME EmgInv, Emg!Cancel PROVE EmgInv'
<1>1. PICK p \in pending :
        /\ pending' = {[p EXCEPT !.cancelled = TRUE]}
        /\ cancelled' = cancelled \cup {p.nonce}
        /\ UNCHANGED <<keeper, nonce, vault, escrowed, now, log>>
  BY DEF Emg!Cancel
<1>2. Stores(p, nonce, log[nonce], cancelled) /\ p.nonce = nonce /\ p \in Pending
  BY DEF EmgInv, Stores
<1>3. Stores([p EXCEPT !.cancelled = TRUE], nonce, log[nonce], cancelled')
  BY <1>1, <1>2 DEF Stores, Pending
<1>4. \A q \in pending' : Stores(q, nonce', log'[nonce'], cancelled')
  BY <1>1, <1>3
<1>5. cancelled' \subseteq 1..nonce'
  BY <1>1, <1>2 DEF EmgInv
<1> QED BY <1>1, <1>4, <1>5 DEF EmgInv

LEMMA EmergencyInvariant == Emg!Spec => []EmgInv
<1>1. Emg!Init => EmgInv
  BY EmergencyOK DEF Emg!Init, Emg!InitialNonce, EmgInv, Request
<1>2. EmgInv /\ [Emg!Next]_(Emg!vars) => EmgInv'
  <2> SUFFICES ASSUME EmgInv, [Emg!Next]_(Emg!vars) PROVE EmgInv'
    OBVIOUS
  <2>1. ASSUME NEW amount \in Amounts, NEW target \in Actor \cup {Contract},
               Emg!Initiate(amount, target)
        PROVE  EmgInv'
    BY <2>1, InitiateInv
  <2>2. CASE Emg!Execute
    BY <2>2, ExecuteInv
  <2>3. CASE Emg!Cancel
    BY <2>3, CancelInv
  <2>4. ASSUME UNCHANGED <<nonce, pending, cancelled, log>>, now' \in Nat,
               vault' \in Int, escrowed' \in Int
        PROVE  EmgInv'
    BY <2>4 DEF EmgInv
  <2>5. CASE Emg!Tick
    BY <2>4, <2>5 DEF Emg!Tick, EmgInv
  <2>6. ASSUME NEW a \in Actor, Emg!TransferAdmin(a) PROVE EmgInv'
    BY <2>4, <2>6 DEF Emg!TransferAdmin, EmgInv
  <2>7. ASSUME NEW amount \in Amounts, Emg!CreateEscrow(amount) \/ Emg!PayEscrow(amount)
        PROVE  EmgInv'
    BY <2>4, <2>7, EmergencyOK DEF Emg!CreateEscrow, Emg!PayEscrow, EmgInv
  <2>8. CASE UNCHANGED Emg!vars
    BY <2>4, <2>8 DEF Emg!vars, EmgInv
  <2> QED BY <2>1, <2>2, <2>3, <2>5, <2>6, <2>7, <2>8 DEF Emg!Next
<1> QED BY <1>1, <1>2, PTL DEF Emg!Spec

(* The step of an execution; every other step leaves the paid requests alone. *)
Pays(p) ==
    /\ p \in pending
    /\ Emg!CanExecute(p)
    /\ vault' = vault - p.amount
    /\ escrowed' = escrowed /\ cancelled' = cancelled
    /\ log' = [log EXCEPT ![p.nonce].paid = TRUE]

LEMMA PaymentIsOfRequest ==
    ASSUME EmgInv, NEW p, Pays(p)
    PROVE  /\ nonce \in 1..MaxNonce /\ ~log[nonce].paid /\ nonce \notin cancelled
           /\ log'[nonce].paid
           /\ \A n \in 1..MaxNonce : n # nonce => log'[n] = log[n]
           /\ now >= log[nonce].at + Timelock
           /\ now < log[nonce].at + Timelock + Expiration
           /\ vault - vault' = log[nonce].amount
           /\ log[nonce].target # Contract
<1>1. Stores(p, nonce, log[nonce], cancelled) /\ p \in Pending
  BY DEF EmgInv, Stores, Pays
<1>2. log[nonce] \in Request /\ vault \in Int
  BY <1>1 DEF EmgInv, Stores
<1>3. /\ log'[nonce] = [log[nonce] EXCEPT !.paid = TRUE]
      /\ \A n \in 1..MaxNonce : n # nonce => log'[n] = log[n]
  BY <1>1 DEF EmgInv, Stores, Pays
<1>4. log'[nonce].paid
  BY <1>2, <1>3 DEF Request
<1>5. vault - vault' = p.amount
  BY <1>1, <1>2 DEF Pays, Pending
<1> QED BY <1>1, <1>3, <1>4, <1>5 DEF Stores, Pays, Emg!CanExecute

(* Any other step leaves the requests given so far alone, and pays out of the *)
(* balance only what it takes off the escrows.                                *)
PaysNothing ==
    /\ \A n \in 1..MaxNonce : log[n].paid \/ log'[n].paid => log'[n] = log[n]
    /\ vault' < vault => escrowed' # escrowed

LEMMA PaysOrNot ==
    ASSUME EmgInv, [Emg!Next]_(Emg!vars)
    PROVE  (\E p \in pending : Pays(p)) \/ PaysNothing
<1>1. ASSUME NEW amount \in Amounts, NEW target \in Actor \cup {Contract},
             Emg!Initiate(amount, target)
      PROVE  PaysNothing
  <2>1. /\ nonce + 1 \in 1..MaxNonce /\ nonce + 1 > nonce /\ vault' = vault /\ vault \in Int
        /\ \E r : ~r.paid /\ log' = [log EXCEPT ![nonce + 1] = r]
    <3> DEFINE r == [at |-> now, amount |-> amount, target |-> target, paid |-> FALSE]
    <3>1. ~r.paid /\ log' = [log EXCEPT ![nonce + 1] = r]
      BY <1>1 DEF Emg!Initiate, Emg!NextNonce
    <3> HIDE DEF r
    <3>2. nonce + 1 \in 1..MaxNonce /\ nonce + 1 > nonce /\ vault' = vault /\ vault \in Int
      BY <1>1, EmergencyOK DEF Emg!Initiate, Emg!NextNonce, EmgInv
    <3> QED BY <3>1, <3>2
  <2>2. PICK r : ~r.paid /\ log' = [log EXCEPT ![nonce + 1] = r]
    BY <2>1
  <2>3. ~log[nonce + 1].paid
    BY <2>1 DEF EmgInv
  <2>4. /\ log'[nonce + 1] = r
        /\ \A n \in 1..MaxNonce : n # nonce + 1 => log'[n] = log[n]
    BY <2>1, <2>2 DEF EmgInv
  <2>5. \A n \in 1..MaxNonce : log[n].paid \/ log'[n].paid => log'[n] = log[n]
    BY <2>2, <2>3, <2>4
  <2> QED BY <2>1, <2>5 DEF PaysNothing
<1>2. ASSUME Emg!Execute PROVE \E p \in pending : Pays(p)
  BY <1>2 DEF Emg!Execute, Pays
<1>3. ASSUME UNCHANGED <<vault, log>> PROVE PaysNothing
  BY <1>3 DEF PaysNothing, EmgInv
<1>4. ASSUME Emg!Cancel \/ Emg!Tick \/ \E a \in Actor : Emg!TransferAdmin(a) PROVE PaysNothing
  BY <1>3, <1>4 DEF Emg!Cancel, Emg!Tick, Emg!TransferAdmin
<1>5. ASSUME NEW amount \in Amounts, Emg!CreateEscrow(amount) \/ Emg!PayEscrow(amount)
      PROVE  PaysNothing
  BY <1>5, EmergencyOK DEF PaysNothing, Emg!CreateEscrow, Emg!PayEscrow, EmgInv
<1>6. ASSUME UNCHANGED Emg!vars PROVE PaysNothing
  BY <1>3, <1>6 DEF Emg!vars
<1> QED BY <1>1, <1>2, <1>4, <1>5, <1>6 DEF Emg!Next

(* emergency.rs, execute: however often requests are replaced or cancelled    *)
(* and the admin changes, what an execution pays is what one request asked    *)
(* for, inside the window of that request.                                    *)
THEOREM WithdrawalAsRequested == Emg!Spec => Emg!ExecutedAsRequested
<1> DEFINE AsRequested ==
        \A n \in 1..MaxNonce : log'[n].paid /\ ~log[n].paid =>
          /\ now >= log[n].at + Timelock /\ now < log[n].at + Timelock + Expiration
          /\ vault - vault' = log[n].amount /\ log[n].target # Contract
<1>1. EmgInv /\ [Emg!Next]_(Emg!vars) => AsRequested
  <2> SUFFICES ASSUME EmgInv, [Emg!Next]_(Emg!vars) PROVE AsRequested
    OBVIOUS
  <2>1. ASSUME NEW p \in pending, Pays(p) PROVE AsRequested
    BY <2>1, PaymentIsOfRequest
  <2>2. CASE PaysNothing
    BY <2>2 DEF PaysNothing
  <2> QED BY <2>1, <2>2, PaysOrNot
<1> QED BY <1>1, EmergencyInvariant, PTL DEF Emg!Spec, Emg!ExecutedAsRequested

(* emergency.rs, execute and cancel: no request is paid twice, and no other   *)
(* money than an escrow's leaves without a request that nobody cancelled.     *)
THEOREM WithdrawalOnce == Emg!Spec => Emg!PaidOnceOrCancelled
<1> DEFINE Once ==
        /\ \A n \in 1..MaxNonce : log[n].paid => log'[n] = log[n]
        /\ vault' < vault /\ escrowed' = escrowed =>
             \E n \in 1..MaxNonce : ~log[n].paid /\ log'[n].paid /\ n \notin cancelled
<1>1. EmgInv /\ [Emg!Next]_(Emg!vars) => Once
  <2> SUFFICES ASSUME EmgInv, [Emg!Next]_(Emg!vars) PROVE Once
    OBVIOUS
  <2>1. ASSUME NEW p \in pending, Pays(p) PROVE Once
    BY <2>1, PaymentIsOfRequest
  <2>2. CASE PaysNothing
    BY <2>2 DEF PaysNothing
  <2> QED BY <2>1, <2>2, PaysOrNot
<1> QED BY <1>1, EmergencyInvariant, PTL DEF Emg!Spec, Emg!PaidOnceOrCancelled

(* emergency.rs: money leaves only as one request had asked for, after its   *)
(* waiting time, once, and never for a cancelled request, whatever requests, *)
(* cancellations and late executions came before.                            *)
THEOREM MoneyLeavesAsAgreed == Emg!Spec => WithdrawnAsAgreed
<1>1. Emg!Spec => Emg!ExecutedAsRequested
  BY WithdrawalAsRequested
<1>2. Emg!Spec => Emg!PaidOnceOrCancelled
  BY WithdrawalOnce
<1> QED BY <1>1, <1>2, PTL DEF WithdrawnAsAgreed, Emg!WithdrawnAsAgreed

----------------------------------------------------------------------------
(* Governance. *)

(* Where there is an admin, the newer entry points know it, and an            *)
(* initialised protocol has one and everything initialize stores.             *)
GovInv ==
    /\ admin \in Actor \cup {Nobody}
    /\ adminInit \in BOOLEAN /\ protoInit \in BOOLEAN
    /\ adminInit <=> admin # Nobody
    /\ protoInit => adminInit
    /\ protoInit => config # <<>> /\ limits # <<>> /\ treasury # Nobody

LEMMA RecordsAreStored ==
    /\ \A s \in [min : Int, due : Int, grace : Int] : s # <<>>
    /\ \A s, cap : Gov!NewLimits(s, cap) # <<>>
<1>1. \A s \in [min : Int, due : Int, grace : Int] : "min" \in DOMAIN s
  OBVIOUS
<1>2. \A s, cap : "min" \in DOMAIN Gov!NewLimits(s, cap)
  BY DEF Gov!NewLimits
<1>3. "min" \notin DOMAIN <<>>
  OBVIOUS
<1> QED BY <1>1, <1>2, <1>3

(* One call: the invariant stays, and the present admin, or the first one,    *)
(* authorised what it changes, but for a whitelist under an admin.            *)
Authorised ==
    \/ caller' = IF admin = Nobody THEN admin' ELSE admin
    \/ /\ UNCHANGED <<admin, adminInit, protoInit, Gov!settings>>
       /\ whitelist' # whitelist => adminInit

Governs == GovInv' /\ Authorised

(* A call that installs an admin, ... *)
LEMMA AdminCall ==
    ASSUME GovInv, NEW c \in Actor, NEW a \in Actor,
           Gov!InitializeAdmin(c) \/ Gov!TransferAdmin(c, a) \/ Gov!SetAdmin(c, a)
    PROVE  Governs
<1>1. /\ adminInit' = TRUE /\ caller' = c
      /\ IF admin = Nobody THEN admin' = c ELSE c = admin /\ admin' \in Actor
      /\ UNCHANGED <<protoInit, Gov!settings>>
  BY GovernanceOK DEF Gov!InitializeAdmin, Gov!TransferAdmin, Gov!SetAdmin, Gov!MaySetAdmin, Gov!IsAdmin, GovInv
<1>2. UNCHANGED <<config, limits, treasury>>
  BY <1>1 DEF Gov!settings
<1>3. admin' \in Actor /\ admin' # Nobody
  BY <1>1, GovernanceOK
<1> QED BY <1>1, <1>2, <1>3 DEF Governs, GovInv, Authorised

(* ... the initialisation, ... *)
LEMMA InitializeCall ==
    ASSUME GovInv, NEW c \in Actor, NEW s \in Settings, NEW fee, NEW t \in Actor,
           NEW list, Gov!Initialize(c, s, fee, t, list)
    PROVE  Governs
<1>1. /\ admin = Nobody /\ admin' = c /\ adminInit' = TRUE /\ protoInit' = TRUE /\ caller' = c
      /\ config' = s /\ limits' = Gov!NewLimits(s, 100) /\ treasury' = t
  BY DEF Gov!Initialize, Gov!IsInitialized, Gov!StoredLimits, GovInv
<1>2. s # <<>> /\ Gov!NewLimits(s, 100) # <<>> /\ t # Nobody /\ c # Nobody
  BY RecordsAreStored, GovernanceOK
<1> QED BY <1>1, <1>2 DEF Governs, GovInv, Authorised

(* ... a setter of the admin, ... *)
Sets(c) ==
    /\ Gov!IsAdmin(c) /\ caller' = c
    /\ UNCHANGED <<admin, adminInit, protoInit>>
    /\ config # <<>> => config' # <<>>
    /\ limits # <<>> => limits' # <<>>
    /\ treasury # Nobody => treasury' # Nobody

LEMMA SetterCall == ASSUME GovInv, NEW c \in Actor, Sets(c), Nobody \notin Actor PROVE Governs
BY DEF Sets, Gov!IsAdmin, Governs, GovInv, Authorised

(* ... or of the whitelist.                                                   *)
LEMMA WhitelistCall ==
    ASSUME GovInv, UNCHANGED <<admin, adminInit, protoInit, Gov!settings>>,
           whitelist' # whitelist => adminInit
    PROVE  Governs
<1>1. UNCHANGED <<config, limits, treasury>>
  BY DEF Gov!settings
<1> QED BY <1>1 DEF Governs, GovInv, Authorised

LEMMA GovernanceStep == ASSUME GovInv, [Gov!Next]_(Gov!vars) PROVE Governs
<1>1. ASSUME NEW c \in Actor, Gov!InitializeAdmin(c) PROVE Governs
  BY <1>1, AdminCall
<1>2. ASSUME NEW c \in Actor, NEW a \in Actor, Gov!TransferAdmin(c, a) \/ Gov!SetAdmin(c, a)
      PROVE  Governs
  BY <1>2, AdminCall
<1>3. ASSUME NEW c \in Actor, NEW s \in Settings, NEW fee \in FeeBps, NEW t \in Actor,
             NEW list \in Whitelists, Gov!Initialize(c, s, fee, t, list)
      PROVE  Governs
  BY <1>3, InitializeCall
<1>4. ASSUME NEW c \in Actor, Sets(c) PROVE Governs
  BY <1>4, SetterCall, GovernanceOK
<1>5. ASSUME NEW c \in Actor, NEW t \in Actor, Gov!SetTreasury(c, t) PROVE Governs
  BY <1>4, <1>5, GovernanceOK DEF Gov!SetTreasury, Sets
<1>6. ASSUME NEW c \in Actor, NEW s \in Settings, Gov!SetProtocolConfig(c, s) PROVE Governs
  BY <1>4, <1>6, RecordsAreStored, GovernanceOK DEF Gov!SetProtocolConfig, Sets
<1>7. ASSUME NEW c \in Actor, NEW s \in Settings, NEW cap \in Caps,
             Gov!SetProtocolLimits(c, s, cap)
      PROVE  Governs
  BY <1>4, <1>7, RecordsAreStored DEF Gov!SetProtocolLimits, Sets
<1>8. ASSUME NEW c \in Actor,
             \/ Gov!ResetBidTtl(c)
             \/ \E fee \in FeeBps : Gov!SetFeeConfig(c, fee)
             \/ \E flag \in BOOLEAN : Gov!SetPaused(c, flag)
             \/ \E days \in Ttls : Gov!SetBidTtlDays(c, days)
             \/ \E cap \in Caps : Gov!SetMaxActiveBids(c, cap)
      PROVE  Governs
  BY <1>4, <1>8 DEF Gov!ResetBidTtl, Gov!SetFeeConfig, Gov!SetPaused, Gov!SetBidTtlDays,
                    Gov!SetMaxActiveBids, Sets
<1>9. ASSUME NEW c \in Actor, NEW list, adminInit, Gov!OnlyWhitelist(c, list) PROVE Governs
  BY <1>9, WhitelistCall DEF Gov!OnlyWhitelist
<1>10. ASSUME NEW c \in Actor, Gov!ClearCurrencies(c) PROVE Governs
  BY <1>9, <1>10 DEF Gov!ClearCurrencies, Gov!IsAdmin
<1>11. ASSUME NEW c \in Actor, NEW t \in Currencies, Gov!AddCurrency(c, t) \/ Gov!RemoveCurrency(c, t)
       PROVE  Governs
  BY <1>9, <1>11 DEF Gov!AddCurrency, Gov!RemoveCurrency, Gov!IsAdmin
<1>12. ASSUME NEW c \in Actor, NEW list \in Whitelists, Gov!SetCurrencies(c, list) PROVE Governs
  BY <1>9, <1>12 DEF Gov!SetCurrencies
<1>13. ASSUME UNCHANGED Gov!vars PROVE Governs
  BY <1>13, WhitelistCall DEF Gov!vars
<1> QED BY <1>1, <1>2, <1>3, <1>5, <1>6, <1>7, <1>8, <1>10, <1>11, <1>12, <1>13 DEF Gov!Next

LEMMA GovernanceInvariant == Gov!Spec => []GovInv
<1>1. Gov!Init => GovInv
  BY DEF Gov!Init, GovInv
<1>2. GovInv /\ [Gov!Next]_(Gov!vars) => GovInv'
  BY GovernanceStep DEF Governs
<1> QED BY <1>1, <1>2, PTL DEF Gov!Spec

(* admin.rs, lib.rs, init.rs: whichever of the older and the newer entry      *)
(* points ran before and in whatever order, a call without the authority of   *)
(* the present admin changes nothing but the whitelist, and that only once    *)
(* there is an admin.                                                         *)
THEOREM AdminDecides == Gov!Spec => Gov!ChangesAuthorised
<1>1. GovInv /\ [Gov!Next]_(Gov!vars) => Authorised
  BY GovernanceStep DEF Governs
<1> QED BY <1>1, GovernanceInvariant, PTL DEF Gov!Spec, Gov!ChangesAuthorised, Authorised

(* init.rs: whatever ran before, a protocol that counts as initialised has an *)
(* admin, and after initialize every setting that other components read.      *)
THEOREM InitialisedCompletely == Gov!Spec => []Gov!InitializedIsComplete
<1>1. GovInv => Gov!InitializedIsComplete
  BY DEF GovInv, Gov!InitializedIsComplete, Gov!IsInitialized
<1> QED BY <1>1, GovernanceInvariant, PTL

(* The whitelist. *)
ListInv == whitelist \in Seq(Currencies) /\ IsInjective(whitelist)

LEMMA GovernanceLists ==
    /\ \A list, t : Gov!Contains(list, t) <=> Contains(list, t)
    /\ \A list : Gov!IsInjective(list) <=> IsInjective(list)
    /\ \A list, gone : Gov!Without(list, gone) = Without(list, gone)
    /\ \A list : Gov!Deduped(list) = Deduped(list)
<1>1. \A list, t : Gov!Contains(list, t) <=> Contains(list, t)
  BY DEF Gov!Contains, Contains
<1>2. \A list : Gov!IsInjective(list) <=> IsInjective(list)
  BY DEF Gov!IsInjective, IsInjective
<1>3. ASSUME NEW list, NEW kept PROVE Gov!Sublist(list, kept) = Sublist(list, kept)
  BY Zenon DEF Gov!Sublist, Sublist, Gov!Cardinality, Cardinality
<1>4. ASSUME NEW list, NEW gone PROVE Gov!Without(list, gone) = Without(list, gone)
  <2>1. Gov!Sublist(list, {m \in DOMAIN list : list[m] \notin gone}) =
            Sublist(list, {m \in DOMAIN list : list[m] \notin gone})
    BY <1>3
  <2> QED BY <2>1, Zenon DEF Gov!Without, Without
<1>5. ASSUME NEW list PROVE Gov!Deduped(list) = Deduped(list)
  <2>1. Gov!Sublist(list, {m \in DOMAIN list : \A k \in DOMAIN list : k < m => list[k] # list[m]}) =
            Sublist(list, {m \in DOMAIN list : \A k \in DOMAIN list : k < m => list[k] # list[m]})
    BY <1>3
  <2> QED BY <2>1, Zenon DEF Gov!Deduped, Deduped
<1> QED BY <1>1, <1>2, <1>4, <1>5

LEMMA WhitelistStep == ASSUME ListInv, [Gov!Next]_(Gov!vars) PROVE ListInv'
<1>1. ASSUME UNCHANGED whitelist PROVE ListInv'
  BY <1>1 DEF ListInv
<1>2. ASSUME NEW list \in Seq(Currencies), IsInjective(list), whitelist' = list PROVE ListInv'
  BY <1>2 DEF ListInv
<1>3. ASSUME NEW c, NEW s, NEW fee, NEW t, NEW list \in Whitelists, Gov!Initialize(c, s, fee, t, list)
      PROVE  ListInv'
  <2>1. IsInjective(list) /\ list \in Seq(Currencies)
    BY <1>3, GovernanceLists, WhitelistsOK DEF Gov!Initialize, Gov!ValidParams
  <2> QED BY <1>1, <1>2, <1>3, <2>1 DEF Gov!Initialize
<1>4. ASSUME NEW c, NEW t \in Currencies, Gov!AddCurrency(c, t) PROVE ListInv'
  <2>1. whitelist' = IF Contains(whitelist, t) THEN whitelist ELSE Append(whitelist, t)
    BY <1>4, GovernanceLists DEF Gov!AddCurrency, Gov!OnlyWhitelist, Gov!Added
  <2> QED BY <1>1, <1>2, <2>1, AppendKeeps DEF ListInv
<1>5. ASSUME NEW c, NEW t, Gov!RemoveCurrency(c, t) PROVE ListInv'
  <2>1. whitelist' = Without(whitelist, {t})
    BY <1>5, GovernanceLists DEF Gov!RemoveCurrency, Gov!OnlyWhitelist
  <2> QED BY <1>2, <2>1, WithoutKeeps DEF ListInv
<1>6. ASSUME NEW c, NEW list \in Whitelists, Gov!SetCurrencies(c, list) PROVE ListInv'
  <2>1. whitelist' = Deduped(list) /\ list \in Seq(Currencies)
    BY <1>6, GovernanceLists, WhitelistsOK DEF Gov!SetCurrencies, Gov!OnlyWhitelist
  <2> QED BY <1>2, <2>1, DedupedIsDistinct
<1>7. ASSUME NEW c, Gov!ClearCurrencies(c) PROVE ListInv'
  <2>1. whitelist' = <<>> /\ <<>> \in Seq(Currencies) /\ IsInjective(<<>>)
    BY <1>7 DEF Gov!ClearCurrencies, Gov!OnlyWhitelist, IsInjective
  <2> QED BY <2>1 DEF ListInv
<1>8. ASSUME NEW c,
             \/ Gov!InitializeAdmin(c) \/ Gov!ResetBidTtl(c)
             \/ \E a \in Actor : \/ Gov!TransferAdmin(c, a) \/ Gov!SetAdmin(c, a)
                                 \/ Gov!SetTreasury(c, a)
             \/ \E s \in Settings : \/ Gov!SetProtocolConfig(c, s)
                                    \/ \E cap \in Caps : Gov!SetProtocolLimits(c, s, cap)
             \/ \E fee \in FeeBps : Gov!SetFeeConfig(c, fee)
             \/ \E flag \in BOOLEAN : Gov!SetPaused(c, flag)
             \/ \E days \in Ttls : Gov!SetBidTtlDays(c, days)
             \/ \E cap \in Caps : Gov!SetMaxActiveBids(c, cap)
      PROVE  ListInv'
  <2>1. UNCHANGED whitelist
    BY <1>8 DEF Gov!InitializeAdmin, Gov!ResetBidTtl, Gov!TransferAdmin, Gov!SetAdmin,
                Gov!SetTreasury, Gov!SetProtocolConfig, Gov!SetProtocolLimits, Gov!SetFeeConfig,
                Gov!SetPaused, Gov!SetBidTtlDays, Gov!SetMaxActiveBids
  <2> QED BY <1>1, <2>1
<1>9. ASSUME UNCHANGED Gov!vars PROVE ListInv'
  BY <1>1, <1>9 DEF Gov!vars
<1> QED BY <1>3, <1>4, <1>5, <1>6, <1>7, <1>8, <1>9 DEF Gov!Next

(* currency.rs, init.rs: by whichever of the five functions tokens come and   *)
(* go, one is in the whitelist once, so that removing it once disallows it.   *)
THEOREM TokensListedOnce == Gov!Spec => []Gov!WhitelistDistinct
<1>1. Gov!Init => ListInv
  <2>1. <<>> \in Seq(Currencies) /\ IsInjective(<<>>)
    BY DEF IsInjective
  <2> QED BY <2>1 DEF Gov!Init, ListInv
<1>2. ListInv /\ [Gov!Next]_(Gov!vars) => ListInv'
  BY WhitelistStep
<1>3. ListInv => Gov!WhitelistDistinct
  BY GovernanceLists DEF ListInv, Gov!WhitelistDistinct
<1> QED BY <1>1, <1>2, <1>3, PTL DEF Gov!Spec

(* admin.rs, init.rs, currency.rs: a call that the present admin did not     *)
(* authorise changes nothing but the whitelist, and that only once there is  *)
(* an admin; an initialised protocol lacks no setting, and no token is       *)
(* listed twice.                                                             *)
THEOREM GovernanceHolds == Gov!Spec => AdminAuthorises
<1>1. Gov!Spec => Gov!ChangesAuthorised
  BY AdminDecides
<1>2. Gov!Spec => []Gov!InitializedIsComplete
  BY InitialisedCompletely
<1>3. Gov!Spec => []Gov!WhitelistDistinct
  BY TokensListedOnce
<1> QED BY <1>1, <1>2, <1>3, PTL DEF AdminAuthorises, Gov!AdminAuthorises

----------------------------------------------------------------------------
(* KYC. *)

(* The shape of a record; <<>> is none. *)
IsBusiness(r) == DOMAIN r = {"kind", "status", "reason"} /\ r.kind = "business"

IsInvestor(r) ==
    /\ DOMAIN r = {"kind", "status", "reason", "profile"} /\ r.kind = "investor"
    /\ {"kyc", "limit", "tier", "level", "score"} \subseteq DOMAIN r.profile

Granted(r) ==
    \E g \in Limits : r.profile.limit = Kyc!Limit(r.profile.tier, r.profile.level, g)

IsRecord(r) ==
    r # <<>> =>
        /\ IsBusiness(r) \/ IsInvestor(r)
        /\ r.status \in Kyc!Statuses
        /\ IsInvestor(r) /\ r.status = "Verified" => Granted(r)

Count(list, a) == Cardinality(Occurrences(list, a))

(* How often an address is listed follows from its record alone, but for      *)
(* investors that were rejected, which may be listed as such again and again. *)
Listings(a) ==
    /\ \A s \in Kyc!Statuses :
          Count(businesses[s], a) =
              IF Kyc!HasRecord(a, "business") /\ Kyc!StatusOf(a) = s THEN 1 ELSE 0
    /\ \A s \in {"Pending", "Verified"} :
          Count(investors[s], a) =
              IF Kyc!HasRecord(a, "investor") /\ Kyc!StatusOf(a) = s THEN 1 ELSE 0
    /\ Kyc!HasRecord(a, "investor") /\ Kyc!StatusOf(a) = "Rejected" =>
          Count(investors["Rejected"], a) > 0

KycInv ==
    /\ DOMAIN record = Actor /\ \A a \in Actor : IsRecord(record[a])
    /\ businesses \in [Kyc!Statuses -> Seq(Actor)]
    /\ investors \in [Kyc!Statuses -> Seq(Actor)]
    /\ \A a \in Actor : Listings(a)

LEMMA Shapes ==
    ASSUME NEW r
    PROVE  /\ IsBusiness(r) => r # <<>> /\ ~IsInvestor(r)
           /\ IsInvestor(r) => r # <<>>
           /\ IsRecord(r) /\ r # <<>> => (IsBusiness(r) <=> r.kind = "business")
           /\ IsRecord(r) /\ r # <<>> => (IsInvestor(r) <=> r.kind = "investor")
<1>1. "kind" \notin DOMAIN <<>>
  OBVIOUS
<1>2. IsBusiness(r) \/ IsInvestor(r) => "kind" \in DOMAIN r
  BY DEF IsBusiness, IsInvestor
<1>3. IsBusiness(r) => r.kind = "business"
  BY DEF IsBusiness
<1>4. IsInvestor(r) => r.kind = "investor"
  BY DEF IsInvestor
<1>5. "business" # "investor"
  OBVIOUS
<1> QED BY <1>1, <1>2, <1>3, <1>4, <1>5 DEF IsRecord

(* Relisted takes an address out of one list and adds it to another. *)
Relists(new, lists, a, from, to) ==
    /\ new \in [Kyc!Statuses -> Seq(Actor)]
    /\ \A s \in Kyc!Statuses, x \in Actor :
          /\ Count(lists[s], x) \in Nat
          /\ Count(new[s], x) = (IF x = a /\ s = from THEN 0 ELSE Count(lists[s], x))
                               + (IF x = a /\ s = to THEN 1 ELSE 0)

LEMMA RelistedCounts ==
    ASSUME NEW lists \in [Kyc!Statuses -> Seq(Actor)], NEW a \in Actor,
           NEW from \in Kyc!Statuses \cup {"None"}, NEW to \in Kyc!Statuses
    PROVE  Relists(Kyc!Relisted(lists, a, from, to), lists, a, from, to)
<1> DEFINE left == IF from = "None" THEN lists
                   ELSE [lists EXCEPT ![from] = Without(lists[from], {a})]
           all == Kyc!Relisted(lists, a, from, to)
<1>1. all = [left EXCEPT ![to] = Append(left[to], a)]
  <2>1. ASSUME NEW list PROVE Kyc!Without(list, {a}) = Without(list, {a})
    BY Zenon DEF Kyc!Without, Without, Kyc!Sublist, Sublist, Kyc!Cardinality, Cardinality
  <2> QED BY <2>1 DEF Kyc!Relisted
<1>2. "None" \notin Kyc!Statuses
  BY DEF Kyc!Statuses
<1>3. /\ left \in [Kyc!Statuses -> Seq(Actor)]
      /\ \A s \in Kyc!Statuses :
            left[s] = IF s = from THEN Without(lists[s], {a}) ELSE lists[s]
  BY <1>2, WithoutKeeps
<1>4. ASSUME NEW s \in Kyc!Statuses, NEW x \in Actor
      PROVE  /\ Count(lists[s], x) \in Nat
             /\ Count(left[s], x) \in Nat
             /\ Count(left[s], x) = IF x = a /\ s = from THEN 0 ELSE Count(lists[s], x)
  <2>1. lists[s] \in Seq(Actor) /\ left[s] \in Seq(Actor)
    BY <1>3
  <2>2. Count(lists[s], x) \in Nat /\ Count(left[s], x) \in Nat
    BY <2>1, AppendCounts DEF Count
  <2>3. Count(Without(lists[s], {a}), x) = IF x \in {a} THEN 0 ELSE Count(lists[s], x)
    BY <2>1, WithoutKeeps DEF Count
  <2> HIDE DEF left
  <2> QED BY <1>3, <2>2, <2>3
<1> HIDE DEF left, all
<1>5. all \in [Kyc!Statuses -> Seq(Actor)]
  BY <1>1, <1>3
<1>6. ASSUME NEW s \in Kyc!Statuses, NEW x \in Actor
      PROVE  Count(all[s], x) = Count(left[s], x) + (IF x = a /\ s = to THEN 1 ELSE 0)
  <2>1. CASE s = to
    <3>1. all[s] = Append(left[s], a) /\ left[s] \in Seq(Actor)
      BY <1>1, <1>3, <2>1
    <3> QED BY <2>1, <3>1, AppendCounts DEF Count
  <2>2. CASE s # to
    BY <1>1, <1>3, <1>4, <2>2
  <2> QED BY <2>1, <2>2
<1> QED BY <1>4, <1>5, <1>6 DEF all, Relists

LEMMA LevelIsKept ==
    ASSUME NEW p, NEW base, {"kyc", "limit", "tier", "level", "score"} \subseteq DOMAIN p
    PROVE  LET q == Kyc!Scored(p, base) IN
           /\ {"kyc", "limit", "tier", "level", "score"} \subseteq DOMAIN q
           /\ q.limit = Kyc!Limit(q.tier, q.level, base)
<1> DEFINE score == Kyc!RiskScore(p)
           tier == Kyc!Tier(p, score)
           level == Kyc!RiskLevel(score)
           limit == Kyc!Limit(tier, level, base)
<1>1. Kyc!Scored(p, base) = [p EXCEPT !.score = score, !.tier = tier, !.level = level, !.limit = limit]
  BY DEF Kyc!Scored, Kyc!Rescored
<1> HIDE DEF score, tier, level
<1> DEFINE q == Kyc!Scored(p, base)
<1>2. DOMAIN q = DOMAIN p /\ q.tier = tier /\ q.level = level /\ q.limit = limit
  <2> HIDE DEF limit
  <2> QED BY <1>1
<1> QED BY <1>2

(* A review or a submission of a business. *)
BusinessMoves(b, r) ==
    /\ ~Kyc!HasRecord(b, "investor")
    /\ Kyc!StatusOf(b) \notin {"Verified", r.status}
    /\ IsBusiness(r) /\ r.status \in Kyc!Statuses
    /\ businesses' = Kyc!Relisted(businesses, b, Kyc!StatusOf(b), r.status)
    /\ record' = [record EXCEPT ![b] = r]
    /\ UNCHANGED investors

(* A review or a submission of an investor: it leaves the list from, which is *)
(* that of its status unless it was rejected.                                 *)
InvestorMoves(v, from, r) ==
    /\ ~Kyc!HasRecord(v, "business")
    /\ from \in Kyc!Statuses \cup {"None"}
    /\ Kyc!StatusOf(v) \in {"Pending", "Verified"} => from = Kyc!StatusOf(v)
    /\ Kyc!StatusOf(v) = "Verified" => r.status = "Verified"
    /\ IsInvestor(r) /\ r.status \in Kyc!Statuses
    /\ r.status = "Verified" => Granted(r)
    /\ investors' = Kyc!Relisted(investors, v, from, r.status)
    /\ record' = [record EXCEPT ![v] = r]
    /\ UNCHANGED businesses

KycMoves ==
    \/ UNCHANGED <<record, businesses, investors>>
    \/ \E b \in Actor : \E r : BusinessMoves(b, r)
    \/ \E v \in Actor : \E from, r : InvestorMoves(v, from, r)

VerifiedStays ==
    \A a \in Actor : record[a] # <<>> =>
        /\ record'[a] # <<>> /\ record'[a].kind = record[a].kind
        /\ Kyc!StatusOf(a) = "Verified" => record'[a].status = "Verified"

LEMMA OneRecordChanges ==
    ASSUME KycInv, NEW a \in Actor, NEW r, r # <<>>, IsRecord(r), r.kind \in {"business", "investor"},
           record' = [record EXCEPT ![a] = r]
    PROVE  /\ DOMAIN record' = Actor /\ \A x \in Actor : IsRecord(record'[x])
           /\ record'[a] = r
           /\ \A x \in Actor : x # a => record'[x] = record[x]
           /\ \A k : Kyc!HasRecord(a, k)' <=> r.kind = k
           /\ Kyc!StatusOf(a)' = r.status
           /\ \A x \in Actor : \A k : x # a => (Kyc!HasRecord(x, k)' <=> Kyc!HasRecord(x, k))
           /\ \A x \in Actor : x # a => Kyc!StatusOf(x)' = Kyc!StatusOf(x)
<1>1. /\ DOMAIN record' = Actor /\ record'[a] = r
      /\ \A x \in Actor : x # a => record'[x] = record[x]
  BY DEF KycInv
<1>2. \A x \in Actor : IsRecord(record'[x])
  BY <1>1 DEF KycInv
<1>3. (\A k : Kyc!HasRecord(a, k)' <=> r.kind = k) /\ Kyc!StatusOf(a)' = r.status
  BY <1>1 DEF Kyc!HasRecord, Kyc!StatusOf
<1>4. \A x \in Actor : x # a => /\ \A k : Kyc!HasRecord(x, k)' <=> Kyc!HasRecord(x, k)
                                /\ Kyc!StatusOf(x)' = Kyc!StatusOf(x)
  BY <1>1 DEF Kyc!HasRecord, Kyc!StatusOf
<1> QED BY <1>1, <1>2, <1>3, <1>4

LEMMA BusinessMoveKeeps ==
    ASSUME KycInv, NEW b \in Actor, NEW r, BusinessMoves(b, r)
    PROVE  KycInv' /\ VerifiedStays
<1>1. r # <<>> /\ IsRecord(r) /\ r.kind = "business"
  BY Shapes DEF BusinessMoves, IsRecord, IsBusiness
<1>2. /\ DOMAIN record' = Actor /\ \A x \in Actor : IsRecord(record'[x])
      /\ record'[b] = r
      /\ \A x \in Actor : x # b => record'[x] = record[x]
      /\ Kyc!HasRecord(b, "business")' /\ ~Kyc!HasRecord(b, "investor")'
      /\ Kyc!StatusOf(b)' = r.status
      /\ \A x \in Actor : \A k : x # b => (Kyc!HasRecord(x, k)' <=> Kyc!HasRecord(x, k))
      /\ \A x \in Actor : x # b => Kyc!StatusOf(x)' = Kyc!StatusOf(x)
  <2>1. "business" # "investor"
    OBVIOUS
  <2> QED BY <1>1, <2>1, OneRecordChanges DEF BusinessMoves
<1> DEFINE from == Kyc!StatusOf(b)
<1>3. from \in Kyc!Statuses \cup {"None"} /\ r.status \in Kyc!Statuses /\ from # r.status
  BY DEF BusinessMoves, KycInv, Kyc!StatusOf, IsRecord
<1>4. Kyc!HasRecord(b, "business") \/ from \notin Kyc!Statuses
  BY Shapes DEF BusinessMoves, KycInv, Kyc!HasRecord, Kyc!StatusOf, Kyc!Statuses, IsRecord
<1> HIDE DEF from
<1>5. /\ businesses' \in [Kyc!Statuses -> Seq(Actor)]
      /\ \A s \in Kyc!Statuses, x \in Actor :
            /\ Count(businesses[s], x) \in Nat
            /\ Count(businesses'[s], x) =
                  (IF x = b /\ s = from THEN 0 ELSE Count(businesses[s], x))
                  + (IF x = b /\ s = r.status THEN 1 ELSE 0)
  <2>1. /\ businesses' = Kyc!Relisted(businesses, b, from, r.status)
        /\ businesses \in [Kyc!Statuses -> Seq(Actor)]
    BY DEF BusinessMoves, KycInv, from
  <2>2. Relists(Kyc!Relisted(businesses, b, from, r.status), businesses, b, from, r.status)
    BY <1>3, <2>1, RelistedCounts
  <2> QED BY <2>1, <2>2 DEF Relists
<1>6. ASSUME NEW x \in Actor, x # b PROVE Listings(x)'
  <2>1. \A s \in Kyc!Statuses : Count(businesses'[s], x) = Count(businesses[s], x)
    BY <1>5, <1>6
  <2>2. Listings(x)
    BY DEF KycInv
  <2> QED BY <1>2, <1>6, <2>1, <2>2 DEF Listings, BusinessMoves
<1>7. Listings(b)'
  <2>1. Listings(b) /\ ~Kyc!HasRecord(b, "investor") /\ UNCHANGED investors
    BY DEF KycInv, BusinessMoves
  <2>2. \A s \in {"Pending", "Verified"} : Count(investors'[s], b) = 0
    BY <2>1 DEF Listings
  <2>3. ASSUME NEW s \in Kyc!Statuses
        PROVE  Count(businesses'[s], b) = IF s = r.status THEN 1 ELSE 0
    <3>1. s # from => Count(businesses[s], b) = 0
      BY <1>4, <2>1 DEF Listings, from
    <3> QED BY <1>3, <1>5, <3>1
  <2> QED BY <1>2, <2>2, <2>3 DEF Listings
<1>8. VerifiedStays
  <2>1. record[b] # <<>> => record[b].kind = "business"
    BY Shapes DEF BusinessMoves, KycInv, Kyc!HasRecord, IsRecord
  <2>2. Kyc!StatusOf(b) # "Verified"
    BY DEF BusinessMoves
  <2> QED BY <1>1, <1>2, <2>1, <2>2 DEF VerifiedStays, Kyc!StatusOf
<1> QED BY <1>2, <1>5, <1>6, <1>7, <1>8 DEF KycInv, BusinessMoves

LEMMA InvestorMoveKeeps ==
    ASSUME KycInv, NEW v \in Actor, NEW from, NEW r, InvestorMoves(v, from, r)
    PROVE  KycInv' /\ VerifiedStays
<1>1. r # <<>> /\ IsRecord(r) /\ r.kind = "investor"
  BY Shapes DEF InvestorMoves, IsRecord, IsInvestor
<1>2. /\ DOMAIN record' = Actor /\ \A x \in Actor : IsRecord(record'[x])
      /\ record'[v] = r
      /\ \A x \in Actor : x # v => record'[x] = record[x]
      /\ Kyc!HasRecord(v, "investor")' /\ ~Kyc!HasRecord(v, "business")'
      /\ Kyc!StatusOf(v)' = r.status
      /\ \A x \in Actor : \A k : x # v => (Kyc!HasRecord(x, k)' <=> Kyc!HasRecord(x, k))
      /\ \A x \in Actor : x # v => Kyc!StatusOf(x)' = Kyc!StatusOf(x)
  <2>1. "business" # "investor"
    OBVIOUS
  <2> QED BY <1>1, <2>1, OneRecordChanges DEF InvestorMoves
<1>3. /\ from \in Kyc!Statuses \cup {"None"} /\ r.status \in Kyc!Statuses
      /\ Kyc!StatusOf(v) \in {"Pending", "Verified"} => from = Kyc!StatusOf(v)
  BY DEF InvestorMoves
<1>4. {"Pending", "Verified", "Rejected"} = Kyc!Statuses
  BY DEF Kyc!Statuses
<1>5. /\ investors' \in [Kyc!Statuses -> Seq(Actor)]
      /\ \A s \in Kyc!Statuses, x \in Actor :
            /\ Count(investors[s], x) \in Nat
            /\ Count(investors'[s], x) =
                  (IF x = v /\ s = from THEN 0 ELSE Count(investors[s], x))
                  + (IF x = v /\ s = r.status THEN 1 ELSE 0)
  <2>1. /\ investors' = Kyc!Relisted(investors, v, from, r.status)
        /\ investors \in [Kyc!Statuses -> Seq(Actor)]
    BY DEF InvestorMoves, KycInv
  <2>2. Relists(Kyc!Relisted(investors, v, from, r.status), investors, v, from, r.status)
    BY <1>3, <2>1, RelistedCounts
  <2> QED BY <2>1, <2>2 DEF Relists
<1>6. ASSUME NEW x \in Actor, x # v PROVE Listings(x)'
  <2>1. \A s \in Kyc!Statuses : Count(investors'[s], x) = Count(investors[s], x)
    BY <1>5, <1>6
  <2>2. Listings(x)
    BY DEF KycInv
  <2> QED BY <1>2, <1>4, <1>6, <2>1, <2>2 DEF Listings, InvestorMoves
<1>7. Listings(v)'
  <2>1. Listings(v) /\ ~Kyc!HasRecord(v, "business") /\ UNCHANGED businesses
    BY DEF KycInv, InvestorMoves
  <2>2. \A s \in Kyc!Statuses : Count(businesses'[s], v) = 0
    BY <2>1 DEF Listings
  <2>3. ASSUME NEW s \in {"Pending", "Verified"}
        PROVE  Count(investors'[s], v) = IF s = r.status THEN 1 ELSE 0
    <3>1. s # from => Count(investors[s], v) = 0
      BY <1>3, <2>1 DEF Listings
    <3> QED BY <1>4, <1>5, <3>1
  <2>4. r.status = "Rejected" => Count(investors'["Rejected"], v) > 0
    <3>1. "Rejected" \in Kyc!Statuses
      BY <1>4
    <3> QED BY <1>5, <3>1
  <2> QED BY <1>2, <2>2, <2>3, <2>4 DEF Listings
<1>8. VerifiedStays
  <2>1. record[v] # <<>> => record[v].kind = "investor"
    BY Shapes DEF InvestorMoves, KycInv, Kyc!HasRecord, IsRecord
  <2>2. Kyc!StatusOf(v) = "Verified" => r.status = "Verified"
    BY DEF InvestorMoves
  <2> QED BY <1>1, <1>2, <2>1, <2>2 DEF VerifiedStays, Kyc!StatusOf
<1> QED BY <1>2, <1>5, <1>6, <1>7, <1>8 DEF KycInv, InvestorMoves

(* Each call makes one of these moves. *)
LEMMA UpdateMoves ==
    ASSUME KycInv, NEW b \in Actor, NEW to \in Kyc!Statuses, NEW reason,
           Kyc!Readable(b, "business"), Kyc!UpdateVerification(b, to, reason)
    PROVE  KycMoves
<1> DEFINE r == [kind |-> "business", status |-> to, reason |-> reason]
<1>1. IsBusiness(r) /\ r.status = to
  BY DEF IsBusiness
<1>2. Kyc!StatusOf(b) \notin {"Verified", to}
  BY DEF Kyc!UpdateVerification, Kyc!BusinessTransitions
<1>3. ~Kyc!HasRecord(b, "investor")
  BY DEF Kyc!Readable, Kyc!HasRecord
<1>4. /\ businesses' = Kyc!Relisted(businesses, b, Kyc!StatusOf(b), to)
      /\ record' = [record EXCEPT ![b] = r] /\ UNCHANGED investors
  BY DEF Kyc!UpdateVerification
<1> HIDE DEF r
<1>5. BusinessMoves(b, r)
  BY <1>1, <1>2, <1>3, <1>4 DEF BusinessMoves
<1> QED BY <1>5 DEF KycMoves

LEMMA InvestorUpdateMoves ==
    ASSUME KycInv, NEW v \in Actor, NEW r, Kyc!HasRecord(v, "investor"), Kyc!UpdateInvestor(v, r),
           IsInvestor(r), r.status \in Kyc!Statuses, r.status = "Verified" => Granted(r),
           Kyc!StatusOf(v) = "Verified" => r.status = "Verified"
    PROVE  KycMoves
<1>1. ~Kyc!HasRecord(v, "business") /\ Kyc!StatusOf(v) \in Kyc!Statuses
  BY DEF Kyc!HasRecord, Kyc!StatusOf, KycInv, IsRecord
<1>2. InvestorMoves(v, Kyc!StatusOf(v), r)
  BY <1>1 DEF InvestorMoves, Kyc!UpdateInvestor
<1> QED BY <1>2 DEF KycMoves

LEMMA NewRecordShape ==
    ASSUME NEW p, NEW s, NEW reason, {"kyc", "limit", "tier", "level", "score"} \subseteq DOMAIN p
    PROVE  LET r == Kyc!InvestorRecord(p, s, reason) IN
           IsInvestor(r) /\ r.status = s /\ r.profile = p
BY DEF Kyc!InvestorRecord, IsInvestor

LEMMA InvestorOnRecord ==
    ASSUME KycInv, NEW v \in Actor, record[v] # <<>>, Kyc!Readable(v, "investor")
    PROVE  IsInvestor(record[v]) /\ Kyc!HasRecord(v, "investor")
           /\ {"kyc", "limit", "tier", "level", "score"} \subseteq DOMAIN record[v].profile
<1>1. IsRecord(record[v]) /\ record[v].kind = "investor"
  BY DEF KycInv, Kyc!Readable
<1>2. IsInvestor(record[v])
  BY <1>1, Shapes
<1> QED BY <1>1, <1>2 DEF IsInvestor, Kyc!HasRecord

LEMMA SubmitInvestorMoves ==
    ASSUME KycInv, NEW v \in Actor, NEW kyc, Kyc!SubmitInvestorKyc(v, kyc)
    PROVE  KycMoves
<1> DEFINE old == IF Kyc!StatusOf(v) = "None" THEN Kyc!NewProfile(kyc) ELSE record[v].profile
           p == [old EXCEPT !.kyc = kyc]
           r == Kyc!InvestorRecord(p, "Pending", Nobody)
<1>1. {"kyc", "limit", "tier", "level", "score"} \subseteq DOMAIN old
  <2>1. CASE Kyc!StatusOf(v) = "None"
    BY <2>1 DEF Kyc!NewProfile
  <2>2. CASE Kyc!StatusOf(v) # "None"
    <3>1. record[v] # <<>> /\ Kyc!Readable(v, "investor")
      BY <2>2 DEF Kyc!StatusOf, Kyc!SubmitInvestorKyc
    <3> QED BY <2>2, <3>1, InvestorOnRecord
  <2> QED BY <2>1, <2>2
<1>2. {"kyc", "limit", "tier", "level", "score"} \subseteq DOMAIN p
  <2> HIDE DEF old
  <2> QED BY <1>1
<1>3. /\ record' = [record EXCEPT ![v] = r] /\ UNCHANGED businesses
      /\ investors' = [investors EXCEPT !["Pending"] = Append(investors["Pending"], v)]
      /\ Kyc!StatusOf(v) \notin {"Pending", "Verified"}
      /\ ~Kyc!HasRecord(v, "business")
  BY DEF Kyc!SubmitInvestorKyc, Kyc!Readable, Kyc!HasRecord
<1> HIDE DEF p
<1>4. IsInvestor(r) /\ r.status = "Pending"
  BY <1>2, NewRecordShape
<1> HIDE DEF r
<1>5. investors' = Kyc!Relisted(investors, v, "None", r.status)
  BY <1>3, <1>4 DEF Kyc!Relisted
<1>6. InvestorMoves(v, "None", r)
  BY <1>3, <1>4, <1>5 DEF InvestorMoves, Kyc!Statuses
<1> QED BY <1>6 DEF KycMoves

LEMMA VerifyInvestorMoves ==
    ASSUME KycInv, NEW v \in Actor, NEW limit \in Limits, Kyc!VerifyInvestor(v, limit)
    PROVE  KycMoves
<1> DEFINE p == Kyc!Scored(record[v].profile, limit)
           r == Kyc!InvestorRecord(p, "Verified", record[v].reason)
<1>1. /\ Kyc!HasRecord(v, "investor") /\ Kyc!StatusOf(v) # "Verified"
      /\ Kyc!UpdateInvestor(v, r)
  BY DEF Kyc!VerifyInvestor
<1>2. {"kyc", "limit", "tier", "level", "score"} \subseteq DOMAIN record[v].profile
  BY <1>1, InvestorOnRecord DEF Kyc!HasRecord, Kyc!Readable
<1>3. /\ {"kyc", "limit", "tier", "level", "score"} \subseteq DOMAIN p
      /\ p.limit = Kyc!Limit(p.tier, p.level, limit)
  BY <1>2, LevelIsKept
<1> HIDE DEF p
<1>4. IsInvestor(r) /\ r.status = "Verified" /\ r.profile = p
  BY <1>3, NewRecordShape
<1> HIDE DEF r
<1>5. Granted(r)
  BY <1>3, <1>4 DEF Granted
<1> QED BY <1>1, <1>4, <1>5, InvestorUpdateMoves DEF Kyc!Statuses

LEMMA RejectInvestorMoves ==
    ASSUME KycInv, NEW v \in Actor, NEW reason, Kyc!RejectInvestor(v, reason)
    PROVE  KycMoves
<1> DEFINE r == Kyc!InvestorRecord(record[v].profile, "Rejected", reason)
<1>1. /\ Kyc!HasRecord(v, "investor") /\ Kyc!StatusOf(v) = "Pending"
      /\ Kyc!UpdateInvestor(v, r)
  BY DEF Kyc!RejectInvestor
<1>2. {"kyc", "limit", "tier", "level", "score"} \subseteq DOMAIN record[v].profile
  BY <1>1, InvestorOnRecord DEF Kyc!HasRecord, Kyc!Readable
<1>3. IsInvestor(r) /\ r.status = "Rejected"
  BY <1>2, NewRecordShape
<1> HIDE DEF r
<1> QED BY <1>1, <1>3, InvestorUpdateMoves DEF Kyc!Statuses

LEMMA SetLimitMoves ==
    ASSUME KycInv, NEW v \in Actor, NEW limit \in Limits, Kyc!SetInvestmentLimit(v, limit)
    PROVE  KycMoves
<1> DEFINE p == record[v].profile
           q == [p EXCEPT !.limit = Kyc!Limit(p.tier, p.level, limit)]
           r == [record[v] EXCEPT !.profile = q]
<1>1. /\ Kyc!HasRecord(v, "investor") /\ Kyc!StatusOf(v) = "Verified"
      /\ Kyc!UpdateInvestor(v, r)
  BY DEF Kyc!SetInvestmentLimit
<1>2. IsInvestor(record[v]) /\ record[v].status = "Verified"
  BY <1>1, InvestorOnRecord DEF Kyc!HasRecord, Kyc!Readable, Kyc!StatusOf
<1>3. /\ {"kyc", "limit", "tier", "level", "score"} \subseteq DOMAIN p
  BY <1>2 DEF IsInvestor
<1>4. /\ {"kyc", "limit", "tier", "level", "score"} \subseteq DOMAIN q
      /\ q.limit = Kyc!Limit(q.tier, q.level, limit)
  <2> DEFINE l == Kyc!Limit(p.tier, p.level, limit)
  <2>1. q = [p EXCEPT !.limit = l]
    OBVIOUS
  <2>2. l = Kyc!Limit(p.tier, p.level, limit)
    OBVIOUS
  <2> HIDE DEF p, q, l
  <2>3. DOMAIN q = DOMAIN p /\ q.limit = l /\ q.tier = p.tier /\ q.level = p.level
    BY <1>3, <2>1
  <2> QED BY <1>3, <2>2, <2>3
<1> HIDE DEF q
<1>5. DOMAIN r = DOMAIN record[v] /\ r.kind = "investor" /\ r.status = "Verified" /\ r.profile = q
  BY <1>2 DEF IsInvestor
<1>6. IsInvestor(r)
  BY <1>2, <1>4, <1>5 DEF IsInvestor
<1> HIDE DEF r
<1>7. Granted(r)
  BY <1>4, <1>5 DEF Granted
<1> QED BY <1>1, <1>5, <1>6, <1>7, InvestorUpdateMoves DEF Kyc!Statuses

LEMMA KycStepMoves == ASSUME KycInv, [Kyc!Next]_(Kyc!vars) PROVE KycMoves
<1>1. ASSUME NEW b \in Actor, NEW kyc \in KycData, Kyc!SubmitKycApplication(b, kyc) PROVE KycMoves
  BY <1>1, UpdateMoves DEF Kyc!SubmitKycApplication, Kyc!Statuses
<1>2. ASSUME NEW b \in Actor, Kyc!VerifyBusiness(b) PROVE KycMoves
  BY <1>2, UpdateMoves DEF Kyc!VerifyBusiness, Kyc!HasRecord, Kyc!Readable, Kyc!Statuses
<1>3. ASSUME NEW b \in Actor, NEW reason \in Reasons, Kyc!RejectBusiness(b, reason) PROVE KycMoves
  BY <1>3, UpdateMoves DEF Kyc!RejectBusiness, Kyc!HasRecord, Kyc!Readable, Kyc!Statuses
<1>4. ASSUME NEW v \in Actor, NEW kyc \in KycData, Kyc!SubmitInvestorKyc(v, kyc) PROVE KycMoves
  BY <1>4, SubmitInvestorMoves
<1>5. ASSUME NEW v \in Actor, NEW limit \in Limits,
             Kyc!VerifyInvestor(v, limit) \/ Kyc!SetInvestmentLimit(v, limit)
      PROVE  KycMoves
  BY <1>5, VerifyInvestorMoves, SetLimitMoves
<1>6. ASSUME NEW v \in Actor, NEW reason \in Reasons, Kyc!RejectInvestor(v, reason) PROVE KycMoves
  BY <1>6, RejectInvestorMoves
<1>7. ASSUME NEW flag, Kyc!SetPaused(flag) PROVE KycMoves
  BY <1>7 DEF Kyc!SetPaused, KycMoves
<1>8. ASSUME UNCHANGED Kyc!vars PROVE KycMoves
  BY <1>8 DEF Kyc!vars, KycMoves
<1> QED BY <1>1, <1>2, <1>3, <1>4, <1>5, <1>6, <1>7, <1>8 DEF Kyc!Next

LEMMA KycStep == ASSUME KycInv, [Kyc!Next]_(Kyc!vars) PROVE KycInv' /\ VerifiedStays
<1>1. CASE UNCHANGED <<record, businesses, investors>>
  BY <1>1 DEF KycInv, Listings, Kyc!HasRecord, Kyc!StatusOf, VerifiedStays
<1> QED BY <1>1, KycStepMoves, BusinessMoveKeeps, InvestorMoveKeeps DEF KycMoves

LEMMA KycInvariant == Kyc!Spec => []KycInv
<1>1. ASSUME Kyc!Init PROVE KycInv
  <2>1. /\ record = [a \in Actor |-> <<>>] /\ businesses = Kyc!EmptyLists /\ investors = Kyc!EmptyLists
        /\ \A s \in Kyc!Statuses : Kyc!EmptyLists[s] = <<>>
        /\ Kyc!EmptyLists \in [Kyc!Statuses -> Seq(Actor)]
    BY <1>1 DEF Kyc!Init, Kyc!EmptyLists
  <2>2. \A a : Count(<<>>, a) = 0
    <3>1. \A a : Occurrences(<<>>, a) = {}
      BY DEF Occurrences
    <3> QED BY <3>1, FS_EmptySet DEF Count
  <2>3. \A a \in Actor : \A k : ~Kyc!HasRecord(a, k)
    BY <2>1 DEF Kyc!HasRecord
  <2>4. {"Pending", "Verified"} \subseteq Kyc!Statuses
    BY DEF Kyc!Statuses
  <2> QED BY <2>1, <2>2, <2>3, <2>4 DEF KycInv, Listings, IsRecord
<1>2. KycInv /\ [Kyc!Next]_(Kyc!vars) => KycInv'
  BY KycStep
<1> QED BY <1>1, <1>2, PTL DEF Kyc!Spec

(* verification.rs: in any order of submissions and reviews, a verified party *)
(* stays verified and an address keeps its kind.                              *)
THEOREM PartiesStayVerified == Kyc!Spec => Kyc!VerifiedIsFinal
<1>1. KycInv /\ [Kyc!Next]_(Kyc!vars) => VerifiedStays
  BY KycStep
<1> QED BY <1>1, KycInvariant, PTL DEF Kyc!Spec, Kyc!VerifiedIsFinal, VerifiedStays

(* verification.rs: the six status lists agree with the records, entry by     *)
(* entry, for any number of addresses and however often one is rejected.      *)
THEOREM KycListsExact == Kyc!Spec => []Kyc!ListsFollowRecords
<1>1. \A lists, a, s : Kyc!Listed(lists, a, s) = Count(lists[s], a)
  BY Zenon DEF Kyc!Listed, Count, Occurrences, Kyc!Cardinality, Cardinality
<1>2. KycInv => Kyc!ListsFollowRecords
  BY <1>1, Zenon DEF KycInv, Listings, Kyc!ListsFollowRecords
<1> QED BY <1>2, KycInvariant, PTL

(* verification.rs: no sequence of rejections, resubmissions and reviews      *)
(* leaves a verified investor with a limit that no grant gives.               *)
THEOREM LimitsAreGranted == Kyc!Spec => []Kyc!VerifiedHaveLimit
<1>1. ASSUME KycInv, NEW a \in Actor, Kyc!HasRecord(a, "investor"), Kyc!StatusOf(a) = "Verified"
      PROVE  Granted(record[a])
  <2>1. IsRecord(record[a]) /\ record[a] # <<>> /\ record[a].kind = "investor"
        /\ record[a].status = "Verified"
    BY <1>1 DEF KycInv, Kyc!HasRecord, Kyc!StatusOf
  <2>2. IsInvestor(record[a])
    BY <2>1, Shapes
  <2> QED BY <2>1, <2>2 DEF IsRecord
<1>2. KycInv => Kyc!VerifiedHaveLimit
  BY <1>1 DEF Kyc!VerifiedHaveLimit, Granted
<1> QED BY <1>2, KycInvariant, PTL

(* verification.rs: the lists always agree with the records, a verified      *)
(* party stays verified, and its limit is one that was granted, in whatever  *)
(* order parties submit and the admin reviews.                               *)
THEOREM KycHolds == Kyc!Spec => KycConsistent
<1>1. Kyc!Spec => []Kyc!ListsFollowRecords
  BY KycListsExact
<1>2. Kyc!Spec => []Kyc!VerifiedHaveLimit
  BY LimitsAreGranted
<1>3. Kyc!Spec => Kyc!VerifiedIsFinal
  BY PartiesStayVerified
<1> QED BY <1>1, <1>2, <1>3, PTL DEF KycConsistent, Kyc!KycConsistent

----------------------------------------------------------------------------
(* Disputes. *)

Case ==
    [status : {"None", "Disputed", "UnderReview", "Resolved"},
     by : {Business, Investor, Stranger, Admin}, at : Nat,
     reason : Texts \cup {0}, evidence : Texts \cup {0}, resolution : Texts \cup {0},
     resolvedAt : Nat]

(* Nothing is dated later than today, and what is not resolved has no date    *)
(* of its resolution.                                                         *)
Dated(d, today) ==
    /\ d.at <= today /\ d.resolvedAt <= today
    /\ IF d.status = "Resolved" THEN d.at <= d.resolvedAt /\ d.resolvedAt > 0
       ELSE d.resolvedAt = 0

CaseInv ==
    /\ dispute \in [Invoice -> Case] /\ day \in Nat \ {0}
    /\ \A i \in Invoice : Dated(dispute[i], day)

Stage(name) == CHOOSE n \in DOMAIN Dis!Stages : Dis!Stages[n] = name

(* What a party and the admin said stays, from the first stage on. *)
Follows(old, new) ==
    /\ Stage(new.status) = Stage(old.status) + 1
    /\ old.status # "None" =>
          new.by = old.by /\ new.at = old.at /\ new.reason = old.reason /\ new.evidence = old.evidence

Advances == \A j \in Invoice : dispute'[j] # dispute[j] => Follows(dispute[j], dispute'[j])

LEMMA StagesInOrder ==
    Stage("None") = 1 /\ Stage("Disputed") = 2 /\ Stage("UnderReview") = 3 /\ Stage("Resolved") = 4
BY DEF Stage, Dis!Stages

LEMMA CaseStep ==
    ASSUME CaseInv, NEW i \in Invoice, NEW new \in Case, Follows(dispute[i], new),
           Dated(new, day), dispute' = [dispute EXCEPT ![i] = new], day' = day
    PROVE  CaseInv' /\ Advances
BY DEF CaseInv, Advances

LEMMA DisputeStep ==
    ASSUME CaseInv, [Dis!Next]_(Dis!vars) PROVE CaseInv' /\ Advances
<1>1. ASSUME NEW i \in Invoice, NEW a \in {Business, Investor, Stranger, Admin},
             NEW r \in Texts, NEW e \in Texts, Dis!CreateDispute(i, a, r, e)
      PROVE  CaseInv' /\ Advances
  <2> DEFINE new == [status |-> "Disputed", by |-> a, at |-> day, reason |-> r, evidence |-> e,
                     resolution |-> 0, resolvedAt |-> 0]
  <2>1. new \in Case /\ Dated(new, day)
    BY DEF Case, CaseInv, Dated
  <2>2. dispute' = [dispute EXCEPT ![i] = new] /\ day' = day /\ dispute[i].status = "None"
    BY <1>1 DEF Dis!CreateDispute, Dis!Eligible
  <2>3. Follows(dispute[i], new)
    BY <2>2, StagesInOrder DEF Follows
  <2> QED BY <2>1, <2>2, <2>3, CaseStep
<1>2. ASSUME NEW i \in Invoice, NEW a, Dis!PutUnderReview(i, a) PROVE CaseInv' /\ Advances
  <2> DEFINE new == [dispute[i] EXCEPT !.status = "UnderReview"]
  <2>1. dispute' = [dispute EXCEPT ![i] = new] /\ day' = day /\ dispute[i].status = "Disputed"
    BY <1>2 DEF Dis!PutUnderReview
  <2>2. /\ new \in Case /\ new.status = "UnderReview" /\ new.by = dispute[i].by
        /\ new.at = dispute[i].at /\ new.reason = dispute[i].reason
        /\ new.evidence = dispute[i].evidence /\ new.resolvedAt = dispute[i].resolvedAt
    BY DEF CaseInv, Case
  <2> HIDE DEF new
  <2>3. Follows(dispute[i], new)
    BY <2>1, <2>2, StagesInOrder DEF Follows
  <2>4. Dated(new, day)
    BY <2>1, <2>2 DEF CaseInv, Dated
  <2> QED BY <2>1, <2>2, <2>3, <2>4, CaseStep
<1>3. ASSUME NEW i \in Invoice, NEW a, NEW r \in Texts, Dis!ResolveDispute(i, a, r)
      PROVE  CaseInv' /\ Advances
  <2> DEFINE new == [dispute[i] EXCEPT !.status = "Resolved", !.resolution = r, !.resolvedAt = day]
  <2>1. dispute' = [dispute EXCEPT ![i] = new] /\ day' = day /\ dispute[i].status = "UnderReview"
    BY <1>3 DEF Dis!ResolveDispute
  <2>2. /\ new \in Case /\ new.status = "Resolved" /\ new.by = dispute[i].by
        /\ new.at = dispute[i].at /\ new.reason = dispute[i].reason
        /\ new.evidence = dispute[i].evidence /\ new.resolvedAt = day
    BY DEF CaseInv, Case
  <2> HIDE DEF new
  <2>3. Follows(dispute[i], new)
    BY <2>1, <2>2, StagesInOrder DEF Follows
  <2>4. Dated(new, day)
    BY <2>2 DEF CaseInv, Dated, Case
  <2> QED BY <2>1, <2>2, <2>3, <2>4, CaseStep
<1>4. CASE dispute' = dispute /\ day' \in {day, day + 1}
  <2>1. \A i \in Invoice : Dated(dispute[i], day')
    BY <1>4 DEF CaseInv, Dated, Case
  <2> QED BY <1>4, <2>1 DEF CaseInv, Advances
<1>5. CASE Dis!Tick \/ (\E i \in Invoice : Dis!Advance(i)) \/ UNCHANGED Dis!vars
  BY <1>4, <1>5 DEF Dis!Tick, Dis!Advance, Dis!vars
<1> QED BY <1>1, <1>2, <1>3, <1>5 DEF Dis!Next

LEMMA DisputesInvariant == Dis!Spec => []CaseInv
<1>1. Dis!Init => CaseInv
  BY DEF Dis!Init, Dis!NoDispute, CaseInv, Case, Dated
<1>2. CaseInv /\ [Dis!Next]_(Dis!vars) => CaseInv'
  BY DisputeStep
<1> QED BY <1>1, <1>2, PTL DEF Dis!Spec

(* A dispute goes one stage at a time and never back, and what was said in   *)
(* it is never rewritten, whatever becomes of the invoice.                   *)
THEOREM DisputesGoForward == Dis!Spec => Dis!DisputeOnlyAdvances
<1>1. Dis!Spec => []CaseInv
  BY DisputesInvariant
<1>2. CaseInv /\ [Dis!Next]_(Dis!vars) => Advances
  BY DisputeStep
<1>3. Advances =>
        \A i \in Invoice : dispute'[i] # dispute[i] =>
          /\ Dis!StageOf(i)' = Dis!StageOf(i) + 1
          /\ dispute[i].status # "None" =>
                \A f \in {"by", "at", "reason", "evidence"} : dispute'[i][f] = dispute[i][f]
  BY DEF Advances, Follows, Dis!StageOf, Stage
<1> QED BY <1>1, <1>2, <1>3, PTL DEF Dis!Spec, Dis!DisputeOnlyAdvances

LEMMA OneMore ==
    ASSUME NEW S, NEW s \in Seq(S), NEW e \in S, NEW t, t = s \o <<e>>
    PROVE  /\ t \in Seq(S) /\ Len(t) = Len(s) + 1 /\ t[Len(s) + 1] = e
           /\ \A n \in 1..Len(s) : t[n] = s[n]
<1>1. <<e>> \in Seq(S) /\ Len(<<e>>) = 1 /\ <<e>>[1] = e
  OBVIOUS
<1> QED BY <1>1, ConcatProperties

(* Entries put together one by one are at their positions. *)
LEMMA SecondAdded ==
    ASSUME NEW S, NEW s \in Seq(S), Len(s) = 1, NEW e \in S, NEW t, t = s \o <<e>>
    PROVE  t \in Seq(S) /\ Len(t) = 2 /\ t[1] = s[1] /\ t[2] = e
<1>1. /\ t \in Seq(S) /\ Len(t) = Len(s) + 1 /\ t[Len(s) + 1] = e
      /\ \A n \in 1..Len(s) : t[n] = s[n]
  BY OneMore
<1> QED BY <1>1

LEMMA ThirdAdded ==
    ASSUME NEW S, NEW s \in Seq(S), Len(s) = 2, NEW e \in S, NEW t, t = s \o <<e>>
    PROVE  t \in Seq(S) /\ Len(t) = 3 /\ t[1] = s[1] /\ t[2] = s[2] /\ t[3] = e
<1>1. /\ t \in Seq(S) /\ Len(t) = Len(s) + 1 /\ t[Len(s) + 1] = e
      /\ \A n \in 1..Len(s) : t[n] = s[n]
  BY OneMore
<1>2. 1 \in 1..Len(s) /\ 2 \in 1..Len(s)
  OBVIOUS
<1>3. t[1] = s[1] /\ t[2] = s[2]
  BY <1>1, <1>2, Zenon
<1>4. t[3] = e /\ Len(t) = 3
  BY <1>1
<1> QED BY <1>1, <1>3, <1>4

LEMMA ThreeInARow ==
    ASSUME NEW S, NEW a \in S, NEW b \in S, NEW c \in S, NEW one, one = <<a>>,
           NEW two, two = one \o <<b>>, NEW s, s = two \o <<c>>
    PROVE  s \in Seq(S) /\ Len(s) = 3 /\ s[1] = a /\ s[2] = b /\ s[3] = c
<1>1. one \in Seq(S) /\ Len(one) = 1 /\ one[1] = a
  OBVIOUS
<1>2. two \in Seq(S) /\ Len(two) = 2 /\ two[1] = one[1] /\ two[2] = b
  BY <1>1, SecondAdded
<1>3. s \in Seq(S) /\ Len(s) = 3 /\ s[1] = two[1] /\ s[2] = two[2] /\ s[3] = c
  BY <1>2, ThirdAdded
<1> QED BY <1>1, <1>2, <1>3, Zenon

(* The entries of the timeline, by the stage reached. *)
LEMMA EntriesInOrder ==
    ASSUME CaseInv, NEW i \in Invoice
    PROVE  LET all == Dis!BuildEntries(dispute[i])
           IN  /\ \E S : all \in Seq(S)
               /\ Len(all) = Dis!StageOf(i) - 1
               /\ Len(all) <= 3
               /\ \A m, n \in DOMAIN all : m <= n => all[m].at <= all[n].at
<1> DEFINE d == dispute[i]
           all == Dis!BuildEntries(d)
           opened == Dis!Entry("Opened", d.at, d.by, d.reason)
           review == Dis!Entry("UnderReview", IF d.resolvedAt > 0 THEN d.resolvedAt ELSE d.at,
                               Stranger, 0)
           closed == Dis!Entry("Resolved", d.resolvedAt, Admin, d.resolution)
<1>1. d \in Case /\ Dated(d, day)
  BY DEF CaseInv
<1>2. opened.at = d.at /\ closed.at = d.resolvedAt
      /\ review.at = IF d.resolvedAt > 0 THEN d.resolvedAt ELSE d.at
  BY DEF Dis!Entry
<1>3. Dis!StageOf(i) = Stage(d.status)
  BY DEF Dis!StageOf, Stage
<1>4. all = (IF d.status = "None" THEN <<>> ELSE <<opened>>)
            \o (IF d.status \in {"UnderReview", "Resolved"} THEN <<review>> ELSE <<>>)
            \o (IF d.status = "Resolved" THEN <<closed>> ELSE <<>>)
  BY DEF Dis!BuildEntries
<1>5. d.at \in Nat /\ d.resolvedAt \in Nat
      /\ d.status \in {"None", "Disputed", "UnderReview", "Resolved"}
  BY <1>1 DEF Case
<1> HIDE DEF d, opened, review, closed, all
<1>6. CASE d.status = "None"
  <2>1. all = <<>>
    BY <1>4, <1>6
  <2> QED BY <2>1, <1>3, <1>6, StagesInOrder DEF all, d
<1>7. CASE d.status = "Disputed"
  <2>1. all = <<opened>>
    BY <1>4, <1>7
  <2>2. all \in Seq({opened}) /\ Len(all) = 1 /\ \A m, n \in DOMAIN all : m = n
    BY <2>1
  <2>3. all[1].at = opened.at /\ DOMAIN all = {1} /\ opened.at \in Nat
    BY <2>1, <1>2, <1>5
  <2>4. \A m, n \in DOMAIN all : m <= n => all[m].at <= all[n].at
    BY <2>3
  <2> QED BY <2>2, <2>4, <1>3, <1>7, StagesInOrder DEF all, d
<1>8. CASE d.status = "UnderReview"
  <2>1. all = <<opened>> \o <<review>> \o <<>>
    BY <1>4, <1>8
  <2>2. all \in Seq({opened, review}) /\ Len(all) = 2 /\ DOMAIN all = {1, 2}
        /\ all[1] = opened /\ all[2] = review
    BY <2>1
  <2>3. opened.at <= review.at /\ opened.at \in Nat /\ review.at \in Nat
    BY <1>1, <1>2, <1>5, <1>8 DEF Dated
  <2>4. \A m, n \in DOMAIN all : m <= n => all[m].at <= all[n].at
    BY <2>2, <2>3
  <2> QED BY <2>2, <2>4, <1>3, <1>8, StagesInOrder DEF all, d
<1>9. CASE d.status = "Resolved"
  <2>1. all = <<opened>> \o <<review>> \o <<closed>>
    BY <1>4, <1>9
  <2>2. PICK S : S = {opened, review, closed}
    OBVIOUS
  <2>3. opened \in S /\ review \in S /\ closed \in S
    BY <2>2
  <2>4. PICK one : one = <<opened>>
    OBVIOUS
  <2>5. PICK two : two = one \o <<review>>
    OBVIOUS
  <2>6. all = two \o <<closed>>
    BY <2>1, <2>4, <2>5
  <2>7. all \in Seq(S) /\ Len(all) = 3 /\ all[1] = opened /\ all[2] = review /\ all[3] = closed
    BY <2>3, <2>4, <2>5, <2>6, ThreeInARow
  <2>8. DOMAIN all = {1, 2, 3}
    BY <2>7
  <2>9. opened.at <= review.at /\ review.at <= closed.at /\ opened.at \in Nat
        /\ review.at \in Nat /\ closed.at \in Nat
    BY <1>1, <1>2, <1>5, <1>9 DEF Dated
  <2>10. \A m, n \in DOMAIN all : m <= n => all[m].at <= all[n].at
    BY <2>7, <2>9, <2>8
  <2> QED BY <2>7, <2>10, <1>3, <1>9, StagesInOrder DEF all, d
<1> QED BY <1>5, <1>6, <1>7, <1>8, <1>9

(* One page and the pages after it. *)
FromPage(F, i, limit, offset) ==
    IF Dis!Timeline(i, offset, limit).hasMore /\ offset + limit <= 3
    THEN Dis!Timeline(i, offset, limit).entries \o F[offset + limit]
    ELSE Dis!Timeline(i, offset, limit).entries

LEMMA PagesFollow ==
    ASSUME NEW i, NEW limit \in Nat \ {0}
    PROVE  LET F == Dis!PagesFrom(i, limit)
           IN  \A offset \in 0..3 : F[offset] = FromPage(F, i, limit, offset)
<1> DEFINE Page(o) == Dis!Timeline(i, o, limit)
           Rest(o, rest) == IF Page(o).hasMore THEN Page(o).entries \o rest ELSE Page(o).entries
           p3 == Page(3).entries
           p2 == IF limit = 1 THEN Rest(2, p3) ELSE Page(2).entries
           p1 == CASE limit = 1 -> Rest(1, p2)
                   [] limit = 2 -> Rest(1, p3)
                   [] OTHER -> Page(1).entries
           p0 == CASE limit = 1 -> Rest(0, p1)
                   [] limit = 2 -> Rest(0, p2)
                   [] limit = 3 -> Rest(0, p3)
                   [] OTHER -> Page(0).entries
           G == [o \in 0..3 |-> CASE o = 0 -> p0 [] o = 1 -> p1 [] o = 2 -> p2 [] OTHER -> p3]
           IsPages(F) == F = [o \in 0..3 |-> FromPage(F, i, limit, o)]
<1>1. G[0] = p0 /\ G[1] = p1 /\ G[2] = p2 /\ G[3] = p3
  OBVIOUS
<1> HIDE DEF G
<1>2. FromPage(G, i, limit, 3) = p3
  BY DEF FromPage
<1>3. FromPage(G, i, limit, 2) = p2
  BY <1>1 DEF FromPage
<1>4. FromPage(G, i, limit, 1) = p1
  BY <1>1 DEF FromPage
<1>5. FromPage(G, i, limit, 0) = p0
  BY <1>1 DEF FromPage
<1> HIDE DEF p0, p1, p2, p3
<1>6. \A o \in 0..3 : FromPage(G, i, limit, o) = G[o]
  <2>1. 0..3 = {0, 1, 2, 3}
    OBVIOUS
  <2> QED BY <2>1, <1>1, <1>2, <1>3, <1>4, <1>5
<1>7. G = [o \in 0..3 |-> G[o]]
  BY DEF G
<1>8. IsPages(G)
  BY <1>6, <1>7
<1>9. Dis!PagesFrom(i, limit) = CHOOSE F : IsPages(F)
  BY DEF Dis!PagesFrom, FromPage
<1>10. IsPages(Dis!PagesFrom(i, limit))
  <2> HIDE DEF IsPages
  <2> QED BY <1>8, <1>9
<1> QED BY <1>10

(* The pages from an entry on are the rest of the timeline. *)
LEMMA PagesAreComplete ==
    ASSUME NEW i, NEW limit \in 1..PageSize, NEW S, Dis!BuildEntries(dispute[i]) \in Seq(S),
           Len(Dis!BuildEntries(dispute[i])) <= 3
    PROVE  Dis!Pages(i, limit) = Dis!BuildEntries(dispute[i])
<1> DEFINE all == Dis!BuildEntries(dispute[i])
           F == Dis!PagesFrom(i, limit)
           Complete(o) == o <= Len(all) => F[o] = SubSeq(all, o + 1, Len(all))
<1>1. ASSUME NEW o \in 0..3, o + limit <= 3 => Complete(o + limit) PROVE Complete(o)
  <2> SUFFICES ASSUME o <= Len(all) PROVE F[o] = SubSeq(all, o + 1, Len(all))
    OBVIOUS
  <2> DEFINE page == Dis!Timeline(i, o, limit)
  <2>0. Len(all) \in Nat
    BY LenProperties
  <2>1. limit \in Nat \ {0} /\ limit <= PageSize /\ Len(all) \in Nat /\ Len(all) <= 3
    BY <2>0, TimelineOK
  <2>2. F[o] = FromPage(F, i, limit, o)
    BY <2>1, PagesFollow
  <2>3. Dis!Least(o, Len(all)) = o /\ Dis!Least(limit, PageSize) = limit
    BY <2>1 DEF Dis!Least
  <2> DEFINE end == Dis!Least(o + limit, Len(all))
  <2>4. page.entries = SubSeq(all, o + 1, end) /\ (page.hasMore <=> end < Len(all))
    <3>1. page = [entries |-> SubSeq(all, o + 1, end), hasMore |-> end < Len(all)]
      BY <2>3, Zenon DEF Dis!Timeline, Dis!Paginate
    <3> HIDE DEF page, end
    <3> QED BY <3>1, Zenon
  <2> HIDE DEF page, F, all
  <2>5. CASE o + limit < Len(all)
    <3>1. end = o + limit /\ o + limit <= 3
      BY <2>1, <2>5 DEF Dis!Least
    <3>2. F[o] = page.entries \o F[o + limit]
      BY <2>2, <2>4, <2>5, <3>1 DEF FromPage, page
    <3>3. F[o + limit] = SubSeq(all, o + limit + 1, Len(all))
      BY <1>1, <2>1, <2>5, <3>1
    <3>4. all \in Seq(S)
      BY DEF all
    <3>5. o + 1 \in 1..Len(all) + 1 /\ o + limit \in (o + 1) - 1..Len(all)
          /\ Len(all) \in o + limit..Len(all)
      BY <2>1, <2>5
    <3>6. SubSeq(all, o + 1, o + limit) \o SubSeq(all, o + limit + 1, Len(all))
            = SubSeq(all, o + 1, Len(all))
      BY <3>4, <3>5, ConcatAdjacentSubSeq, Zenon
    <3> QED BY <2>4, <3>1, <3>2, <3>3, <3>6
  <2>6. CASE ~(o + limit < Len(all))
    <3>1. end = Len(all)
      BY <2>1, <2>6 DEF Dis!Least
    <3> HIDE DEF end
    <3>2. ~page.hasMore
      BY <2>1, <2>4, <3>1
    <3> QED BY <2>2, <2>4, <3>1, <3>2 DEF FromPage, page
  <2> QED BY <2>5, <2>6
<1> HIDE DEF Complete
<1>2. Complete(3)  BY <1>1
<1>3. Complete(2)  BY <1>1, <1>2
<1>4. Complete(1)  BY <1>1, <1>2, <1>3
<1>5. Complete(0)  BY <1>1, <1>2, <1>3, <1>4
<1>6. F[0] = SubSeq(all, 1, Len(all))
  BY <1>5 DEF Complete
<1>7. SubSeq(all, 1, Len(all)) = all
  BY SubSeqFull
<1> QED BY <1>6, <1>7 DEF Dis!Pages

LEMMA TimelineIsComplete == CaseInv => Dis!TimelineComplete
<1> SUFFICES ASSUME CaseInv, NEW i \in Invoice
             PROVE  LET all == Dis!BuildEntries(dispute[i])
                    IN  /\ \A n \in 1..PageSize : Dis!Pages(i, n) = all
                        /\ Len(all) = Dis!StageOf(i) - 1
                        /\ \A m, n \in DOMAIN all : m <= n => all[m].at <= all[n].at
  BY DEF Dis!TimelineComplete
<1>1. PICK S : Dis!BuildEntries(dispute[i]) \in Seq(S)
  BY EntriesInOrder
<1>2. \A n \in 1..PageSize : Dis!Pages(i, n) = Dis!BuildEntries(dispute[i])
  BY <1>1, EntriesInOrder, PagesAreComplete
<1> QED BY <1>2, EntriesInOrder

(* What was said in a dispute stays and is shown, whatever becomes of the    *)
(* invoice: the pages of the timeline, of any size, show every stage once    *)
(* and in the order of time.                                                 *)
THEOREM DisputesHold == Dis!Spec => DisputesAdvance
<1>1. Dis!Spec => Dis!DisputeOnlyAdvances
  BY DisputesGoForward
<1>2. Dis!Spec => []CaseInv
  BY DisputesInvariant
<1>3. CaseInv => (part = "disputes" => Dis!TimelineComplete)
  BY TimelineIsComplete
<1> QED BY <1>1, <1>2, <1>3, PTL DEF DisputesAdvance

----------------------------------------------------------------------------
(* Notifications. *)

LEMMA AudienceIsShort ==
    ASSUME NEW type, NEW i
    PROVE  LET a == Ntf!Audience(type, i) IN (\E S : a \in Seq(S)) /\ Len(a) \in Nat /\ Len(a) <= 2
<1> DEFINE b == BusinessOf[i]
           v == InvestorOf[i]
           a == Ntf!Audience(type, i)
<1>1. \/ a = <<b>> \o <<v>> \/ a = <<b>> \o <<>> \/ a = <<v>> \/ a = <<>> \/ a = <<b>>
  BY DEF Ntf!Audience
<1> HIDE DEF a, b, v
<1>2. CASE a = <<b>> \o <<v>>
  <2>1. a \in Seq({b, v}) /\ Len(a) = 2
    BY <1>2
  <2> QED BY <2>1 DEF a
<1>3. CASE a = <<b>> \o <<>>
  <2>1. a \in Seq({b}) /\ Len(a) = 1
    BY <1>3
  <2> QED BY <2>1 DEF a
<1>4. CASE a = <<v>>
  <2>1. a \in Seq({v}) /\ Len(a) = 1
    BY <1>4
  <2> QED BY <2>1 DEF a
<1>5. CASE a = <<>>
  <2>1. a \in Seq({b}) /\ Len(a) = 0
    BY <1>5
  <2> QED BY <2>1 DEF a
<1>6. CASE a = <<b>>
  <2>1. a \in Seq({b}) /\ Len(a) = 1
    BY <1>6
  <2> QED BY <2>1 DEF a
<1> QED BY <1>1, <1>2, <1>3, <1>4, <1>5, <1>6

(* A call stops before the first who is blocked. *)
LEMMA BlockedAreNotTold ==
    ASSUME NEW type, NEW i, NEW u, ~Ntf!ShouldNotify(u, type, Ntf!PriorityOf(type))
    PROVE  u \notin Ntf!Range(Ntf!Notified(type, i))
<1> DEFINE a == Ntf!Audience(type, i)
           blocked == {n \in DOMAIN a : ~Ntf!ShouldNotify(a[n], type, Ntf!PriorityOf(type))}
           Cut(n) == n + 1 \in blocked /\ \A m \in blocked : n < m
           k == IF blocked = {} THEN Len(a) ELSE CHOOSE n \in 0..Len(a) : Cut(n)
           told == Ntf!Notified(type, i)
<1>1. PICK S : a \in Seq(S) /\ Len(a) \in Nat /\ Len(a) <= 2
  BY AudienceIsShort
<1>2. told = SubSeq(a, 1, k)
  BY DEF Ntf!Notified
<1>3. DOMAIN a = 1..Len(a)
  BY <1>1
<1>4. \A n \in DOMAIN a : a[n] = u => n \in blocked
  OBVIOUS
<1>5. blocked \subseteq 1..Len(a)
  BY <1>3
<1> HIDE DEF a, blocked
<1>6. blocked # {} => \E n \in 0..Len(a) : Cut(n)
  <2>1. blocked \subseteq {1, 2}
    <3>1. ASSUME NEW n \in blocked PROVE n = 1 \/ n = 2
      <4>1. n \in 1..Len(a)
        BY <1>5
      <4>2. n \in Nat /\ 1 <= n /\ n <= Len(a)
        BY <4>1, <1>1
      <4> QED BY <4>2, <1>1
    <3> QED BY <3>1
  <2>2. CASE 1 \in blocked
    <3>1. Cut(0)
      BY <2>1, <2>2
    <3> QED BY <3>1, <1>1
  <2>3. CASE 1 \notin blocked /\ 2 \in blocked
    <3>1. Cut(1)
      BY <2>1, <2>3
    <3>2. Len(a) \in Nat /\ Len(a) >= 2
      BY <2>3, <1>1, <1>5
    <3> QED BY <3>1, <3>2
  <2> QED BY <2>1, <2>2, <2>3
<1>7. k \in 0..Len(a) /\ (blocked # {} => Cut(k))
  <2>1. CASE blocked = {}
    BY <2>1, <1>1
  <2>2. CASE blocked # {}
    BY <2>2, <1>6
  <2> QED BY <2>1, <2>2
<1> HIDE DEF k
<1>8. DOMAIN told = 1..k /\ \A n \in 1..k : told[n] = a[n]
  BY <1>1, <1>2, <1>7
<1>9. ASSUME NEW n \in 1..k PROVE told[n] # u
  <2>1. n \in DOMAIN a /\ n \in Nat
    BY <1>1, <1>3, <1>7
  <2>2. ASSUME a[n] = u PROVE FALSE
    <3>1. n \in blocked
      BY <2>1, <2>2, <1>4
    <3>2. k < n
      BY <3>1, <1>7
    <3> QED BY <3>2, <2>1, <1>1, <1>7
  <2> QED BY <2>2, <1>8
<1> QED BY <1>8, <1>9 DEF Ntf!Range

(* A user's own preferences decide what reaches it: a type it has turned off *)
(* is added to its notifications by no call, on whosever account.            *)
THEOREM OptOutHolds == Ntf!Spec => OptOutRespected
<1>1. ASSUME [Ntf!Next]_(Ntf!vars), NEW u \in Ntf!User,
             Raised \cap preferences[u].types = {}
      PROVE  inbox'[u] = inbox[u]
  <2>1. ASSUME NEW type \in Raised, NEW i \in Billed, Ntf!Notify(type, i)
        PROVE  inbox'[u] = inbox[u]
    <3>1. ~Ntf!ShouldNotify(u, type, Ntf!PriorityOf(type))
      BY <1>1 DEF Ntf!ShouldNotify
    <3>2. u \notin Ntf!Range(Ntf!Notified(type, i))
      BY <3>1, BlockedAreNotTold
    <3> QED BY <2>1, <3>2 DEF Ntf!Notify
  <2>2. ASSUME NEW id \in DOMAIN notice, NEW s \in Ntf!Statuses, Ntf!UpdateStatus(id, s)
        PROVE  inbox' = inbox
    BY <2>2 DEF Ntf!UpdateStatus
  <2>3. ASSUME NEW v \in Ntf!User, NEW wish \in Wishes, Ntf!UpdatePreferences(v, wish)
        PROVE  inbox' = inbox
    BY <2>3 DEF Ntf!UpdatePreferences
  <2>4. Ntf!Tick \/ UNCHANGED Ntf!vars => inbox' = inbox
    BY DEF Ntf!Tick, Ntf!vars
  <2> QED BY <1>1, <2>1, <2>2, <2>3, <2>4 DEF Ntf!Next
<1>2. [Ntf!Next]_(Ntf!vars) =>
         [\A u \in Ntf!User :
             Raised \cap preferences[u].types = {} => inbox'[u] = inbox[u]]_(Ntf!vars)
  BY <1>1
<1> QED BY <1>2, PTL DEF Ntf!Spec, OptOutRespected, Ntf!OptOutRespected

----------------------------------------------------------------------------
(* The order book. *)

BidRecord == [amount : Nat, return : Nat, timestamp : Nat, status : Bids!Status]

BidsRight == bids \in Seq(BidRecord)

(* A recursion over numbers that follows a step has a solution. *)
Recurs(g, n, V, first, step) ==
    g \in [0..n -> V] /\ g[0] = first /\ \A m \in 1..n : g[m] = step[<<m, g[m - 1]>>]

LEMMA RecursionSolved ==
    ASSUME NEW n \in Nat, NEW V, NEW first \in V, NEW step \in [(1..n) \X V -> V]
    PROVE  \E g : Recurs(g, n, V, first, step)
<1> DEFINE W == {k \in 0..n : \E g : Recurs(g, k, V, first, step)}
<1>1. 0 \in W
  <2> DEFINE g == [m \in 0..0 |-> first]
  <2>1. g \in [0..0 -> V] /\ g[0] = first /\ 1..0 = {} /\ 0 \in 0..n
    OBVIOUS
  <2> HIDE DEF g
  <2>2. Recurs(g, 0, V, first, step)
    BY <2>1 DEF Recurs
  <2> QED BY <2>1, <2>2
<1>2. ASSUME NEW k \in 0..n, k \in W, k < n PROVE k + 1 \in W
  <2>1. PICK g : Recurs(g, k, V, first, step)
    BY <1>2
  <2> DEFINE h == [m \in 0..(k + 1) |-> IF m = k + 1 THEN step[<<k + 1, g[k]>>] ELSE g[m]]
  <2>2. g \in [0..k -> V] /\ g[0] = first /\ \A m \in 1..k : g[m] = step[<<m, g[m - 1]>>]
    BY <2>1 DEF Recurs
  <2>3. k \in Nat /\ k \in 0..k /\ k + 1 \in 1..n /\ 0 \in 0..k /\ 0 # k + 1
    BY <1>2
  <2>4. step[<<k + 1, g[k]>>] \in V
    BY <2>2, <2>3
  <2>5. \A m \in 0..(k + 1) : h[m] = IF m = k + 1 THEN step[<<k + 1, g[k]>>] ELSE g[m]
    OBVIOUS
  <2>6. h \in [0..(k + 1) -> V]
    <3>1. \A m \in 0..(k + 1) : m # k + 1 => m \in 0..k
      BY <2>3
    <3> QED BY <2>2, <2>4, <3>1
  <2> HIDE DEF h
  <2>7. h[0] = first
    BY <2>2, <2>3, <2>5
  <2>8. ASSUME NEW m \in 1..(k + 1) PROVE h[m] = step[<<m, h[m - 1]>>]
    <3>1. CASE m = k + 1
      <4>1. h[m] = step[<<k + 1, g[k]>>] /\ m - 1 = k
        BY <2>3, <2>5, <3>1
      <4>2. h[k] = g[k]
        BY <2>3, <2>5
      <4> QED BY <3>1, <4>1, <4>2
    <3>2. CASE m # k + 1
      <4>1. m \in 1..k /\ m - 1 \in 0..k /\ m - 1 # k + 1 /\ m - 1 \in 0..(k + 1)
        BY <2>3, <3>2
      <4>2. h[m] = g[m] /\ h[m - 1] = g[m - 1]
        BY <2>5, <3>2, <4>1
      <4> QED BY <2>2, <4>1, <4>2
    <3> QED BY <3>1, <3>2
  <2>9. Recurs(h, k + 1, V, first, step)
    BY <2>6, <2>7, <2>8 DEF Recurs
  <2>10. k + 1 \in 0..n
    BY <1>2
  <2> QED BY <2>9, <2>10
<1> HIDE DEF W
<1>3. \A k \in 0..n : k \in W
  BY <1>1, <1>2, Induction
<1> QED BY <1>3 DEF W

----------------------------------------------------------------------------
(* The comparator puts different bids in a strict order. *)
Value(id) == bids[id].return - bids[id].amount

LEMMA BeatsIs ==
    ASSUME NEW a, NEW b
    PROVE  Bids!Beats(a, b) <=>
           \/ Value(a) > Value(b)
           \/ /\ Value(a) = Value(b)
              /\ \/ bids[a].return > bids[b].return
                 \/ /\ bids[a].return = bids[b].return
                    /\ \/ bids[a].amount > bids[b].amount
                       \/ /\ bids[a].amount = bids[b].amount
                          /\ \/ bids[a].timestamp > bids[b].timestamp
                             \/ bids[a].timestamp = bids[b].timestamp /\ a > b
<1> DEFINE x == Bids!Merit(a)
           y == Bids!Merit(b)
           Above(i) == x[i] > y[i] /\ \A j \in 1..(i - 1) : x[j] = y[j]
<1>1. /\ x[1] = Value(a) /\ x[2] = bids[a].return /\ x[3] = bids[a].amount
      /\ x[4] = bids[a].timestamp /\ x[5] = a
      /\ y[1] = Value(b) /\ y[2] = bids[b].return /\ y[3] = bids[b].amount
      /\ y[4] = bids[b].timestamp /\ y[5] = b
  BY DEF Bids!Merit, Value
<1>2. Bids!Beats(a, b) <=> \E i \in 1..5 : Above(i)
  BY DEF Bids!Beats
<1> HIDE DEF x, y
<1>3. /\ Above(1) <=> x[1] > y[1]
      /\ Above(2) <=> x[2] > y[2] /\ x[1] = y[1]
      /\ Above(3) <=> x[3] > y[3] /\ x[1] = y[1] /\ x[2] = y[2]
      /\ Above(4) <=> x[4] > y[4] /\ x[1] = y[1] /\ x[2] = y[2] /\ x[3] = y[3]
      /\ Above(5) <=> x[5] > y[5] /\ x[1] = y[1] /\ x[2] = y[2] /\ x[3] = y[3] /\ x[4] = y[4]
  <2>1. 1..(1-1) = {} /\ 1..(2-1) = {1} /\ 1..(3-1) = {1,2} /\ 1..(4-1) = {1,2,3} /\ 1..(5-1) = {1,2,3,4}
    OBVIOUS
  <2> QED BY <2>1
<1> HIDE DEF Above
<1>4. (\E i \in 1..5 : Above(i)) <=> Above(1) \/ Above(2) \/ Above(3) \/ Above(4) \/ Above(5)
  <2>1. 1..5 = {1, 2, 3, 4, 5}
    OBVIOUS
  <2> QED BY <2>1
<1>5. Bids!Beats(a, b) <=> Above(1) \/ Above(2) \/ Above(3) \/ Above(4) \/ Above(5)
  BY <1>2, <1>4 DEF Above
<1> QED BY <1>1, <1>3, <1>5, Zenon

LEMMA BidFields ==
    ASSUME BidsRight, NEW a \in DOMAIN bids
    PROVE  /\ bids[a].return \in Nat /\ bids[a].amount \in Nat /\ bids[a].timestamp \in Nat
           /\ Value(a) \in Int /\ a \in Nat
<1>1. bids[a] \in BidRecord /\ a \in Nat
  BY DEF BidsRight
<1>2. bids[a].return \in Nat /\ bids[a].amount \in Nat /\ bids[a].timestamp \in Nat
  BY <1>1 DEF BidRecord
<1> QED BY <1>1, <1>2 DEF Value

LEMMA BeatsOrders ==
    ASSUME BidsRight
    PROVE  /\ \A a \in DOMAIN bids : ~Bids!Beats(a, a)
           /\ \A a, b \in DOMAIN bids : a = b \/ Bids!Beats(a, b) \/ Bids!Beats(b, a)
           /\ \A a, b, c \in DOMAIN bids :
                 Bids!Beats(a, b) /\ Bids!Beats(b, c) => Bids!Beats(a, c)
<1>1. ASSUME NEW a \in DOMAIN bids PROVE ~Bids!Beats(a, a)
  BY BidFields, BeatsIs
<1>2. ASSUME NEW a \in DOMAIN bids, NEW b \in DOMAIN bids
      PROVE  a = b \/ Bids!Beats(a, b) \/ Bids!Beats(b, a)
  BY BidFields, BeatsIs
<1>3. ASSUME NEW a \in DOMAIN bids, NEW b \in DOMAIN bids, NEW c \in DOMAIN bids,
             Bids!Beats(a, b), Bids!Beats(b, c)
      PROVE  Bids!Beats(a, c)
  BY <1>3, BidFields, BeatsIs
<1> QED BY <1>1, <1>2, <1>3

----------------------------------------------------------------------------
(* The best bid of a list, found by going through it. *)
Tops(x, S) == x \in S /\ \A y \in S : y = x \/ Bids!Beats(x, y)

LEMMA TopsGrows ==
    ASSUME BidsRight, NEW S \in SUBSET DOMAIN bids, NEW x, Tops(x, S), NEW y \in DOMAIN bids,
           NEW z, z = IF Bids!Beats(y, x) THEN y ELSE x
    PROVE  Tops(z, S \cup {y})
<1>1. x \in DOMAIN bids
  BY DEF Tops
<1>2. CASE Bids!Beats(y, x)
  BY <1>1, <1>2, BeatsOrders DEF Tops
<1>3. CASE ~Bids!Beats(y, x)
  BY <1>1, <1>3, BeatsOrders DEF Tops
<1> QED BY <1>2, <1>3

BetterOf(x, y) == IF y = 0 \/ Bids!Beats(x, y) THEN x ELSE y

Bests(best, ids) ==
    best = [n \in 0..Len(ids) |-> IF n = 0 THEN 0 ELSE
               IF best[n - 1] = 0 \/ Bids!Beats(ids[n], best[n - 1]) THEN ids[n] ELSE best[n - 1]]

LEMMA BestIsChosen ==
    ASSUME NEW ids
    PROVE  Bids!Best(ids) = (CHOOSE best : Bests(best, ids))[Len(ids)]
BY Zenon DEF Bids!Best, Bests

LEMMA BestIs ==
    ASSUME BidsRight, NEW ids \in Seq(DOMAIN bids)
    PROVE  /\ ids = <<>> => Bids!Best(ids) = 0
           /\ ids # <<>> => Tops(Bids!Best(ids), {ids[n] : n \in DOMAIN ids})
<1> DEFINE size == Len(ids)
           V == {0} \cup DOMAIN bids
           step == [p \in (1..size) \X V |-> BetterOf(ids[p[1]], p[2])]
<1>1. size \in Nat /\ DOMAIN ids = 1..size /\ (\A n \in 1..size : ids[n] \in DOMAIN bids) /\ 0 \notin DOMAIN bids
  BY DEF BidsRight
<1>2. \E best : Bests(best, ids)
  <2>1. step \in [(1..size) \X V -> V]
    BY <1>1 DEF BetterOf
  <2>2. \A n \in 1..size, v \in V : step[<<n, v>>] = BetterOf(ids[n], v)
    OBVIOUS
  <2> HIDE DEF V, step
  <2>3. 0 \in V
    BY DEF V
  <2>4. PICK g : Recurs(g, size, V, 0, step)
    BY <1>1, <2>1, <2>3, RecursionSolved
  <2>5. g = [n \in 0..size |-> g[n]] /\ g[0] = 0
    BY <2>4 DEF Recurs
  <2>6. ASSUME NEW n \in 0..size, n # 0 PROVE g[n] = BetterOf(ids[n], g[n - 1])
    <3>1. n \in 1..size /\ n - 1 \in 0..size
      BY <1>1, <2>6
    <3> QED BY <2>2, <2>4, <3>1 DEF Recurs
  <2>7. \A n \in 0..size :
           g[n] = IF n = 0 THEN 0 ELSE
                  IF g[n - 1] = 0 \/ Bids!Beats(ids[n], g[n - 1]) THEN ids[n] ELSE g[n - 1]
    BY <2>5, <2>6 DEF BetterOf
  <2> HIDE DEF size
  <2>8. g = [n \in 0..size |-> IF n = 0 THEN 0 ELSE
               IF g[n - 1] = 0 \/ Bids!Beats(ids[n], g[n - 1]) THEN ids[n] ELSE g[n - 1]]
    BY <2>5, <2>7, Zenon
  <2>9. Bests(g, ids)
    BY <2>8 DEF Bests, size
  <2> QED BY <2>9
<1> DEFINE best == CHOOSE best : Bests(best, ids)
<1>3. Bests(best, ids)
  BY <1>2
<1>4. Bids!Best(ids) = best[size]
  BY BestIsChosen
<1> HIDE DEF best
<1>5. \A n \in 0..size :
         best[n] = IF n = 0 THEN 0 ELSE
                   IF best[n - 1] = 0 \/ Bids!Beats(ids[n], best[n - 1]) THEN ids[n] ELSE best[n - 1]
  BY <1>3 DEF Bests
<1> HIDE DEF size
<1> DEFINE From(n) == {ids[m] : m \in 1..n}
           W == {n \in 0..size : n = 0 \/ Tops(best[n], From(n))}
<1>6. best[0] = 0 /\ 0 \in W
  BY <1>1, <1>5
<1>7. ASSUME NEW n \in 0..size, n \in W, n < size PROVE n + 1 \in W
  <2>1. n + 1 \in 1..size /\ n + 1 \in 0..size /\ n + 1 # 0 /\ (n + 1) - 1 = n
    BY <1>1, <1>7
  <2>2. best[n + 1] = IF best[n] = 0 \/ Bids!Beats(ids[n + 1], best[n]) THEN ids[n + 1] ELSE best[n]
    BY <1>5, <2>1
  <2>3. From(n + 1) = From(n) \cup {ids[n + 1]} /\ From(n) \in SUBSET DOMAIN bids /\ ids[n + 1] \in DOMAIN bids
    <3>1. \A m \in 1..(n + 1) : m \in 1..n \/ m = n + 1
      BY <1>7
    <3>2. \A m \in 1..n : m \in 1..(n + 1) /\ m \in 1..size
      BY <1>1, <1>7
    <3>3. n + 1 \in 1..(n + 1)
      BY <1>7
    <3> QED BY <1>1, <2>1, <3>1, <3>2, <3>3
  <2> HIDE DEF From
  <2>4. CASE n = 0
    <3>1. From(n) = {}
      BY <2>4 DEF From
    <3>2. best[n + 1] = ids[n + 1]
      BY <1>6, <2>2, <2>4
    <3> QED BY <2>1, <2>3, <3>1, <3>2 DEF Tops
  <2>5. CASE n # 0
    <3>1. Tops(best[n], From(n))
      BY <1>7, <2>5
    <3>2. best[n] # 0
      BY <1>1, <2>3, <3>1 DEF Tops
    <3>3. best[n + 1] = IF Bids!Beats(ids[n + 1], best[n]) THEN ids[n + 1] ELSE best[n]
      BY <2>2, <3>2
    <3>4. Tops(best[n + 1], From(n) \cup {ids[n + 1]})
      BY <2>3, <3>1, <3>3, TopsGrows
    <3> QED BY <2>1, <2>3, <3>4
  <2> QED BY <2>4, <2>5
<1> HIDE DEF W
<1>8. \A n \in 0..size : n \in W
  BY <1>1, <1>6, <1>7, Induction
<1>9. size \in 0..size /\ (ids = <<>> <=> size = 0)
  BY <1>1 DEF size
<1> QED BY <1>1, <1>4, <1>6, <1>8, <1>9 DEF W

(* Where it is found: the position of the best of a list. *)
BestIndexes(best, ids) ==
    best = [n \in 1..Len(ids) |-> IF n = 1 THEN 1 ELSE
               IF Bids!Beats(ids[n], ids[best[n - 1]]) THEN n ELSE best[n - 1]]

LEMMA BestIndexIsChosen ==
    ASSUME NEW ids
    PROVE  Bids!BestIndex(ids) = (CHOOSE best : BestIndexes(best, ids))[Len(ids)]
BY Zenon DEF Bids!BestIndex, BestIndexes

LEMMA BestIndexIs ==
    ASSUME BidsRight, NEW ids \in Seq(DOMAIN bids), ids # <<>>
    PROVE  /\ Bids!BestIndex(ids) \in DOMAIN ids
           /\ Tops(ids[Bids!BestIndex(ids)], {ids[n] : n \in DOMAIN ids})
<1> DEFINE size == Len(ids)
           V == DOMAIN ids
           step == [p \in (1..(size - 1)) \X V |->
                       IF Bids!Beats(ids[p[1] + 1], ids[p[2]]) THEN p[1] + 1 ELSE p[2]]
<1>1. size \in Nat \ {0} /\ DOMAIN ids = 1..size /\ \A n \in 1..size : ids[n] \in DOMAIN bids
  OBVIOUS
<1>2. \E best : BestIndexes(best, ids)
  <2>1. step \in [(1..(size - 1)) \X V -> V]
    <3>1. \A n \in 1..(size - 1) : n + 1 \in V
      BY <1>1
    <3> HIDE DEF V
    <3> QED BY <3>1
  <2>2. \A n \in 1..(size - 1), v \in V :
           step[<<n, v>>] = IF Bids!Beats(ids[n + 1], ids[v]) THEN n + 1 ELSE v
    OBVIOUS
  <2> HIDE DEF V, step
  <2>3. 1 \in V /\ size - 1 \in Nat
    BY <1>1 DEF V
  <2>4. PICK g : Recurs(g, size - 1, V, 1, step)
    BY <2>1, <2>3, RecursionSolved
  <2> DEFINE h == [n \in 1..size |-> g[n - 1]]
  <2>5. \A n \in 1..size : h[n] = g[n - 1]
    OBVIOUS
  <2>6. h = [n \in 1..size |-> h[n]]
    OBVIOUS
  <2> HIDE DEF h
  <2>7. ASSUME NEW n \in 1..size, n # 1
        PROVE  h[n] = IF Bids!Beats(ids[n], ids[h[n - 1]]) THEN n ELSE h[n - 1]
    <3>1. /\ n - 1 \in 1..(size - 1) /\ n - 1 \in 1..size /\ (n - 1) - 1 \in 0..(size - 1)
          /\ (n - 1) + 1 = n
      BY <1>1, <2>7
    <3>2. h[n] = g[n - 1] /\ h[n - 1] = g[(n - 1) - 1]
      BY <2>5, <3>1
    <3>3. g[n - 1] = step[<<n - 1, g[(n - 1) - 1]>>] /\ g[(n - 1) - 1] \in V
      BY <2>4, <3>1 DEF Recurs
    <3> QED BY <2>2, <3>1, <3>2, <3>3
  <2>8. h[1] = 1
    BY <1>1, <2>4, <2>5 DEF Recurs
  <2>9. \A n \in 1..size :
           h[n] = IF n = 1 THEN 1 ELSE IF Bids!Beats(ids[n], ids[h[n - 1]]) THEN n ELSE h[n - 1]
    BY <2>7, <2>8
  <2> HIDE DEF size
  <2>10. h = [n \in 1..size |-> IF n = 1 THEN 1 ELSE
                 IF Bids!Beats(ids[n], ids[h[n - 1]]) THEN n ELSE h[n - 1]]
    BY <2>6, <2>9, Zenon
  <2>11. BestIndexes(h, ids)
    BY <2>10 DEF BestIndexes, size
  <2> QED BY <2>11
<1> DEFINE best == CHOOSE best : BestIndexes(best, ids)
<1>3. BestIndexes(best, ids)
  BY <1>2
<1>4. Bids!BestIndex(ids) = best[size]
  BY BestIndexIsChosen
<1> HIDE DEF best
<1>5. \A n \in 1..size :
         best[n] = IF n = 1 THEN 1 ELSE
                   IF Bids!Beats(ids[n], ids[best[n - 1]]) THEN n ELSE best[n - 1]
  BY <1>3 DEF BestIndexes
<1> HIDE DEF size
<1> DEFINE From(n) == {ids[m] : m \in 1..n}
           W == {n \in 0..size : n = 0 \/ (best[n] \in 1..n /\ Tops(ids[best[n]], From(n)))}
<1>6. 0 \in W
  BY <1>1
<1>7. ASSUME NEW n \in 0..size, n \in W, n < size PROVE n + 1 \in W
  <2>1. n + 1 \in 1..size /\ n + 1 \in 0..size /\ (n + 1) - 1 = n /\ (n + 1 = 1 <=> n = 0)
        /\ n + 1 \in 1..(n + 1)
    BY <1>1, <1>7
  <2>2. best[n + 1] = IF n = 0 THEN 1 ELSE
                      IF Bids!Beats(ids[n + 1], ids[best[n]]) THEN n + 1 ELSE best[n]
    BY <1>5, <2>1
  <2>3. From(n + 1) = From(n) \cup {ids[n + 1]} /\ From(n) \in SUBSET DOMAIN bids /\ ids[n + 1] \in DOMAIN bids
    <3>1. \A m \in 1..(n + 1) : m \in 1..n \/ m = n + 1
      BY <1>7
    <3>2. \A m \in 1..n : m \in 1..(n + 1) /\ m \in 1..size
      BY <1>1, <1>7
    <3> QED BY <1>1, <2>1, <3>1, <3>2
  <2>4. \A m \in 1..n : m \in 1..(n + 1)
    BY <1>7
  <2> HIDE DEF From
  <2>5. CASE n = 0
    <3>1. From(n) = {}
      BY <2>5 DEF From
    <3>2. best[n + 1] = n + 1
      BY <2>2, <2>5
    <3> QED BY <2>1, <2>3, <3>1, <3>2 DEF Tops
  <2>6. CASE n # 0
    <3>1. best[n] \in 1..n /\ Tops(ids[best[n]], From(n))
      BY <1>7, <2>6
    <3>2. ids[best[n + 1]] = IF Bids!Beats(ids[n + 1], ids[best[n]]) THEN ids[n + 1] ELSE ids[best[n]]
      BY <2>2, <2>6
    <3>3. best[n + 1] \in 1..(n + 1)
      BY <2>1, <2>2, <2>4, <2>6, <3>1
    <3>4. Tops(ids[best[n + 1]], From(n) \cup {ids[n + 1]})
      BY <2>3, <3>1, <3>2, TopsGrows
    <3>5. Tops(ids[best[n + 1]], From(n + 1))
      BY <2>3, <3>4
    <3> QED BY <2>1, <3>3, <3>5
  <2> QED BY <2>5, <2>6
<1> HIDE DEF W
<1>8. \A n \in 0..size : n \in W
  BY <1>1, <1>6, <1>7, Induction
<1>9. size \in 0..size /\ size # 0
  BY <1>1
<1>10. best[size] \in 1..size /\ Tops(ids[best[size]], From(size))
  BY <1>8, <1>9 DEF W
<1> QED BY <1>1, <1>4, <1>10

----------------------------------------------------------------------------
(* The ranking: the best of what remains, again and again. *)
LEMMA BidsSublist == \A list, kept : Bids!Sublist(list, kept) = Sublist(list, kept)
BY Zenon DEF Sublist, Bids!Sublist, Cardinality, Bids!Cardinality

Selected(s) ==
    [ranked    |-> Append(s.ranked, s.remaining[Bids!BestIndex(s.remaining)]),
     remaining |-> Bids!Sublist(s.remaining, DOMAIN s.remaining \ {Bids!BestIndex(s.remaining)})]

Selects(select, placed) ==
    select = [n \in 0..Len(placed) |->
                 IF n = 0 THEN [ranked |-> <<>>, remaining |-> placed] ELSE Selected(select[n - 1])]

LEMMA RankingIsChosen ==
    Bids!Ranking = LET placed == Bids!WithStatus("Placed")
                   IN  (CHOOSE select : Selects(select, placed))[Len(placed)].ranked
BY Zenon DEF Bids!Ranking, Selects, Selected

LEMMA SelectionSolved ==
    ASSUME BidsRight, NEW placed \in Seq(DOMAIN bids)
    PROVE  \E select : Selects(select, placed)
<1> DEFINE size == Len(placed)
           Junk == <<>>[Bids!BestIndex(<<>>)]
           V == [ranked : Seq(DOMAIN bids \cup {Junk}), remaining : Seq(DOMAIN bids)]
           first == [ranked |-> <<>>, remaining |-> placed]
           step == [p \in (1..size) \X V |-> Selected(p[2])]
<1>1. size \in Nat
  OBVIOUS
<1>2. ASSUME NEW s \in V PROVE Selected(s) \in V
  <2> DEFINE x == s.remaining[Bids!BestIndex(s.remaining)]
             kept == DOMAIN s.remaining \ {Bids!BestIndex(s.remaining)}
  <2>1. s.ranked \in Seq(DOMAIN bids \cup {Junk}) /\ s.remaining \in Seq(DOMAIN bids)
    OBVIOUS
  <2>2. x \in DOMAIN bids \cup {Junk}
    <3>1. CASE s.remaining = <<>>
      BY <3>1, Zenon
    <3>2. CASE s.remaining # <<>>
      <4>1. Bids!BestIndex(s.remaining) \in DOMAIN s.remaining
        BY <2>1, <3>2, BestIndexIs
      <4> HIDE DEF V
      <4> QED BY <2>1, <4>1
    <3> QED BY <3>1, <3>2
  <2>3. Bids!Sublist(s.remaining, kept) \in Seq(DOMAIN bids)
    <3>1. kept \in SUBSET DOMAIN s.remaining
      OBVIOUS
    <3> HIDE DEF kept, V
    <3> QED BY <2>1, <3>1, BidsSublist, SublistPositions
  <2> HIDE DEF x, kept, Junk
  <2>4. [ranked |-> Append(s.ranked, x), remaining |-> Bids!Sublist(s.remaining, kept)] \in V
    BY <2>1, <2>2, <2>3
  <2> QED BY <2>4 DEF Selected, x, kept
<1>3. first \in V
  OBVIOUS
<1> HIDE DEF V
<1>4. step \in [(1..size) \X V -> V] /\ \A n \in 1..size, v \in V : step[<<n, v>>] = Selected(v)
  BY <1>2
<1> HIDE DEF step, size, first
<1>5. PICK g : Recurs(g, size, V, first, step)
  BY <1>1, <1>3, <1>4, RecursionSolved
<1>6. g = [n \in 0..size |-> g[n]] /\ g[0] = first
  BY <1>5 DEF Recurs
<1>7. ASSUME NEW n \in 0..size, n # 0 PROVE g[n] = Selected(g[n - 1])
  <2>1. n \in 1..size /\ n - 1 \in 0..size
    BY <1>1, <1>7
  <2> QED BY <1>4, <1>5, <2>1 DEF Recurs
<1>8. \A n \in 0..size : g[n] = IF n = 0 THEN first ELSE Selected(g[n - 1])
  BY <1>6, <1>7
<1>9. g = [n \in 0..size |-> IF n = 0 THEN first ELSE Selected(g[n - 1])]
  BY <1>6, <1>8, Zenon
<1>10. Selects(g, placed)
  BY <1>9 DEF Selects, size, first
<1> QED BY <1>10

(* What is ranked is in order and above all that remains. *)
Sorted(s, n, S) ==
    /\ s.ranked \in Seq(S) /\ Len(s.ranked) = n
    /\ Enumerates(s.remaining, {y \in S : \A i \in 1..n : s.ranked[i] # y})
    /\ Len(s.remaining) = Cardinality(S) - n
    /\ \A i, j \in 1..n : i < j => Bids!Beats(s.ranked[i], s.ranked[j])
    /\ \A i \in 1..n : \A y \in S :
          (\A j \in 1..n : s.ranked[j] # y) => Bids!Beats(s.ranked[i], y)

LEMMA SelectionSorts ==
    ASSUME BidsRight, NEW S \in SUBSET DOMAIN bids, NEW n \in Nat, NEW s, Sorted(s, n, S),
           n < Cardinality(S), Cardinality(S) \in Nat
    PROVE  Sorted(Selected(s), n + 1, S)
<1> DEFINE R == {y \in S : \A i \in 1..n : s.ranked[i] # y}
           rest == s.remaining
           k == Bids!BestIndex(rest)
           x == rest[k]
           kept == DOMAIN rest \ {k}
           t == Selected(s)
<1>1. /\ s.ranked \in Seq(S) /\ Len(s.ranked) = n /\ Enumerates(rest, R)
      /\ Len(rest) = Cardinality(S) - n
      /\ \A i, j \in 1..n : i < j => Bids!Beats(s.ranked[i], s.ranked[j])
      /\ \A i \in 1..n : \A y \in R : Bids!Beats(s.ranked[i], y)
  BY DEF Sorted
<1>2. t.ranked = Append(s.ranked, x) /\ t.remaining = Sublist(rest, kept)
  BY BidsSublist DEF Selected
<1>3. R \in SUBSET S
  OBVIOUS
<1> HIDE DEF R, rest, t
<1>4. /\ rest \in Seq(Nat) /\ DOMAIN rest = 1..Len(rest) /\ Len(rest) \in Nat /\ rest # <<>>
      /\ R = {rest[m] : m \in DOMAIN rest}
      /\ \A m, l \in DOMAIN rest : m < l => rest[m] < rest[l]
  BY <1>1 DEF Enumerates
<1>5. rest \in Seq(DOMAIN bids)
  BY <1>3, <1>4
<1>6. k \in DOMAIN rest /\ Tops(x, R)
  BY <1>4, <1>5, BestIndexIs
<1>7. kept \in SUBSET DOMAIN rest /\ \A m \in DOMAIN rest : rest[m] = x <=> m = k
  <2> SUFFICES ASSUME NEW m \in DOMAIN rest, m # k PROVE rest[m] # rest[k]
    OBVIOUS
  <2>1. m < k \/ k < m
    BY <1>4, <1>6
  <2>2. rest[m] < rest[k] \/ rest[k] < rest[m]
    BY <1>4, <1>6, <2>1
  <2>3. rest[m] \in Nat /\ rest[k] \in Nat
    BY <1>4, <1>6
  <2> QED BY <2>2, <2>3
<1> HIDE DEF x, k
<1>8. {rest[m] : m \in kept} = R \ {x}
  BY <1>4, <1>6, <1>7
<1>9. Enumerates(t.remaining, R \ {x})
  <2> HIDE DEF kept
  <2>1. Enumerates(Sublist(rest, kept), {rest[m] : m \in kept})
    BY <1>1, <1>7, EnumeratesSublist
  <2> QED BY <1>2, <1>8, <2>1
<1>10. Len(t.remaining) = Len(rest) - 1
  <2>1. IsFiniteSet(DOMAIN rest) /\ Cardinality(DOMAIN rest) = Len(rest)
    BY <1>4, FS_Interval
  <2>2. Cardinality(kept) = Len(rest) - 1
    BY <1>6, <2>1, FS_RemoveElement
  <2> HIDE DEF kept
  <2> QED BY <1>2, <1>4, <1>7, <2>2, SublistPositions
<1>11. /\ x \in S /\ x \in R /\ t.ranked \in Seq(S) /\ Len(t.ranked) = n + 1
       /\ (\A i \in 1..n : t.ranked[i] = s.ranked[i]) /\ t.ranked[n + 1] = x
  BY <1>1, <1>2, <1>3, <1>6 DEF Tops
<1>12. \A i \in 1..(n + 1) : i \in 1..n \/ i = n + 1
  OBVIOUS
<1>13. (\A i \in 1..n : i \in 1..(n + 1) /\ i < n + 1 /\ ~(n + 1 < i)) /\ n + 1 \in 1..(n + 1)
       /\ ~(n + 1 < n + 1)
  OBVIOUS
<1>14. {y \in S : \A i \in 1..(n + 1) : t.ranked[i] # y} = R \ {x}
  BY <1>11, <1>12, <1>13 DEF R
<1>15. ASSUME NEW i \in 1..(n + 1), NEW j \in 1..(n + 1), i < j
       PROVE  Bids!Beats(t.ranked[i], t.ranked[j])
  BY <1>1, <1>11, <1>12, <1>13, <1>15
<1>16. ASSUME NEW i \in 1..(n + 1), NEW y \in R \ {x} PROVE Bids!Beats(t.ranked[i], y)
  BY <1>1, <1>6, <1>11, <1>12, <1>16 DEF Tops
<1>17. Len(t.remaining) = Cardinality(S) - (n + 1)
  BY <1>1, <1>10
<1>18. ASSUME NEW i \in 1..(n + 1), NEW y \in S, \A j \in 1..(n + 1) : t.ranked[j] # y
       PROVE  Bids!Beats(t.ranked[i], y)
  BY <1>14, <1>16, <1>18
<1> QED BY <1>9, <1>11, <1>14, <1>15, <1>17, <1>18 DEF Sorted, t

LEMMA RankingIs ==
    ASSUME BidsRight, NEW S \in SUBSET DOMAIN bids,
           Enumerates(Bids!WithStatus("Placed"), S)
    PROVE  LET ranked == Bids!Ranking IN
           /\ ranked \in Seq(S) /\ Len(ranked) = Cardinality(S)
           /\ \A y \in S : \E i \in DOMAIN ranked : ranked[i] = y
           /\ \A i, j \in DOMAIN ranked : i < j => Bids!Beats(ranked[i], ranked[j])
<1> DEFINE placed == Bids!WithStatus("Placed")
           size == Len(placed)
           select == CHOOSE select : Selects(select, placed)
<1>1. Bids!Ranking = select[size].ranked
  BY RankingIsChosen
<1> HIDE DEF placed
<1>2. Enumerates(placed, S)
  BY DEF placed
<1>3. placed \in Seq(DOMAIN bids) /\ size \in Nat /\ Cardinality(S) = size
  <2>1. Cardinality(S) = Len(placed)
    BY <1>2, EnumeratesByRank
  <2>2. placed \in Seq(Nat) /\ \A n \in DOMAIN placed : placed[n] \in S
    BY <1>2 DEF Enumerates
  <2> QED BY <2>1, <2>2
<1>4. Selects(select, placed)
  BY <1>3, SelectionSolved
<1> HIDE DEF select
<1>5. \A n \in 0..size :
         select[n] = IF n = 0 THEN [ranked |-> <<>>, remaining |-> placed] ELSE Selected(select[n - 1])
  BY <1>4 DEF Selects
<1> HIDE DEF size
<1> DEFINE W == {n \in 0..size : Sorted(select[n], n, S)}
<1>6. 0 \in W
  <2>1. select[0].ranked = <<>> /\ select[0].remaining = placed /\ 0 \in 0..size
    BY <1>3, <1>5
  <2>2. {y \in S : \A i \in 1..0 : select[0].ranked[i] # y} = S
    OBVIOUS
  <2>3. Len(placed) = Cardinality(S) - 0
    BY <1>3 DEF size
  <2>4. 1..0 = {} /\ Len(<<>>) = 0 /\ <<>> \in Seq(S)
    OBVIOUS
  <2>5. Enumerates(select[0].remaining, {y \in S : \A i \in 1..0 : select[0].ranked[i] # y})
    BY <1>2, <2>1, <2>2
  <2> QED BY <2>1, <2>3, <2>4, <2>5 DEF Sorted
<1>7. ASSUME NEW n \in 0..size, n \in W, n < size PROVE n + 1 \in W
  <2>1. n + 1 \in 0..size /\ n + 1 # 0 /\ (n + 1) - 1 = n /\ n \in Nat
    BY <1>3, <1>7
  <2>2. select[n + 1] = Selected(select[n])
    BY <1>5, <2>1
  <2>3. Sorted(select[n + 1], n + 1, S)
    BY <1>3, <1>7, <2>1, <2>2, SelectionSorts
  <2> QED BY <2>1, <2>3
<1> HIDE DEF W
<1>8. size \in W
  <2>1. \A n \in 0..size : n \in W
    BY <1>3, <1>6, <1>7, Induction
  <2> QED BY <1>3, <2>1
<1> DEFINE ranked == select[size].ranked
<1>9. Sorted(select[size], size, S)
  BY <1>8 DEF W
<1>10. Len(select[size].remaining) = 0
  BY <1>3, <1>9 DEF Sorted
<1>11. {y \in S : \A i \in 1..size : ranked[i] # y} = {}
  <2>1. Enumerates(select[size].remaining, {y \in S : \A i \in 1..size : ranked[i] # y})
    BY <1>9 DEF Sorted
  <2>2. DOMAIN select[size].remaining = {}
    BY <1>10, <2>1 DEF Enumerates
  <2> HIDE DEF ranked
  <2> QED BY <2>1, <2>2 DEF Enumerates
<1>12. ranked \in Seq(S) /\ Len(ranked) = size /\ DOMAIN ranked = 1..size
       /\ \A i, j \in 1..size : i < j => Bids!Beats(ranked[i], ranked[j])
  BY <1>9 DEF Sorted
<1> HIDE DEF ranked
<1> QED BY <1>1, <1>3, <1>11, <1>12 DEF ranked

----------------------------------------------------------------------------
(* Pages. *)
PageStep(limit) == Bids!AtMost(limit, PageCap)

LEMMA StepPositive == \A limit \in AskedPages : PageStep(limit) \in Nat \ {0}
BY BookOK DEF PageStep, Bids!AtMost

PageStart(list, offset) == IF offset < Len(list) THEN offset ELSE Len(list)

PageEnd(list, offset, limit) ==
    IF PageStart(list, offset) + PageStep(limit) < Len(list)
    THEN PageStart(list, offset) + PageStep(limit) ELSE Len(list)

IsPage(page, list, start, end) ==
    /\ start \in Nat /\ end \in Nat /\ start <= end /\ end <= Len(list)
    /\ page \in Seq(Nat) /\ page = SubSeq(list, start + 1, end)
    /\ Len(page) = end - start
    /\ \A k \in 1..(end - start) : page[k] = list[start + k]

LEMMA PageIs ==
    ASSUME NEW list \in Seq(Nat), NEW offset \in Nat, NEW limit \in AskedPages
    PROVE  IsPage(Bids!Page(list, offset, limit), list,
                  PageStart(list, offset), PageEnd(list, offset, limit))
<1> DEFINE page == Bids!Page(list, offset, limit)
           start == PageStart(list, offset)
           end == PageEnd(list, offset, limit)
<1>1. page = SubSeq(list, start + 1, end)
  BY DEF Bids!Page, Bids!PageBounds, Bids!AtMost, PageStart, PageEnd, PageStep
<1>2. PageStep(limit) \in Nat /\ Len(list) \in Nat
  BY StepPositive
<1>3. start \in Nat /\ end \in Nat /\ start <= end /\ end <= Len(list)
  BY <1>2 DEF PageStart, PageEnd
<1> HIDE DEF start, end, page
<1>4. \A m \in (start + 1)..end : list[m] \in Nat
  BY <1>3
<1>5. /\ SubSeq(list, start + 1, end) \in Seq(Nat)
      /\ Len(SubSeq(list, start + 1, end)) =
            IF start + 1 <= end THEN end - (start + 1) + 1 ELSE 0
      /\ \A k \in 1..(end - (start + 1) + 1) :
            SubSeq(list, start + 1, end)[k] = list[(start + 1) + k - 1]
  <2> DEFINE first == start + 1
  <2>1. first \in Int /\ end \in Int /\ \A m \in first..end : list[m] \in Nat
    BY <1>3, <1>4
  <2> HIDE DEF first
  <2>2. /\ SubSeq(list, first, end) \in Seq(Nat)
        /\ Len(SubSeq(list, first, end)) = IF first <= end THEN end - first + 1 ELSE 0
        /\ \A k \in 1..(end - first + 1) : SubSeq(list, first, end)[k] = list[first + k - 1]
    BY <2>1, SubSeqProperties
  <2> QED BY <2>2 DEF first
<1>6. end - (start + 1) + 1 = end - start /\ \A k \in 1..(end - start) : (start + 1) + k - 1 = start + k
  BY <1>3
<1>7. Len(page) = end - start /\ \A k \in 1..(end - start) : page[k] = list[start + k]
  <2>1. Len(page) = end - start
    BY <1>1, <1>3, <1>5
  <2>2. ASSUME NEW k \in 1..(end - start) PROVE page[k] = list[start + k]
    BY <1>1, <1>5, <1>6
  <2> QED BY <2>1, <2>2
<1>8. IsPage(page, list, start, end)
  BY <1>1, <1>3, <1>5, <1>7 DEF IsPage
<1> QED BY <1>8 DEF start, end, page

(* A walk that nothing disturbs. *)
Walks(walk, list, limit) ==
    walk = [offset \in 0..(Len(list) + PageStep(limit)) |->
               Bids!Page(list, offset, limit) \o
               (IF Bids!HasMore(offset, limit, Len(list)) THEN walk[offset + PageStep(limit)] ELSE <<>>)]

LEMMA WalkIsChosen ==
    Bids!PagesNeverRepeat <=>
        /\ Bids!IsInjective(reader.seen)
        /\ \A limit \in AskedPages :
              (CHOOSE walk : Walks(walk, Bids!WithStatus(Nobody), limit))[0] = Bids!WithStatus(Nobody)
BY Zenon DEF Bids!PagesNeverRepeat, Walks, PageStep

LEMMA WalkReturnsAll ==
    ASSUME NEW list \in Seq(Nat), NEW limit \in AskedPages
    PROVE  (CHOOSE walk : Walks(walk, list, limit))[0] = list
<1> DEFINE size == Len(list)
           step == PageStep(limit)
           More(o) == Bids!HasMore(o, limit, size)
           Onwards(o) == SubSeq(list, o + 1, size)
           w == [o \in 0..(size + step) |-> Onwards(o)]
<1>1. size \in Nat /\ step \in Nat \ {0}
  BY StepPositive
<1>2. ASSUME NEW o \in 0..(size + step)
      PROVE  /\ More(o) <=> o + step < size
             /\ More(o) => Bids!Page(list, o, limit) = SubSeq(list, o + 1, o + step)
             /\ ~More(o) => Bids!Page(list, o, limit) = Onwards(o)
  <2>1. More(o) <=> o + step < size
    BY <1>1 DEF Bids!HasMore, Bids!AtMost, PageStep
  <2>2. Bids!Page(list, o, limit) = SubSeq(list, PageStart(list, o) + 1, PageEnd(list, o, limit))
    BY <1>1, PageIs DEF IsPage
  <2>3. ASSUME More(o) PROVE PageStart(list, o) = o /\ PageEnd(list, o, limit) = o + step
    BY <1>1, <2>1, <2>3 DEF PageStart, PageEnd
  <2>4. ASSUME ~More(o), o < size PROVE PageStart(list, o) = o /\ PageEnd(list, o, limit) = size
    BY <1>1, <2>1, <2>4 DEF PageStart, PageEnd
  <2>5. ASSUME ~(o < size) PROVE PageStart(list, o) = size /\ PageEnd(list, o, limit) = size
    BY <1>1, <2>5 DEF PageStart, PageEnd
  <2>6. ASSUME ~(o < size)
        PROVE  SubSeq(list, size + 1, size) = <<>> /\ SubSeq(list, o + 1, size) = <<>>
    BY <1>1, <2>6
  <2> HIDE DEF More, size, step
  <2> QED BY <2>1, <2>2, <2>3, <2>4, <2>5, <2>6
<1> HIDE DEF More
<1>3. ASSUME NEW o \in 0..(size + step), o + step < size
      PROVE  SubSeq(list, o + 1, o + step) \o Onwards(o + step) = Onwards(o)
  <2>1. /\ o + 1 \in 1..(size + 1) /\ o + step \in (o + 1 - 1)..size
        /\ size \in (o + step)..size
    BY <1>1, <1>3
  <2> DEFINE m == o + 1
             k == o + step
  <2>2. m \in 1..(Len(list) + 1) /\ k \in (m - 1)..Len(list) /\ Len(list) \in k..Len(list)
    BY <2>1
  <2> HIDE DEF m, k
  <2>3. SubSeq(list, m, k) \o SubSeq(list, k + 1, Len(list)) = SubSeq(list, m, Len(list))
    BY <2>2, ConcatAdjacentSubSeq
  <2> QED BY <2>3 DEF m, k
<1>4. \A o \in 0..(size + step) : Onwards(o) \in Seq(Nat) /\ Onwards(o) \o <<>> = Onwards(o)
  BY <1>1
<1> HIDE DEF size, step
<1>5. \A o \in 0..(size + step) :
         Onwards(o) = Bids!Page(list, o, limit) \o (IF More(o) THEN Onwards(o + step) ELSE <<>>)
  BY <1>2, <1>3, <1>4
<1>6. \A o \in 0..(size + step) : More(o) => o + step \in 0..(size + step)
  BY <1>1, <1>2
<1>7. Walks(w, list, limit)
  <2>1. \A o \in 0..(size + step) :
           Onwards(o) = Bids!Page(list, o, limit) \o (IF More(o) THEN w[o + step] ELSE <<>>)
    BY <1>5, <1>6
  <2>2. w = [o \in 0..(size + step) |->
                Bids!Page(list, o, limit) \o (IF More(o) THEN w[o + step] ELSE <<>>)]
    BY <2>1
  <2> HIDE DEF w
  <2> QED BY <2>2 DEF Walks, More, size, step
<1> DEFINE walk == CHOOSE walk : Walks(walk, list, limit)
<1>8. Walks(walk, list, limit)
  BY <1>7
<1> HIDE DEF walk
<1>9. \A o \in 0..(size + step) :
         walk[o] = Bids!Page(list, o, limit) \o (IF More(o) THEN walk[o + step] ELSE <<>>)
  BY <1>8 DEF Walks, More, size, step
<1> DEFINE last == size + step
           W == {k \in 0..last : \A o \in (last - k)..last : walk[o] = Onwards(o)}
<1>10. ASSUME NEW o \in 0..last, \A u \in (o + 1)..last : walk[u] = Onwards(u)
       PROVE  walk[o] = Onwards(o)
  <2>1. ASSUME More(o) PROVE walk[o + step] = Onwards(o + step)
    BY <1>1, <1>6, <1>10, <2>1
  <2> HIDE DEF Onwards
  <2> QED BY <1>5, <1>9, <2>1
<1> HIDE DEF Onwards
<1>11. 0 \in W
  <2>1. \A o \in (last - 0)..last : o = last
    BY <1>1
  <2>2. last \in 0..last /\ (last + 1)..last = {}
    BY <1>1
  <2> QED BY <1>1, <1>10, <2>1, <2>2
<1>12. ASSUME NEW k \in 0..last, k \in W, k < last PROVE k + 1 \in W
  <2>1. k + 1 \in 0..last /\ last - (k + 1) \in 0..last /\ (last - (k + 1)) + 1 = last - k
    BY <1>1, <1>12
  <2>2. walk[last - (k + 1)] = Onwards(last - (k + 1))
    BY <1>10, <1>12, <2>1
  <2>3. \A o \in (last - (k + 1))..last : o = last - (k + 1) \/ o \in (last - k)..last
    BY <1>1, <1>12
  <2> QED BY <1>12, <2>1, <2>2, <2>3
<1> HIDE DEF W
<1>13. last \in Nat /\ \A k \in 0..last : k \in W
  <2>1. last \in Nat
    BY <1>1
  <2> HIDE DEF last
  <2>2. \A k \in 0..last : k \in W
    BY <1>11, <1>12, <2>1, Induction
  <2> QED BY <2>1, <2>2
<1>14. walk[0] = Onwards(0)
  <2>1. last \in 0..last /\ last - last = 0 /\ 0 \in (last - last)..last
    BY <1>13
  <2> QED BY <1>13, <2>1 DEF W
<1>15. Onwards(0) = list
  BY <1>1 DEF Onwards, size
<1> QED BY <1>14, <1>15 DEF walk

----------------------------------------------------------------------------
(* The index has ids in their order, and all bids that are still placed.     *)
BookShape ==
    /\ now \in Nat /\ BidsRight
    /\ Enumerates(book, Bids!Range(book)) /\ Bids!Range(book) \subseteq DOMAIN bids
    /\ \A id \in DOMAIN bids : bids[id].status = "Placed" => id \in Bids!Range(book)

(* What a page with this filter could still show. *)
Shown(rows, index, filter) ==
    {id \in Bids!Range(index) : rows[id].status # "Expired" /\ filter \in {Nobody, rows[id].status}}

(* The reader was given greater and greater ids, and has no more left to      *)
(* show up to any of them than the pages it has passed.                      *)
Given(seen, S, top, bound) ==
    /\ seen \in Seq(Nat)
    /\ \A m, n \in DOMAIN seen : m < n => seen[m] < seen[n]
    /\ \A n \in DOMAIN seen : seen[n] <= top /\ Rank(S, seen[n]) <= bound

ReaderOf(r, rows, index) ==
    /\ r \in [filter : {Nobody, "Placed"}, limit : {0} \cup AskedPages, offset : Nat, seen : Seq(Nat)]
    /\ Given(r.seen, Shown(rows, index, r.filter), Len(rows), r.offset)

ReaderRight == ReaderOf(reader, bids, book)

BookInv == BookShape /\ ReaderRight

LEMMA RefreshedIs ==
    ASSUME BookShape
    PROVE  /\ Bids!Refreshed \in Seq(BidRecord) /\ Len(Bids!Refreshed) = Len(bids)
           /\ DOMAIN Bids!Refreshed = DOMAIN bids /\ DOMAIN bids = 1..Len(bids)
           /\ \A id \in DOMAIN bids :
                 /\ Bids!Refreshed[id].status # "Expired" => bids[id].status # "Expired"
                 /\ Bids!Refreshed[id].status = "Placed" <=> Bids!Live(id)
                 /\ bids[id].status \notin {"Placed", "Expired"} => Bids!Refreshed[id].status = bids[id].status
<1>1. bids \in Seq(BidRecord) /\ DOMAIN bids = 1..Len(bids) /\ Len(bids) \in Nat
  BY DEF BookShape, BidsRight
<1>2. \A id \in DOMAIN bids :
         Bids!Refreshed[id] =
            IF id \in Bids!Range(book) /\ bids[id].status = "Placed" /\ Bids!IsExpired(bids[id])
            THEN [bids[id] EXCEPT !.status = "Expired"] ELSE bids[id]
  BY DEF Bids!Refreshed
<1>3. DOMAIN Bids!Refreshed = DOMAIN bids
  BY DEF Bids!Refreshed
<1>4. ASSUME NEW id \in DOMAIN bids
      PROVE  /\ Bids!Refreshed[id] \in BidRecord
             /\ Bids!Refreshed[id].status # "Expired" => bids[id].status # "Expired"
             /\ Bids!Refreshed[id].status = "Placed" <=> Bids!Live(id)
             /\ bids[id].status \notin {"Placed", "Expired"} => Bids!Refreshed[id].status = bids[id].status
  <2>1. bids[id] \in BidRecord
    BY <1>1
  <2>2. [bids[id] EXCEPT !.status = "Expired"] \in BidRecord
        /\ [bids[id] EXCEPT !.status = "Expired"].status = "Expired"
    BY <2>1 DEF BidRecord, Bids!Status
  <2>3. bids[id].status = "Placed" => id \in Bids!Range(book)
    BY DEF BookShape
  <2>4. CASE bids[id].status = "Placed" /\ Bids!IsExpired(bids[id])
    BY <1>2, <2>2, <2>3, <2>4 DEF Bids!Live
  <2>5. CASE ~(bids[id].status = "Placed" /\ Bids!IsExpired(bids[id]))
    BY <1>2, <2>1, <2>5 DEF Bids!Live
  <2> QED BY <2>4, <2>5
<1>5. Bids!Refreshed = [id \in 1..Len(bids) |-> Bids!Refreshed[id]]
  BY <1>1 DEF Bids!Refreshed
<1>6. Bids!Refreshed \in Seq(BidRecord) /\ Len(Bids!Refreshed) = Len(bids)
  <2> DEFINE f == Bids!Refreshed
  <2>1. f = [id \in 1..Len(bids) |-> f[id]] /\ \A id \in 1..Len(bids) : f[id] \in BidRecord
    BY <1>1, <1>4, <1>5
  <2> HIDE DEF f
  <2>2. f \in Seq(BidRecord) /\ Len(f) = Len(bids)
    BY <1>1, <2>1
  <2> QED BY <2>2 DEF f
<1> QED BY <1>1, <1>3, <1>4, <1>6

LEMMA ListsAre ==
    ASSUME BookShape, NEW filter
    PROVE  /\ Enumerates(Bids!Pruned, {id \in Bids!Range(book) : Bids!Refreshed[id].status # "Expired"})
           /\ Enumerates(Bids!WithStatus(filter), Shown(Bids!Refreshed, book, filter))
           /\ Shown(Bids!Refreshed, book, filter) \in SUBSET DOMAIN bids
<1> DEFINE R == Bids!Range(book)
           kept == {n \in DOMAIN book : Bids!Refreshed[book[n]].status # "Expired"}
           F == {id \in R : Bids!Refreshed[id].status # "Expired"}
           list == Bids!Pruned
           keep == {n \in DOMAIN list : filter \in {Nobody, Bids!Refreshed[list[n]].status}}
<1>1. Enumerates(book, R) /\ R = {book[n] : n \in DOMAIN book}
  BY DEF BookShape, Bids!Range
<1>2. list = Sublist(book, kept)
  BY BidsSublist DEF Bids!Pruned
<1>3. kept \in SUBSET DOMAIN book /\ {book[n] : n \in kept} = F
  BY <1>1
<1>4. Bids!WithStatus(filter) = Sublist(list, keep)
  BY BidsSublist DEF Bids!WithStatus
<1> HIDE DEF kept, F, R, list
<1>5. Enumerates(list, F)
  BY <1>1, <1>2, <1>3, EnumeratesSublist
<1>6. keep \in SUBSET DOMAIN list /\ {list[n] : n \in keep} = Shown(Bids!Refreshed, book, filter)
  BY <1>5 DEF Enumerates, Shown, F, R
<1> HIDE DEF keep
<1>7. Enumerates(Sublist(list, keep), {list[n] : n \in keep})
  BY <1>5, <1>6, EnumeratesSublist
<1>8. Enumerates(Bids!WithStatus(filter), Shown(Bids!Refreshed, book, filter))
  BY <1>4, <1>6, <1>7
<1> QED BY <1>5, <1>8 DEF F, R, list, BookShape, Shown

(* What refreshing leaves in the index is what it shows afterwards. *)
LEMMA RefreshShape ==
    ASSUME BookShape, bids' = Bids!Refreshed, book' = Bids!Pruned, now' = now
    PROVE  /\ BookShape'
           /\ Bids!Range(book') = {id \in Bids!Range(book) : Bids!Refreshed[id].status # "Expired"}
           /\ \A filter : Shown(bids', book', filter) = Shown(Bids!Refreshed, book, filter)
<1> DEFINE F == {id \in Bids!Range(book) : Bids!Refreshed[id].status # "Expired"}
<1>1. Enumerates(book', F)
  BY ListsAre
<1>2. Bids!Range(book') = F
  BY <1>1 DEF Enumerates, Bids!Range
<1>3. \A filter : Shown(bids', book', filter) = Shown(Bids!Refreshed, book, filter)
  BY <1>2 DEF Shown
<1>4. F \subseteq DOMAIN bids /\ \A id \in DOMAIN bids : bids[id].status = "Placed" => id \in Bids!Range(book)
  BY DEF BookShape
<1>5. ASSUME NEW id \in DOMAIN bids', bids'[id].status = "Placed" PROVE id \in F
  <2>1. id \in DOMAIN bids /\ Bids!Refreshed[id].status = "Placed" /\ Bids!Live(id)
    BY <1>5, RefreshedIs
  <2>2. bids[id].status = "Placed"
    BY <2>1 DEF Bids!Live
  <2> QED BY <1>4, <2>1, <2>2
<1>6. bids' \in Seq(BidRecord) /\ DOMAIN bids' = DOMAIN bids
  BY RefreshedIs
<1> HIDE DEF F
<1>7. now' \in Nat
  BY DEF BookShape
<1>8. BidsRight'
  BY <1>6 DEF BidsRight
<1>9. Bids!Range(book)' = F
  BY <1>2
<1>10. BookShape'
  BY <1>1, <1>4, <1>5, <1>6, <1>7, <1>8, <1>9 DEF BookShape
<1> QED BY <1>2, <1>3, <1>10 DEF F

(* Bids only leave what is shown, but for new ones with greater ids. *)
Ages ==
    /\ Len(bids) <= Len(bids')
    /\ \A id \in DOMAIN bids :
          /\ id \in Bids!Range(book') => id \in Bids!Range(book)
          /\ bids'[id].status # "Expired" => bids[id].status # "Expired"
          /\ bids'[id].status = "Placed" => bids[id].status = "Placed"

LEMMA RankShrinks ==
    ASSUME NEW S \in SUBSET Nat, IsFiniteSet(S), NEW T, NEW m \in Nat,
           \A k \in T : k <= m => k \in S
    PROVE  Rank(T, m) \in Nat /\ Rank(T, m) <= Rank(S, m)
<1> DEFINE A == {k \in T : k <= m}
           B == {k \in S : k <= m}
<1>1. A \in SUBSET B /\ B \in SUBSET S
  OBVIOUS
<1> HIDE DEF A, B
<1>2. IsFiniteSet(B) /\ IsFiniteSet(A) /\ Cardinality(A) <= Cardinality(B)
  BY <1>1, FS_Subset
<1>3. Cardinality(A) \in Nat
  BY <1>2, FS_CardinalityType
<1> QED BY <1>2, <1>3 DEF Rank, A, B

LEMMA ShownFinite ==
    ASSUME BookShape, NEW filter
    PROVE  Shown(bids, book, filter) \in SUBSET Nat /\ IsFiniteSet(Shown(bids, book, filter))
<1>1. DOMAIN bids = 1..Len(bids) /\ Len(bids) \in Nat
  BY DEF BookShape, BidsRight
<1>2. Shown(bids, book, filter) \in SUBSET DOMAIN bids
  BY DEF BookShape, Shown
<1>3. IsFiniteSet(DOMAIN bids)
  BY <1>1, FS_Interval
<1> QED BY <1>1, <1>2, <1>3, FS_Subset

LEMMA RankAges ==
    ASSUME BookShape, BookShape', Ages, NEW filter \in {Nobody, "Placed"},
           NEW m \in Nat, m <= Len(bids)
    PROVE  /\ Rank(Shown(bids', book', filter), m) \in Nat
           /\ Rank(Shown(bids', book', filter), m) <= Rank(Shown(bids, book, filter), m)
           /\ Rank(Shown(bids, book, filter), m) \in Nat
<1> DEFINE S == Shown(bids, book, filter)
           T == Shown(bids', book', filter)
<1>1. S \in SUBSET Nat /\ IsFiniteSet(S)
  BY ShownFinite
<1>2. DOMAIN bids = 1..Len(bids) /\ Len(bids) \in Nat /\ DOMAIN bids' \subseteq Nat \ {0}
  BY DEF BookShape, BidsRight
<1>3. ASSUME NEW k \in T, k <= m PROVE k \in S
  <2>1. k \in Bids!Range(book') /\ bids'[k].status # "Expired" /\ filter \in {Nobody, bids'[k].status}
    BY <1>3 DEF Shown
  <2>2. Bids!Range(book)' \subseteq DOMAIN bids'
    BY DEF BookShape
  <2>3. k \in DOMAIN bids
    BY <1>2, <1>3, <2>1, <2>2
  <2>4. k \in Bids!Range(book) /\ bids[k].status # "Expired"
    BY <2>1, <2>3 DEF Ages
  <2>5. filter = Nobody \/ bids[k].status = "Placed"
    BY <2>1, <2>3 DEF Ages
  <2> QED BY <2>4, <2>5 DEF Shown
<1> HIDE DEF S, T
<1>4. Rank(T, m) \in Nat /\ Rank(T, m) <= Rank(S, m)
  BY <1>1, <1>3, RankShrinks
<1>5. Rank(S, m) \in Nat
  BY <1>1, RankShrinks
<1> QED BY <1>4, <1>5 DEF S, T

LEMMA GivenAges ==
    ASSUME BookShape, BookShape', Ages, NEW filter \in {Nobody, "Placed"}, NEW offset \in Nat,
           NEW seen, Given(seen, Shown(bids, book, filter), Len(bids), offset)
    PROVE  Given(seen, Shown(bids', book', filter), Len(bids'), offset)
<1>1. /\ seen \in Seq(Nat)
      /\ \A m, n \in DOMAIN seen : m < n => seen[m] < seen[n]
      /\ Len(bids) <= Len(bids') /\ Len(bids) \in Nat /\ Len(bids') \in Nat
  BY DEF Given, Ages, BookShape, BidsRight
<1>2. ASSUME NEW n \in DOMAIN seen
      PROVE  seen[n] <= Len(bids') /\ Rank(Shown(bids', book', filter), seen[n]) <= offset
  <2> DEFINE m == seen[n]
  <2>1. m \in Nat /\ m <= Len(bids) /\ Rank(Shown(bids, book, filter), m) <= offset
    BY <1>1 DEF Given
  <2> HIDE DEF m
  <2>2. /\ Rank(Shown(bids', book', filter), m) \in Nat
        /\ Rank(Shown(bids, book, filter), m) \in Nat
        /\ Rank(Shown(bids', book', filter), m) <= Rank(Shown(bids, book, filter), m)
    BY <2>1, RankAges
  <2> QED BY <1>1, <2>1, <2>2 DEF m
<1> QED BY <1>1, <1>2 DEF Given

LEMMA ReaderStays ==
    ASSUME BookInv, BookShape', Ages, reader' = reader
    PROVE  BookInv'
<1>1. /\ reader.filter \in {Nobody, "Placed"} /\ reader.offset \in Nat
      /\ Given(reader.seen, Shown(bids, book, reader.filter), Len(bids), reader.offset)
  BY DEF BookInv, ReaderRight, ReaderOf
<1>2. Given(reader.seen, Shown(bids', book', reader.filter), Len(bids'), reader.offset)
  BY <1>1, GivenAges DEF BookInv
<1>3. ReaderOf(reader', bids', book')
  BY <1>2 DEF ReaderOf, BookInv, ReaderRight
<1> QED BY <1>3 DEF BookInv, ReaderRight

----------------------------------------------------------------------------
(* The actions. *)
LEMMA RefreshAges ==
    ASSUME BookShape, bids' = Bids!Refreshed, book' = Bids!Pruned, now' = now
    PROVE  BookShape' /\ Ages
<1>1. /\ BookShape'
      /\ Bids!Range(book') = {id \in Bids!Range(book) : Bids!Refreshed[id].status # "Expired"}
  BY RefreshShape
<1>2. Len(bids) \in Nat /\ Len(bids') = Len(bids)
  BY RefreshedIs DEF BookShape, BidsRight
<1>3. ASSUME NEW id \in DOMAIN bids, bids'[id].status = "Placed" PROVE bids[id].status = "Placed"
  BY <1>3, RefreshedIs DEF Bids!Live
<1>4. ASSUME NEW id \in DOMAIN bids, bids'[id].status # "Expired" PROVE bids[id].status # "Expired"
  BY <1>4, RefreshedIs
<1> QED BY <1>1, <1>2, <1>3, <1>4 DEF Ages

LEMMA PlaceABid ==
    ASSUME BookShape, NEW offer \in Offers, Bids!PlaceBid(offer)
    PROVE  BookShape' /\ Ages
<1> DEFINE row == [amount |-> offer[1], return |-> offer[2], timestamp |-> now, status |-> "Placed"]
           new == Len(bids) + 1
           old == Bids!Refreshed
           F == {id \in Bids!Range(book) : old[id].status # "Expired"}
<1>1. bids' = Append(old, row) /\ book' = Append(Bids!Pruned, new) /\ now' = now
  BY DEF Bids!PlaceBid
<1>2. row \in BidRecord /\ row.status = "Placed"
  BY BookOK DEF BidRecord, BookShape, Bids!Status
<1>3. /\ old \in Seq(BidRecord) /\ Len(old) = Len(bids) /\ DOMAIN old = DOMAIN bids
      /\ DOMAIN bids = 1..Len(bids) /\ Len(bids) \in Nat
  BY RefreshedIs DEF BookShape, BidsRight
<1>4. F \in SUBSET DOMAIN bids /\ F \subseteq Bids!Range(book) /\ Enumerates(Bids!Pruned, F)
  BY ListsAre DEF BookShape
<1>5. \A id \in DOMAIN bids :
         /\ old[id].status # "Expired" => bids[id].status # "Expired"
         /\ old[id].status = "Placed" => id \in F /\ bids[id].status = "Placed"
  BY RefreshedIs DEF Bids!Live, BookShape
<1> HIDE DEF row, new, old, F
<1>6. new \in Nat /\ (\A id \in DOMAIN bids : id < new) /\ new = Len(old) + 1
  BY <1>3 DEF new
<1>7. Enumerates(book', F \cup {new})
  BY <1>1, <1>4, <1>6, EnumeratesAppend
<1>8. Bids!Range(book') = F \cup {new}
  BY <1>7 DEF Enumerates, Bids!Range
<1>9. /\ bids' \in Seq(BidRecord) /\ DOMAIN bids' = DOMAIN bids \cup {new} /\ Len(bids') = Len(bids) + 1
      /\ bids'[new] = row /\ \A id \in DOMAIN bids : bids'[id] = old[id] /\ id # new
  BY <1>1, <1>2, <1>3, <1>6
<1>10. Ages
  BY <1>3, <1>4, <1>5, <1>8, <1>9 DEF Ages
<1>11. \A id \in DOMAIN bids' : bids'[id].status = "Placed" => id \in F \cup {new}
  BY <1>5, <1>9
<1>12. now' \in Nat /\ BidsRight' /\ Bids!Range(book)' = F \cup {new}
  BY <1>1, <1>8, <1>9 DEF BookShape, BidsRight
<1>13. BookShape'
  BY <1>4, <1>7, <1>9, <1>11, <1>12 DEF BookShape
<1> QED BY <1>10, <1>13

LEMMA CloseABid ==
    ASSUME BookShape, NEW id \in DOMAIN bids, NEW to \in {"Withdrawn", "Cancelled"},
           Bids!CloseBid(id, to)
    PROVE  BookShape' /\ Ages
<1>1. /\ bids[id].status = "Placed" /\ bids' = [bids EXCEPT ![id].status = to]
      /\ book' = book /\ now' = now
  BY DEF Bids!CloseBid
<1>2. bids \in Seq(BidRecord) /\ DOMAIN bids = 1..Len(bids) /\ Len(bids) \in Nat
  BY DEF BookShape, BidsRight
<1> DEFINE row == [bids[id] EXCEPT !.status = to]
<1>3. row \in BidRecord /\ row.status = to
  <2>1. bids[id] \in BidRecord
    BY <1>2
  <2> QED BY <2>1 DEF BidRecord, Bids!Status
<1>4. bids' = [bids EXCEPT ![id] = row]
  BY <1>1
<1> HIDE DEF row
<1>5. /\ bids' \in Seq(BidRecord) /\ DOMAIN bids' = DOMAIN bids /\ Len(bids') = Len(bids)
      /\ bids'[id] = row /\ \A other \in DOMAIN bids : other # id => bids'[other] = bids[other]
  BY <1>2, <1>3, <1>4
<1>6. Ages
  BY <1>1, <1>2, <1>3, <1>5 DEF Ages
<1>7. Bids!Range(book)' = Bids!Range(book) /\ BidsRight'
  BY <1>1, <1>5 DEF Bids!Range, BidsRight
<1>8. \A other \in DOMAIN bids' : bids'[other].status = "Placed" => other \in Bids!Range(book)
  BY <1>3, <1>5 DEF BookShape
<1> QED BY <1>1, <1>5, <1>6, <1>7, <1>8 DEF BookShape

LEMMA AcceptABid ==
    ASSUME BookShape, NEW id \in DOMAIN bids, Bids!AcceptBid(id)
    PROVE  BookShape' /\ Ages
<1> DEFINE old == Bids!Refreshed
           row == [old[id] EXCEPT !.status = "Accepted"]
           F == {other \in Bids!Range(book) : old[other].status # "Expired"}
<1>1. /\ Bids!Live(id) /\ bids' = [old EXCEPT ![id] = row]
      /\ book' = Bids!Pruned /\ now' = now
  BY DEF Bids!AcceptBid
<1>2. /\ old \in Seq(BidRecord) /\ Len(old) = Len(bids) /\ DOMAIN old = DOMAIN bids
      /\ DOMAIN bids = 1..Len(bids) /\ Len(bids) \in Nat
  BY RefreshedIs DEF BookShape, BidsRight
<1>3. F \in SUBSET DOMAIN bids /\ F \subseteq Bids!Range(book) /\ Enumerates(Bids!Pruned, F)
  BY ListsAre DEF BookShape
<1>4. \A other \in DOMAIN bids :
         /\ old[other].status # "Expired" => bids[other].status # "Expired"
         /\ old[other].status = "Placed" => other \in F /\ bids[other].status = "Placed"
  BY RefreshedIs DEF Bids!Live, BookShape
<1>5. row \in BidRecord /\ row.status = "Accepted" /\ bids[id].status = "Placed"
  <2>1. old[id] \in BidRecord
    BY <1>2
  <2> HIDE DEF old
  <2>2. row \in BidRecord /\ row.status = "Accepted"
    BY <2>1 DEF BidRecord, Bids!Status
  <2> QED BY <1>1, <2>2 DEF Bids!Live
<1> HIDE DEF old, row, F
<1>6. /\ bids' \in Seq(BidRecord) /\ DOMAIN bids' = DOMAIN bids /\ Len(bids') = Len(bids)
      /\ bids'[id] = row /\ \A other \in DOMAIN bids : other # id => bids'[other] = old[other]
  BY <1>1, <1>2, <1>5
<1>7. Enumerates(book', F) /\ Bids!Range(book') = F
  BY <1>1, <1>3 DEF Enumerates, Bids!Range
<1>8. Ages
  BY <1>2, <1>3, <1>4, <1>5, <1>6, <1>7 DEF Ages
<1>9. \A other \in DOMAIN bids' : bids'[other].status = "Placed" => other \in F
  BY <1>4, <1>5, <1>6
<1>10. now' \in Nat /\ BidsRight' /\ Bids!Range(book)' = F
  BY <1>1, <1>6, <1>7 DEF BookShape, BidsRight
<1>11. BookShape'
  BY <1>3, <1>6, <1>7, <1>9, <1>10 DEF BookShape
<1> QED BY <1>8, <1>11

----------------------------------------------------------------------------
(* Pages follow each other. *)
LEMMA PageFollows ==
    ASSUME NEW list, NEW S, Enumerates(list, S), NEW offset \in Nat, NEW limit \in AskedPages,
           NEW top \in Nat, \A k \in S : k <= top, NEW seen, Given(seen, S, top, offset)
    PROVE  Given(seen \o Bids!Page(list, offset, limit), S, top, offset + PageStep(limit))
<1> DEFINE page == Bids!Page(list, offset, limit)
           start == PageStart(list, offset)
           end == PageEnd(list, offset, limit)
           given == seen \o page
           size == Len(seen)
<1>1. /\ list \in Seq(Nat) /\ DOMAIN list = 1..Len(list) /\ Len(list) \in Nat
      /\ \A n \in DOMAIN list : list[n] \in S /\ list[n] \in Nat
      /\ \A m, n \in DOMAIN list : m < n => list[m] < list[n]
  BY DEF Enumerates
<1>2. PageStep(limit) \in Nat
  BY StepPositive
<1>3. /\ start \in Nat /\ end \in Nat /\ start <= end /\ end <= Len(list)
      /\ page \in Seq(Nat) /\ Len(page) = end - start
      /\ \A k \in 1..(end - start) : page[k] = list[start + k]
  BY <1>1, PageIs DEF IsPage
<1>4. start = end \/ (start = offset /\ end <= offset + PageStep(limit))
  <2>1. Len(list) \in Nat /\ PageStep(limit) \in Nat
    BY <1>1, <1>2
  <2>2. CASE offset < Len(list)
    <3>1. start = offset
      BY <2>2 DEF PageStart
    <3>2. end = IF offset + PageStep(limit) < Len(list) THEN offset + PageStep(limit) ELSE Len(list)
      BY <3>1 DEF PageEnd
    <3> HIDE DEF start, end
    <3> QED BY <2>1, <3>1, <3>2
  <2>3. CASE ~(offset < Len(list))
    <3>1. start = Len(list)
      BY <2>3 DEF PageStart
    <3>2. end = IF Len(list) + PageStep(limit) < Len(list)
                THEN Len(list) + PageStep(limit) ELSE Len(list)
      BY <3>1 DEF PageEnd
    <3> HIDE DEF start, end
    <3> QED BY <2>1, <3>1, <3>2
  <2> QED BY <2>2, <2>3
<1> HIDE DEF start, end, page
<1>5. S \in SUBSET Nat /\ IsFiniteSet(S) /\ \A n \in DOMAIN list : Rank(S, list[n]) = n
  BY EnumeratesByRank
<1>6. /\ seen \in Seq(Nat) /\ (\A m, n \in DOMAIN seen : m < n => seen[m] < seen[n])
       /\ \A n \in DOMAIN seen : seen[n] <= top /\ Rank(S, seen[n]) <= offset
  BY DEF Given
<1>7. ASSUME NEW k \in 1..Len(page)
      PROVE  /\ page[k] \in S /\ page[k] \in Nat
             /\ Rank(S, page[k]) > offset /\ Rank(S, page[k]) <= offset + PageStep(limit)
             /\ Rank(S, page[k]) \in Nat
  <2>1. k \in 1..(end - start) /\ start + k \in DOMAIN list /\ start = offset
        /\ end <= offset + PageStep(limit)
    BY <1>1, <1>3, <1>4
  <2>2. page[k] = list[start + k] /\ Rank(S, page[k]) = start + k
    BY <1>3, <1>5, <2>1
  <2>3. page[k] \in S /\ page[k] \in Nat
    BY <1>1, <2>1, <2>2
  <2>4. start + k > offset /\ start + k <= offset + PageStep(limit) /\ start + k \in Nat
    BY <1>2, <1>3, <2>1
  <2> QED BY <2>2, <2>3, <2>4
<1>8. ASSUME NEW j \in 1..Len(page), NEW k \in 1..Len(page), j < k PROVE page[j] < page[k]
  <2>1. start + j \in DOMAIN list /\ start + k \in DOMAIN list /\ start + j < start + k
    BY <1>1, <1>3, <1>8
  <2>2. page[j] = list[start + j] /\ page[k] = list[start + k]
    BY <1>3
  <2> QED BY <1>1, <2>1, <2>2
<1>9. ASSUME NEW n \in DOMAIN seen, NEW k \in 1..Len(page) PROVE seen[n] < page[k]
  <2>1. seen[n] \in Nat /\ page[k] \in Nat /\ Rank(S, seen[n]) \in Nat
    <3>1. seen[n] \in Nat /\ page[k] \in Nat
      BY <1>7, <1>6
    <3> QED BY <1>5, <3>1, RankShrinks
  <2>2. ASSUME page[k] <= seen[n] PROVE FALSE
    <3>1. Rank(S, page[k]) <= Rank(S, seen[n])
      <4> DEFINE A == {s \in S : s <= page[k]}
                 B == {s \in S : s <= seen[n]}
      <4>1. \A s \in S : s <= page[k] => s <= seen[n]
        BY <1>5, <2>1, <2>2
      <4>2. A \in SUBSET B /\ B \in SUBSET S
        BY <4>1
      <4> HIDE DEF A, B
      <4>3. Cardinality(A) <= Cardinality(B)
        BY <1>5, <4>2, FS_Subset
      <4> QED BY <4>3 DEF Rank, A, B
    <3>2. Rank(S, seen[n]) <= offset /\ Rank(S, page[k]) > offset /\ Rank(S, seen[n]) \in Nat
          /\ Rank(S, page[k]) \in Nat
      BY <1>7, <1>6, <2>1
    <3> QED BY <3>1, <3>2
  <2> QED BY <2>1, <2>2
<1>10. /\ given \in Seq(Nat) /\ size \in Nat /\ Len(page) \in Nat
       /\ DOMAIN seen = 1..size /\ DOMAIN given = 1..(size + Len(page))
       /\ \A n \in 1..size : given[n] = seen[n]
       /\ \A n \in 1..(size + Len(page)) : n > size => given[n] = page[n - size]
  <2>1. seen \in Seq(Nat) /\ page \in Seq(Nat)
    BY <1>3, <1>6
  <2>2. given \in Seq(Nat) /\ size \in Nat /\ Len(page) \in Nat /\ DOMAIN seen = 1..size
    BY <2>1
  <2>3. Len(given) = size + Len(page) /\ DOMAIN given = 1..Len(given)
    BY <2>1
  <2>4. \A n \in 1..(size + Len(page)) :
           given[n] = IF n <= size THEN seen[n] ELSE page[n - size]
    BY <2>1
  <2> HIDE DEF given, size
  <2>5. DOMAIN given = 1..(size + Len(page)) /\ size <= size + Len(page)
    BY <2>2, <2>3
  <2>6. \A n \in 1..size : given[n] = seen[n]
    <3>1. \A n \in 1..size : n \in 1..(size + Len(page)) /\ n <= size
      BY <2>2, <2>5
    <3> QED BY <2>4, <3>1
  <2>7. \A n \in 1..(size + Len(page)) : n > size => given[n] = page[n - size]
    <3>1. \A n \in 1..(size + Len(page)) : n > size => ~(n <= size)
      BY <2>2
    <3> QED BY <2>4, <3>1
  <2> QED BY <2>2, <2>5, <2>6, <2>7
<1> HIDE DEF given, size
<1>11. \A n \in DOMAIN given :
          \/ n \in DOMAIN seen /\ given[n] = seen[n] /\ n <= size
          \/ n > size /\ n - size \in 1..Len(page) /\ given[n] = page[n - size]
  BY <1>10
<1>12. ASSUME NEW m \in DOMAIN given, NEW n \in DOMAIN given, m < n PROVE given[m] < given[n]
  <2>1. CASE n \in DOMAIN seen /\ given[n] = seen[n] /\ n <= size
    <3>1. m \in DOMAIN seen /\ given[m] = seen[m]
      BY <1>10, <1>11, <1>12, <2>1
    <3> QED BY <1>12, <1>6, <2>1, <3>1
  <2>2. CASE n > size /\ n - size \in 1..Len(page) /\ given[n] = page[n - size]
    <3>1. CASE m \in DOMAIN seen /\ given[m] = seen[m]
      BY <1>9, <2>2, <3>1
    <3>2. CASE m - size \in 1..Len(page) /\ given[m] = page[m - size]
      <4>1. m - size < n - size
        BY <1>10, <1>12
      <4> QED BY <1>8, <2>2, <3>2, <4>1
    <3> QED BY <1>11, <3>1, <3>2
  <2> QED BY <1>11, <2>1, <2>2
<1>13. ASSUME NEW n \in DOMAIN given
       PROVE  given[n] <= top /\ Rank(S, given[n]) <= offset + PageStep(limit)
  <2>1. CASE n \in DOMAIN seen /\ given[n] = seen[n]
    <3>1. Rank(S, seen[n]) <= offset /\ Rank(S, seen[n]) \in Nat /\ seen[n] <= top
      BY <1>5, <1>6, <2>1, RankShrinks
    <3> QED BY <1>2, <2>1, <3>1
  <2>2. CASE n - size \in 1..Len(page) /\ given[n] = page[n - size]
    BY <1>7, <2>2
  <2> QED BY <1>11, <2>1, <2>2
<1>14. Given(given, S, top, offset + PageStep(limit))
  BY <1>10, <1>12, <1>13 DEF Given
<1> QED BY <1>14 DEF given, page

LEMMA BeginReading ==
    ASSUME BookInv, NEW filter \in Bids!Filter, NEW limit \in AskedPages,
           Bids!StartPaging(filter, limit)
    PROVE  BookInv'
<1> DEFINE list == Bids!WithStatus(filter)
           S == Shown(Bids!Refreshed, book, filter)
<1>1. /\ bids' = Bids!Refreshed /\ book' = Bids!Pruned /\ now' = now
      /\ reader' = [filter |-> filter, limit |-> limit, offset |-> PageStep(limit),
                    seen |-> Bids!Page(list, 0, limit)]
  BY DEF Bids!StartPaging, Bids!Refresh, PageStep
<1>2. BookShape' /\ Shown(bids', book', filter) = S /\ Len(bids') = Len(bids)
  BY <1>1, RefreshShape, RefreshedIs DEF BookInv
<1>3. Enumerates(list, S) /\ (\A k \in S : k <= Len(bids)) /\ Len(bids) \in Nat
  <2>1. Enumerates(list, S) /\ S \in SUBSET DOMAIN bids
    BY ListsAre DEF BookInv
  <2>2. DOMAIN bids = 1..Len(bids) /\ Len(bids) \in Nat
    BY DEF BookInv, BookShape, BidsRight
  <2> HIDE DEF list, S
  <2> QED BY <2>1, <2>2
<1> HIDE DEF list, S
<1>4. Given(<<>> \o Bids!Page(list, 0, limit), S, Len(bids), 0 + PageStep(limit))
  <2>1. Given(<<>>, S, Len(bids), 0)
    BY DEF Given
  <2> QED BY <1>3, <2>1, PageFollows
<1>5. Bids!Page(list, 0, limit) \in Seq(Nat)
  BY <1>3, PageIs DEF Enumerates, IsPage
<1>6. <<>> \o Bids!Page(list, 0, limit) = Bids!Page(list, 0, limit) /\ PageStep(limit) \in Nat
      /\ 0 + PageStep(limit) = PageStep(limit)
  BY <1>5, StepPositive
<1>7. ReaderOf(reader', bids', book')
  <2>1. filter \in {Nobody, "Placed"}
    BY DEF Bids!Filter
  <2> QED BY <1>1, <1>2, <1>4, <1>5, <1>6, <2>1 DEF ReaderOf
<1> QED BY <1>2, <1>7 DEF BookInv, ReaderRight

LEMMA ReadOn ==
    ASSUME BookInv, Bids!NextPage
    PROVE  BookInv'
<1> DEFINE filter == reader.filter
           limit == reader.limit
           offset == reader.offset
           seen == reader.seen
           list == Bids!WithStatus(filter)
           S == Shown(Bids!Refreshed, book, filter)
           given == seen \o Bids!Page(list, offset, limit)
<1>1. /\ bids' = Bids!Refreshed /\ book' = Bids!Pruned /\ now' = now /\ limit > 0
      /\ reader' = [reader EXCEPT !.offset = offset + PageStep(limit), !.seen = given]
  BY DEF Bids!NextPage, Bids!Refresh, Bids!Reading, PageStep
<1>2. /\ filter \in {Nobody, "Placed"} /\ limit \in {0} \cup AskedPages /\ offset \in Nat
      /\ reader = [filter |-> filter, limit |-> limit, offset |-> offset, seen |-> seen]
      /\ Given(seen, Shown(bids, book, filter), Len(bids), offset)
  BY DEF BookInv, ReaderRight, ReaderOf
<1>3. limit \in AskedPages
  BY <1>1, <1>2
<1>4. /\ BookShape' /\ Ages
      /\ Shown(bids', book', filter) = S /\ Len(bids') = Len(bids)
  BY <1>1, RefreshShape, RefreshAges, RefreshedIs DEF BookInv
<1>5. Enumerates(list, S) /\ (\A k \in S : k <= Len(bids)) /\ Len(bids) \in Nat
  <2>1. Enumerates(list, S) /\ S \in SUBSET DOMAIN bids
    BY ListsAre DEF BookInv
  <2>2. DOMAIN bids = 1..Len(bids) /\ Len(bids) \in Nat
    BY DEF BookInv, BookShape, BidsRight
  <2> HIDE DEF list, S
  <2> QED BY <2>1, <2>2
<1> HIDE DEF list
<1>6. reader' = [filter |-> filter, limit |-> limit, offset |-> offset + PageStep(limit), seen |-> given]
  BY <1>1, <1>2
<1> HIDE DEF filter, limit, offset, seen, S
<1>7. Given(seen, S, Len(bids), offset)
  <2>1. Given(seen, Shown(bids', book', filter), Len(bids'), offset)
    BY <1>2, <1>4, GivenAges DEF BookInv
  <2> QED BY <1>4, <2>1
<1>8. Given(given, S, Len(bids), offset + PageStep(limit))
  BY <1>2, <1>3, <1>5, <1>7, PageFollows
<1>9. PageStep(limit) \in Nat /\ given \in Seq(Nat)
  BY <1>3, <1>8, StepPositive DEF Given
<1> HIDE DEF given
<1>10. ReaderOf(reader', bids', book')
  BY <1>2, <1>3, <1>4, <1>6, <1>8, <1>9 DEF ReaderOf
<1> QED BY <1>4, <1>10 DEF BookInv, ReaderRight

LEMMA BookStep == ASSUME BookInv, [Bids!Next]_(Bids!vars) PROVE BookInv'
<1>1. ASSUME NEW offer \in Offers, Bids!PlaceBid(offer) PROVE BookInv'
  BY <1>1, PlaceABid, ReaderStays DEF BookInv, Bids!PlaceBid
<1>2. ASSUME NEW id \in DOMAIN bids, NEW to \in {"Withdrawn", "Cancelled"}, Bids!CloseBid(id, to)
      PROVE  BookInv'
  BY <1>2, CloseABid, ReaderStays DEF BookInv, Bids!CloseBid
<1>3. ASSUME NEW id \in DOMAIN bids, Bids!AcceptBid(id) PROVE BookInv'
  BY <1>3, AcceptABid, ReaderStays DEF BookInv, Bids!AcceptBid
<1>4. ASSUME Bids!ReadBook PROVE BookInv'
  BY <1>4, RefreshAges, ReaderStays DEF BookInv, Bids!ReadBook, Bids!Refresh
<1>5. ASSUME bids' = bids, book' = book, reader' = reader, now' \in Nat PROVE BookInv'
  <2>1. BookShape'
    BY <1>5 DEF BookInv, BookShape, BidsRight, Bids!Range
  <2>2. Ages
    BY <1>5 DEF Ages, BookInv, BookShape, BidsRight
  <2> QED BY <1>5, <2>1, <2>2, ReaderStays
<1>6. ASSUME Bids!Tick PROVE BookInv'
  BY <1>5, <1>6 DEF BookInv, BookShape, Bids!Tick
<1>7. CASE UNCHANGED Bids!vars
  BY <1>5, <1>7 DEF BookInv, BookShape, Bids!vars
<1> QED BY <1>1, <1>2, <1>3, <1>4, <1>6, <1>7, BeginReading, ReadOn DEF Bids!Next

LEMMA BookInvariant == Bids!Spec => []BookInv
<1>1. Bids!Init => BookInv
  <2> SUFFICES ASSUME Bids!Init PROVE BookInv
    OBVIOUS
  <2>1. /\ now = 0 /\ bids = <<>> /\ book = <<>>
        /\ reader = [filter |-> Nobody, limit |-> 0, offset |-> 0, seen |-> <<>>]
    BY DEF Bids!Init, Bids!NotReading
  <2>2. Bids!Range(book) = {}
    BY <2>1 DEF Bids!Range
  <2>3. BookShape
    <3>1. BidsRight /\ DOMAIN bids = {}
      BY <2>1 DEF BidsRight
    <3>2. Enumerates(book, Bids!Range(book))
      BY <2>1, <2>2, EnumeratesNone
    <3> QED BY <2>1, <2>2, <3>1, <3>2 DEF BookShape
  <2>4. Given(<<>>, Shown(bids, book, Nobody), Len(bids), 0)
    BY DEF Given
  <2>5. ReaderRight
    BY <2>1, <2>4 DEF ReaderRight, ReaderOf
  <2> QED BY <2>3, <2>5 DEF BookInv
<1>2. BookInv /\ [Bids!Next]_(Bids!vars) => BookInv'
  BY BookStep
<1> QED BY <1>1, <1>2, PTL DEF Bids!Spec

----------------------------------------------------------------------------
(* The best bid is the first of the ranking. *)
LEMMA BestAndRanking == ASSUME BookShape PROVE Bids!RankingAgrees
<1> DEFINE S == Shown(Bids!Refreshed, book, "Placed")
           placed == Bids!WithStatus("Placed")
           ranked == Bids!Ranking
           best == Bids!BestBid
<1>1. BidsRight /\ Enumerates(placed, S) /\ S \in SUBSET DOMAIN bids
  BY ListsAre DEF BookShape
<1>2. S = {id \in DOMAIN bids : Bids!Live(id)}
  <2>1. \A id \in S : id \in DOMAIN bids /\ Bids!Live(id)
    BY RefreshedIs, BookOK DEF BookShape, Shown, Bids!Status
  <2>2. ASSUME NEW id \in DOMAIN bids, Bids!Live(id) PROVE id \in S
    BY <2>2, RefreshedIs DEF BookShape, Shown, Bids!Live
  <2> QED BY <2>1, <2>2
<1>3. best = Bids!Best(placed)
  BY DEF Bids!BestBid
<1> HIDE DEF S, placed, ranked, best
<1>4. /\ ranked \in Seq(S) /\ Len(ranked) = Cardinality(S)
      /\ \A y \in S : \E i \in DOMAIN ranked : ranked[i] = y
      /\ \A i, j \in DOMAIN ranked : i < j => Bids!Beats(ranked[i], ranked[j])
  BY <1>1, RankingIs DEF placed, ranked
<1>5. placed \in Seq(DOMAIN bids) /\ S = {placed[n] : n \in DOMAIN placed}
  BY <1>1 DEF Enumerates
<1>6. /\ DOMAIN ranked = 1..Len(ranked) /\ Len(ranked) \in Nat
      /\ \A i \in DOMAIN ranked : ranked[i] \in S /\ ranked[i] \in DOMAIN bids
  BY <1>1, <1>4
<1>7. best = IF ranked = <<>> THEN 0 ELSE Head(ranked)
  <2>1. CASE ranked = <<>>
    <3>1. S = {}
      BY <1>4, <2>1
    <3>2. placed = <<>>
      <4>1. \A n \in DOMAIN placed : FALSE
        BY <1>5, <3>1
      <4>2. DOMAIN placed = {} /\ DOMAIN placed = 1..Len(placed) /\ Len(placed) \in Nat
        BY <1>5, <4>1
      <4>3. Len(placed) = 0
        BY <4>2
      <4> QED BY <1>5, <4>3
    <3> QED BY <1>1, <1>3, <1>5, <2>1, <3>2, BestIs
  <2>2. CASE ranked # <<>>
    <3>1. 1 \in DOMAIN ranked /\ Head(ranked) = ranked[1]
      BY <1>4, <1>6, <2>2
    <3>2. placed # <<>>
      BY <1>5, <1>6, <3>1
    <3>3. Tops(best, S)
      BY <1>1, <1>3, <1>5, <3>2, BestIs
    <3>4. PICK i \in DOMAIN ranked : ranked[i] = best
      BY <1>4, <3>3 DEF Tops
    <3>5. ASSUME i # 1 PROVE FALSE
      <4>1. 1 < i
        BY <1>6, <3>4, <3>5
      <4>2. Bids!Beats(ranked[1], best)
        BY <1>4, <3>1, <3>4, <4>1
      <4>3. ranked[1] = best \/ Bids!Beats(best, ranked[1])
        BY <1>6, <3>1, <3>3 DEF Tops
      <4>4. best \in DOMAIN bids /\ ranked[1] \in DOMAIN bids
        BY <1>6, <3>1, <3>4
      <4> QED BY <1>1, <4>2, <4>3, <4>4, BeatsOrders
    <3> QED BY <2>2, <3>1, <3>4, <3>5
  <2> QED BY <2>1, <2>2
<1>8. \A i, j \in DOMAIN ranked : ranked[i] = ranked[j] => i = j
  <2> SUFFICES ASSUME NEW i \in DOMAIN ranked, NEW j \in DOMAIN ranked, i < j
               PROVE  ranked[i] # ranked[j]
    BY <1>6
  <2> QED BY <1>1, <1>4, <1>6, BeatsOrders
<1>9. Bids!Range(ranked) = S
  BY <1>4, <1>6 DEF Bids!Range
<1>10. Bids!IsInjective(ranked)
  BY <1>8 DEF Bids!IsInjective
<1> QED BY <1>2, <1>4, <1>7, <1>9, <1>10 DEF Bids!RankingAgrees, ranked, best

LEMMA PagesAreRight == ASSUME BookInv PROVE Bids!PagesNeverRepeat
<1>1. Bids!IsInjective(reader.seen)
  <2> DEFINE seen == reader.seen
  <2>1. seen \in Seq(Nat) /\ \A m, n \in DOMAIN seen : m < n => seen[m] < seen[n]
    BY DEF BookInv, ReaderRight, ReaderOf, Given
  <2> HIDE DEF seen
  <2>2. \A m, n \in DOMAIN seen : seen[m] = seen[n] => m = n
    BY <2>1
  <2> QED BY <2>2 DEF seen, Bids!IsInjective
<1>2. Bids!WithStatus(Nobody) \in Seq(Nat)
  BY ListsAre DEF BookInv, Enumerates
<1>3. \A limit \in AskedPages :
         (CHOOSE walk : Walks(walk, Bids!WithStatus(Nobody), limit))[0] = Bids!WithStatus(Nobody)
  BY <1>2, WalkReturnsAll
<1> QED BY <1>1, <1>3, WalkIsChosen

(* However bids are placed, closed and accepted, and whenever they lapse: the *)
(* best bid is the first of the ranking, which has every live bid once and in*)
(* order, and a caller who walks the history page by page never meets a bid  *)
(* again, and meets all of them when nothing happens between the pages.      *)
THEOREM BookHolds == Bids!Spec => []BookConsistent
<1>1. BookInv => BookConsistent
  BY BestAndRanking, PagesAreRight DEF BookInv, BookConsistent
<1> QED BY <1>1, BookInvariant, PTL

----------------------------------------------------------------------------
(* The entries of these services have their types. *)

LEMMA EmgCardinality == \A S : Emg!Cardinality(S) = Cardinality(S)
BY Zenon DEF Cardinality, Emg!Cardinality

(* The contract pays no more than it has, and not more than was brought in.  *)
LEMMA EmergencyTypes == ASSUME EmgInv, Emg!TypeOK, [Emg!Next]_(Emg!vars), EmgInv' PROVE Emg!TypeOK'
<1>1. /\ keeper \in Actor /\ nonce \in 1..MaxNonce /\ vault \in 0..(2 * Balance)
      /\ escrowed \in 0..Balance /\ Cardinality(pending) <= 1 /\ Balance \in Nat
  BY EmergencyOK, EmgCardinality DEF Emg!TypeOK, Emg!InitialNonce
<1>2. \A p \in pending : p.amount \in Nat
  BY DEF EmgInv, Stores, Pending
<1>3. Cardinality({}) <= 1 /\ \A x : Cardinality({x}) <= 1
  <2>1. Cardinality({}) = 0 /\ \A x : Cardinality({x}) = 1
    BY FS_EmptySet, FS_Singleton
  <2> QED BY <2>1
<1>4. ASSUME NEW amount \in Amounts, NEW target, Emg!Initiate(amount, target) PROVE Emg!TypeOK'
  <2>1. /\ UNCHANGED <<keeper, vault, escrowed>> /\ nonce' = nonce + 1 /\ nonce + 1 <= MaxNonce
        /\ \E p : pending' = {p}
    BY <1>4 DEF Emg!Initiate, Emg!NextNonce
  <2>2. nonce' \in 1..MaxNonce
    BY <1>1, <2>1, EmergencyOK
  <2>3. Cardinality(pending') <= 1
    BY <1>3, <2>1
  <2> QED BY <1>1, <2>1, <2>2, <2>3, EmgCardinality DEF Emg!TypeOK, Emg!InitialNonce, EmgInv
<1>5. ASSUME UNCHANGED nonce, keeper' \in Actor,
             vault' \in 0..(2 * Balance), escrowed' \in 0..Balance, Cardinality(pending') <= 1
      PROVE  Emg!TypeOK'
  BY <1>1, <1>5, EmgCardinality DEF Emg!TypeOK, Emg!InitialNonce, EmgInv
<1>6. ASSUME Emg!Execute PROVE Emg!TypeOK'
  <2>1. PICK p \in pending : vault >= p.amount /\ vault' = vault - p.amount /\ pending' = {}
                             /\ UNCHANGED <<keeper, nonce, escrowed>>
    BY <1>6 DEF Emg!Execute, Emg!AfterExecute
  <2>2. vault' \in 0..(2 * Balance)
    BY <1>1, <1>2, <2>1
  <2> QED BY <1>1, <1>3, <1>5, <2>1, <2>2
<1>7. ASSUME Emg!Cancel PROVE Emg!TypeOK'
  <2>1. UNCHANGED <<keeper, nonce, vault, escrowed>> /\ \E p : pending' = {p}
    BY <1>7 DEF Emg!Cancel
  <2>2. Cardinality(pending') <= 1
    BY <1>3, <2>1
  <2> QED BY <1>1, <1>5, <2>1, <2>2
<1>8. ASSUME NEW amount \in Amounts, Emg!CreateEscrow(amount) \/ Emg!PayEscrow(amount)
      PROVE  Emg!TypeOK'
  <2>1. UNCHANGED <<keeper, nonce, pending>>
    BY <1>8 DEF Emg!CreateEscrow, Emg!PayEscrow
  <2>2. vault' \in 0..(2 * Balance) /\ escrowed' \in 0..Balance
    BY <1>1, <1>8, EmergencyOK DEF Emg!CreateEscrow, Emg!PayEscrow
  <2> QED BY <1>1, <1>5, <2>1, <2>2
<1>9. ASSUME Emg!Tick \/ UNCHANGED Emg!vars \/ \E a \in Actor : Emg!TransferAdmin(a)
      PROVE  Emg!TypeOK'
  <2>1. UNCHANGED <<nonce, pending, vault, escrowed>> /\ keeper' \in Actor
    BY <1>1, <1>9 DEF Emg!Tick, Emg!vars, Emg!TransferAdmin
  <2> QED BY <1>1, <1>5, <2>1
<1> QED BY <1>4, <1>6, <1>7, <1>8, <1>9 DEF Emg!Next

LEMMA EmergencyTyped == Emg!Spec => []Emg!TypeOK
<1>1. Emg!Init => Emg!TypeOK
  BY EmergencyOK, EmgCardinality, FS_EmptySet DEF Emg!Init, Emg!InitialNonce, Emg!TypeOK
<1>2. EmgInv /\ Emg!TypeOK /\ [Emg!Next]_(Emg!vars) /\ EmgInv' => Emg!TypeOK'
  BY EmergencyTypes
<1> QED BY <1>1, <1>2, EmergencyInvariant, PTL DEF Emg!Spec

LEMMA DisputesTyped == Dis!Spec => []Dis!TypeOK
<1>1. Dis!Init => Dis!TypeOK
  BY ContractBoundsOK DEF Dis!Init, Dis!NoDispute, Dis!TypeOK, Dis!Next_Status, Dis!Range, Dis!Stages
<1>2. CaseInv /\ Dis!TypeOK /\ [Dis!Next]_(Dis!vars) /\ CaseInv' => Dis!TypeOK'
  <2> SUFFICES ASSUME CaseInv, Dis!TypeOK, [Dis!Next]_(Dis!vars), CaseInv' PROVE Dis!TypeOK'
    OBVIOUS
  <2>1. status \in [Invoice -> DOMAIN Dis!Next_Status] /\ day \in 1..MaxDay /\ MaxDay \in Nat
    BY ContractBoundsOK DEF Dis!TypeOK
  <2>2. \A s \in DOMAIN Dis!Next_Status : Dis!Next_Status[s] \subseteq DOMAIN Dis!Next_Status
    BY DEF Dis!Next_Status
  <2>3. status' \in [Invoice -> DOMAIN Dis!Next_Status]
    BY <2>1, <2>2 DEF Dis!Next, Dis!vars, Dis!Tick, Dis!Advance, Dis!PutUnderReview,
       Dis!CreateDispute, Dis!ResolveDispute
  <2>4. day' \in 1..MaxDay
    <3>1. day' = day \/ (day < MaxDay /\ day' = day + 1)
      BY DEF Dis!Next, Dis!vars, Dis!Tick, Dis!Advance, Dis!PutUnderReview,
         Dis!CreateDispute, Dis!ResolveDispute
    <3> QED BY <2>1, <3>1
  <2>5. Dis!Range(Dis!Stages) = {"None", "Disputed", "UnderReview", "Resolved"}
    BY DEF Dis!Range, Dis!Stages
  <2>6. \A i \in Invoice : dispute'[i].status \in Dis!Range(Dis!Stages) /\ dispute'[i].resolvedAt \in Nat
                            /\ dispute'[i].resolvedAt <= day'
    BY <2>5 DEF CaseInv, Case, Dated
  <2>7. \A i \in Invoice : dispute'[i].resolvedAt \in 0..MaxDay
    BY <2>1, <2>4, <2>6
  <2> QED BY <2>3, <2>4, <2>6, <2>7 DEF Dis!TypeOK
<1> QED BY <1>1, <1>2, DisputesInvariant, PTL DEF Dis!Spec

LEMMA GovernanceTypes == ASSUME Gov!TypeOK, [Gov!Next]_(Gov!vars) PROVE Gov!TypeOK'
<1>1. ASSUME NEW c \in Actor,
             \/ Gov!InitializeAdmin(c)
             \/ \E a \in Actor : Gov!TransferAdmin(c, a) \/ Gov!SetAdmin(c, a)
      PROVE  Gov!TypeOK'
  BY <1>1 DEF Gov!InitializeAdmin, Gov!TransferAdmin, Gov!SetAdmin, Gov!settings, Gov!TypeOK,
     Gov!ValidConfig, Gov!ValidLimits
<1>2. ASSUME NEW c \in Actor,
             \/ Gov!ResetBidTtl(c)
             \/ \E a \in Actor : Gov!SetTreasury(c, a)
             \/ \E fee \in FeeBps : Gov!SetFeeConfig(c, fee)
             \/ \E flag \in BOOLEAN : Gov!SetPaused(c, flag)
             \/ \E days \in Ttls : Gov!SetBidTtlDays(c, days)
             \/ \E cap \in Caps : Gov!SetMaxActiveBids(c, cap)
      PROVE  Gov!TypeOK'
  <2>1. /\ UNCHANGED <<admin, adminInit, protoInit, config, limits>> /\ caller' = c
        /\ treasury' = treasury \/ treasury' \in Actor
        /\ feeBps' = feeBps \/ feeBps' \in 0..Gov!MaxFeeBps
    BY <1>2 DEF Gov!ResetBidTtl, Gov!SetTreasury, Gov!SetFeeConfig, Gov!SetPaused,
       Gov!SetBidTtlDays, Gov!SetMaxActiveBids
  <2>2. bidTtl' = bidTtl \/ bidTtl' = Gov!DefaultBidTtl \/ bidTtl' \in Gov!BidTtlDays
    BY <1>2 DEF Gov!ResetBidTtl, Gov!SetTreasury, Gov!SetFeeConfig, Gov!SetPaused,
       Gov!SetBidTtlDays, Gov!SetMaxActiveBids
  <2>3. bidTtl' \in Gov!BidTtlDays
    <3>1. bidTtl \in Gov!BidTtlDays
      BY DEF Gov!TypeOK
    <3>2. Gov!DefaultBidTtl \in Gov!BidTtlDays
      BY DEF Gov!DefaultBidTtl, Gov!BidTtlDays
    <3> QED BY <2>2, <3>1, <3>2
  <2>4. halted' \in BOOLEAN
    BY <1>2, Zenon DEF Gov!ResetBidTtl, Gov!SetTreasury, Gov!SetFeeConfig, Gov!SetPaused,
       Gov!SetBidTtlDays, Gov!SetMaxActiveBids, Gov!TypeOK
  <2>5. Gov!ValidConfig(config)' = Gov!ValidConfig(config) /\ Gov!ValidLimits(limits)' = Gov!ValidLimits(limits)
    BY <2>1 DEF Gov!ValidConfig, Gov!ValidLimits
  <2> QED BY <2>1, <2>3, <2>4, <2>5 DEF Gov!TypeOK
<1>3. ASSUME NEW c \in Actor, NEW s \in Settings, Gov!SetProtocolConfig(c, s)
      PROVE  Gov!TypeOK'
  BY <1>3 DEF Gov!SetProtocolConfig, Gov!TypeOK, Gov!ValidConfig, Gov!ValidLimits
<1>4. ASSUME NEW s, NEW cap, Gov!ValidLimits(s) PROVE Gov!ValidLimits(Gov!NewLimits(s, cap))
  BY <1>4 DEF Gov!NewLimits, Gov!ValidLimits, Gov!ValidConfig
<1>5. ASSUME NEW c \in Actor, NEW s \in Settings, NEW cap \in Caps, Gov!SetProtocolLimits(c, s, cap)
      PROVE  Gov!TypeOK'
  <2>1. /\ Gov!ValidLimits(Gov!NewLimits(s, cap)) /\ limits' = Gov!NewLimits(s, cap)
        /\ caller' = c
        /\ UNCHANGED <<admin, adminInit, protoInit, config, feeBps, treasury, halted, bidTtl>>
    BY <1>4, <1>5 DEF Gov!SetProtocolLimits
  <2> QED BY <2>1 DEF Gov!TypeOK, Gov!ValidConfig, Gov!ValidLimits
<1>6. ASSUME NEW c \in Actor, NEW s \in Settings, NEW fee \in FeeBps, NEW t \in Actor,
             NEW list \in Whitelists, Gov!Initialize(c, s, fee, t, list)
      PROVE  Gov!TypeOK'
  <2>1. /\ Gov!ValidLimits(Gov!NewLimits(s, 100)) /\ limits' = Gov!NewLimits(s, 100)
        /\ Gov!ValidConfig(s) /\ config' = s /\ caller' = c /\ admin' = c
        /\ adminInit' = TRUE /\ protoInit' = TRUE
        /\ feeBps' \in 0..Gov!MaxFeeBps /\ treasury' = t /\ UNCHANGED <<halted, bidTtl>>
    BY <1>4, <1>6 DEF Gov!Initialize, Gov!ValidParams, Gov!StoredLimits
  <2> QED BY <2>1 DEF Gov!TypeOK, Gov!ValidConfig, Gov!ValidLimits
<1>7. ASSUME NEW c \in Actor, NEW list, Gov!OnlyWhitelist(c, list) PROVE Gov!TypeOK'
  BY <1>7 DEF Gov!OnlyWhitelist, Gov!settings, Gov!TypeOK, Gov!ValidConfig, Gov!ValidLimits
<1>8. ASSUME NEW c \in Actor,
             \/ Gov!ClearCurrencies(c)
             \/ \E t \in Currencies : Gov!AddCurrency(c, t) \/ Gov!RemoveCurrency(c, t)
             \/ \E list \in Whitelists : Gov!SetCurrencies(c, list)
      PROVE  Gov!TypeOK'
  BY <1>7, <1>8 DEF Gov!ClearCurrencies, Gov!AddCurrency, Gov!RemoveCurrency, Gov!SetCurrencies
<1>9. CASE UNCHANGED Gov!vars
  BY <1>9 DEF Gov!vars, Gov!settings, Gov!TypeOK, Gov!ValidConfig, Gov!ValidLimits
<1> QED BY <1>1, <1>2, <1>3, <1>5, <1>6, <1>8, <1>9 DEF Gov!Next

LEMMA GovernanceTyped == Gov!Spec => []Gov!TypeOK
<1>1. Gov!Init => Gov!TypeOK
  <2> SUFFICES ASSUME Gov!Init PROVE Gov!TypeOK
    OBVIOUS
  <2>1. 200 \in 0..Gov!MaxFeeBps /\ Gov!DefaultBidTtl \in Gov!BidTtlDays
    BY DEF Gov!MaxFeeBps, Gov!DefaultBidTtl, Gov!BidTtlDays
  <2> QED BY <2>1, Zenon DEF Gov!Init, Gov!TypeOK
<1>2. Gov!TypeOK /\ [Gov!Next]_(Gov!vars) => Gov!TypeOK'
  BY GovernanceTypes
<1> QED BY <1>1, <1>2, PTL DEF Gov!Spec

(* A record has a reason of those given, or none. *)
Reasoned(r) == r.reason \in Reasons \cup {Nobody}

LEMMA OneRecordReasoned ==
    ASSUME KycInv, Kyc!TypeOK, [Kyc!Next]_(Kyc!vars)
    PROVE  record' = record \/ \E a \in Actor : \E r : record' = [record EXCEPT ![a] = r] /\ Reasoned(r)
<1> DEFINE Result == record' = record \/ \E a \in Actor : \E r : record' = [record EXCEPT ![a] = r] /\ Reasoned(r)
<1>1. ASSUME NEW a \in Actor, NEW to, NEW reason \in Reasons \cup {Nobody},
             Kyc!UpdateVerification(a, to, reason)
      PROVE  Result
  <2>1. record' = [record EXCEPT ![a] = [kind |-> "business", status |-> to, reason |-> reason]]
    BY <1>1 DEF Kyc!UpdateVerification
  <2>2. Reasoned([kind |-> "business", status |-> to, reason |-> reason])
    BY DEF Reasoned
  <2> QED BY <2>1, <2>2
<1>2. ASSUME NEW a \in Actor, NEW kyc, Kyc!SubmitInvestorKyc(a, kyc) PROVE Result
  <2>1. \E p : record' = [record EXCEPT ![a] = Kyc!InvestorRecord(p, "Pending", Nobody)]
    BY <1>2 DEF Kyc!SubmitInvestorKyc
  <2>2. \A p : Reasoned(Kyc!InvestorRecord(p, "Pending", Nobody))
    BY DEF Reasoned, Kyc!InvestorRecord
  <2> QED BY <2>1, <2>2
<1>3. ASSUME NEW a \in Actor, record[a] # <<>> PROVE record[a].reason \in Reasons \cup {Nobody}
  BY <1>3 DEF Kyc!TypeOK
<1>4. ASSUME NEW a \in Actor, NEW limit, Kyc!VerifyInvestor(a, limit) PROVE Result
  <2>1. /\ record[a] # <<>>
        /\ \E p : record' = [record EXCEPT ![a] = Kyc!InvestorRecord(p, "Verified", record[a].reason)]
    BY <1>4 DEF Kyc!VerifyInvestor, Kyc!UpdateInvestor, Kyc!HasRecord
  <2> QED BY <1>3, <2>1 DEF Reasoned, Kyc!InvestorRecord
<1>5. ASSUME NEW a \in Actor, NEW reason \in Reasons, Kyc!RejectInvestor(a, reason) PROVE Result
  <2>1. \E p : record' = [record EXCEPT ![a] = Kyc!InvestorRecord(p, "Rejected", reason)]
    BY <1>5 DEF Kyc!RejectInvestor, Kyc!UpdateInvestor
  <2>2. \A p : Reasoned(Kyc!InvestorRecord(p, "Rejected", reason))
    BY DEF Reasoned, Kyc!InvestorRecord
  <2> QED BY <2>1, <2>2
<1>6. ASSUME NEW a \in Actor, NEW limit, Kyc!SetInvestmentLimit(a, limit) PROVE Result
  <2>1. PICK p : Kyc!HasRecord(a, "investor") /\ record' = [record EXCEPT ![a] = [record[a] EXCEPT !.profile = p]]
    BY <1>6 DEF Kyc!SetInvestmentLimit, Kyc!UpdateInvestor
  <2>2. record[a] # <<>> /\ DOMAIN record[a] = {"kind", "status", "reason", "profile"}
    BY <2>1, Shapes DEF KycInv, Kyc!HasRecord, IsInvestor
  <2>3. [record[a] EXCEPT !.profile = p].reason = record[a].reason
    BY <2>2
  <2> QED BY <1>3, <2>1, <2>2, <2>3 DEF Reasoned
<1>7. ASSUME UNCHANGED Kyc!vars \/ \E flag : Kyc!SetPaused(flag) PROVE Result
  BY <1>7 DEF Kyc!vars, Kyc!SetPaused
<1> QED BY <1>1, <1>2, <1>4, <1>5, <1>6, <1>7
        DEF Kyc!Next, Kyc!SubmitKycApplication, Kyc!VerifyBusiness, Kyc!RejectBusiness

LEMMA KycTyped == Kyc!Spec => []Kyc!TypeOK
<1>1. KycInv => /\ \A a \in Actor : record[a] # <<>> =>
                      record[a].kind \in {"business", "investor"} /\ record[a].status \in Kyc!Statuses
                /\ businesses \in [Kyc!Statuses -> Seq(Actor)]
                /\ investors \in [Kyc!Statuses -> Seq(Actor)]
  BY DEF KycInv, IsRecord, IsBusiness, IsInvestor
<1>2. Kyc!Init => \A a \in Actor : record[a] = <<>>
  BY DEF Kyc!Init
<1>3. Kyc!Init => frozen \in BOOLEAN
  BY DEF Kyc!Init
<1>4. KycInv /\ Kyc!Init => Kyc!TypeOK
  BY <1>1, <1>2, <1>3 DEF Kyc!TypeOK
<1>5. KycInv /\ Kyc!TypeOK /\ [Kyc!Next]_(Kyc!vars) /\ KycInv' => Kyc!TypeOK'
  <2> SUFFICES ASSUME KycInv, Kyc!TypeOK, [Kyc!Next]_(Kyc!vars), KycInv' PROVE Kyc!TypeOK'
    OBVIOUS
  <2>1. \A a \in Actor : record'[a] # <<>> => record'[a].reason \in Reasons \cup {Nobody}
    <3>1. \A a \in Actor : record[a] # <<>> => record[a].reason \in Reasons \cup {Nobody}
      BY DEF Kyc!TypeOK
    <3>2. DOMAIN record = Actor
      BY DEF KycInv
    <3> QED BY <3>1, <3>2, OneRecordReasoned DEF Reasoned
  <2>2. frozen' = frozen \/ frozen' \in BOOLEAN
    BY Zenon DEF Kyc!Next, Kyc!vars, Kyc!SubmitKycApplication, Kyc!SubmitInvestorKyc, Kyc!VerifyBusiness,
       Kyc!RejectBusiness, Kyc!RejectInvestor, Kyc!VerifyInvestor, Kyc!SetInvestmentLimit, Kyc!SetPaused,
       Kyc!UpdateVerification, Kyc!UpdateInvestor
  <2>3. frozen' \in BOOLEAN
    BY <2>2, Zenon DEF Kyc!TypeOK
  <2>4. /\ \A a \in Actor : record'[a] # <<>> =>
              record'[a].kind \in {"business", "investor"} /\ record'[a].status \in Kyc!Statuses
        /\ businesses' \in [Kyc!Statuses -> Seq(Actor)]
        /\ investors' \in [Kyc!Statuses -> Seq(Actor)]
    <3> USE DEF KycInv, IsRecord, IsBusiness, IsInvestor
    <3> QED OBVIOUS
  <2> QED BY <2>1, <2>3, <2>4 DEF Kyc!TypeOK
<1> QED BY <1>4, <1>5, KycInvariant, PTL DEF Kyc!Spec

(* The pages give ids of bids. *)
LEMMA PagesGiveBids ==
    ASSUME BookShape, NEW filter, NEW offset \in Nat, NEW limit \in AskedPages
    PROVE  Bids!Page(Bids!WithStatus(filter), offset, limit) \in Seq(DOMAIN bids)
<1> DEFINE list == Bids!WithStatus(filter)
           S == Shown(Bids!Refreshed, book, filter)
           page == Bids!Page(list, offset, limit)
           start == PageStart(list, offset)
           end == PageEnd(list, offset, limit)
<1>1. /\ list \in Seq(Nat) /\ DOMAIN list = 1..Len(list) /\ Len(list) \in Nat
      /\ \A n \in DOMAIN list : list[n] \in DOMAIN bids
  <2>1. Enumerates(list, S) /\ S \in SUBSET DOMAIN bids
    BY ListsAre
  <2> HIDE DEF list, S
  <2> QED BY <2>1 DEF Enumerates
<1> HIDE DEF list, S
<1>2. /\ start \in Nat /\ end \in Nat /\ start <= end /\ end <= Len(list)
      /\ page \in Seq(Nat) /\ Len(page) = end - start
      /\ \A k \in 1..(end - start) : page[k] = list[start + k]
  BY <1>1, PageIs DEF IsPage
<1> HIDE DEF page, start, end
<1>3. DOMAIN page = 1..(end - start) /\ \A k \in DOMAIN page : page[k] \in DOMAIN bids
  <2>1. DOMAIN page = 1..(end - start)
    BY <1>2
  <2>2. \A k \in 1..(end - start) : start + k \in DOMAIN list
    BY <1>1, <1>2
  <2> QED BY <1>1, <1>2, <2>1, <2>2
<1>4. page \in Seq(DOMAIN bids)
  BY <1>2, <1>3, ListOver
<1> QED BY <1>4 DEF page, list

LEMMA BookTypes == ASSUME BookInv, Bids!TypeOK, [Bids!Next]_(Bids!vars), BookInv' PROVE Bids!TypeOK'
<1>1. /\ now \in 0..MaxBookTime /\ MaxBookTime \in Nat
      /\ bids \in Seq(Bids!BidRow) /\ Len(bids) \in Nat /\ DOMAIN bids = 1..Len(bids)
      /\ reader.seen \in Seq(DOMAIN bids) /\ BookShape
  BY BookOK DEF Bids!TypeOK, BookInv
<1>2. now' \in 0..MaxBookTime
  <2>1. now' = now \/ (now < MaxBookTime /\ now' = now + 1)
    BY DEF Bids!Next, Bids!vars, Bids!PlaceBid, Bids!CloseBid, Bids!AcceptBid, Bids!ReadBook,
       Bids!StartPaging, Bids!NextPage, Bids!Tick
  <2> QED BY <1>1, <2>1
<1>3. book' \in Seq(DOMAIN bids')
  <2>1. Enumerates(book', Bids!Range(book')) /\ Bids!Range(book') \subseteq DOMAIN bids'
    BY DEF BookInv, BookShape
  <2> QED BY <2>1 DEF Enumerates
<1>4. \A id \in DOMAIN bids, s \in Bids!Status : [bids[id] EXCEPT !.status = s] \in Bids!BidRow
  <2>1. \A row \in Bids!BidRow, s \in Bids!Status : [row EXCEPT !.status = s] \in Bids!BidRow
    BY DEF Bids!BidRow
  <2> QED BY <1>1, <2>1
<1>5. Bids!Refreshed \in Seq(Bids!BidRow) /\ DOMAIN Bids!Refreshed = DOMAIN bids
  <2>1. /\ DOMAIN Bids!Refreshed = 1..Len(bids)
        /\ \A id \in 1..Len(bids) :
              Bids!Refreshed[id] = bids[id] \/ Bids!Refreshed[id] = [bids[id] EXCEPT !.status = "Expired"]
    BY <1>1 DEF Bids!Refreshed
  <2>2. "Expired" \in Bids!Status
    BY DEF Bids!Status
  <2>3. \A id \in 1..Len(bids) : Bids!Refreshed[id] \in Bids!BidRow
    BY <1>1, <1>4, <2>1, <2>2
  <2>4. Bids!Refreshed = [id \in 1..Len(bids) |-> Bids!Refreshed[id]]
    BY <1>1 DEF Bids!Refreshed
  <2> HIDE DEF Bids!Refreshed
  <2> QED BY <1>1, <2>1, <2>3, <2>4
<1>6. ASSUME NEW rows \in Seq(Bids!BidRow), NEW id \in DOMAIN rows, NEW s \in Bids!Status
      PROVE  /\ [rows EXCEPT ![id].status = s] \in Seq(Bids!BidRow)
             /\ DOMAIN [rows EXCEPT ![id].status = s] = DOMAIN rows
  <2>1. rows[id] \in Bids!BidRow
    OBVIOUS
  <2>2. [rows[id] EXCEPT !.status = s] \in Bids!BidRow
    BY <2>1 DEF Bids!BidRow
  <2> QED BY <2>2
<1>7. ASSUME NEW offer \in Offers, Bids!PlaceBid(offer)
      PROVE  bids' \in Seq(Bids!BidRow) /\ reader'.seen \in Seq(DOMAIN bids')
  <2> DEFINE row == [amount |-> offer[1], return |-> offer[2], timestamp |-> now, status |-> "Placed"]
  <2>1. bids' = Append(Bids!Refreshed, row) /\ reader' = reader
    BY <1>7 DEF Bids!PlaceBid
  <2>2. row \in Bids!BidRow
    BY <1>1, BookOK DEF Bids!BidRow, Bids!Status
  <2> HIDE DEF row
  <2>3. bids' \in Seq(Bids!BidRow) /\ DOMAIN bids \subseteq DOMAIN bids'
    BY <1>1, <1>5, <2>1, <2>2
  <2>4. reader.seen \in Seq(DOMAIN bids')
    BY <1>1, <2>3
  <2> QED BY <2>1, <2>3, <2>4
<1>8. ASSUME NEW id \in DOMAIN bids,
             (\E s \in {"Withdrawn", "Cancelled"} : Bids!CloseBid(id, s)) \/ Bids!AcceptBid(id)
      PROVE  bids' \in Seq(Bids!BidRow) /\ reader'.seen \in Seq(DOMAIN bids')
  <2>1. /\ reader' = reader
        /\ \/ \E s \in {"Withdrawn", "Cancelled"} : bids' = [bids EXCEPT ![id].status = s]
           \/ bids' = [Bids!Refreshed EXCEPT ![id].status = "Accepted"]
    BY <1>8 DEF Bids!CloseBid, Bids!AcceptBid
  <2>2. {"Withdrawn", "Cancelled", "Accepted"} \subseteq Bids!Status
    BY DEF Bids!Status
  <2>3. bids' \in Seq(Bids!BidRow) /\ DOMAIN bids' = DOMAIN bids
    <3>1. CASE \E s \in {"Withdrawn", "Cancelled"} : bids' = [bids EXCEPT ![id].status = s]
      <4>1. PICK s \in {"Withdrawn", "Cancelled"} : bids' = [bids EXCEPT ![id].status = s]
        BY <3>1
      <4> QED BY <1>1, <1>6, <2>2, <4>1
    <3>2. CASE bids' = [Bids!Refreshed EXCEPT ![id].status = "Accepted"]
      BY <1>5, <1>6, <2>2, <3>2
    <3> QED BY <2>1, <3>1, <3>2
  <2> QED BY <1>1, <2>1, <2>3
<1>9. ASSUME bids' \in {bids, Bids!Refreshed}, reader'.seen \in Seq(DOMAIN bids)
      PROVE  bids' \in Seq(Bids!BidRow) /\ reader'.seen \in Seq(DOMAIN bids')
  BY <1>1, <1>5, <1>9
<1>10. ASSUME NEW filter, NEW limit \in AskedPages, Bids!StartPaging(filter, limit)
       PROVE  bids' \in Seq(Bids!BidRow) /\ reader'.seen \in Seq(DOMAIN bids')
  <2>1. bids' = Bids!Refreshed /\ reader'.seen = Bids!Page(Bids!WithStatus(filter), 0, limit)
    BY <1>10 DEF Bids!StartPaging, Bids!Refresh
  <2> QED BY <1>1, <1>9, <2>1, PagesGiveBids
<1>11. ASSUME Bids!NextPage PROVE bids' \in Seq(Bids!BidRow) /\ reader'.seen \in Seq(DOMAIN bids')
  <2>1. /\ reader \in [filter : {Nobody, "Placed"}, limit : {0} \cup AskedPages, offset : Nat, seen : Seq(Nat)]
        /\ reader.limit > 0
    BY <1>11 DEF BookInv, ReaderRight, ReaderOf, Bids!NextPage, Bids!Reading
  <2>2. reader.limit \in AskedPages /\ reader.offset \in Nat
    BY <2>1
  <2>3. Bids!Page(Bids!WithStatus(reader.filter), reader.offset, reader.limit) \in Seq(DOMAIN bids)
    BY <1>1, <2>2, PagesGiveBids
  <2>4. /\ bids' = Bids!Refreshed
        /\ \E n : reader' = [reader EXCEPT !.offset = n,
                !.seen = reader.seen \o Bids!Page(Bids!WithStatus(reader.filter), reader.offset, reader.limit)]
    BY <1>11 DEF Bids!NextPage, Bids!Refresh
  <2>5. reader'.seen = reader.seen \o Bids!Page(Bids!WithStatus(reader.filter), reader.offset, reader.limit)
    BY <2>1, <2>4
  <2>6. reader'.seen \in Seq(DOMAIN bids)
    BY <1>1, <2>3, <2>5
  <2> QED BY <1>9, <2>4, <2>6
<1>12. ASSUME Bids!ReadBook \/ Bids!Tick \/ UNCHANGED Bids!vars
       PROVE  bids' \in Seq(Bids!BidRow) /\ reader'.seen \in Seq(DOMAIN bids')
  BY <1>1, <1>9, <1>12 DEF Bids!ReadBook, Bids!Refresh, Bids!Tick, Bids!vars
<1>13. bids' \in Seq(Bids!BidRow) /\ reader'.seen \in Seq(DOMAIN bids')
  BY <1>7, <1>8, <1>10, <1>11, <1>12 DEF Bids!Next
<1> QED BY <1>2, <1>3, <1>13 DEF Bids!TypeOK

LEMMA BookTyped == Bids!Spec => []Bids!TypeOK
<1>1. Bids!Init => Bids!TypeOK
  BY BookOK DEF Bids!Init, Bids!TypeOK, Bids!NotReading
<1>2. BookInv /\ Bids!TypeOK /\ [Bids!Next]_(Bids!vars) /\ BookInv' => Bids!TypeOK'
  BY BookTypes
<1> QED BY <1>1, <1>2, BookInvariant, PTL DEF Bids!Spec

(* A notification as it is stored. *)
Stored(n) == "status" \in DOMAIN n /\ n.status \in Ntf!Statuses

(* What is listed for a user is stored. *)
NoticeInv ==
    /\ now \in 0..MaxNoticeTime
    /\ DOMAIN notice = 0..MaxNoticeTime
    /\ \A id \in 0..MaxNoticeTime : notice[id] = Ntf!Unsent \/ Stored(notice[id])
    /\ inbox \in [Ntf!User -> Seq(0..MaxNoticeTime)]
    /\ \A u \in Ntf!User : \A n \in DOMAIN inbox[u] : Stored(notice[inbox[u][n]])
    /\ DOMAIN preferences = Ntf!User
    /\ \A u \in Ntf!User : preferences[u].types \subseteq Ntf!Types

LEMMA NoticeStored == \A n : Stored(n) => n # Ntf!Unsent /\ n.status \in Ntf!Statuses
<1>1. Ntf!Unsent.status = "None" /\ "None" \notin Ntf!Statuses
  BY DEF Ntf!Unsent, Ntf!Statuses
<1> QED BY <1>1, Zenon DEF Stored

LEMMA NotifyStep ==
    ASSUME NoticeInv, NEW type, NEW i, Ntf!Notify(type, i) PROVE NoticeInv'
<1> DEFINE told == Ntf!Notified(type, i)
           m == Ntf!Notification(type, i, told[Len(told)])
<1>1. /\ notice' = [notice EXCEPT ![now] = m]
      /\ inbox' = [u \in Ntf!User |-> IF u \in Ntf!Range(told) THEN Append(inbox[u], now) ELSE inbox[u]]
      /\ UNCHANGED <<preferences, now>>
  BY Zenon DEF Ntf!Notify
<1>2. Stored(m)
  BY DEF Stored, Ntf!Notification, Ntf!Statuses
<1> HIDE DEF m, told
<1>3. DOMAIN notice' = 0..MaxNoticeTime /\ notice'[now] = m
      /\ \A id \in 0..MaxNoticeTime : id # now => notice'[id] = notice[id]
  BY <1>1 DEF NoticeInv
<1>4. \A id \in 0..MaxNoticeTime : Stored(notice[id]) => Stored(notice'[id])
  BY <1>2, <1>3, Zenon
<1>5. ASSUME NEW u \in Ntf!User
      PROVE  /\ inbox'[u] \in Seq(0..MaxNoticeTime)
             /\ \A n \in DOMAIN inbox'[u] : Stored(notice'[inbox'[u][n]])
  <2>1. inbox[u] \in Seq(0..MaxNoticeTime) /\ now \in 0..MaxNoticeTime
    BY DEF NoticeInv
  <2>2. ASSUME NEW n \in DOMAIN inbox[u] PROVE Stored(notice'[inbox[u][n]])
    <3>1. inbox[u][n] \in 0..MaxNoticeTime
      BY <2>1, MemberOf
    <3> QED BY <1>4, <3>1, Zenon DEF NoticeInv
  <2>3. CASE inbox'[u] = Append(inbox[u], now)
    <3>1. \A n \in DOMAIN inbox'[u] :
             (n \in DOMAIN inbox[u] /\ inbox'[u][n] = inbox[u][n]) \/ inbox'[u][n] = now
      BY <2>1, <2>3
    <3>2. Stored(notice'[now])
      BY <1>2, <1>3
    <3> QED BY <2>1, <2>2, <2>3, <3>1, <3>2
  <2>4. CASE inbox'[u] = inbox[u]
    BY <2>1, <2>2, <2>4
  <2> QED BY <1>1, <2>3, <2>4
<1>6. \A id \in 0..MaxNoticeTime : notice'[id] = Ntf!Unsent \/ Stored(notice'[id])
  BY <1>2, <1>3, Zenon DEF NoticeInv
<1>7. inbox' \in [Ntf!User -> Seq(0..MaxNoticeTime)]
  BY <1>1, <1>5

<1> QED BY <1>1, <1>3, <1>5, <1>6, <1>7 DEF NoticeInv, Stored

LEMMA UpdateStatusStep ==
    ASSUME NoticeInv, NEW id \in DOMAIN notice, NEW s \in Ntf!Statuses, Ntf!UpdateStatus(id, s)
    PROVE  NoticeInv'
<1>1. Stored(notice[id]) /\ id \in 0..MaxNoticeTime
  BY DEF NoticeInv, Ntf!UpdateStatus
<1>2. \E n : Stored(n) /\ notice' = [notice EXCEPT ![id] = n]
  <2> DEFINE at == [notice[id] EXCEPT !.status = s, !.deliveredAt = now]
             once == [notice[id] EXCEPT !.status = s, !.deliveredAt = IF @ < 0 THEN now ELSE @]
             opened == [notice[id] EXCEPT !.status = s, !.readAt = now]
             failed == [notice[id] EXCEPT !.status = s]
  <2>1. Stored(at) /\ Stored(once) /\ Stored(opened) /\ Stored(failed)
    BY <1>1 DEF Stored
  <2>2. \E n \in {at, once, opened, failed, notice[id]} : notice' = [notice EXCEPT ![id] = n]
    <3>1. notice' = [notice EXCEPT ![id] = CASE s = "Sent" -> at [] s = "Delivered" -> once
                        [] s = "Read" -> opened [] s = "Failed" -> failed [] OTHER -> notice[id]]
      BY DEF Ntf!UpdateStatus
    <3> HIDE DEF at, once, opened, failed
    <3> QED BY <3>1 DEF Ntf!Statuses
  <2> HIDE DEF at, once, opened, failed
  <2> QED BY <1>1, <2>1, <2>2
<1>3. DOMAIN notice' = 0..MaxNoticeTime /\ Stored(notice'[id])
      /\ \A q \in 0..MaxNoticeTime : q # id => notice'[q] = notice[q]
  BY <1>2 DEF NoticeInv
<1>4. UNCHANGED <<inbox, preferences, now>>
  BY DEF Ntf!UpdateStatus
<1>5. \A q \in 0..MaxNoticeTime : Stored(notice[q]) => Stored(notice'[q])
  BY <1>3, Zenon
<1>6. \A q \in 0..MaxNoticeTime : notice'[q] = Ntf!Unsent \/ Stored(notice'[q])
  BY <1>3, Zenon DEF NoticeInv
<1>7. ASSUME NEW u \in Ntf!User, NEW n \in DOMAIN inbox'[u] PROVE Stored(notice'[inbox'[u][n]])
  <2>1. inbox[u] \in Seq(0..MaxNoticeTime) /\ n \in DOMAIN inbox[u] /\ inbox'[u] = inbox[u]
    BY <1>4 DEF NoticeInv
  <2>2. inbox'[u][n] \in 0..MaxNoticeTime
    BY <2>1, MemberOf
  <2> QED BY <1>5, <2>1, <2>2, Zenon DEF NoticeInv
<1> QED BY <1>3, <1>4, <1>6, <1>7 DEF NoticeInv, Stored

LEMMA NoticesTyped == Ntf!Spec => []Ntf!TypeOK
<1>1. Ntf!Init => NoticeInv
  BY ContractBoundsOK DEF Ntf!Init, NoticeInv, Ntf!DefaultForUser
<1>2. NoticeInv /\ [Ntf!Next]_(Ntf!vars) => NoticeInv'
  <2> SUFFICES ASSUME NoticeInv, [Ntf!Next]_(Ntf!vars) PROVE NoticeInv'
    OBVIOUS
  <2>1. ASSUME Ntf!Tick PROVE NoticeInv'
    <3>1. now' = now + 1 /\ now < MaxNoticeTime /\ UNCHANGED <<notice, inbox, preferences>>
      BY <2>1 DEF Ntf!Tick
    <3>2. now' \in 0..MaxNoticeTime
      BY <3>1, ContractBoundsOK DEF NoticeInv
    <3> QED BY <3>1, <3>2 DEF NoticeInv, Stored
  <2>2. ASSUME NEW u \in Ntf!User, NEW wish \in Wishes, Ntf!UpdatePreferences(u, wish) PROVE NoticeInv'
    <3>1. UNCHANGED <<notice, inbox, now>> /\ preferences' = [preferences EXCEPT ![u] = wish]
      BY <2>2 DEF Ntf!UpdatePreferences
    <3>2. DOMAIN preferences' = Ntf!User /\ \A v \in Ntf!User : preferences'[v].types \subseteq Ntf!Types
      BY <3>1, NoticesOK DEF NoticeInv
    <3> QED BY <3>1, <3>2 DEF NoticeInv, Stored
  <2>3. ASSUME UNCHANGED Ntf!vars PROVE NoticeInv'
    BY <2>3 DEF Ntf!vars, NoticeInv, Stored
  <2> QED BY <2>1, <2>2, <2>3, NotifyStep, UpdateStatusStep DEF Ntf!Next
<1>3. NoticeInv => Ntf!TypeOK
  <2> SUFFICES ASSUME NoticeInv PROVE Ntf!TypeOK
    OBVIOUS
  <2>1. ASSUME NEW id \in DOMAIN notice PROVE notice[id].status \in Ntf!Statuses \cup {"None"}
    <3>1. Ntf!Unsent.status = "None"
      BY DEF Ntf!Unsent
    <3>2. notice[id] = Ntf!Unsent \/ Stored(notice[id])
      BY DEF NoticeInv
    <3> QED BY <3>1, <3>2, NoticeStored, Zenon
  <2>2. \A u \in Ntf!User : \A n \in DOMAIN inbox[u] : notice[inbox[u][n]] # Ntf!Unsent
    BY NoticeStored, Zenon DEF NoticeInv
  <2>3. \A u \in Ntf!User : preferences[u].types \subseteq Ntf!Types
    BY DEF NoticeInv
  <2>4. now \in 0..MaxNoticeTime
    BY DEF NoticeInv
  <2> QED BY <2>1, <2>2, <2>3, <2>4, Zenon DEF Ntf!TypeOK
<1> QED BY <1>1, <1>2, <1>3, PTL DEF Ntf!Spec
=============================================================================
