------------------------- MODULE EmergencyWithdrawal -------------------------
(***************************************************************************)
(* The emergency withdrawal (emergency.rs): one pending request, which the *)
(* admin initiates, executes within a window after a timelock, or cancels. *)
(* A new request replaces the one before.  It is paid from the balance     *)
(* that also holds the escrows.  The pause flag does not concern it.       *)
(***************************************************************************)
EXTENDS Naturals, FiniteSets

CONSTANTS
    Actor,        \* addresses: admins and targets
    Contract,     \* the contract's own address
    Amounts,      \* amounts asked for
    Timelock,     \* DEFAULT_EMERGENCY_TIMELOCK_SECS
    Expiration,   \* DEFAULT_EMERGENCY_EXPIRATION_SECS
    Balance,      \* bound of the model: tokens in the contract, and in escrows
    MaxNonce,     \* bound of the model: requests
    MaxTime       \* bound of the model: the clock

VARIABLES
    admin,
    nonce,       \* the nonce last given
    pending,     \* the stored request, a set of at most one
    cancelled,   \* nonces marked as cancelled
    vault,       \* tokens of the contract
    escrowed,    \* tokens of escrows not yet paid out
    now,
    log          \* history: every request by nonce, and whether it was paid

vars == <<admin, nonce, pending, cancelled, vault, escrowed, now, log>>

InitialNonce == 1

Init ==
    /\ admin \in Actor
    /\ nonce = InitialNonce
    /\ pending = {}
    /\ cancelled = {}
    /\ vault = Balance
    /\ escrowed = 0
    /\ now = 0
    /\ log = [n \in 1..MaxNonce |-> [at |-> 0, amount |-> 0, target |-> Contract, paid |-> FALSE]]

(* The nonce of the request before is taken again. *)
NextNonce_Fault == IF pending = {} THEN nonce + 1 ELSE nonce

(* increment_nonce *)
NextNonce == nonce + 1

Initiate(amount, target) ==
    /\ NextNonce <= MaxNonce
    /\ amount > 0
    /\ target # Contract
    /\ nonce' = NextNonce
    /\ pending' = {[amount |-> amount, target |-> target, nonce |-> NextNonce,
                    unlock |-> now + Timelock, expires |-> now + Timelock + Expiration,
                    cancelled |-> FALSE]}
    /\ log' = [log EXCEPT ![NextNonce] = [at |-> now, amount |-> amount, target |-> target,
                                          paid |-> FALSE]]
    /\ UNCHANGED <<admin, cancelled, vault, escrowed, now>>

(* The request does not have to wait. *)
CanExecute_Fault(p) == ~p.cancelled /\ now < p.expires

(* can_execute, and the three checks of execute *)
CanExecute(p) == ~p.cancelled /\ now >= p.unlock /\ now < p.expires

(* The request stays stored. *)
AfterExecute_Fault == pending

AfterExecute == {}

Execute ==
    \E p \in pending :
        /\ CanExecute(p)
        /\ vault >= p.amount
        /\ vault' = vault - p.amount
        /\ pending' = AfterExecute
        /\ log' = [log EXCEPT ![p.nonce].paid = TRUE]
        /\ UNCHANGED <<admin, nonce, cancelled, escrowed, now>>

(* The request stays stored, marked. *)
Cancel ==
    \E p \in pending :
        /\ ~p.cancelled
        /\ pending' = {[p EXCEPT !.cancelled = TRUE]}
        /\ cancelled' = cancelled \cup {p.nonce}
        /\ UNCHANGED <<admin, nonce, vault, escrowed, now, log>>

TransferAdmin(a) ==
    /\ a # admin
    /\ admin' = a
    /\ UNCHANGED <<nonce, pending, cancelled, vault, escrowed, now, log>>

(* An investor's tokens come in. *)
CreateEscrow(amount) ==
    /\ amount > 0 /\ escrowed + amount <= Balance /\ vault + amount <= 2 * Balance
    /\ vault' = vault + amount
    /\ escrowed' = escrowed + amount
    /\ UNCHANGED <<admin, nonce, pending, cancelled, now, log>>

(* They go out, if the contract still has them. *)
PayEscrow(amount) ==
    /\ amount \in 1..escrowed
    /\ amount <= vault
    /\ vault' = vault - amount
    /\ escrowed' = escrowed - amount
    /\ UNCHANGED <<admin, nonce, pending, cancelled, now, log>>

Tick ==
    /\ now < MaxTime
    /\ now' = now + 1
    /\ UNCHANGED <<admin, nonce, pending, cancelled, vault, escrowed, log>>

Next ==
    \/ \E amount \in Amounts, target \in Actor \cup {Contract} : Initiate(amount, target)
    \/ Execute \/ Cancel \/ Tick
    \/ \E a \in Actor : TransferAdmin(a)
    \/ \E amount \in Amounts : CreateEscrow(amount) \/ PayEscrow(amount)

Spec == Init /\ [][Next]_vars

----------------------------------------------------------------------------
TypeOK ==
    /\ admin \in Actor /\ nonce \in InitialNonce..MaxNonce
    /\ Cardinality(pending) <= 1 /\ cancelled \subseteq 1..nonce
    /\ vault \in 0..2 * Balance /\ escrowed \in 0..Balance

(* What leaves the contract in an execution is what one request, initiated   *)
(* at least the timelock ago and not later than its expiry, had asked for:   *)
(* a replaced request does not pass its waiting time on to the next one.     *)
ExecutedAsRequested ==
    [][\A n \in 1..MaxNonce : log'[n].paid /\ ~log[n].paid =>
          /\ now >= log[n].at + Timelock /\ now < log[n].at + Timelock + Expiration
          /\ vault - vault' = log[n].amount /\ log[n].target # Contract]_vars

(* A request is paid at most once, and none that was cancelled is: neither   *)
(* by a replay nor after new requests have been made.                        *)
PaidOnceOrCancelled ==
    [][/\ \A n \in 1..MaxNonce : log[n].paid => log'[n] = log[n]
       /\ vault' < vault /\ escrowed' = escrowed =>
            \E n \in 1..MaxNonce : ~log[n].paid /\ log'[n].paid /\ n \notin cancelled]_vars

(* What the participants of a withdrawal rely on. *)
WithdrawnAsAgreed == ExecutedAsRequested /\ PaidOnceOrCancelled
=============================================================================
