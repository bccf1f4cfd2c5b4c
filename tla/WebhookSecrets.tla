--------------------------- MODULE WebhookSecrets ---------------------------
(***************************************************************************)
(* The signing secret of one webhook subscriber (webhookSecretService.ts): *)
(* a rotation keeps the old secret and the pending one valid for a grace   *)
(* period, is finalized or cancelled by separate calls, and otherwise ends *)
(* when the first signature after that period is verified.  Each call runs *)
(* without an await.                                                       *)
(***************************************************************************)
EXTENDS Integers

CONSTANTS
    GracePeriods,   \* grace periods callers ask for
    DefaultGrace,   \* of registerSubscriber
    NoSecret,
    MaxSecrets,     \* bound of the model: secrets generated
    MaxTime         \* bound of the model: the clock

VARIABLES
    subscriber,   \* the record: [primary, pending, since, grace, rotating]
    made,         \* secrets are numbered as they are generated; 0: not registered
    retired,      \* history: secrets replaced or cancelled
    now

vars == <<subscriber, made, retired, now>>

Init ==
    /\ subscriber = [primary |-> NoSecret, pending |-> NoSecret, since |-> 0,
                     grace |-> DefaultGrace, rotating |-> FALSE]
    /\ made = 0
    /\ retired = {}
    /\ now = 0

(* registerSubscriber *)
Register ==
    /\ made = 0
    /\ made' = 1
    /\ subscriber' = [subscriber EXCEPT !.primary = 1]
    /\ UNCHANGED <<retired, now>>

(* A second rotation may begin before the first has ended. *)
MayRotate_Fault(s) == TRUE

MayRotate(s) == ~s.rotating

(* initiateRotation: the period asked for is kept for later rotations. *)
InitiateRotation(grace) ==
    /\ made \in 1..MaxSecrets - 1
    /\ MayRotate(subscriber)
    /\ made' = made + 1
    /\ subscriber' = [subscriber EXCEPT !.pending = made + 1, !.since = now, !.grace = grace,
                                        !.rotating = TRUE]
    /\ UNCHANGED <<retired, now>>

Ended(s) == [s EXCEPT !.pending = NoSecret, !.since = 0, !.rotating = FALSE]

(* The rotation ends, and the old secret stays. *)
Promoted_Fault(s) == Ended(s)

Promoted(s) == Ended([s EXCEPT !.primary = s.pending])

(* finalizeRotation: also after the grace period. *)
FinalizeRotation ==
    /\ subscriber.rotating
    /\ subscriber' = Promoted(subscriber)
    /\ retired' = retired \cup {subscriber.primary}
    /\ UNCHANGED <<made, now>>

(* cancelRotation: also after the grace period, unless a verification came first. *)
CancelRotation ==
    /\ subscriber.rotating
    /\ subscriber' = Ended(subscriber)
    /\ retired' = retired \cup {subscriber.pending}
    /\ UNCHANGED <<made, now>>

(* The grace period counts from its end. *)
Expired_Fault(s) == s.rotating /\ now - s.since > s.grace

(* maybeExpirePending *)
Expired(s) == s.rotating /\ now - s.since >= s.grace

Effective(s) == IF Expired(s) THEN Promoted(s) ELSE s

(* verifySignature: the record it writes, and the secrets it accepts *)
Verify ==
    /\ made > 0
    /\ subscriber' = Effective(subscriber)
    /\ retired' = IF Expired(subscriber) THEN retired \cup {subscriber.primary} ELSE retired
    /\ UNCHANGED <<made, now>>

Accepted(s) ==
    LET e == Effective(s)
    IN  ({e.primary} \cup IF e.rotating THEN {e.pending} ELSE {}) \ {NoSecret}

Tick == now < MaxTime /\ now' = now + 1 /\ UNCHANGED <<subscriber, made, retired>>

Next ==
    \/ Register \/ FinalizeRotation \/ CancelRotation \/ Verify \/ Tick
    \/ \E grace \in GracePeriods : InitiateRotation(grace)

Spec == Init /\ [][Next]_vars

----------------------------------------------------------------------------
TypeOK ==
    /\ {subscriber.primary, subscriber.pending} \subseteq 1..made \cup {NoSecret}
    /\ subscriber.rotating <=> subscriber.pending # NoSecret
    /\ retired \subseteq 1..made

(* A subscriber that changes over within the grace period never has a        *)
(* signature refused: both secrets are accepted until the period has run out *)
(* or somebody ends the rotation.  From then on exactly one is: a secret     *)
(* that was replaced or taken back is never accepted again, however          *)
(* rotations, cancellations and lapsed periods follow each other.            *)
SecretsOverlap ==
    LET s == subscriber
        lapsed == IF s.rotating /\ now >= s.since + s.grace THEN {s.primary} ELSE {}
    IN  Accepted(s) = (1..made \ retired) \ lapsed
=============================================================================
