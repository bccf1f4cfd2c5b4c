---------------------------- MODULE Notifications ----------------------------
(***************************************************************************)
(* Notifications (notifications.rs): what is stored for whom, the          *)
(* preferences that block it, and the status anybody may set.  Of the      *)
(* helpers only notify_payment_overdue is called by the contract, from the *)
(* overdue scan (defaults.rs), which ignores its error; the others are in  *)
(* the tables for the code that will call them, but for                    *)
(* notify_invoice_status_changed, whose priority depends on the status.    *)
(***************************************************************************)
EXTENDS Integers, Sequences, FiniteSets, Functions

CONSTANTS
    Invoice,
    NoOne,          \* an invoice without investor
    Business,       \* [Invoice -> address]
    Investor,       \* [Invoice -> address or NoOne]
    Raised,         \* the helpers that are called: {"PaymentOverdue"}
    Wishes,         \* preferences users choose: [types, minimum]
    MaxTime,        \* bound of the model: the clock
    MaxListed       \* bound of the model: notifications of a user

VARIABLES
    notice,         \* id -> the notification stored under it
    listed,         \* user -> the ids of its notifications
    preferences,    \* user -> [types, minimum]
    now

vars == <<notice, listed, preferences, now>>

User == (Range(Business) \cup Range(Investor)) \ {NoOne}

Priorities == <<"Low", "Medium", "High", "Critical">>

Statuses == {"Pending", "Sent", "Delivered", "Failed", "Read"}

Types ==
    {"InvoiceCreated", "InvoiceVerified", "InvoiceStatusChanged", "BidReceived",
     "BidAccepted", "PaymentReceived", "PaymentOverdue", "InvoiceDefaulted",
     "SystemAlert", "General"}

Unsent == [status |-> "None"]

(* Nobody has chosen preferences: everything but General, from Medium on. *)
DefaultForUser == [types |-> Types \ {"General"}, minimum |-> "Medium"]

Init ==
    /\ notice = [id \in 0..MaxTime |-> Unsent]
    /\ listed = [u \in User |-> <<>>]
    /\ preferences = [u \in User |-> DefaultForUser]
    /\ now = 0

Level(p) == CHOOSE n \in DOMAIN Priorities : Priorities[n] = p

(* The preferences are those of whoever made the call. *)
ShouldNotify_Fault(u, type, priority) == \E v \in User : type \in preferences[v].types

ShouldNotify(u, type, priority) ==
    /\ Level(priority) >= Level(preferences[u].minimum)
    /\ type \in preferences[u].types

(* The helpers: whom they notify, in this order, and how urgently. *)
PriorityOf(type) ==
    CASE type \in {"PaymentOverdue", "InvoiceDefaulted"}                -> "Critical"
      [] type \in {"InvoiceVerified", "BidAccepted", "PaymentReceived"} -> "High"
      [] type \in {"InvoiceCreated", "BidReceived"}                     -> "Medium"

Audience(type, i) ==
    LET business == <<Business[i]>>
        investor == IF Investor[i] = NoOne THEN <<>> ELSE <<Investor[i]>>
    IN  CASE type \in {"PaymentOverdue", "InvoiceDefaulted", "PaymentReceived"}
                                                -> business \o investor
          [] type = "BidAccepted"               -> investor
          [] OTHER                              -> business

(* The first who is blocked ends the call: those after it are not notified,  *)
(* those before it have been.                                                *)
Notified(type, i) ==
    LET audience == Audience(type, i)
        blocked  == {n \in DOMAIN audience :
                        ~ShouldNotify(audience[n], type, PriorityOf(type))}
    IN  SubSeq(audience, 1,
            IF blocked = {} THEN Len(audience)
            ELSE CHOOSE n \in 0..Len(audience) : n + 1 \in blocked /\ \A m \in blocked : n < m)

Notification(type, i, recipient) ==
    [status |-> "Pending", recipient |-> recipient, type |-> type, invoice |-> i,
     createdAt |-> now, deliveredAt |-> -1, readAt |-> -1]

(* create_notification for each of them.  The id is the hash of the time of  *)
(* the ledger: it is the same for all notifications of that time, and the    *)
(* last one is what is stored under it.                                      *)
Notify(type, i) ==
    LET told == Notified(type, i) IN
    /\ told # <<>>
    /\ \A u \in Range(told) : Len(listed[u]) < MaxListed
    /\ notice' = [notice EXCEPT ![now] = Notification(type, i, told[Len(told)])]
    /\ listed' = [u \in User |-> IF u \in Range(told) THEN Append(listed[u], now) ELSE listed[u]]
    /\ UNCHANGED <<preferences, now>>

(* update_notification_status: anybody, any status in any order. *)
UpdateStatus(id, status) ==
    /\ notice[id] # Unsent
    /\ notice' = [notice EXCEPT ![id] =
          CASE status = "Sent"      -> [@ EXCEPT !.status = status, !.deliveredAt = now]
            [] status = "Delivered" -> [@ EXCEPT !.status = status,
                                            !.deliveredAt = IF @ < 0 THEN now ELSE @]
            [] status = "Read"      -> [@ EXCEPT !.status = status, !.readAt = now]
            [] status = "Failed"    -> [@ EXCEPT !.status = status]
            [] OTHER                -> @]
    /\ UNCHANGED <<listed, preferences, now>>

UpdatePreferences(u, wish) ==
    /\ preferences' = [preferences EXCEPT ![u] = wish]
    /\ UNCHANGED <<notice, listed, now>>

Tick == now < MaxTime /\ now' = now + 1 /\ UNCHANGED <<notice, listed, preferences>>

Next ==
    \/ Tick
    \/ \E type \in Raised, i \in Invoice : Notify(type, i)
    \/ \E id \in DOMAIN notice, status \in Statuses : UpdateStatus(id, status)
    \/ \E u \in User, wish \in Wishes : UpdatePreferences(u, wish)

Spec == Init /\ [][Next]_vars

----------------------------------------------------------------------------
(* get_user_notification_stats: a status counts as those before it. *)
Stats(u) ==
    LET Has(statuses) == Cardinality({n \in DOMAIN listed[u] :
                                         notice[listed[u][n]].status \in statuses})
    IN  [sent      |-> Has({"Sent", "Delivered", "Read"}),
         delivered |-> Has({"Delivered", "Read"}),
         read      |-> Has({"Read"}),
         failed    |-> Has({"Failed"})]

TypeOK ==
    /\ now \in 0..MaxTime
    /\ \A id \in DOMAIN notice : notice[id].status \in Statuses \cup {"None"}
    /\ \A u \in User :
          /\ preferences[u].types \subseteq Types
          /\ \A n \in DOMAIN listed[u] : notice[listed[u][n]] # Unsent

(* A user's own preferences decide what reaches it: nothing of a type it has *)
(* turned off is added to its notifications, on whomever else's account the  *)
(* notification was raised.                                                  *)
OptOutRespected ==
    [][\A u \in User :
          Raised \cap preferences[u].types = {} => listed'[u] = listed[u]]_vars
=============================================================================
