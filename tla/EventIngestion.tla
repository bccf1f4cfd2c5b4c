--------------------------- MODULE EventIngestion ---------------------------
(***************************************************************************)
(* The indexer's MonotonicIngester (app/lib/indexer/cursor.ts) and what    *)
(* lies between its awaits: the consumer handles an event, the store takes *)
(* the cursor, the ingester notes it.  The process may die in between and  *)
(* the source may deliver any event of the chain at any time: again, out   *)
(* of order, or not at all.  As in the usage of cursor.ts one call is      *)
(* awaited before the next and a restart begins with resume.               *)
(***************************************************************************)
EXTENDS Naturals, Sequences, Functions

CONSTANTS
    Chain,        \* the events of the chain, a sequence of [ledger, tx, index]
    NoCursor,     \* null
    MaxHandled    \* bound of the model: events handled

VARIABLES
    stored,       \* the CursorStore, which outlives the process
    lastCursor,   \* the ingester's copy
    halted,
    doing,        \* "down", "idle", or where the call of ingest waits
    incoming,     \* the event of that call
    handled       \* history: the events handled, in this order

vars == <<stored, lastCursor, halted, doing, incoming, handled>>

Init ==
    /\ stored = NoCursor
    /\ lastCursor = NoCursor
    /\ halted = FALSE
    /\ doing = "down"
    /\ incoming = NoCursor
    /\ handled = <<>>

(* A later event of the same ledger will do. *)
Compare_Fault(current, next) ==
    CASE next.ledger < current.ledger                              -> "before"
      [] next.ledger = current.ledger /\ next.index < current.index -> "before"
      [] next.ledger = current.ledger /\ next.index = current.index -> "equal"
      [] next.ledger = current.ledger /\ next.index > current.index -> "after"
      [] OTHER -> IF next.ledger = current.ledger + 1 /\ next.index = 0 THEN "after" ELSE "gap"

(* compareCursors: the transaction is not looked at. *)
Compare(current, next) ==
    CASE next.ledger < current.ledger                              -> "before"
      [] next.ledger = current.ledger /\ next.index < current.index -> "before"
      [] next.ledger = current.ledger /\ next.index = current.index -> "equal"
      [] next.ledger = current.ledger /\ next.index = current.index + 1 -> "after"
      [] next.ledger = current.ledger + 1 /\ next.index = 0         -> "after"
      [] OTHER                                                     -> "gap"

(* The ingester starts at the first event it gets. *)
Resumed_Fault == NoCursor

Resumed == stored

(* resume, after a start or when halted *)
Resume ==
    /\ doing \in {"down", "idle"}
    /\ lastCursor' = Resumed
    /\ halted' = FALSE
    /\ doing' = "idle"
    /\ UNCHANGED <<stored, incoming, handled>>

Accepts(e) == IF lastCursor = NoCursor THEN TRUE ELSE Compare(lastCursor, e) = "after"

(* The cursor is stored first. *)
Steps_Fault == <<"storing", "handling", "noting">>

(* _accept: what it awaits, and the assignment at its end *)
Steps == <<"handling", "storing", "noting">>

(* ingest of the next event *)
Accept(e) ==
    /\ doing = "idle" /\ ~halted
    /\ Accepts(e)
    /\ Len(handled) < MaxHandled
    /\ doing' = Steps[1]
    /\ incoming' = e
    /\ UNCHANGED <<stored, lastCursor, halted, handled>>

(* ingest of another event: a duplicate is skipped, anything else halts. *)
Refuse(e) ==
    /\ doing = "idle" /\ ~halted
    /\ ~Accepts(e)
    /\ halted' = (Compare(lastCursor, e) # "equal")
    /\ UNCHANGED <<stored, lastCursor, doing, incoming, handled>>

(* From step to the one after it. *)
Proceed(step) ==
    /\ doing = step
    /\ doing' = Steps[CHOOSE n \in 2..3 : Steps[n - 1] = step]

(* onAccept has done its work. *)
Handle ==
    /\ Proceed("handling")
    /\ handled' = Append(handled, incoming)
    /\ UNCHANGED <<stored, lastCursor, halted, incoming>>

(* setLastCursor has written; its answer may still be lost. *)
Store ==
    /\ Proceed("storing")
    /\ stored' = incoming
    /\ UNCHANGED <<lastCursor, halted, incoming, handled>>

Note ==
    /\ doing = "noting"
    /\ lastCursor' = incoming
    /\ doing' = "idle"
    /\ incoming' = NoCursor
    /\ UNCHANGED <<stored, halted, handled>>

(* The process dies, or onAccept or the store fails, which ends the loop     *)
(* over the events.                                                          *)
Crash ==
    /\ doing # "down"
    /\ doing' = "down"
    /\ lastCursor' = NoCursor
    /\ halted' = FALSE
    /\ incoming' = NoCursor
    /\ UNCHANGED <<stored, handled>>

Next ==
    \/ \E e \in Range(Chain) : Accept(e) \/ Refuse(e)
    \/ Resume \/ Handle \/ Store \/ Note \/ Crash

Spec == Init /\ [][Next]_vars

----------------------------------------------------------------------------
TypeOK ==
    /\ {stored, lastCursor, incoming} \subseteq Range(Chain) \cup {NoCursor}
    /\ doing \in {"down", "idle"} \cup Range(Steps)
    /\ halted => doing = "idle"
    /\ Len(handled) <= MaxHandled

(* The position after p, in the ledger or at the start of the next one. *)
IsNext(p, q) ==
    \/ q.ledger = p.ledger /\ q.index = p.index + 1
    \/ q.ledger = p.ledger + 1 /\ q.index = 0

(* A crash loses no event: what the store says has been handled. *)
CommittedWasHandled == stored # NoCursor => stored \in Range(handled)

(* Between two calls the ingester compares with what the store says. *)
CopyFollowsStore == doing = "idle" => lastCursor = stored

(* It repeats none but the one it interrupted: what is handled comes right   *)
(* after what is stored.                                                     *)
HandledOnce ==
    [][handled' # handled /\ stored # NoCursor => IsNext(stored, handled'[Len(handled')])]_vars

(* The stored cursor moves one position at a time, and never back. *)
CursorMovesOn == [][stored' # stored /\ stored # NoCursor => IsNext(stored, stored')]_vars

(* Restarts neither lose an event nor repeat one that was committed. *)
EventsOnce == [](CommittedWasHandled /\ CopyFollowsStore) /\ HandledOnce /\ CursorMovesOn
=============================================================================
