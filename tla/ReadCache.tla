------------------------------ MODULE ReadCache ------------------------------
(***************************************************************************)
(* The read-through cache (app/lib/cache/read-through-cache.ts) for the    *)
(* detail and the best bid of one invoice.  A fetch is an await: the       *)
(* invoice may change, and an event evict the key, before its answer is    *)
(* stored.  The store answers at once, as the one in memory does.          *)
(***************************************************************************)
EXTENDS Integers, FiniteSets

CONSTANTS
    Calls,        \* bound of the model: fetches under way at a time
    Ttl,          \* default_ttl_ms
    Latency,      \* assumed: no fetch takes longer
    MaxVersion,   \* bound of the model: changes of the invoice
    MaxTime       \* bound of the model: the clock

VARIABLES
    serveStale,   \* config.serve_stale
    version,      \* key -> what the chain has
    unseen,       \* events of changes that the indexer has not passed on
    cached,       \* key -> the entry, a set of at most one
    call,         \* caller -> its fetch
    now,
    announced     \* history: key -> version up to which events should have evicted it

vars == <<serveStale, version, unseen, cached, call, now, announced>>

Caller == 1..Calls

Key == {"invoice", "best_bid"}

NoCall == [step |-> "none", key |-> "invoice", from |-> 0, value |-> 0, read |-> 0, background |-> FALSE]

Init ==
    /\ serveStale \in BOOLEAN
    /\ version = [k \in Key |-> 0]
    /\ unseen = {}
    /\ cached = [k \in Key |-> {}]
    /\ call = [c \in Caller |-> NoCall]
    /\ now = 0
    /\ announced = [k \in Key |-> 0]

(* The keys an event type stands for a change of. *)
Concerns(type) == IF type = "bid" THEN {"best_bid"} ELSE Key

(* An event of the invoice leaves the best bid. *)
Evicts_Fault(type) ==
    CASE type = "invoice" -> {"invoice"}
      [] type = "bid"     -> {"best_bid"}
      [] OTHER            -> {}

(* invalidateOnEvent: escrow events are in neither list. *)
Evicts(type) ==
    CASE type = "invoice" -> Key
      [] type = "bid"     -> {"best_bid"}
      [] OTHER            -> {}

(* The chain changes and emits an event. *)
Change(type) ==
    /\ \A k \in Key : version[k] < MaxVersion
    /\ version' = [k \in Key |-> IF k \in Concerns(type) THEN version[k] + 1 ELSE version[k]]
    /\ unseen' = unseen \cup {[type |-> type, version |-> version']}
    /\ UNCHANGED <<serveStale, cached, call, now, announced>>

(* invalidateOnEvent, called by the indexer.  announced follows the events   *)
(* the code has in its lists.                                                *)
Invalidate(e) ==
    /\ unseen' = unseen \ {e}
    /\ cached' = [k \in Key |-> IF k \in Evicts(e.type) THEN {} ELSE cached[k]]
    /\ announced' =
          [k \in Key |->
              IF e.type # "escrow" /\ k \in Concerns(e.type) /\ e.version[k] > announced[k]
                 THEN e.version[k] ELSE announced[k]]
    /\ UNCHANGED <<serveStale, version, call, now>>

(* An entry lasts one moment longer. *)
IsStale_Fault(entry) == now > entry.expires + 1

IsStale(entry) == now > entry.expires

(* The first place that is free. *)
Free(c) == call[c].step = "none" /\ \A d \in Caller : d < c => call[d].step # "none"

(* get of a key whose entry is stale, where that may be served: the entry is *)
(* the answer, marked, and a refresh begins in the background.  Of an entry  *)
(* that is not stale get returns the value and changes nothing.              *)
Revalidate(c, k) ==
    /\ serveStale /\ Free(c)
    /\ \E entry \in cached[k] : IsStale(entry)
    /\ call' = [call EXCEPT ![c] = [NoCall EXCEPT !.step = "asked", !.key = k, !.from = now,
                                                 !.background = TRUE]]
    /\ UNCHANGED <<serveStale, version, unseen, cached, now, announced>>

(* get of a key that is not cached, or stale: up to the await of the fetch *)
Miss(c, k) ==
    /\ Free(c)
    /\ \A entry \in cached[k] : IsStale(entry) /\ ~serveStale
    /\ call' = [call EXCEPT ![c] = [NoCall EXCEPT !.step = "asked", !.key = k, !.from = now]]
    /\ UNCHANGED <<serveStale, version, unseen, cached, now, announced>>

(* The chain answers the fetch. *)
Read(c) ==
    /\ call[c].step = "asked"
    /\ call' = [call EXCEPT ![c].step = "read", ![c].value = version[call[c].key], ![c].read = now]
    /\ UNCHANGED <<serveStale, version, unseen, cached, now, announced>>

(* The time is taken when the value is stored, as a refresh does. *)
CachedAt_Fault(f) == now

(* get takes the time before the fetch, _revalidate after it. *)
CachedAt(f) == IF f.background THEN now ELSE f.from

(* _set, with what the fetch returned *)
Fill(c) ==
    LET f == call[c] IN
    /\ f.step = "read"
    /\ cached' = [cached EXCEPT ![f.key] =
          {[value |-> f.value, read |-> f.read, expires |-> CachedAt(f) + Ttl,
            overtaken |-> f.value < announced[f.key]]}]
    /\ call' = [call EXCEPT ![c] = NoCall]
    /\ UNCHANGED <<serveStale, version, unseen, now, announced>>

(* The fetcher throws: nothing is cached. *)
FetchFails(c) ==
    /\ call[c].step = "asked"
    /\ call' = [call EXCEPT ![c] = NoCall]
    /\ UNCHANGED <<serveStale, version, unseen, cached, now, announced>>

(* flush, after a full re-index *)
Flush ==
    /\ cached' = [k \in Key |-> {}]
    /\ UNCHANGED <<serveStale, version, unseen, call, now, announced>>

Tick ==
    /\ now < MaxTime
    /\ \A c \in Caller : call[c].step # "none" => now < call[c].from + Latency
    /\ now' = now + 1
    /\ UNCHANGED <<serveStale, version, unseen, cached, call, announced>>

Next ==
    \/ \E type \in {"invoice", "bid", "escrow"} : Change(type)
    \/ \E e \in unseen : Invalidate(e)
    \/ \E c \in Caller, k \in Key : Revalidate(c, k) \/ Miss(c, k)
    \/ \E c \in Caller : Read(c) \/ Fill(c) \/ FetchFails(c)
    \/ Flush \/ Tick

Spec == Init /\ [][Next]_vars

----------------------------------------------------------------------------
TypeOK ==
    /\ \A k \in Key : Cardinality(cached[k]) <= 1 /\ announced[k] <= version[k]
    /\ \A c \in Caller : call[c].step \in {"none", "asked", "read"}

(* What get would return without a mark was read on the chain at most the   *)
(* time to live ago, whatever fetches and events were under way; where stale *)
(* answers are allowed, a refresh may add the time its fetch took.           *)
UnmarkedIsFresh ==
    \A k \in Key : \A entry \in cached[k] :
        ~IsStale(entry) => now - entry.read <= Ttl + (IF serveStale THEN Latency ELSE 0)

(* An event clears what is older than it from the cache.  The one way for    *)
(* such a value to be there is a fetch that began before the event and ended *)
(* after it.                                                                 *)
EvictedUnlessOvertaken ==
    \A k \in Key : \A entry \in cached[k] : entry.value < announced[k] => entry.overtaken

(* The answers a caller gets are as good as the cache promises. *)
CacheFresh == UnmarkedIsFresh /\ EvictedUnlessOvertaken
=============================================================================
