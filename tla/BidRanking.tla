----------------------------- MODULE BidRanking -----------------------------
(***************************************************************************)
(* The order book of one invoice as the contract's readers see it: the     *)
(* best bid, the ranking, and the pages of the bid history.  No reader of  *)
(* the book is pure: each first expires the lapsed bids and drops them     *)
(* from the invoice's index (bid.rs, refresh_expired_bids), so the list a  *)
(* caller walks page by page changes under the walk: a page can miss a bid *)
(* that moved up meanwhile, but no page repeats one.                       *)
(*                                                                         *)
(* A bid id embeds the ledger timestamp and then a counter, most           *)
(* significant byte first: of two bids of one timestamp the later one has  *)
(* the greater id, so the model's id is the counter.                       *)
(***************************************************************************)
EXTENDS Integers, Sublists, SequencesExt

CONSTANTS
    Offers,         \* the pairs <<bid_amount, expected_return>> investors offer
    BidTTL,         \* life of a bid
    MaxQueryLimit,  \* the hard cap of a page
    Limits,         \* page sizes a caller asks for
    NoFilter,       \* Option::None
    MaxTime,        \* bound of the model: the last ledger timestamp
    MaxBids         \* bound of the model: bids placed

VARIABLES
    now,
    bids,    \* every bid, in the order of their ids
    book,    \* the invoice's index of bid ids
    reader   \* a caller walking through the bid history, page by page

vars == <<now, bids, book, reader>>

Status == {"Placed", "Withdrawn", "Accepted", "Expired", "Cancelled"}
Filter == {NoFilter, "Placed"}

BidRow == [amount : Nat, return : Nat, timestamp : 0..MaxTime, status : Status]
NotReading == [filter |-> NoFilter, limit |-> 0, offset |-> 0, seen |-> <<>>]

----------------------------------------------------------------------------
(* The comparator and the two algorithms that use it. *)

IsExpired(b) == now > b.timestamp + BidTTL

\* What compare_bids looks at, the most significant first.
Merit(id) == LET b == bids[id]
             IN <<b.return - b.amount, b.return, b.amount, b.timestamp, id>>

\* The fault: ties are not broken, so the first bid found wins.
Beats_Fault(id1, id2) ==
    \E i \in 1..3 : /\ Merit(id1)[i] > Merit(id2)[i]
                    /\ \A j \in 1..(i - 1) : Merit(id1)[j] = Merit(id2)[j]

\* compare_bids(bid1, bid2) is Greater.
Beats(id1, id2) ==
    \E i \in 1..5 : /\ Merit(id1)[i] > Merit(id2)[i]
                    /\ \A j \in 1..(i - 1) : Merit(id1)[j] = Merit(id2)[j]

\* The lapsed bids expire; they and those expired before leave the index.
Refreshed == [id \in DOMAIN bids |->
                IF id \in Range(book) /\ bids[id].status = "Placed" /\ IsExpired(bids[id])
                THEN [bids[id] EXCEPT !.status = "Expired"] ELSE bids[id]]
Pruned == Sublist(book, {n \in DOMAIN book : Refreshed[book[n]].status # "Expired"})
Refresh == bids' = Refreshed /\ book' = Pruned

\* The ids a getter works on: it refreshes the book before it reads it.
WithStatus(filter) ==
    Sublist(Pruned, {n \in DOMAIN Pruned : filter \in {NoFilter, Refreshed[Pruned[n]].status}})

\* One after the other, and the first one is better than none.
Best(ids) ==
    LET best[n \in 0..Len(ids)] ==
            IF n = 0 THEN 0
            ELSE IF best[n - 1] = 0 \/ Beats(ids[n], best[n - 1]) THEN ids[n] ELSE best[n - 1]
    IN best[Len(ids)]

\* The fault: the best bid is picked before the book is refreshed.
BestBid_Fault == Best(Sublist(book, {n \in DOMAIN book : bids[book[n]].status = "Placed"}))

BestBid == Best(WithStatus("Placed"))

BestIndex(ids) ==
    LET best[n \in 1..Len(ids)] ==
            IF n = 1 THEN 1 ELSE IF Beats(ids[n], ids[best[n - 1]]) THEN n ELSE best[n - 1]
    IN best[Len(ids)]

\* The best of what remains is moved to the end of the ranking, to the last.
Ranking ==
    LET placed == WithStatus("Placed")
        select[n \in 0..Len(placed)] ==
            IF n = 0 THEN [ranked |-> <<>>, remaining |-> placed]
            ELSE LET s == select[n - 1]
                     i == BestIndex(s.remaining)
                 IN [ranked    |-> Append(s.ranked, s.remaining[i]),
                     remaining |-> Sublist(s.remaining, DOMAIN s.remaining \ {i})]
    IN select[Len(placed)].ranked

----------------------------------------------------------------------------
(* Pages. *)

AtMost(a, b) == IF a < b THEN a ELSE b

\* The fault: the end is included.
PageBounds_Fault(offset, limit, size) ==
    LET start == AtMost(offset, size)
    IN <<start, AtMost(start + AtMost(limit, MaxQueryLimit) + 1, size)>>

\* calculate_safe_bounds: the first index past the offset and the last one.
PageBounds(offset, limit, size) ==
    LET start == AtMost(offset, size)
    IN <<start, AtMost(start + AtMost(limit, MaxQueryLimit), size)>>

Page(list, offset, limit) ==
    LET b == PageBounds(offset, limit, Len(list)) IN SubSeq(list, b[1] + 1, b[2])

\* The fault: the cap on the limit is forgotten.
HasMore_Fault(offset, limit, total) ==
    LET start == AtMost(offset, total)
    IN start + AtMost(limit, total - start) < total

HasMore(offset, limit, total) ==
    LET start == AtMost(offset, total)
    IN start + AtMost(AtMost(limit, MaxQueryLimit), total - start) < total

----------------------------------------------------------------------------
(* Actions. *)

Live(id) == bids[id].status = "Placed" /\ ~IsExpired(bids[id])
Reading == reader.limit > 0

\* An invoice with an accepted bid is no longer open to bids.
PlaceBid(offer) ==
    /\ Len(bids) < MaxBids
    /\ \A id \in DOMAIN bids : bids[id].status # "Accepted"
    /\ bids' = Append(Refreshed, [amount |-> offer[1], return |-> offer[2],
                                  timestamp |-> now, status |-> "Placed"])
    /\ book' = Append(Pruned, Len(bids) + 1)
    /\ UNCHANGED <<now, reader>>

\* Neither withdrawing nor cancelling refreshes the book.
CloseBid(id, status) ==
    /\ bids[id].status = "Placed"
    /\ bids' = [bids EXCEPT ![id].status = status]
    /\ UNCHANGED <<now, book, reader>>

AcceptBid(id) ==
    /\ Live(id)
    /\ \A other \in DOMAIN bids : bids[other].status # "Accepted"
    /\ bids' = [Refreshed EXCEPT ![id].status = "Accepted"]
    /\ book' = Pruned
    /\ UNCHANGED <<now, reader>>

\* get_best_bid, get_ranked_bids, get_bids_by_status, cleanup_expired_bids.
ReadBook ==
    /\ Refresh
    /\ UNCHANGED <<now, reader>>

StartPaging(filter, limit) ==
    /\ ~Reading
    /\ Refresh
    /\ LET list == WithStatus(filter)
       IN reader' = [filter |-> filter, limit |-> limit, offset |-> AtMost(limit, MaxQueryLimit),
                     seen |-> Page(list, 0, limit)]
    /\ UNCHANGED now

NextPage ==
    /\ Reading
    /\ LET list == WithStatus(reader.filter)
       IN /\ reader.offset < Len(list)
          /\ reader' = [reader EXCEPT !.offset = @ + AtMost(reader.limit, MaxQueryLimit),
                                      !.seen = @ \o Page(list, reader.offset, reader.limit)]
    /\ Refresh
    /\ UNCHANGED now

Tick == now < MaxTime /\ now' = now + 1 /\ UNCHANGED <<bids, book, reader>>

Init == now = 0 /\ bids = <<>> /\ book = <<>> /\ reader = NotReading

Next ==
    \/ \E offer \in Offers : PlaceBid(offer)
    \/ \E id \in DOMAIN bids :
         \/ \E status \in {"Withdrawn", "Cancelled"} : CloseBid(id, status)
         \/ AcceptBid(id)
    \/ ReadBook
    \/ \E filter \in Filter, limit \in Limits : StartPaging(filter, limit)
    \/ NextPage
    \/ Tick

Spec == Init /\ [][Next]_vars

----------------------------------------------------------------------------
(* Properties. *)

TypeOK ==
    /\ now \in 0..MaxTime
    /\ bids \in Seq(BidRow)
    /\ book \in Seq(DOMAIN bids)
    /\ reader.seen \in Seq(DOMAIN bids)

\* The ranking lists every live bid once, from better to worse, and the best
\* bid is the one it begins with: two algorithms over an index that holds
\* lapsed and closed bids agree (bid.rs, get_best_bid and rank_bids).
RankingAgrees ==
    LET ranked == Ranking IN
    /\ BestBid = IF ranked = <<>> THEN 0 ELSE Head(ranked)
    /\ IsInjective(ranked) /\ Range(ranked) = {id \in DOMAIN bids : Live(id)}
    /\ \A i, j \in DOMAIN ranked : i < j => Beats(ranked[i], ranked[j])

\* A walk through the bid history never returns a bid twice, whatever is
\* placed, closed or expires between two pages; and a walk that nothing
\* disturbs returns the whole list (investment_queries.rs, lib.rs).
PagesNeverRepeat ==
    /\ IsInjective(reader.seen)
    /\ \A limit \in Limits :
         LET list == WithStatus(NoFilter)
             step == AtMost(limit, MaxQueryLimit)
             walk[offset \in 0..(Len(list) + step)] ==
                 Page(list, offset, limit) \o
                 (IF HasMore(offset, limit, Len(list)) THEN walk[offset + step] ELSE <<>>)
         IN walk[0] = list

=============================================================================
