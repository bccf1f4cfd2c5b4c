------------------------------- MODULE Sublists -------------------------------
(***************************************************************************)
(* Lists that lose entries: every storage of the contract takes an id out  *)
(* of a list by writing back the entries that stay, in their order.        *)
(* SelectSeq and FlattenSeq say the same by recursion; here it is said     *)
(* without.                                                                *)
(***************************************************************************)
EXTENDS Integers, Sequences, FiniteSets

(* The entries of list at the positions kept: the n-th is at the position up  *)
(* to which n positions are kept.                                             *)
Sublist(list, kept) ==
    LET rank(m) == Cardinality({k \in kept : k <= m})
    IN  [n \in 1..Cardinality(kept) |-> list[CHOOSE m \in kept : rank(m) = n]]

Without(list, gone) == Sublist(list, {m \in DOMAIN list : list[m] \notin gone})

(* i is somewhere in front of j. *)
Before(list, i, j) ==
    \E m, n \in 1..Len(list) : m < n /\ list[m] = i /\ list[n] = j

(* The first entry of each kind. *)
Deduped(list) ==
    Sublist(list, {m \in DOMAIN list : \A k \in DOMAIN list : k < m => list[k] # list[m]})

(* The entries of all the lists, one list after the other: the n-th is where  *)
(* n places come no later.                                                    *)
Joined(lists) ==
    LET places == UNION {{n} \X DOMAIN lists[n] : n \in DOMAIN lists}
        rank(p) == Cardinality({q \in places : q[1] < p[1] \/ (q[1] = p[1] /\ q[2] <= p[2])})
    IN  [n \in 1..Cardinality(places) |->
            LET p == CHOOSE p \in places : rank(p) = n IN lists[p[1]][p[2]]]
=============================================================================
