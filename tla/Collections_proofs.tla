--------------------------- MODULE Collections_proofs ---------------------------
(***************************************************************************)
(* What the lists of the contract keep when entries leave them or join     *)
(* them: the order, the absence of repetitions, and how often each entry   *)
(* occurs; and what sums of amounts do when one of them changes.           *)
(***************************************************************************)
EXTENDS Sublists, Sums, SequencesExt, FiniteSetTheorems, FunctionTheorems,
        SequenceTheorems, WellFoundedInduction, TLAPS

Occurrences(list, i) == {n \in DOMAIN list : list[n] = i}

----------------------------------------------------------------------------
(* Ranks. *)

Rank(kept, m) == Cardinality({k \in kept : k <= m})

Nth(kept, n) == CHOOSE m \in kept : Rank(kept, m) = n

LEMMA SublistIs ==
    ASSUME NEW list, NEW kept
    PROVE  Sublist(list, kept) = [n \in 1..Cardinality(kept) |-> list[Nth(kept, n)]]
BY DEF Sublist, Rank, Nth

LEMMA PositionsFinite ==
    ASSUME NEW S, NEW list \in Seq(S), NEW kept \in SUBSET DOMAIN list
    PROVE  /\ kept \in SUBSET Nat
           /\ IsFiniteSet(kept) /\ Cardinality(kept) \in Nat
<1>1. DOMAIN list = 1..Len(list) /\ Len(list) \in Nat
  OBVIOUS
<1>2. IsFiniteSet(1..Len(list))
  BY <1>1, FS_Interval
<1> QED BY <1>1, <1>2, FS_Subset, FS_CardinalityType

(* A position that is kept has a rank, and a later one a higher rank. *)
LEMMA Ranks ==
    ASSUME NEW kept \in SUBSET Nat, IsFiniteSet(kept)
    PROVE  /\ \A m \in kept : Rank(kept, m) \in 1..Cardinality(kept)
           /\ \A m, k \in kept : m < k => Rank(kept, m) < Rank(kept, k)
<1> DEFINE first(m) == {k \in kept : k <= m}
<1>1. Cardinality(kept) \in Nat
  BY FS_CardinalityType
<1>2. \A m : /\ IsFiniteSet(first(m)) /\ Cardinality(first(m)) \in Nat
             /\ Cardinality(first(m)) <= Cardinality(kept)
  <2> TAKE m
  <2>1. first(m) \in SUBSET kept
    OBVIOUS
  <2> HIDE DEF first
  <2> QED BY <1>1, <2>1, FS_Subset, FS_CardinalityType
<1>3. ASSUME NEW m \in kept PROVE Rank(kept, m) \in 1..Cardinality(kept)
  <2>1. m \in first(m)
    OBVIOUS
  <2>2. first(m) # {}
    BY <2>1
  <2> HIDE DEF first
  <2>3. Cardinality(first(m)) # 0
    BY <1>2, <2>2, FS_EmptySet
  <2>4. Cardinality(first(m)) \in 1..Cardinality(kept)
    BY <1>1, <1>2, <2>3
  <2> QED BY <2>4 DEF first, Rank
<1>4. ASSUME NEW m \in kept, NEW k \in kept, m < k PROVE Rank(kept, m) < Rank(kept, k)
  <2>1. first(m) \in SUBSET first(k) /\ k \in first(k) /\ k \notin first(m)
    <3>1. m \in Nat /\ k \in Nat /\ \A x \in kept : x \in Nat
      OBVIOUS
    <3>2. \A x \in kept : x <= m => x <= k
      BY <1>4, <3>1
    <3>3. ~(k <= m)
      BY <1>4, <3>1
    <3>4. k <= k
      BY <3>1
    <3>5. first(m) \in SUBSET first(k)
      BY <3>2
    <3>6. k \in first(k) /\ k \notin first(m)
      BY <3>3, <3>4
    <3> QED BY <3>5, <3>6
  <2>2. first(m) # first(k)
    BY <2>1
  <2> HIDE DEF first
  <2>3. Cardinality(first(m)) <= Cardinality(first(k)) /\ Cardinality(first(m)) # Cardinality(first(k))
    BY <1>2, <2>1, <2>2, FS_Subset
  <2>4. Cardinality(first(m)) < Cardinality(first(k))
    BY <1>2, <2>3
  <2> QED BY <2>4 DEF first, Rank
<1> QED BY <1>3, <1>4

(* Every rank is that of one position. *)
LEMMA NthIs ==
    ASSUME NEW kept \in SUBSET Nat, IsFiniteSet(kept), NEW n \in 1..Cardinality(kept)
    PROVE  Nth(kept, n) \in kept /\ Rank(kept, Nth(kept, n)) = n
<1> DEFINE T == 1..Cardinality(kept)
           rank == [m \in kept |-> Rank(kept, m)]
<1>1. /\ Cardinality(kept) \in Nat
      /\ IsFiniteSet(T) /\ Cardinality(T) = Cardinality(kept)
  BY FS_CardinalityType, FS_Interval
<1>2. rank \in Injection(kept, T)
  <2>1. \A m \in kept : Rank(kept, m) \in T
    BY Ranks
  <2>2. \A m, k \in kept : m # k => Rank(kept, m) # Rank(kept, k)
    <3> SUFFICES ASSUME NEW m \in kept, NEW k \in kept, m < k
                 PROVE  Rank(kept, m) < Rank(kept, k)
      BY <1>1, <2>1
    <3> QED BY Ranks
  <2> QED BY <2>1, <2>2, Fun_IsInj
<1> HIDE DEF T, rank
<1>3. rank \in Surjection(kept, T)
  BY <1>1, <1>2, FS_Injection
<1>4. PICK m \in kept : rank[m] = n
  BY <1>3 DEF Surjection, T
<1>5. Rank(kept, m) = n
  BY <1>4 DEF rank
<1> QED BY <1>5 DEF Nth

----------------------------------------------------------------------------
(* A sublist, by the increasing bijection between its positions and those     *)
(* kept.                                                                      *)
LEMMA SublistPositions ==
    ASSUME NEW S, NEW list \in Seq(S), NEW kept \in SUBSET DOMAIN list
    PROVE  /\ Sublist(list, kept) \in Seq(S)
           /\ DOMAIN Sublist(list, kept) = 1..Cardinality(kept)
           /\ Len(Sublist(list, kept)) = Cardinality(kept)
           /\ \A n \in 1..Cardinality(kept) :
                 Nth(kept, n) \in kept /\ Sublist(list, kept)[n] = list[Nth(kept, n)]
           /\ \A m, n \in 1..Cardinality(kept) : m < n => Nth(kept, m) < Nth(kept, n)
           /\ \A k \in kept : \E n \in 1..Cardinality(kept) : Nth(kept, n) = k
<1> DEFINE size == Cardinality(kept)
           at(n) == Nth(kept, n)
           sub == Sublist(list, kept)
<1>1. /\ kept \in SUBSET Nat /\ IsFiniteSet(kept) /\ size \in Nat
      /\ \A m \in kept : list[m] \in S
  BY PositionsFinite
<1>2. sub = [n \in 1..size |-> list[at(n)]]
  BY SublistIs
<1>3. \A n \in 1..size : at(n) \in kept /\ Rank(kept, at(n)) = n
  BY <1>1, NthIs
<1>4. \A m, n \in 1..size : m < n => at(m) < at(n)
  <2> SUFFICES ASSUME NEW m \in 1..size, NEW n \in 1..size, at(n) <= at(m) PROVE n <= m
    BY <1>1, <1>3
  <2> HIDE DEF at, size
  <2>1. at(n) = at(m) \/ at(n) < at(m)
    BY <1>1, <1>3
  <2>2. at(n) < at(m) => Rank(kept, at(n)) < Rank(kept, at(m))
    BY <1>1, <1>3, Ranks
  <2> QED BY <1>1, <1>3, <2>1, <2>2
<1>5. ASSUME NEW k \in kept PROVE \E n \in 1..size : at(n) = k
  <2>1. Rank(kept, k) \in 1..size
    BY <1>1, Ranks
  <2> DEFINE n == Rank(kept, k)
  <2>2. at(n) \in kept /\ Rank(kept, at(n)) = Rank(kept, k)
    BY <1>3, <2>1
  <2>3. at(n) = k
    <3> HIDE DEF at, size, n
    <3>1. /\ at(n) < k => Rank(kept, at(n)) < Rank(kept, k)
          /\ k < at(n) => Rank(kept, k) < Rank(kept, at(n))
      BY <1>1, <2>2, Ranks
    <3>2. Rank(kept, k) \in Int
      BY <2>1
    <3> QED BY <1>1, <2>2, <3>1, <3>2
  <2> QED BY <2>1, <2>3
<1> HIDE DEF at, size, sub
<1>6. sub \in Seq(S) /\ Len(sub) = size /\ DOMAIN sub = 1..size /\ \A n \in 1..size : sub[n] = list[at(n)]
  BY <1>1, <1>2, <1>3
<1> QED BY <1>3, <1>4, <1>5, <1>6 DEF at, size, sub

(* All of a list, and none of it. *)
LEMMA SublistAll ==
    ASSUME NEW S, NEW list \in Seq(S)
    PROVE  Sublist(list, DOMAIN list) = list
<1> DEFINE N == Len(list)
           all == 1..N
<1>1. N \in Nat /\ DOMAIN list = all /\ list = [n \in all |-> list[n]]
  BY SeqDef
<1>2. IsFiniteSet(all) /\ Cardinality(all) = N /\ all \in SUBSET Nat
  <2>1. N \in Int /\ 1 \in Int
    BY <1>1
  <2>2. /\ IsFiniteSet(1..N)
        /\ Cardinality(1..N) = IF 1 > N THEN 0 ELSE N - 1 + 1
    BY <2>1, FS_Interval
  <2> QED BY <1>1, <2>2
<1>3. ASSUME NEW m \in all PROVE Rank(all, m) = m
  <2>1. {k \in all : k <= m} = 1..m /\ m \in Nat
    BY <1>1
  <2>2. Cardinality(1..m) = m
    BY <2>1, FS_Interval
  <2> QED BY <2>1, <2>2 DEF Rank
<1>4. ASSUME NEW n \in all PROVE Nth(all, n) = n
  BY <1>2, <1>3, NthIs
<1> HIDE DEF N, all
<1>5. Sublist(list, all) = [n \in all |-> list[Nth(all, n)]]
  BY <1>2, SublistIs DEF all
<1>6. [n \in all |-> list[Nth(all, n)]] = [n \in all |-> list[n]]
  BY <1>4
<1> QED BY <1>1, <1>5, <1>6

LEMMA SublistNone == ASSUME NEW list PROVE Sublist(list, {}) = <<>>
<1>1. Cardinality({}) = 0
  BY FS_EmptySet
<1>2. Sublist(list, {}) = [n \in 1..0 |-> list[Nth({}, n)]]
  BY <1>1, SublistIs
<1> QED BY <1>2

(* Each entry occurs as often as at the positions kept. *)
LEMMA SublistOccurrences ==
    ASSUME NEW S, NEW list \in Seq(S), NEW kept \in SUBSET DOMAIN list, NEW i
    PROVE  /\ IsFiniteSet(Occurrences(Sublist(list, kept), i))
           /\ Cardinality(Occurrences(Sublist(list, kept), i)) =
                  Cardinality({m \in kept : list[m] = i})
<1> DEFINE size == Cardinality(kept)
           at(n) == Nth(kept, n)
           sub == Sublist(list, kept)
           from == Occurrences(sub, i)
           to == {m \in kept : list[m] = i}
           f == [n \in from |-> at(n)]
<1>1. /\ kept \in SUBSET Nat /\ IsFiniteSet(kept) /\ size \in Nat
  BY PositionsFinite
<1>2. /\ sub \in Seq(S) /\ DOMAIN sub = 1..size
      /\ \A n \in 1..size : at(n) \in kept /\ sub[n] = list[at(n)]
      /\ \A m, n \in 1..size : m < n => at(m) < at(n)
      /\ \A k \in kept : \E n \in 1..size : at(n) = k
  BY SublistPositions
<1> HIDE DEF at, size, sub
<1>3. from \in SUBSET (1..size)
  BY <1>2 DEF Occurrences
<1>4. IsFiniteSet(from)
  BY <1>1, <1>3, FS_Interval, FS_Subset
<1>5. \A n \in from : at(n) \in to
  BY <1>2 DEF Occurrences
<1>6. \A k \in to : \E n \in from : at(n) = k
  BY <1>2 DEF Occurrences
<1>7. \A m, n \in from : at(m) = at(n) => m = n
  <2> SUFFICES ASSUME NEW m \in from, NEW n \in from, m < n PROVE at(m) # at(n)
    BY <1>1, <1>3
  <2>1. /\ m \in 1..size /\ n \in 1..size
    BY <1>3
  <2>2. at(m) < at(n) /\ at(m) \in Nat /\ at(n) \in Nat
    BY <1>1, <1>2, <2>1
  <2> QED BY <2>2
<1> HIDE DEF from, to
<1>8. f \in Bijection(from, to)
  BY <1>5, <1>6, <1>7, Fun_IsBij
<1>9. Cardinality(from) = Cardinality(to)
  BY <1>4, <1>8, FS_Bijection DEF ExistsBijection
<1> QED BY <1>4, <1>9 DEF from, to, sub

(* A sublist of a list without repetitions has none. *)
LEMMA SublistOrder ==
    ASSUME NEW S, NEW list \in Seq(S), NEW kept \in SUBSET DOMAIN list
    PROVE  /\ Sublist(list, kept) \in Seq(S)
           /\ \A i, j : Before(Sublist(list, kept), i, j) => Before(list, i, j)
           /\ \A i : Contains(Sublist(list, kept), i) <=> \E m \in kept : list[m] = i
           /\ (\A m, k \in kept : list[m] = list[k] => m = k) => IsInjective(Sublist(list, kept))
<1> DEFINE size == Cardinality(kept)
           at(n) == Nth(kept, n)
           sub == Sublist(list, kept)
<1>1. /\ kept \in SUBSET (1..Len(list)) /\ Len(list) \in Nat /\ size \in Nat
  BY PositionsFinite
<1>2. /\ sub \in Seq(S) /\ DOMAIN sub = 1..size /\ Len(sub) = size
      /\ \A n \in 1..size : at(n) \in kept /\ sub[n] = list[at(n)]
      /\ \A m, n \in 1..size : m < n => at(m) < at(n)
      /\ \A k \in kept : \E n \in 1..size : at(n) = k
  BY SublistPositions
<1> HIDE DEF at, size, sub
<1>3. \A i, j : Before(sub, i, j) => Before(list, i, j)
  <2> SUFFICES ASSUME NEW i, NEW j, NEW m \in 1..size, NEW n \in 1..size,
                      m < n, sub[m] = i, sub[n] = j
               PROVE  Before(list, i, j)
    BY <1>2 DEF Before
  <2>1. /\ at(m) \in 1..Len(list) /\ at(n) \in 1..Len(list) /\ at(m) < at(n)
        /\ list[at(m)] = i /\ list[at(n)] = j
    BY <1>1, <1>2
  <2> QED BY <2>1 DEF Before
<1>4. \A i : Contains(sub, i) <=> \E m \in kept : list[m] = i
  BY <1>2 DEF Contains
<1>5. ASSUME \A m, k \in kept : list[m] = list[k] => m = k PROVE IsInjective(sub)
  <2> SUFFICES ASSUME NEW m \in 1..size, NEW n \in 1..size, sub[m] = sub[n], m < n PROVE FALSE
    BY <1>1, <1>2 DEF IsInjective
  <2>1. /\ at(m) \in kept /\ at(n) \in kept /\ list[at(m)] = list[at(n)] /\ at(m) < at(n)
    BY <1>2
  <2>2. at(m) = at(n)
    BY <1>5, <2>1
  <2>3. at(n) \in Nat
    BY <1>1, <2>1
  <2> QED BY <2>1, <2>2, <2>3
<1> QED BY <1>2, <1>3, <1>4, <1>5 DEF sub

----------------------------------------------------------------------------
(* remove: what is taken out is out; the rest keeps its order and its number. *)
LEMMA WithoutKeeps ==
    ASSUME NEW S, NEW list \in Seq(S), NEW gone
    PROVE  /\ Without(list, gone) \in Seq(S)
           /\ IsInjective(list) => IsInjective(Without(list, gone))
           /\ \A i : Contains(Without(list, gone), i) <=> Contains(list, i) /\ i \notin gone
           /\ \A i, j : Before(Without(list, gone), i, j) => Before(list, i, j)
           /\ \A i : Cardinality(Occurrences(Without(list, gone), i)) =
                         IF i \in gone THEN 0 ELSE Cardinality(Occurrences(list, i))
<1> DEFINE kept == {m \in DOMAIN list : list[m] \notin gone}
<1>1. kept \in SUBSET DOMAIN list /\ Without(list, gone) = Sublist(list, kept)
  BY DEF Without
<1>2. \A i : Contains(list, i) /\ i \notin gone <=> \E m \in kept : list[m] = i
  BY DEF Contains
<1>3. \A i : {m \in kept : list[m] = i} = IF i \in gone THEN {} ELSE Occurrences(list, i)
  BY DEF Occurrences
<1>4. IsInjective(list) => \A m, k \in kept : list[m] = list[k] => m = k
  BY DEF IsInjective
<1> HIDE DEF kept
<1>5. ASSUME NEW i
      PROVE  Cardinality(Occurrences(Without(list, gone), i)) =
                 IF i \in gone THEN 0 ELSE Cardinality(Occurrences(list, i))
  <2>1. Cardinality(Occurrences(Without(list, gone), i)) = Cardinality({m \in kept : list[m] = i})
    BY <1>1, SublistOccurrences
  <2> QED BY <1>3, <2>1, FS_EmptySet
<1> QED BY <1>1, <1>2, <1>4, <1>5, SublistOrder

(* any then push_back: no repetitions, and the same entries. *)
LEMMA DedupedIsDistinct ==
    ASSUME NEW S, NEW list \in Seq(S)
    PROVE  Deduped(list) \in Seq(S) /\ IsInjective(Deduped(list))
<1> DEFINE kept == {m \in DOMAIN list : \A k \in DOMAIN list : k < m => list[k] # list[m]}
<1>1. /\ kept \in SUBSET DOMAIN list /\ Deduped(list) = Sublist(list, kept)
      /\ DOMAIN list = 1..Len(list) /\ Len(list) \in Nat
  BY DEF Deduped
<1>2. \A m, k \in kept : list[m] = list[k] => m = k
  <2> SUFFICES ASSUME NEW m \in kept, NEW k \in kept, k < m PROVE list[k] # list[m]
    BY <1>1
  <2> QED OBVIOUS
<1> HIDE DEF kept
<1> QED BY <1>1, <1>2, SublistOrder

(* push_back. *)
LEMMA AppendCounts ==
    ASSUME NEW S, NEW list \in Seq(S), NEW k \in S, NEW i
    PROVE  /\ IsFiniteSet(Occurrences(list, i)) /\ Cardinality(Occurrences(list, i)) \in Nat
           /\ Cardinality(Occurrences(Append(list, k), i)) =
                  Cardinality(Occurrences(list, i)) + (IF i = k THEN 1 ELSE 0)
<1> DEFINE new == Append(list, k)
           last == Len(list) + 1
<1>1. /\ DOMAIN list = 1..Len(list) /\ Len(list) \in Nat /\ last \notin DOMAIN list
      /\ DOMAIN new = DOMAIN list \cup {last}
      /\ \A n \in DOMAIN list : new[n] = list[n]
      /\ new[last] = k
  OBVIOUS
<1>2. IsFiniteSet(Occurrences(list, i)) /\ Cardinality(Occurrences(list, i)) \in Nat
  <2>1. Occurrences(list, i) \in SUBSET (1..Len(list)) /\ Len(list) \in Nat
    BY DEF Occurrences
  <2>2. IsFiniteSet(1..Len(list))
    BY <2>1, FS_Interval
  <2> QED BY <2>1, <2>2, FS_Subset, FS_CardinalityType
<1> HIDE DEF new, last
<1>3. Occurrences(new, i) = Occurrences(list, i) \cup (IF i = k THEN {last} ELSE {})
  BY <1>1 DEF Occurrences
<1>4. last \notin Occurrences(list, i)
  BY <1>1 DEF Occurrences
<1>5. Cardinality(Occurrences(list, i) \cup {last}) = Cardinality(Occurrences(list, i)) + 1
  BY <1>2, <1>4, FS_AddElement
<1>6. Occurrences(list, i) \cup {} = Occurrences(list, i)
  OBVIOUS
<1>7. Cardinality(Occurrences(new, i)) = Cardinality(Occurrences(list, i)) + (IF i = k THEN 1 ELSE 0)
  <2>1. CASE i = k
    BY <1>3, <1>5, <2>1
  <2>2. CASE i # k
    BY <1>2, <1>3, <1>6, <2>2
  <2> QED BY <2>1, <2>2
<1> QED BY <1>2, <1>7 DEF new

LEMMA AppendKeeps ==
    ASSUME NEW S, NEW list \in Seq(S), NEW k \in S
    PROVE  /\ Append(list, k) \in Seq(S)
           /\ \A i : Contains(Append(list, k), i) <=> Contains(list, i) \/ i = k
           /\ \A i, j : Before(Append(list, k), i, j) =>
                  Before(list, i, j) \/ (j = k /\ Contains(list, i))
           /\ IsInjective(list) /\ ~Contains(list, k) => IsInjective(Append(list, k))
<1> DEFINE new == Append(list, k)
<1>1. /\ new \in Seq(S) /\ Len(new) = Len(list) + 1 /\ Len(list) \in Nat
      /\ DOMAIN new = 1..(Len(list) + 1) /\ DOMAIN list = 1..Len(list)
      /\ \A n \in 1..Len(list) : new[n] = list[n]
      /\ new[Len(list) + 1] = k
  OBVIOUS
<1> HIDE DEF new
<1>2. ASSUME IsInjective(list), ~Contains(list, k) PROVE IsInjective(new)
  <2>1. \A n \in 1..Len(list) : list[n] # k
    BY <1>1, <1>2 DEF Contains
  <2> QED BY <1>1, <1>2, <2>1 DEF IsInjective
<1>3. \A i : Contains(new, i) <=> Contains(list, i) \/ i = k
  BY <1>1 DEF Contains
<1>4. ASSUME NEW i, NEW j, Before(new, i, j)
      PROVE  Before(list, i, j) \/ (j = k /\ Contains(list, i))
  <2>1. PICK m \in 1..(Len(list) + 1), n \in 1..(Len(list) + 1) : m < n /\ new[m] = i /\ new[n] = j
    BY <1>1, <1>4 DEF Before
  <2>2. m \in 1..Len(list)
    BY <1>1, <2>1
  <2>3. CASE n = Len(list) + 1
    BY <1>1, <2>1, <2>2, <2>3 DEF Contains
  <2>4. CASE n \in 1..Len(list)
    BY <1>1, <2>1, <2>2, <2>4 DEF Before
  <2> QED BY <1>1, <2>1, <2>3, <2>4
<1> QED BY <1>1, <1>2, <1>3, <1>4 DEF new

----------------------------------------------------------------------------
(* Joined: the places of several lists, in their order. *)
Places(lists) == UNION {{n} \X DOMAIN lists[n] : n \in DOMAIN lists}

UpTo(lists, p) == {q \in Places(lists) : q[1] < p[1] \/ (q[1] = p[1] /\ q[2] <= p[2])}

LEMMA PlacesFinite ==
    ASSUME NEW S, NEW lists \in Seq(Seq(S))
    PROVE  /\ IsFiniteSet(Places(lists)) /\ Cardinality(Places(lists)) \in Nat
           /\ \A p \in Places(lists) :
                 p[1] \in Nat /\ p[2] \in Nat /\ p = <<p[1], p[2]>> /\ lists[p[1]][p[2]] \in S
<1>1. /\ DOMAIN lists = 1..Len(lists) /\ Len(lists) \in Nat
      /\ \A n \in DOMAIN lists : /\ lists[n] \in Seq(S) /\ Len(lists[n]) \in Nat
                                 /\ DOMAIN lists[n] = 1..Len(lists[n])
  OBVIOUS
<1> DEFINE rows == {{n} \X DOMAIN lists[n] : n \in DOMAIN lists}
<1>2. IsFiniteSet(DOMAIN lists)
  <2>1. IsFiniteSet(1..Len(lists))
    BY <1>1, FS_Interval
  <2> QED BY <1>1, <2>1
<1>3. \A n \in DOMAIN lists : IsFiniteSet({n} \X DOMAIN lists[n])
  <2> TAKE n \in DOMAIN lists
  <2>1. IsFiniteSet({n})
    BY FS_Singleton
  <2>2. Len(lists[n]) \in Nat /\ DOMAIN lists[n] = 1..Len(lists[n])
    BY <1>1
  <2>3. IsFiniteSet(1..Len(lists[n]))
    BY <2>2, FS_Interval
  <2> QED BY <2>1, <2>2, <2>3, FS_Product
<1>4. IsFiniteSet(rows)
  <2> DEFINE row == [n \in DOMAIN lists |-> {n} \X DOMAIN lists[n]]
  <2>1. row \in Surjection(DOMAIN lists, rows)
    BY DEF Surjection
  <2> QED BY <1>2, <2>1, FS_Surjection
<1>5. \A r \in rows : IsFiniteSet(r)
  BY <1>3
<1> HIDE DEF rows
<1>6. IsFiniteSet(UNION rows)
  BY <1>4, <1>5, FS_UNION
<1>7. IsFiniteSet(Places(lists))
  BY <1>6 DEF Places, rows
<1>8. ASSUME NEW p \in Places(lists)
      PROVE  p[1] \in Nat /\ p[2] \in Nat /\ p = <<p[1], p[2]>> /\ lists[p[1]][p[2]] \in S
  <2>1. PICK n \in DOMAIN lists : p \in {n} \X DOMAIN lists[n]
    BY DEF Places
  <2>2. p[1] = n /\ p[2] \in DOMAIN lists[n] /\ p = <<p[1], p[2]>>
    BY <2>1
  <2> QED BY <1>1, <2>2
<1> QED BY <1>7, <1>8, FS_CardinalityType

(* One place has each rank. *)
LEMMA PlaceRanks ==
    ASSUME NEW S, NEW lists \in Seq(Seq(S))
    PROVE  /\ \A p \in Places(lists) : Cardinality(UpTo(lists, p)) \in 1..Cardinality(Places(lists))
           /\ \A p, q \in Places(lists) :
                 p # q => Cardinality(UpTo(lists, p)) # Cardinality(UpTo(lists, q))
           /\ \A n \in 1..Cardinality(Places(lists)) :
                 \E p \in Places(lists) : Cardinality(UpTo(lists, p)) = n
<1> DEFINE P == Places(lists)
           T == 1..Cardinality(P)
           upto(p) == UpTo(lists, p)
           rank == [p \in P |-> Cardinality(upto(p))]
<1>1. /\ IsFiniteSet(P) /\ Cardinality(P) \in Nat
      /\ \A p \in P : p[1] \in Nat /\ p[2] \in Nat /\ p = <<p[1], p[2]>>
  BY PlacesFinite
<1>2. /\ IsFiniteSet(T) /\ Cardinality(T) = Cardinality(P)
  <2> DEFINE size == Cardinality(P)
  <2>1. size \in Nat
    BY <1>1
  <2> HIDE DEF size
  <2>2. IsFiniteSet(1..size) /\ Cardinality(1..size) = size
    BY <2>1, FS_Interval
  <2> QED BY <2>2 DEF size
<1>3. \A p : upto(p) \in SUBSET P
  BY DEF UpTo
<1>4. \A p : /\ IsFiniteSet(upto(p)) /\ Cardinality(upto(p)) \in Nat
             /\ Cardinality(upto(p)) <= Cardinality(P)
  <2> HIDE DEF P, upto
  <2> QED BY <1>1, <1>3, FS_Subset, FS_CardinalityType
<1>5. \A p \in P : p \in upto(p)
  BY <1>1 DEF UpTo
<1>6. ASSUME NEW p \in P PROVE Cardinality(upto(p)) \in T
  <2>1. upto(p) # {}
    BY <1>5
  <2> HIDE DEF P, upto
  <2>2. Cardinality(upto(p)) # 0
    BY <1>4, <2>1, FS_EmptySet
  <2> QED BY <1>1, <1>4, <2>2
<1>7. ASSUME NEW p \in P, NEW q \in P, p[1] < q[1] \/ (p[1] = q[1] /\ p[2] < q[2])
      PROVE  Cardinality(upto(p)) # Cardinality(upto(q))
  <2>1. q \notin upto(p)
    BY <1>1, <1>7 DEF UpTo
  <2>2. upto(p) \in SUBSET upto(q)
    <3> SUFFICES ASSUME NEW r \in P, r[1] < p[1] \/ (r[1] = p[1] /\ r[2] <= p[2])
                 PROVE  r[1] < q[1] \/ (r[1] = q[1] /\ r[2] <= q[2])
      BY DEF UpTo
    <3>1. /\ r[1] \in Nat /\ r[2] \in Nat /\ p[1] \in Nat /\ p[2] \in Nat
          /\ q[1] \in Nat /\ q[2] \in Nat
      BY <1>1
    <3> QED BY <1>7, <3>1
  <2>3. q \in upto(q)
    BY <1>5
  <2>4. upto(p) # upto(q)
    BY <2>1, <2>3
  <2> HIDE DEF P, upto
  <2> QED BY <1>4, <2>2, <2>4, FS_Subset
<1>8. \A p, q \in P : p # q => Cardinality(upto(p)) # Cardinality(upto(q))
  <2> TAKE p \in P, q \in P
  <2> HAVE p # q
  <2>1. p[1] # q[1] \/ p[2] # q[2]
    BY <1>1
  <2>2. \/ p[1] < q[1] \/ (p[1] = q[1] /\ p[2] < q[2])
        \/ q[1] < p[1] \/ (q[1] = p[1] /\ q[2] < p[2])
    <3>1. p[1] \in Nat /\ p[2] \in Nat /\ q[1] \in Nat /\ q[2] \in Nat
      BY <1>1
    <3> QED BY <2>1, <3>1
  <2> HIDE DEF P, upto
  <2> QED BY <1>7, <2>2
<1> HIDE DEF P, T, upto
<1>9. rank \in Injection(P, T)
  BY <1>6, <1>8, Fun_IsInj
<1>10. rank \in Surjection(P, T)
  <2> HIDE DEF rank
  <2> QED BY <1>1, <1>2, <1>9, FS_Injection
<1>11. \A n \in T : \E p \in P : Cardinality(upto(p)) = n
  <2> TAKE n \in T
  <2>1. PICK p \in P : rank[p] = n
    BY <1>10 DEF Surjection
  <2> QED BY <2>1
<1> HIDE DEF rank
<1> QED BY <1>6, <1>8, <1>11 DEF P, T, upto

(* The entries of the joined list are those of the places. *)
LEMMA JoinedIs ==
    ASSUME NEW S, NEW lists \in Seq(Seq(S))
    PROVE  /\ Joined(lists) \in Seq(S)
           /\ \A i : Contains(Joined(lists), i) <=> \E p \in Places(lists) : lists[p[1]][p[2]] = i
           /\ (\A p, q \in Places(lists) : lists[p[1]][p[2]] = lists[q[1]][q[2]] => p = q) =>
                 IsInjective(Joined(lists))
<1> DEFINE P == Places(lists)
           size == Cardinality(P)
           rank(p) == Cardinality(UpTo(lists, p))
           place(n) == CHOOSE p \in P : rank(p) = n
           at(p) == lists[p[1]][p[2]]
<1>1. Joined(lists) = [n \in 1..size |-> at(place(n))]
  BY DEF Joined, Places, UpTo
<1>2. size \in Nat /\ \A p \in P : at(p) \in S
  BY PlacesFinite
<1>3. /\ \A p \in P : rank(p) \in 1..size
      /\ \A p, q \in P : p # q => rank(p) # rank(q)
      /\ \A n \in 1..size : \E p \in P : rank(p) = n
  BY PlaceRanks
<1> HIDE DEF P, size, rank, at
<1>4. \A n \in 1..size : place(n) \in P /\ rank(place(n)) = n
  BY <1>3
<1>5. \A p \in P : place(rank(p)) = p
  BY <1>3
<1> HIDE DEF place
<1> DEFINE all == Joined(lists)
<1>6. all \in [1..size -> S]
  BY <1>1, <1>2, <1>4
<1>7. all \in Seq(S) /\ DOMAIN all = 1..size /\ Len(all) = size
      /\ \A n \in 1..size : all[n] = at(place(n))
  <2>1. all \in Seq(S) /\ DOMAIN all = 1..size
    <3> HIDE DEF all
    <3> QED BY <1>2, <1>6
  <2>2. Len(all) = size
    <3> HIDE DEF all
    <3> QED BY <1>2, <2>1
  <2> QED BY <1>1, <2>1, <2>2
<1> HIDE DEF all
<1>8. \A i : Contains(all, i) <=> \E p \in P : at(p) = i
  <2> TAKE i
  <2>1. ASSUME Contains(all, i) PROVE \E p \in P : at(p) = i
    <3>1. PICK n \in 1..size : all[n] = i
      BY <1>7, <2>1 DEF Contains
    <3> QED BY <1>4, <1>7, <3>1
  <2>2. ASSUME NEW p \in P, at(p) = i PROVE Contains(all, i)
    <3>1. rank(p) \in 1..size /\ all[rank(p)] = i
      BY <1>3, <1>5, <1>7, <2>2
    <3> QED BY <1>7, <3>1 DEF Contains
  <2> QED BY <2>1, <2>2
<1>9. ASSUME \A p, q \in P : at(p) = at(q) => p = q PROVE IsInjective(all)
  <2>1. ASSUME NEW m \in 1..size, NEW n \in 1..size, all[m] = all[n] PROVE m = n
    <3>1. place(m) = place(n)
      BY <1>4, <1>7, <1>9, <2>1
    <3> QED BY <1>4, <3>1
  <2> QED BY <1>7, <2>1 DEF IsInjective
<1> QED BY <1>7, <1>8, <1>9 DEF all, P, at

(* A list without repetitions is as long as the set of its entries. *)
LEMMA InjectiveSize ==
    ASSUME NEW S, NEW list \in Seq(S), IsInjective(list)
    PROVE  Cardinality({i \in S : Contains(list, i)}) = Len(list)
<1> DEFINE n == Len(list)
           T == {i \in S : Contains(list, i)}
<1>1. n \in Nat /\ DOMAIN list = 1..n /\ list \in [1..n -> S]
  OBVIOUS
<1>2. list \in [1..n -> T]
  BY <1>1 DEF Contains
<1>3. \A a, b \in 1..n : list[a] = list[b] => a = b
  BY <1>1 DEF IsInjective
<1>4. \A i \in T : \E a \in 1..n : list[a] = i
  BY <1>1 DEF Contains
<1> HIDE DEF n, T
<1>5. list \in Bijection(1..n, T)
  BY <1>2, <1>3, <1>4 DEF Bijection, Injection, Surjection, IsInjective
<1>6. IsFiniteSet(1..n) /\ Cardinality(1..n) = n
  BY <1>1, FS_Interval
<1>7. ExistsBijection(1..n, T)
  BY <1>5 DEF ExistsBijection
<1>8. Cardinality(T) = Cardinality(1..n)
  BY <1>6, <1>7, FS_Bijection
<1> QED BY <1>6, <1>8 DEF n, T

(* Two lists one after the other, and the first entries of each kind. *)
LEMMA ConcatContains ==
    ASSUME NEW S, NEW list \in Seq(S), NEW other \in Seq(S)
    PROVE  /\ list \o other \in Seq(S)
           /\ \A i : Contains(list \o other, i) <=> Contains(list, i) \/ Contains(other, i)
<1>1. /\ list \o other \in Seq(S) /\ Len(list) \in Nat /\ Len(other) \in Nat
      /\ DOMAIN (list \o other) = 1..(Len(list) + Len(other))
      /\ DOMAIN list = 1..Len(list) /\ DOMAIN other = 1..Len(other)
      /\ \A n \in 1..(Len(list) + Len(other)) :
            (list \o other)[n] = IF n <= Len(list) THEN list[n] ELSE other[n - Len(list)]
  OBVIOUS
<1> DEFINE both == list \o other
<1> HIDE DEF both
<1>2. \A n \in 1..Len(list) : n \in DOMAIN both /\ both[n] = list[n]
  BY <1>1 DEF both
<1>3. \A n \in 1..Len(other) :
         Len(list) + n \in DOMAIN both /\ both[Len(list) + n] = other[n]
  <2> TAKE n \in 1..Len(other)
  <2>1. /\ Len(list) + n \in 1..(Len(list) + Len(other)) /\ ~(Len(list) + n <= Len(list))
        /\ (Len(list) + n) - Len(list) = n
    BY <1>1
  <2> QED BY <1>1, <2>1 DEF both
<1>4. \A n \in DOMAIN both : \/ n \in 1..Len(list) /\ both[n] = list[n]
                             \/ n - Len(list) \in 1..Len(other) /\ both[n] = other[n - Len(list)]
  BY <1>1 DEF both
<1>5. ASSUME NEW i, Contains(both, i) PROVE Contains(list, i) \/ Contains(other, i)
  <2>1. PICK n \in DOMAIN both : both[n] = i
    BY <1>1, <1>5 DEF Contains, both
  <2> QED BY <1>4, <2>1 DEF Contains
<1>6. ASSUME NEW i, Contains(list, i) PROVE Contains(both, i)
  <2>1. PICK n \in 1..Len(list) : list[n] = i
    BY <1>6 DEF Contains
  <2>2. n \in 1..Len(both) /\ both[n] = i
    BY <1>1, <1>2, <2>1 DEF both
  <2> QED BY <2>2 DEF Contains
<1>7. ASSUME NEW i, Contains(other, i) PROVE Contains(both, i)
  <2>1. PICK n \in 1..Len(other) : other[n] = i
    BY <1>7 DEF Contains
  <2>2. Len(list) + n \in DOMAIN both /\ both[Len(list) + n] = i
    BY <1>3, <2>1
  <2>3. Len(list) + n \in 1..Len(both)
    BY <1>1, <2>2 DEF both
  <2> QED BY <2>2, <2>3 DEF Contains
<1> QED BY <1>1, <1>5, <1>6, <1>7 DEF both

LEMMA DedupedContains ==
    ASSUME NEW S, NEW list \in Seq(S)
    PROVE  \A i : Contains(Deduped(list), i) <=> Contains(list, i)
<1> DEFINE kept == {m \in DOMAIN list : \A k \in DOMAIN list : k < m => list[k] # list[m]}
<1>1. /\ kept \in SUBSET DOMAIN list /\ Deduped(list) = Sublist(list, kept)
      /\ DOMAIN list \in SUBSET Nat
  BY DEF Deduped
<1>2. ASSUME NEW i, Contains(list, i) PROVE \E m \in kept : list[m] = i
  <2> DEFINE at == {n \in DOMAIN list : list[n] = i}
  <2>1. at \in SUBSET Nat /\ at # {}
    BY <1>1, <1>2 DEF Contains
  <2>2. PICK m \in at : \A k \in at : m <= k
    <3> DEFINE first == Nth(at, 1)
    <3>1. IsFiniteSet(at) /\ Cardinality(at) \in Nat
      BY PositionsFinite
    <3>2. 1 \in 1..Cardinality(at)
      <4> HIDE DEF at
      <4> QED BY <2>1, <3>1, FS_EmptySet
    <3> HIDE DEF at
    <3>3. first \in at /\ Rank(at, first) = 1
      BY <2>1, <3>1, <3>2, NthIs
    <3>4. /\ \A k \in at : Rank(at, k) \in 1..Cardinality(at)
          /\ \A k \in at : k < first => Rank(at, k) < Rank(at, first)
      BY <2>1, <3>1, <3>3, Ranks
    <3> HIDE DEF first
    <3>5. \A k \in at : ~(Rank(at, k) < Rank(at, first))
      BY <3>1, <3>3, <3>4
    <3>6. \A k \in at : first <= k
      <4>1. \A k \in at : k \in Nat /\ first \in Nat
        BY <2>1, <3>3
      <4> QED BY <3>4, <3>5, <4>1
    <3> QED BY <3>3, <3>6
  <2>3. \A k \in DOMAIN list : k < m => k \notin at
    BY <1>1, <2>1, <2>2
  <2> QED BY <2>2, <2>3
<1> HIDE DEF kept
<1>3. \A i : Contains(Deduped(list), i) <=> \E m \in kept : list[m] = i
  BY <1>1, SublistOrder
<1>4. \A i : (\E m \in kept : list[m] = i) => Contains(list, i)
  BY <1>1 DEF Contains
<1> QED BY <1>2, <1>3, <1>4

----------------------------------------------------------------------------
(* list has the members of S, each once and in their order. *)
Enumerates(list, S) ==
    /\ list \in Seq(Nat)
    /\ \A m, n \in DOMAIN list : m < n => list[m] < list[n]
    /\ S = {list[n] : n \in DOMAIN list}

LEMMA EnumeratesNone == Enumerates(<<>>, {})
BY DEF Enumerates

(* push_back of a greater one. *)
LEMMA EnumeratesAppend ==
    ASSUME NEW list, NEW S, Enumerates(list, S), NEW k \in Nat, \A s \in S : s < k
    PROVE  Enumerates(Append(list, k), S \cup {k})
<1> DEFINE new == Append(list, k)
           last == Len(list) + 1
<1>1. /\ DOMAIN list = 1..Len(list) /\ Len(list) \in Nat /\ last \notin DOMAIN list
      /\ new \in Seq(Nat) /\ DOMAIN new = DOMAIN list \cup {last}
      /\ \A n \in DOMAIN list : n < last /\ list[n] \in S /\ new[n] = list[n]
      /\ new[last] = k
  BY DEF Enumerates
<1> HIDE DEF new, last
<1>2. ASSUME NEW m \in DOMAIN new, NEW n \in DOMAIN new, m < n PROVE new[m] < new[n]
  <2>1. m \in DOMAIN list
    <3>1. CASE m = last
      <4>1. n \in DOMAIN list => ~(last < n)
        BY <1>1 DEF last
      <4>2. ~(last < last)
        BY <1>1 DEF last
      <4> QED BY <1>1, <1>2, <3>1, <4>1, <4>2
    <3> QED BY <1>1, <3>1
  <2>2. CASE n \in DOMAIN list
    BY <1>1, <1>2, <2>1, <2>2 DEF Enumerates
  <2>3. CASE n = last
    BY <1>1, <2>1, <2>3
  <2> QED BY <1>1, <2>2, <2>3
<1>3. S \cup {k} = {new[n] : n \in DOMAIN new}
  BY <1>1 DEF Enumerates
<1> QED BY <1>1, <1>2, <1>3 DEF Enumerates, new

(* A sublist enumerates what is kept. *)
LEMMA EnumeratesSublist ==
    ASSUME NEW list, NEW S, Enumerates(list, S), NEW kept \in SUBSET DOMAIN list
    PROVE  Enumerates(Sublist(list, kept), {list[n] : n \in kept})
<1> DEFINE size == Cardinality(kept)
           at(n) == Nth(kept, n)
           sub == Sublist(list, kept)
<1>1. list \in Seq(Nat)
  BY DEF Enumerates
<1>2. /\ sub \in Seq(Nat) /\ DOMAIN sub = 1..size
      /\ \A n \in 1..size : at(n) \in kept /\ sub[n] = list[at(n)]
      /\ \A m, n \in 1..size : m < n => at(m) < at(n)
      /\ \A k \in kept : \E n \in 1..size : at(n) = k
  BY <1>1, SublistPositions
<1> HIDE DEF size, at, sub
<1>3. \A m, n \in 1..size : m < n => sub[m] < sub[n]
  BY <1>2 DEF Enumerates
<1>4. {list[n] : n \in kept} = {sub[n] : n \in 1..size}
  BY <1>2
<1> QED BY <1>2, <1>3, <1>4 DEF Enumerates, sub

(* Each position of an enumeration is the rank of what is there. *)
LEMMA EnumeratesByRank ==
    ASSUME NEW list, NEW S, Enumerates(list, S)
    PROVE  /\ S \in SUBSET Nat /\ IsFiniteSet(S) /\ Cardinality(S) = Len(list)
           /\ \A n \in DOMAIN list : Rank(S, list[n]) = n
<1>1. /\ DOMAIN list = 1..Len(list) /\ Len(list) \in Nat
      /\ \A n \in 1..Len(list) : list[n] \in S /\ list[n] \in Nat
      /\ \A s \in S : \E n \in 1..Len(list) : list[n] = s
      /\ \A m, n \in 1..Len(list) : m < n => list[m] < list[n]
      /\ S \in SUBSET Nat
  BY DEF Enumerates
<1>2. \A m, n \in 1..Len(list) : list[m] = list[n] => m = n
  BY <1>1
<1>3. \A m, n \in 1..Len(list) : list[m] <= list[n] <=> m <= n
  BY <1>1
<1>4. ASSUME NEW n \in 1..Len(list)
      PROVE  IsFiniteSet({s \in S : s <= list[n]}) /\ Cardinality({s \in S : s <= list[n]}) = n
  <2> DEFINE to == {s \in S : s <= list[n]}
             f == [m \in 1..n |-> list[m]]
  <2>1. n \in Nat /\ 1..n \in SUBSET (1..Len(list)) /\ \A m \in 1..Len(list) : m <= n => m \in 1..n
    BY <1>1
  <2>2. \A m \in 1..n : list[m] \in to
    BY <1>1, <1>3, <2>1
  <2>3. \A s \in to : \E m \in 1..n : list[m] = s
    BY <1>1, <1>3, <2>1
  <2>4. \A m, k \in 1..n : list[m] = list[k] => m = k
    BY <1>2, <2>1
  <2> HIDE DEF to
  <2>5. f \in Bijection(1..n, to)
    BY <2>2, <2>3, <2>4, Fun_IsBij
  <2>6. IsFiniteSet(1..n) /\ Cardinality(1..n) = n
    BY <2>1, FS_Interval
  <2>7. IsFiniteSet(to) /\ Cardinality(to) = Cardinality(1..n)
    BY <2>5, <2>6, FS_Bijection DEF ExistsBijection
  <2> QED BY <2>6, <2>7 DEF to
<1>5. \A n \in DOMAIN list : Rank(S, list[n]) = n
  BY <1>1, <1>4 DEF Rank
<1>6. IsFiniteSet(S) /\ Cardinality(S) = Len(list)
  <2>1. CASE Len(list) = 0
    <3>1. S = {}
      BY <1>1, <2>1
    <3> QED BY <2>1, <3>1, FS_EmptySet
  <2>2. CASE Len(list) # 0
    <3>1. Len(list) \in 1..Len(list)
      BY <1>1, <2>2
    <3>2. \A m \in 1..Len(list) : m <= Len(list)
      BY <1>1
    <3>3. ASSUME NEW s \in S PROVE s <= list[Len(list)]
      <4>1. PICK m \in 1..Len(list) : list[m] = s
        BY <1>1
      <4> QED BY <1>3, <3>1, <3>2, <4>1
    <3>4. {s \in S : s <= list[Len(list)]} = S
      BY <3>3
    <3> QED BY <1>4, <3>1, <3>4
  <2> QED BY <2>1, <2>2
<1> QED BY <1>1, <1>5, <1>6

(* There is but one enumeration of a set. *)
LEMMA EnumeratesUniquely ==
    ASSUME NEW list, NEW other, NEW S, Enumerates(list, S), Enumerates(other, S)
    PROVE  list = other
<1>1. /\ list \in Seq(Nat) /\ other \in Seq(Nat) /\ Len(list) = Len(other)
      /\ S \in SUBSET Nat /\ IsFiniteSet(S)
  BY EnumeratesByRank DEF Enumerates
<1>2. ASSUME NEW n \in 1..Len(list) PROVE list[n] = other[n]
  <2>1. n \in DOMAIN list /\ n \in DOMAIN other
    BY <1>1
  <2>2. list[n] \in S /\ other[n] \in S
    BY <2>1 DEF Enumerates
  <2>3. Rank(S, list[n]) = n /\ Rank(S, other[n]) = n
    BY <2>1, EnumeratesByRank
  <2>4. \A m, k \in S : m < k => Rank(S, m) < Rank(S, k)
    BY <1>1, Ranks
  <2>5. n \in Nat /\ ~(n < n) /\ list[n] \in Nat /\ other[n] \in Nat
    BY <1>1, <2>2
  <2>6. ~(list[n] < other[n]) /\ ~(other[n] < list[n])
    BY <2>2, <2>3, <2>4, <2>5
  <2> QED BY <2>5, <2>6
<1> QED BY <1>1, <1>2

(* The numbers up to the length of a list. *)
LEMMA EnumeratesDomain ==
    ASSUME NEW S, NEW list \in Seq(S)
    PROVE  Enumerates([n \in DOMAIN list |-> n], DOMAIN list)
<1>1. DOMAIN list = 1..Len(list) /\ Len(list) \in Nat
  OBVIOUS
<1>2. [n \in 1..Len(list) |-> n] \in Seq(Nat)
  BY <1>1
<1> QED BY <1>1, <1>2 DEF Enumerates

----------------------------------------------------------------------------
(* Sums.  A sum of natural numbers is the number of their units, which are   *)
(* counted without recursion; that both agree is shown for a smallest set    *)
(* on which they would not.                                                  *)

Pick(T) == CHOOSE x \in T : TRUE

Adds(g, f, S) ==
    g = [T \in SUBSET S |-> IF T = {} THEN 0 ELSE f[Pick(T)] + g[T \ {Pick(T)}]]

Units(f, T) == UNION {{x} \X (1..f[x]) : x \in T}

Size(f, T) == Cardinality(Units(f, T))

LEMMA SumIsChosen ==
    ASSUME NEW f, NEW S
    PROVE  SumOver(f, S) = (CHOOSE g : Adds(g, f, S))[S]
BY DEF SumOver, MapThenSumSet, MapThenFoldSet, Adds, Pick

(* Every nonempty set of subsets of a finite set has a smallest member.      *)
LEMMA Smallest ==
    ASSUME NEW S, IsFiniteSet(S), NEW W \in SUBSET SUBSET S, W # {}
    PROVE  \E T \in W : \A U \in W : U \subseteq T => U = T
<1>1. PICK T \in W : \A U \in W : <<U, T>> \notin StrictSubsetOrdering(S)
  BY FS_StrictSubsetOrderingWellFounded, FS_FiniteSubsetsOfFinite, WFMin
<1> QED BY <1>1 DEF StrictSubsetOrdering

(* Induction, for a set of numbers: the least one that is missing has one in   *)
(* front of it.                                                              *)
LEMMA Induction ==
    ASSUME NEW n \in Nat, NEW W, 0 \in W, \A m \in 0..n : m \in W /\ m < n => m + 1 \in W
    PROVE  \A m \in 0..n : m \in W
<1> DEFINE S == 0..n
           missing == {0..m : m \in S \ W}
<1>1. SUFFICES ASSUME missing # {} PROVE FALSE
  OBVIOUS
<1>2. IsFiniteSet(S)
  BY FS_Interval
<1>3. missing \in SUBSET SUBSET S
  OBVIOUS
<1>4. PICK T \in missing : \A U \in missing : U \subseteq T => U = T
  <2> HIDE DEF missing, S
  <2> QED BY <1>1, <1>2, <1>3, Smallest
<1>5. PICK m \in S \ W : T = 0..m
  BY <1>4
<1>6. m \in Nat /\ m # 0 /\ m <= n
  BY <1>5
<1>7. m - 1 \in S /\ m - 1 < n /\ (m - 1) + 1 = m
  BY <1>6
<1>8. m - 1 \notin W
  BY <1>5, <1>7
<1>9. 0..(m - 1) \in missing /\ 0..(m - 1) \subseteq T
  BY <1>5, <1>6, <1>7, <1>8
<1>10. m \in 0..m /\ m \notin 0..(m - 1)
  BY <1>6
<1>11. 0..(m - 1) = 0..m
  BY <1>4, <1>5, <1>9
<1> QED BY <1>10, <1>11

(* One element's units are as many as its number. *)
LEMMA UnitsOfOne ==
    ASSUME NEW x, NEW n \in Nat
    PROVE  IsFiniteSet({x} \X (1..n)) /\ Cardinality({x} \X (1..n)) = n
<1> DEFINE A == {x}
           B == 1..n
<1>1. IsFiniteSet(A) /\ Cardinality(A) = 1
  BY FS_Singleton
<1>2. IsFiniteSet(B) /\ Cardinality(B) = n
  BY FS_Interval
<1> HIDE DEF A, B
<1>3. IsFiniteSet(A \X B) /\ Cardinality(A \X B) = 1 * n
  BY <1>1, <1>2, FS_Product
<1> QED BY <1>3 DEF A, B

LEMMA UnitsFinite ==
    ASSUME NEW S, IsFiniteSet(S), NEW f, \A x \in S : f[x] \in Nat
    PROVE  IsFiniteSet(Units(f, S))
<1> DEFINE of == [x \in S |-> {x} \X (1..f[x])]
           parts == {{x} \X (1..f[x]) : x \in S}
<1>1. of \in Surjection(S, parts)
  BY DEF Surjection
<1>2. IsFiniteSet(parts)
  BY <1>1, FS_Surjection
<1>3. \A x \in S : IsFiniteSet({x} \X (1..f[x]))
  BY UnitsOfOne
<1> QED BY <1>2, <1>3, FS_UNION DEF Units

LEMMA SizeStep ==
    ASSUME NEW S, IsFiniteSet(S), NEW f, \A y \in S : f[y] \in Nat, NEW x \in S
    PROVE  /\ Size(f, S) \in Nat
           /\ Size(f, S) = f[x] + Size(f, S \ {x})
<1> DEFINE rest == Units(f, S \ {x})
           own  == {x} \X (1..f[x])
<1>1. Units(f, S) = own \cup rest /\ own \cap rest = {}
  BY DEF Units
<1>2. IsFiniteSet(S \ {x}) /\ IsFiniteSet(rest) /\ IsFiniteSet(Units(f, S))
  BY FS_RemoveElement, UnitsFinite
<1>3. IsFiniteSet(own) /\ Cardinality(own) = f[x] /\ f[x] \in Nat
  BY UnitsOfOne
<1>4. Cardinality(own \cup rest) = Cardinality(own) + Cardinality(rest) - Cardinality(own \cap rest)
  BY <1>2, <1>3, FS_Union
<1>5. Cardinality(own \cap rest) = 0 /\ Cardinality(rest) \in Nat /\ Cardinality(Units(f,S)) \in Nat
  BY <1>1, <1>2, FS_EmptySet, FS_CardinalityType
<1> QED BY <1>1, <1>3, <1>4, <1>5 DEF Size

LEMMA SizeEmpty == ASSUME NEW f PROVE Size(f, {}) = 0
BY FS_EmptySet DEF Size, Units

LEMMA SumIsSize ==
    ASSUME NEW S, IsFiniteSet(S), NEW f, \A x \in S : f[x] \in Nat
    PROVE  SumOver(f, S) = Size(f, S)
<1> DEFINE h == [T \in SUBSET S |-> Size(f, T)]
           g == CHOOSE g : Adds(g, f, S)
           W == {T \in SUBSET S : g[T] # Size(f, T)}
<1>1. ASSUME NEW T \in SUBSET S, T # {}
      PROVE  /\ Pick(T) \in T /\ Size(f, T) = f[Pick(T)] + Size(f, T \ {Pick(T)})
             /\ T \ {Pick(T)} \in SUBSET S
  <2>1. Pick(T) \in T
    BY <1>1 DEF Pick
  <2>2. IsFiniteSet(T) /\ \A x \in T : f[x] \in Nat
    BY FS_Subset
  <2> QED BY <2>1, <2>2, SizeStep
<1>2. Adds(h, f, S)
  <2>1. ASSUME NEW T \in SUBSET S
        PROVE  h[T] = IF T = {} THEN 0 ELSE f[Pick(T)] + h[T \ {Pick(T)}]
    BY <1>1, SizeEmpty
  <2> HIDE DEF h
  <2>2. h = [T \in SUBSET S |-> h[T]]
    BY DEF h
  <2> QED BY <2>1, <2>2 DEF Adds
<1>3. Adds(g, f, S)
  BY <1>2
<1> HIDE DEF g, h
<1>4. SUFFICES ASSUME W # {} PROVE FALSE
  BY SumIsChosen DEF g
<1>5. PICK T \in W : \A U \in W : U \subseteq T => U = T
  <2>1. W \in SUBSET SUBSET S
    OBVIOUS
  <2> HIDE DEF W
  <2> QED BY <1>4, <2>1, Smallest
<1>6. g[T] = IF T = {} THEN 0 ELSE f[Pick(T)] + g[T \ {Pick(T)}]
  BY <1>3, <1>5 DEF Adds
<1>7. T # {}
  BY <1>5, <1>6, SizeEmpty
<1>8. Pick(T) \in T /\ T \ {Pick(T)} \in SUBSET S /\ Size(f, T) = f[Pick(T)] + Size(f, T \ {Pick(T)})
  BY <1>1, <1>7
<1>9. g[T \ {Pick(T)}] = Size(f, T \ {Pick(T)})
  BY <1>5, <1>8
<1> QED BY <1>5, <1>6, <1>7, <1>8, <1>9

(* The facts about sums that the proofs use.                                 *)
LEMMA SumEmpty == ASSUME NEW f PROVE SumOver(f, {}) = 0
<1>1. \A x \in {} : f[x] \in Nat
  OBVIOUS
<1> QED BY <1>1, SumIsSize, SizeEmpty, FS_EmptySet

LEMMA SumStep ==
    ASSUME NEW S, IsFiniteSet(S), NEW f, \A y \in S : f[y] \in Nat, NEW x \in S
    PROVE  /\ SumOver(f, S) \in Nat /\ SumOver(f, S \ {x}) \in Nat
           /\ SumOver(f, S) = f[x] + SumOver(f, S \ {x})
<1>1. IsFiniteSet(S \ {x})
  BY FS_RemoveElement
<1>2. Size(f, S \ {x}) \in Nat
  BY <1>1, UnitsFinite, FS_CardinalityType DEF Size
<1> QED BY <1>1, <1>2, SizeStep, SumIsSize

LEMMA SumNat ==
    ASSUME NEW S, IsFiniteSet(S), NEW f, \A y \in S : f[y] \in Nat
    PROVE  SumOver(f, S) \in Nat
BY UnitsFinite, SumIsSize, FS_CardinalityType DEF Size

LEMMA SumSame ==
    ASSUME NEW S, IsFiniteSet(S), NEW f, NEW g, \A y \in S : f[y] \in Nat /\ g[y] = f[y]
    PROVE  SumOver(g, S) = SumOver(f, S)
<1>1. Units(f, S) = Units(g, S)
  BY DEF Units
<1> QED BY <1>1, SumIsSize DEF Size

LEMMA SumMono ==
    ASSUME NEW S, IsFiniteSet(S), NEW f, \A y \in S : f[y] \in Nat, NEW T \in SUBSET S
    PROVE  SumOver(f, T) <= SumOver(f, S)
<1>1. IsFiniteSet(T) /\ \A y \in T : f[y] \in Nat
  BY FS_Subset
<1>2. Units(f, T) \in SUBSET Units(f, S)
  BY DEF Units
<1>3. Cardinality(Units(f, T)) <= Cardinality(Units(f, S))
  BY <1>2, UnitsFinite, FS_Subset
<1> QED BY <1>1, <1>3, SumIsSize DEF Size

LEMMA SumLeq ==
    ASSUME NEW S, IsFiniteSet(S), NEW f, NEW g,
           \A y \in S : f[y] \in Nat /\ g[y] \in Nat /\ f[y] <= g[y]
    PROVE  SumOver(f, S) <= SumOver(g, S)
<1>1. Units(f, S) \in SUBSET Units(g, S)
  <2>1. \A y \in S : 1..f[y] \subseteq 1..g[y]
    OBVIOUS
  <2> QED BY <2>1 DEF Units
<1>2. Cardinality(Units(f, S)) <= Cardinality(Units(g, S))
  BY <1>1, UnitsFinite, FS_Subset
<1> QED BY <1>2, SumIsSize DEF Size

LEMMA SumZero ==
    ASSUME NEW S, IsFiniteSet(S), NEW f, \A y \in S : f[y] = 0
    PROVE  SumOver(f, S) = 0
<1>1. Units(f, S) = {}
  BY DEF Units
<1> QED BY <1>1, SumIsSize, FS_EmptySet DEF Size

(* The sum of sums, also by a smallest set on which it would not be so.      *)
LEMMA SumAdd ==
    ASSUME NEW S, IsFiniteSet(S), NEW f, NEW g, NEW h,
           \A y \in S : f[y] \in Nat /\ g[y] \in Nat /\ h[y] = f[y] + g[y]
    PROVE  SumOver(h, S) = SumOver(f, S) + SumOver(g, S)
<1> DEFINE W == {T \in SUBSET S : SumOver(h, T) # SumOver(f, T) + SumOver(g, T)}
<1>1. SUFFICES ASSUME W # {} PROVE FALSE
  OBVIOUS
<1>2. PICK T \in W : \A U \in W : U \subseteq T => U = T
  <2>1. W \in SUBSET SUBSET S
    OBVIOUS
  <2> HIDE DEF W
  <2> QED BY <1>1, <2>1, Smallest
<1>3. T # {}
  <2>1. SumOver(h, {}) = 0 /\ SumOver(f, {}) = 0 /\ SumOver(g, {}) = 0
    BY SumEmpty
  <2>2. SumOver(h, T) # SumOver(f, T) + SumOver(g, T)
    BY <1>2
  <2> SUFFICES ASSUME T = {} PROVE FALSE
    OBVIOUS
  <2>3. SumOver(h, T) = 0 /\ SumOver(f, T) = 0 /\ SumOver(g, T) = 0
    BY <2>1, Zenon
  <2> QED BY <2>2, <2>3
<1>4. PICK x \in T : TRUE
  BY <1>3
<1>5. /\ IsFiniteSet(T) /\ T \ {x} \in SUBSET S /\ T \ {x} \subseteq T /\ T \ {x} # T
      /\ \A y \in T : f[y] \in Nat /\ g[y] \in Nat /\ h[y] \in Nat /\ h[y] = f[y] + g[y]
  BY <1>2, FS_Subset
<1>6. T \ {x} \notin W
  BY <1>2, <1>5
<1>7. SumOver(h, T \ {x}) = SumOver(f, T \ {x}) + SumOver(g, T \ {x})
  BY <1>5, <1>6
<1>8. /\ SumOver(h, T) = h[x] + SumOver(h, T \ {x}) /\ SumOver(h, T \ {x}) \in Nat
      /\ SumOver(f, T) = f[x] + SumOver(f, T \ {x}) /\ SumOver(f, T \ {x}) \in Nat
      /\ SumOver(g, T) = g[x] + SumOver(g, T \ {x}) /\ SumOver(g, T \ {x}) \in Nat
  BY <1>5, SumStep
<1>9. SumOver(h, T) = SumOver(f, T) + SumOver(g, T)
  BY <1>5, <1>7, <1>8
<1> QED BY <1>2, <1>9

(* The sum of f over T, where only x may leave or join T or change its number. *)
Share(f, T, x) == IF x \in T THEN f[x] ELSE 0

LEMMA SumChange ==
    ASSUME NEW S, IsFiniteSet(S), NEW x \in S, NEW T \in SUBSET S, NEW U \in SUBSET S,
           NEW f, NEW g, \A y \in T : f[y] \in Nat, \A y \in U : g[y] \in Nat,
           \A y \in S \ {x} : (y \in T <=> y \in U) /\ (y \in T => g[y] = f[y])
    PROVE  /\ SumOver(f, T) \in Nat /\ SumOver(g, U) \in Nat
           /\ SumOver(g, U) - Share(g, U, x) = SumOver(f, T) - Share(f, T, x)
<1> DEFINE rest == T \ {x}
<1>1. /\ IsFiniteSet(T) /\ IsFiniteSet(U) /\ IsFiniteSet(rest)
      /\ rest = T \ {x} /\ rest = U \ {x}
  BY FS_Subset
<1>a. /\ x \notin T => rest = T
      /\ x \notin U => rest = U
      /\ \A y \in rest : f[y] \in Nat /\ g[y] = f[y]
  BY <1>1
<1> HIDE DEF rest
<1>2. SumOver(f, T) \in Nat /\ SumOver(g, U) \in Nat
  BY <1>1, SumNat
<1>3. SumOver(g, rest) = SumOver(f, rest) /\ SumOver(f, rest) \in Nat
  BY <1>1, <1>a, SumSame, SumNat
<1>4. SumOver(f, T) = Share(f, T, x) + SumOver(f, rest)
  <2>1. CASE x \in T  BY <1>1, <2>1, SumStep DEF Share
  <2>2. CASE x \notin T  BY <1>a, <1>3, <2>2 DEF Share
  <2> QED BY <2>1, <2>2
<1>5. SumOver(g, U) = Share(g, U, x) + SumOver(g, rest)
  <2>1. CASE x \in U  BY <1>1, <2>1, SumStep DEF Share
  <2>2. CASE x \notin U  BY <1>a, <1>3, <2>2 DEF Share
  <2> QED BY <2>1, <2>2
<1>6. Share(f, T, x) \in Nat /\ Share(g, U, x) \in Nat
  BY DEF Share
<1> QED BY <1>3, <1>4, <1>5, <1>6

(* The sum of a list's amounts when one is appended. *)
LEMMA TotalAppend ==
    ASSUME NEW n \in Nat, NEW f, DOMAIN f = 1..n, NEW g, DOMAIN g = 1..(n + 1),
           \A m \in 1..n : f[m] \in Nat /\ g[m] = f[m], g[n + 1] \in Nat
    PROVE  /\ Total(f) \in Nat /\ Total(g) \in Nat
           /\ Total(g) = Total(f) + g[n + 1]
<1> DEFINE S == 1..(n + 1)
           T == 1..n
<1>1. IsFiniteSet(S)
  BY FS_Interval
<1>2. n + 1 \in S /\ T \in SUBSET S /\ n + 1 \notin T /\ S \in SUBSET S /\ S \ {n + 1} = T
  OBVIOUS
<1>3. /\ \A m \in T : f[m] \in Nat /\ g[m] = f[m]
      /\ \A m \in S : g[m] \in Nat
  <2>1. \A m \in S : m \in T \/ m = n + 1
    OBVIOUS
  <2> QED BY <2>1
<1> HIDE DEF S, T
<1>4. SumOver(g, S) \in Nat /\ SumOver(g, T) \in Nat /\ SumOver(g, S) = g[n + 1] + SumOver(g, T)
  BY <1>1, <1>2, <1>3, SumStep
<1>5. IsFiniteSet(T)
  BY <1>1, <1>2, FS_Subset
<1>6. SumOver(g, T) = SumOver(f, T)
  BY <1>3, <1>5, SumSame
<1>7. Total(f) = SumOver(f, T) /\ Total(g) = SumOver(g, S)
  BY DEF Total, S, T
<1> QED BY <1>4, <1>6, <1>7

(* The total when one amount changes. *)
LEMMA TotalChange ==
    ASSUME NEW S, IsFiniteSet(S), NEW x \in S, NEW f, NEW g, DOMAIN f = S, DOMAIN g = S,
           \A y \in S : f[y] \in Nat /\ g[y] \in Nat, \A y \in S \ {x} : g[y] = f[y]
    PROVE  /\ Total(f) \in Nat /\ Total(g) \in Nat
           /\ Total(g) - g[x] = Total(f) - f[x]
<1>1. SumOver(g, S) - Share(g, S, x) = SumOver(f, S) - Share(f, S, x)
      /\ SumOver(f, S) \in Nat /\ SumOver(g, S) \in Nat
  BY SumChange
<1> QED BY <1>1 DEF Share, Total

(* The sum of equal values. *)
LEMMA SumConstant ==
    ASSUME NEW S, IsFiniteSet(S), NEW k \in Nat, NEW f, \A y \in S : f[y] = k
    PROVE  SumOver(f, S) = Cardinality(S) * k
<1> DEFINE T == 1..k
<1>1. IsFiniteSet(T) /\ Cardinality(T) = k
  BY FS_Interval
<1>2. Units(f, S) = S \X T
  BY DEF Units
<1> HIDE DEF T
<1>3. Cardinality(S \X T) = Cardinality(S) * Cardinality(T)
  BY <1>1, FS_Product
<1>4. SumOver(f, S) = Size(f, S)
  BY SumIsSize
<1> QED BY <1>1, <1>2, <1>3, <1>4 DEF Size

(* Sums and numbers over two sets without a common member. *)
LEMMA SumUnion ==
    ASSUME NEW S, IsFiniteSet(S), NEW T, IsFiniteSet(T), S \cap T = {},
           NEW f, \A x \in S \cup T : f[x] \in Nat
    PROVE  SumOver(f, S \cup T) = SumOver(f, S) + SumOver(f, T)
<1>1. Units(f, S \cup T) = Units(f, S) \cup Units(f, T)
  BY DEF Units
<1>2. Units(f, S) \cap Units(f, T) = {}
  BY DEF Units
<1>3. IsFiniteSet(S \cup T)
  BY FS_Union
<1>4. /\ IsFiniteSet(Units(f, S)) /\ IsFiniteSet(Units(f, T))
      /\ Cardinality(Units(f, S)) \in Nat /\ Cardinality(Units(f, T)) \in Nat
  BY UnitsFinite, FS_CardinalityType
<1>5. Cardinality(Units(f, S) \cup Units(f, T)) =
         Cardinality(Units(f, S)) + Cardinality(Units(f, T)) - Cardinality(Units(f, S) \cap Units(f, T))
  BY <1>4, FS_Union
<1>6. Cardinality(Units(f, S) \cap Units(f, T)) = 0
  BY <1>2, FS_EmptySet
<1>7. SumOver(f, S) = Size(f, S) /\ SumOver(f, T) = Size(f, T)
  <2>1. (\A x \in S : f[x] \in Nat) /\ (\A x \in T : f[x] \in Nat)
    OBVIOUS
  <2> QED BY <2>1, SumIsSize
<1>8. SumOver(f, S \cup T) = Size(f, S \cup T)
  BY <1>3, SumIsSize
<1>9. Size(f, S \cup T) = Cardinality(Units(f, S) \cup Units(f, T))
  BY <1>1 DEF Size
<1>10. Size(f, S) = Cardinality(Units(f, S)) /\ Size(f, T) = Cardinality(Units(f, T))
  BY DEF Size
<1> QED BY <1>4, <1>5, <1>6, <1>7, <1>8, <1>9, <1>10

(* What is added up by kinds is the sum of all. *)
OfKind(S, key, T) == {x \in S : key[x] \in T}

AddsByKind(g, C, f, S, key) == \A c \in C : g[c] = SumOver(f, OfKind(S, key, {c}))

LEMMA SumByKind ==
    ASSUME NEW S, IsFiniteSet(S), NEW f, \A x \in S : f[x] \in Nat,
           NEW C, IsFiniteSet(C), NEW key, \A x \in S : key[x] \in C,
           NEW g, AddsByKind(g, C, f, S, key)
    PROVE  SumOver(g, C) = SumOver(f, S)
<1> DEFINE W == {T \in SUBSET C : SumOver(g, T) # SumOver(f, OfKind(S, key, T))}
<1>1. \A T : /\ OfKind(S, key, T) \in SUBSET S /\ IsFiniteSet(OfKind(S, key, T))
             /\ \A x \in OfKind(S, key, T) : f[x] \in Nat
  <2> TAKE T
  <2>1. OfKind(S, key, T) \in SUBSET S
    BY DEF OfKind
  <2> QED BY <2>1, FS_Subset
<1>2. \A c \in C : g[c] \in Nat
  BY <1>1, SumNat DEF AddsByKind
<1>3. ASSUME W # {} PROVE FALSE
  <2>1. PICK T \in W : \A U \in W : U \subseteq T => U = T
    <3>1. W \in SUBSET SUBSET C
      OBVIOUS
    <3> HIDE DEF W
    <3> QED BY <1>3, <3>1, Smallest
  <2>2. T \in SUBSET C /\ SumOver(g, T) # SumOver(f, OfKind(S, key, T))
    BY <2>1
  <2>3. T # {}
    <3>1. OfKind(S, key, {}) = {} /\ SumOver(g, {}) = 0 /\ SumOver(f, {}) = 0
      BY SumEmpty DEF OfKind
    <3>2. SumOver(g, {}) = SumOver(f, OfKind(S, key, {}))
      BY <3>1, Zenon
    <3> QED BY <2>2, <3>2, Zenon
  <2>4. PICK c \in T : TRUE
    BY <2>3
  <2> DEFINE rest == T \ {c}
  <2>5. /\ IsFiniteSet(T) /\ \A x \in T : g[x] \in Nat
        /\ rest \in SUBSET C /\ rest \subseteq T /\ rest # T
    BY <1>2, <2>2, <2>4, FS_Subset
  <2>6. SumOver(g, T) = g[c] + SumOver(g, rest)
    BY <2>4, <2>5, SumStep
  <2>7. SumOver(g, rest) = SumOver(f, OfKind(S, key, rest))
    BY <2>1, <2>5
  <2>8. g[c] = SumOver(f, OfKind(S, key, {c}))
    BY <2>2, <2>4 DEF AddsByKind
  <2>9. /\ OfKind(S, key, {c}) \cap OfKind(S, key, rest) = {}
        /\ OfKind(S, key, {c}) \cup OfKind(S, key, rest) = OfKind(S, key, T)
    BY <2>4 DEF OfKind
  <2>10. \A x \in OfKind(S, key, {c}) \cup OfKind(S, key, rest) : f[x] \in Nat
    BY <1>1, <2>9
  <2>11. SumOver(f, OfKind(S, key, T)) = SumOver(f, OfKind(S, key, {c})) + SumOver(f, OfKind(S, key, rest))
    <3> HIDE DEF rest
    <3>1. SumOver(f, OfKind(S, key, {c}) \cup OfKind(S, key, rest)) =
             SumOver(f, OfKind(S, key, {c})) + SumOver(f, OfKind(S, key, rest))
      BY <1>1, <2>9, <2>10, SumUnion
    <3> QED BY <2>9, <3>1
  <2> QED BY <2>2, <2>6, <2>7, <2>8, <2>11
<1>4. SumOver(g, C) = SumOver(f, OfKind(S, key, C))
  BY <1>3
<1>5. OfKind(S, key, C) = S
  BY DEF OfKind
<1> QED BY <1>4, <1>5

CountsByKind(g, C, S, key) == \A c \in C : g[c] = Cardinality(OfKind(S, key, {c}))

LEMMA CountByKind ==
    ASSUME NEW S, IsFiniteSet(S), NEW C, IsFiniteSet(C), NEW key, \A x \in S : key[x] \in C,
           NEW g, CountsByKind(g, C, S, key)
    PROVE  SumOver(g, C) = Cardinality(S)
<1> DEFINE one == [x \in S |-> 1]
<1>1. \A x \in S : one[x] = 1
  OBVIOUS
<1> HIDE DEF one
<1>2. ASSUME NEW T \in SUBSET S PROVE SumOver(one, T) = Cardinality(T)
  <2>1. IsFiniteSet(T) /\ Cardinality(T) \in Nat /\ \A x \in T : one[x] = 1
    BY <1>1, FS_Subset, FS_CardinalityType
  <2>2. SumOver(one, T) = Cardinality(T) * 1
    BY <2>1, SumConstant
  <2> QED BY <2>1, <2>2
<1>3. AddsByKind(g, C, one, S, key)
  BY <1>2 DEF OfKind, AddsByKind, CountsByKind
<1>4. SumOver(g, C) = SumOver(one, S)
  <2>1. \A x \in S : one[x] \in Nat
    BY <1>1
  <2> QED BY <1>3, <2>1, SumByKind
<1> QED BY <1>2, <1>4

----------------------------------------------------------------------------
(* Products, quotients and averages. *)

LEMMA ProductGrows ==
    ASSUME NEW a \in Nat, NEW b \in Nat, NEW c \in Nat, a <= b
    PROVE  a * c \in Nat /\ b * c \in Nat /\ a * c <= b * c
<1>1. (b - a) \in Nat
  OBVIOUS
<1>2. (b - a) * c \in Nat
  BY <1>1
<1>3. (b - a) * c = b * c - a * c
  OBVIOUS
<1> QED BY <1>2, <1>3

LEMMA QuotientIs ==
    ASSUME NEW a \in Nat, NEW d \in Nat \ {0}
    PROVE  /\ a \div d \in Nat
           /\ (a \div d) * d <= a /\ a < (a \div d + 1) * d
OBVIOUS

(* An average has values on either side: were all above it, by one at least, *)
(* the sum would be larger than it is, and were all below, smaller.          *)
LEMMA AverageBetween ==
    ASSUME NEW n \in Nat \ {0}, NEW f, DOMAIN f = 1..n, \A m \in 1..n : f[m] \in Nat
    PROVE  /\ Total(f) \div n \in Nat
           /\ \E m \in 1..n : f[m] <= Total(f) \div n
           /\ \E m \in 1..n : Total(f) \div n <= f[m]
<1> DEFINE S == 1..n
           sum == SumOver(f, S)
           a == sum \div n
<1>1. IsFiniteSet(S) /\ Cardinality(S) = n
  BY FS_Interval
<1> HIDE DEF S
<1>2. \A m \in S : f[m] \in Nat
  BY DEF S
<1>3. sum \in Nat
  BY <1>1, <1>2, SumNat
<1>4. Total(f) = sum
  BY DEF Total, S
<1> HIDE DEF sum
<1>5. a \in Nat /\ a * n <= sum /\ sum < (a + 1) * n
  BY <1>3, QuotientIs
<1> HIDE DEF a
<1>6. \E m \in S : f[m] <= a
  <2> DEFINE least == [m \in S |-> a + 1]
  <2>1. SUFFICES ASSUME \A m \in S : ~(f[m] <= a) PROVE FALSE
    OBVIOUS
  <2>2. \A m \in S : least[m] \in Nat /\ f[m] \in Nat /\ least[m] <= f[m]
    BY <1>2, <1>5, <2>1
  <2>3. a + 1 \in Nat /\ \A m \in S : least[m] = a + 1
    BY <1>5
  <2> HIDE DEF least
  <2>4. SumOver(least, S) = n * (a + 1)
    BY <1>1, <2>3, SumConstant
  <2>5. SumOver(least, S) <= sum
    BY <1>1, <2>2, SumLeq DEF sum
  <2>6. n * (a + 1) = (a + 1) * n /\ (a + 1) * n \in Nat
    BY <1>5
  <2> QED BY <1>3, <1>5, <2>4, <2>5, <2>6
<1>7. \E m \in S : a <= f[m]
  <2> DEFINE most == [m \in S |-> a - 1]
  <2>1. SUFFICES ASSUME \A m \in S : ~(a <= f[m]) PROVE FALSE
    OBVIOUS
  <2>2. 1 \in S
    BY DEF S
  <2>3. a - 1 \in Nat /\ \A m \in S : most[m] = a - 1
    <3>1. f[1] \in Nat /\ ~(a <= f[1])
      BY <1>2, <2>1, <2>2
    <3> QED BY <1>5, <3>1
  <2>4. \A m \in S : f[m] \in Nat /\ most[m] \in Nat /\ f[m] <= most[m]
    BY <1>2, <1>5, <2>1, <2>3
  <2> HIDE DEF most
  <2>5. SumOver(most, S) = n * (a - 1)
    BY <1>1, <2>3, SumConstant
  <2>6. sum <= SumOver(most, S)
    BY <1>1, <2>4, SumLeq DEF sum
  <2>7. n * (a - 1) = a * n - n /\ a * n \in Nat
    BY <1>5
  <2> QED BY <1>3, <1>5, <2>5, <2>6, <2>7
<1> QED BY <1>4, <1>5, <1>6, <1>7 DEF a, S

LEMMA MemberOf == \A S : \A s \in Seq(S) : \A n \in DOMAIN s : s[n] \in S
OBVIOUS

(* Two lists without a common entry, one after the other. *)
LEMMA ConcatDistinct ==
    ASSUME NEW S, NEW a \in Seq(S), NEW b \in Seq(S), IsInjective(a), IsInjective(b),
           \A i : ~(Contains(a, i) /\ Contains(b, i))
    PROVE  IsInjective(a \o b)
<1>1. Len(a) \in Nat /\ Len(b) \in Nat /\ DOMAIN (a \o b) = 1..(Len(a) + Len(b))
      /\ DOMAIN a = 1..Len(a) /\ DOMAIN b = 1..Len(b)
  OBVIOUS
<1>2. ASSUME NEW n \in 1..(Len(a) + Len(b))
      PROVE  \/ n \in 1..Len(a) /\ (a \o b)[n] = a[n]
             \/ n - Len(a) \in 1..Len(b) /\ (a \o b)[n] = b[n - Len(a)]
  BY <1>1
<1>3. ASSUME NEW m \in 1..(Len(a) + Len(b)), NEW n \in 1..(Len(a) + Len(b)), (a \o b)[m] = (a \o b)[n]
      PROVE  m = n
  <2>1. CASE m \in 1..Len(a) /\ n \in 1..Len(a) /\ a[m] = a[n]
    BY <1>1, <2>1 DEF IsInjective
  <2>2. CASE m - Len(a) \in 1..Len(b) /\ n - Len(a) \in 1..Len(b) /\ b[m - Len(a)] = b[n - Len(a)]
    <3>1. m - Len(a) = n - Len(a)
      BY <1>1, <2>2, Zenon DEF IsInjective
    <3> QED BY <1>1, <3>1
  <2>3. \A k \in 1..Len(a) : Contains(a, a[k])
    BY <1>1 DEF Contains
  <2>4. \A k \in 1..Len(b) : Contains(b, b[k])
    BY <1>1 DEF Contains
  <2> QED BY <1>2, <1>3, <2>1, <2>2, <2>3, <2>4
<1> QED BY <1>1, <1>3 DEF IsInjective

(***************************************************************************)
(* The indexes of a list of n entries are finitely many; a list whose      *)
(* entries all lie in S is a list over S.                                  *)
(***************************************************************************)
LEMMA IndexesFinite == \A n \in Nat : IsFiniteSet(1..n)
BY FS_Interval

LEMMA ListOver == ASSUME NEW S, NEW T, NEW s \in Seq(T), \A k \in DOMAIN s : s[k] \in S
                  PROVE  s \in Seq(S)
<1>1. Len(s) \in Nat /\ DOMAIN s = 1..Len(s) /\ s = [k \in 1..Len(s) |-> s[k]]
  OBVIOUS
<1>2. s \in [1..Len(s) -> S]
  BY <1>1
<1> QED BY <1>1, <1>2

=============================================================================
