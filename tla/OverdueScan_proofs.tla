-------------------------- MODULE OverdueScan_proofs --------------------------
(***************************************************************************)
(* The overdue scan, for any number of Funded invoices and any batch sizes:*)
(* the list stays in order and free of closed deals however it grows and   *)
(* closes up between the calls.                                            *)
(***************************************************************************)
EXTENDS OverdueScan, Collections_proofs

----------------------------------------------------------------------------
(* The list. *)

Listed == funded \in Seq(Invoice) /\ IsInjective(funded)

LEMMA RemovalKeepsOrder ==
    ASSUME Listed, NEW gone
    PROVE  /\ Remaining(gone) \in Seq(Invoice) /\ IsInjective(Remaining(gone))
           /\ \A i : Contains(Remaining(gone), i) <=> Contains(funded, i) /\ i \notin gone
           /\ \A i, j : Before(Remaining(gone), i, j) => Before(funded, i, j)
BY WithoutKeeps DEF Listed, Remaining

(* In a list without repetitions the order of two entries is one of two.     *)
LEMMA OneOrder ==
    ASSUME Listed, NEW i, NEW j, Before(funded, i, j)
    PROVE  ~Before(funded, j, i) /\ Contains(funded, i) /\ Contains(funded, j)
BY DEF Listed, IsInjective, Before, Contains

(* The list is no longer than there are invoices to list. *)
LEMMA ListIsShort ==
    ASSUME Listed
    PROVE  /\ Len(funded) \in Nat /\ Cardinality(Invoice) \in Nat \ {0}
           /\ Len(funded) <= Cardinality(Invoice)
<1> DEFINE n == Len(funded)
<1>1. /\ n \in Nat /\ DOMAIN funded = 1..n /\ funded \in [1..n -> Invoice]
  BY DEF Listed
<1>2. /\ IsFiniteSet(Invoice) /\ Invoice # {}
      /\ IsFiniteSet(1..n) /\ Cardinality(1..n) = n
  <2> HIDE DEF n
  <2>1. IsFiniteSet(1..n) /\ Cardinality(1..n) = n
    BY <1>1, FS_Interval
  <2> QED BY <2>1, ScanConstantsOK
<1>3. funded \in Injection(1..n, Invoice)
  <2>1. \A m, k \in 1..n : funded[m] = funded[k] => m = k
    BY <1>1 DEF Listed, IsInjective
  <2> HIDE DEF n
  <2> QED BY <1>1, <2>1, Fun_IsInj
<1> HIDE DEF n
<1>4. Cardinality(1..n) <= Cardinality(Invoice)
  BY <1>2, <1>3, FS_Injection
<1>5. Cardinality(Invoice) \in Nat /\ Cardinality(Invoice) # 0
  BY <1>2, FS_CardinalityType, FS_EmptySet
<1>6. n \in Nat /\ Cardinality(Invoice) \in Nat \ {0} /\ n <= Cardinality(Invoice)
  BY <1>1, <1>2, <1>4, <1>5
<1> QED BY <1>6 DEF n

LEMMA ModRange == ASSUME NEW a \in Nat, NEW b \in Nat, b > 0 PROVE a % b \in 0..(b - 1)
OBVIOUS

(* The scan inspects positions of the list and stores one. *)
LEMMA WindowIsListed ==
    ASSUME Listed, cursor \in Nat, funded # <<>>, NEW limit \in Limits
    PROVE  /\ Window(limit) \in SUBSET Invoice
           /\ \A i \in Window(limit) : IsFunded(i)
           /\ NextCursor(limit) \in 0..(Len(funded) - 1)
<1>1. Len(funded) \in Nat /\ Len(funded) > 0 /\ \A m \in 1..Len(funded) : funded[m] \in Invoice
  BY DEF Listed
<1>2. Start \in Nat
  BY DEF Start
<1>3. BatchSize(limit) \in Nat
  <2>1. limit \in Nat /\ MaxBatch \in Nat \ {0}
    BY ScanConstantsOK
  <2> QED BY <1>1, <2>1 DEF BatchSize, AtMost, AtLeast
<1>4. ASSUME NEW d \in 0..(BatchSize(limit) - 1)
      PROVE  ((Start + d) % Len(funded)) + 1 \in 1..Len(funded)
  <2>1. Start + d \in Nat
    BY <1>2, <1>3
  <2>2. (Start + d) % Len(funded) \in 0..(Len(funded) - 1)
    BY <1>1, <2>1, ModRange
  <2> QED BY <1>1, <2>2
<1>5. \A i \in Window(limit) : \E m \in 1..Len(funded) : funded[m] = i
  BY <1>4 DEF Window
<1>6. NextCursor(limit) \in 0..(Len(funded) - 1)
  <2>1. (Start + BatchSize(limit)) % Len(funded) \in 0..(Len(funded) - 1)
    BY <1>1, <1>2, <1>3, ModRange
  <2> QED BY <1>1, <2>1 DEF NextCursor
<1> QED BY <1>1, <1>5, <1>6 DEF IsFunded, Contains

----------------------------------------------------------------------------
(* Every action does one of four things to the list. *)

Typed == Listed /\ cursor \in Nat /\ late \subseteq Invoice /\ over \subseteq Invoice

Stays == UNCHANGED <<funded, over>>

(* The invoices of gone leave the list with their deals closed. *)
Closes(gone) ==
    /\ gone \in SUBSET Invoice
    /\ gone \cap over = {}
    /\ funded' = Remaining(gone)
    /\ over' = over \cup gone

Grows(i) ==
    /\ ~IsFunded(i)
    /\ funded' = Append(funded, i)
    /\ over' = over \ {i}

Requeues(i) ==
    /\ i \in over
    /\ funded' = Append(Remaining({i}), i)
    /\ UNCHANGED over

Moves == Stays \/ (\E gone \in SUBSET Invoice : Closes(gone)) \/ (\E i \in Invoice : Grows(i))

LEMMA StepMovesList == ASSUME Typed, [Next]_vars PROVE Moves
<1>1. ASSUME NEW limit \in Limits, Scan(limit) PROVE Moves
  <2>1. Closes(Window(limit) \cap late)
    <3>1. Window(limit) \in SUBSET Invoice
      BY <1>1, WindowIsListed DEF Scan, Typed
    <3> QED BY <1>1, <3>1 DEF Scan, DefaultAll, Closes
  <2> QED BY <2>1 DEF Moves, Closes
<1>2. ASSUME ScanOfNothing PROVE Moves
  BY <1>2 DEF ScanOfNothing, Moves, Stays
<1>3. ASSUME NEW i \in Invoice, Fund(i) PROVE Moves
  BY <1>3 DEF Fund, Moves, Grows
<1>4. ASSUME NEW i \in Invoice, Close(i) PROVE Moves
  <2>1. Closes({i})
    BY <1>4 DEF Close, Closes
  <2> QED BY <2>1 DEF Moves, Closes
<1>5. ASSUME NEW i \in Invoice, Lapse(i) PROVE Moves
  BY <1>5 DEF Lapse, Moves, Stays
<1>6. ASSUME NEW i \in Invoice, MarkDefaulted(i) PROVE Moves
  <2>1. Closes({i})
    BY <1>6 DEF MarkDefaulted, DefaultAll, Closes
  <2> QED BY <2>1 DEF Moves, Closes
<1>7. ASSUME UNCHANGED vars PROVE Moves
  BY <1>7 DEF vars, Moves, Stays
<1> QED BY <1>1, <1>2, <1>3, <1>4, <1>5, <1>6, <1>7 DEF Next, AnyScan

LEMMA ResetRequeues == ASSUME NEW i \in Invoice, Reset(i) PROVE Requeues(i)
BY DEF Reset, Requeues

(* What each of the four leaves true of the list. *)
LEMMA MovesKeepList ==
    ASSUME Listed, over \subseteq Invoice, Moves \/ \E i \in Invoice : Requeues(i)
    PROVE  Listed' /\ over' \subseteq Invoice
<1>1. CASE Stays
  BY <1>1 DEF Stays, Listed
<1>2. ASSUME NEW gone \in SUBSET Invoice, Closes(gone) PROVE Listed' /\ over' \subseteq Invoice
  BY <1>2, RemovalKeepsOrder DEF Closes, Listed
<1>3. ASSUME NEW i \in Invoice, Grows(i) PROVE Listed' /\ over' \subseteq Invoice
  BY <1>3, AppendKeeps DEF Grows, Listed, IsFunded
<1>4. ASSUME NEW i \in Invoice, Requeues(i) PROVE Listed' /\ over' \subseteq Invoice
  BY <1>4, RemovalKeepsOrder, AppendKeeps DEF Requeues, Listed
<1> QED BY <1>1, <1>2, <1>3, <1>4 DEF Moves

LEMMA InitTyped == ASSUME Init PROVE TypeOK
<1>1. Listed
  BY DEF Init, Listed, IsInjective
<1>2. Cardinality(Invoice) \in Nat \ {0}
  BY <1>1, ListIsShort
<1> QED BY <1>1, <1>2 DEF Init, TypeOK, Listed

LEMMA StepKeepsTypes == ASSUME TypeOK, [NextWithReset]_vars PROVE TypeOK'
<1>1. Typed /\ Cardinality(Invoice) \in Nat \ {0} /\ Len(funded) <= Cardinality(Invoice)
  BY ListIsShort DEF TypeOK, Typed, Listed
<1>2. Listed' /\ over' \subseteq Invoice
  <2>1. Moves \/ \E i \in Invoice : Requeues(i)
    BY <1>1, StepMovesList, ResetRequeues DEF NextWithReset, vars
  <2> QED BY <1>1, <2>1, MovesKeepList DEF Typed
<1>3. cursor' \in 0..(Cardinality(Invoice) - 1)
  <2>1. ASSUME NEW limit \in Limits, Scan(limit) PROVE cursor' \in 0..(Cardinality(Invoice) - 1)
    <3>1. NextCursor(limit) \in 0..(Len(funded) - 1)
      BY <1>1, <2>1, WindowIsListed DEF Scan, Typed
    <3> QED BY <1>1, <2>1, <3>1 DEF Scan, Typed, Listed
  <2>2. CASE ScanOfNothing
    BY <1>1, <2>2 DEF ScanOfNothing
  <2>3. CASE UNCHANGED cursor
    BY <2>3 DEF TypeOK
  <2> QED BY <2>1, <2>2, <2>3
        DEF NextWithReset, Next, AnyScan, Fund, Close, Lapse, MarkDefaulted, Reset, vars
<1>4. late' \subseteq Invoice
  BY DEF NextWithReset, Next, AnyScan, Scan, ScanOfNothing, Fund, Close, Lapse, MarkDefaulted,
         Reset, vars, TypeOK
<1> QED BY <1>2, <1>3, <1>4 DEF TypeOK, Listed

(* NoFundedIsOver is inductive once the list is well formed. *)
LEMMA StepKeepsOpen ==
    ASSUME TypeOK, NoFundedIsOver, [Next]_vars
    PROVE  NoFundedIsOver'
<1>1. Typed /\ Listed
  BY DEF TypeOK, Typed, Listed
<1>2. CASE Stays
  BY <1>2 DEF Stays, NoFundedIsOver, IsFunded
<1>3. ASSUME NEW gone \in SUBSET Invoice, Closes(gone) PROVE NoFundedIsOver'
  BY <1>1, <1>3, RemovalKeepsOrder DEF Closes, NoFundedIsOver, IsFunded
<1>4. ASSUME NEW i \in Invoice, Grows(i) PROVE NoFundedIsOver'
  BY <1>1, <1>4, AppendKeeps DEF Grows, NoFundedIsOver, IsFunded, Listed
<1> QED BY <1>1, <1>2, <1>3, <1>4, StepMovesList DEF Moves

LEMMA StepKeepsOrder ==
    ASSUME TypeOK, [NextWithReset]_vars, NEW i \in Invoice \ over, NEW j \in Invoice \ over,
           Before(funded, i, j)
    PROVE  ~Before(funded', j, i)
<1>1. /\ Typed /\ Listed
      /\ ~Before(funded, j, i) /\ Contains(funded, i) /\ Contains(funded, j)
  BY OneOrder DEF TypeOK, Typed, Listed
<1>2. CASE Stays
  BY <1>1, <1>2 DEF Stays
<1>3. ASSUME NEW gone \in SUBSET Invoice, Closes(gone) PROVE ~Before(funded', j, i)
  BY <1>1, <1>3, RemovalKeepsOrder DEF Closes
<1>4. ASSUME NEW k \in Invoice, Grows(k) PROVE ~Before(funded', j, i)
  BY <1>1, <1>4, AppendKeeps DEF Grows, IsFunded, Listed
<1>5. ASSUME NEW k \in Invoice, Requeues(k) PROVE ~Before(funded', j, i)
  <2>1. k # i /\ ~Before(Remaining({k}), j, i)
    BY <1>1, <1>5, RemovalKeepsOrder DEF Requeues
  <2> QED BY <1>1, <1>5, <2>1, RemovalKeepsOrder, AppendKeeps DEF Requeues
<1>6. Moves \/ \E k \in Invoice : Requeues(k)
  BY <1>1, StepMovesList, ResetRequeues DEF NextWithReset, vars
<1> QED BY <1>2, <1>3, <1>4, <1>5, <1>6 DEF Moves

----------------------------------------------------------------------------
(* storage.rs, defaults.rs: whatever is funded, closed or made Funded again   *)
(* between two scans, the index lists an invoice once, and the stored         *)
(* position is one that so many invoices can have.                            *)
THEOREM ScanTypeCorrect == SpecWithReset => []TypeOK
<1>1. Init => TypeOK
  BY InitTyped
<1>2. TypeOK /\ [NextWithReset]_vars => TypeOK'
  BY StepKeepsTypes
<1> QED BY <1>1, <1>2, PTL DEF SpecWithReset

LEMMA SpecTypeCorrect == Spec => []TypeOK
<1>1. Init => TypeOK
  BY InitTyped
<1>2. TypeOK /\ [Next]_vars => TypeOK'
  BY StepKeepsTypes DEF NextWithReset
<1> QED BY <1>1, <1>2, PTL DEF Spec

(* scan_funded_invoice_expirations: as long as update_invoice_status leaves   *)
(* closed deals alone, no member of a batch can fail, however many            *)
(* settlements, refunds, defaults and scans came before.                      *)
THEOREM OpenDealsOnly == Spec => []NoFundedIsOver
<1>1. Init => NoFundedIsOver
  BY DEF Init, NoFundedIsOver
<1>2. TypeOK /\ NoFundedIsOver /\ [Next]_vars => NoFundedIsOver'
  BY StepKeepsOpen
<1> QED BY <1>1, <1>2, SpecTypeCorrect, PTL DEF Spec

(* default-handling.md, traversal in insertion order: no step whatever lets   *)
(* an open invoice overtake another, update_invoice_status included.          *)
THEOREM OrderIsKept == SpecWithReset => NoOvertaking
<1> DEFINE Ordered == \A i, j \in Invoice \ over : Before(funded, i, j) => ~Before(funded', j, i)
<1>1. TypeOK /\ [NextWithReset]_vars => Ordered
  BY StepKeepsOrder
<1> QED BY <1>1, ScanTypeCorrect, PTL DEF SpecWithReset, NoOvertaking
=============================================================================
