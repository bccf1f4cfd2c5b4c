-------------------------- MODULE VestingSchedules --------------------------
(***************************************************************************)
(* Vesting (vesting.rs): the admin locks tokens in the contract, which     *)
(* vest linearly between start and end, none before the cliff; the         *)
(* beneficiary releases what has vested.  All schedules share the balance  *)
(* of the contract, of which vault is their part: escrows and emergency    *)
(* withdrawals, which use the same balance, are left out.  The entry       *)
(* points return an error while the contract is paused.                    *)
(***************************************************************************)
EXTENDS Sums, Sequences

CONSTANTS
    Beneficiary,
    Totals,        \* amounts locked
    Times,         \* starts, lengths of cliffs and ends asked for
    AdminFunds,    \* tokens of the admin to begin with
    MaxSchedules,  \* bound of the model: schedules
    MaxTime        \* bound of the model: the clock

VARIABLES
    schedules,   \* sequence of schedules, by id
    admin,       \* tokens of the admin
    vault,       \* tokens of the contract
    received,    \* beneficiary -> tokens
    paused,
    now

vars == <<schedules, admin, vault, received, paused, now>>

Init ==
    /\ schedules = <<>>
    /\ admin = AdminFunds
    /\ vault = 0
    /\ received = [b \in Beneficiary |-> 0]
    /\ paused = FALSE
    /\ now = 0

(* A cliff at the end is let through. *)
ValidInputs_Fault(total, start, cliff, end) ==
    total > 0 /\ start >= now /\ end > start

(* validate_schedule_inputs; validate_schedule_state asks the same again of  *)
(* every stored schedule.                                                    *)
ValidInputs(total, start, cliff, end) ==
    total > 0 /\ start >= now /\ end > start /\ start + cliff < end

CreateSchedule(b, total, start, cliff, end) ==
    /\ ~paused
    /\ Len(schedules) < MaxSchedules
    /\ ValidInputs(total, start, cliff, end)
    /\ admin >= total
    /\ schedules' = Append(schedules,
            [beneficiary |-> b, total |-> total, released |-> 0,
             start |-> start, cliff |-> start + cliff, end |-> end])
    /\ admin' = admin - total
    /\ vault' = vault + total
    /\ UNCHANGED <<received, paused, now>>

(* Vesting counts from the cliff and the last instalment is not special. *)
Vested_Fault(s, t) ==
    IF t < s.cliff \/ t <= s.start THEN 0
    ELSE (s.total * (t - s.cliff)) \div (s.end - s.cliff)

(* vested_amount *)
Vested(s, t) ==
    IF t < s.cliff \/ t <= s.start THEN 0
    ELSE IF t >= s.end THEN s.total
    ELSE (s.total * (t - s.start)) \div (s.end - s.start)

(* What was released before is released again. *)
Releasable_Fault(s) == Vested(s, now)

(* releasable_amount *)
Releasable(s) == Vested(s, now) - s.released

(* release; with nothing to release the call returns 0. *)
Release(id) ==
    LET s == schedules[id] IN
    /\ ~paused
    /\ now >= s.cliff
    /\ Releasable(s) > 0
    /\ vault >= Releasable(s)
    /\ s.released + Releasable(s) <= s.total
    /\ schedules' = [schedules EXCEPT ![id].released = @ + Releasable(s)]
    /\ vault' = vault - Releasable(s)
    /\ received' = [received EXCEPT ![s.beneficiary] = @ + Releasable(s)]
    /\ UNCHANGED <<admin, paused, now>>

SetPaused(flag) ==
    /\ paused' = flag
    /\ UNCHANGED <<schedules, admin, vault, received, now>>

Tick ==
    /\ now < MaxTime
    /\ now' = now + 1
    /\ UNCHANGED <<schedules, admin, vault, received, paused>>

Next ==
    \/ \E b \in Beneficiary, total \in Totals, start, cliff, end \in Times :
          CreateSchedule(b, total, start, cliff, end)
    \/ \E id \in DOMAIN schedules : Release(id)
    \/ \E flag \in BOOLEAN : SetPaused(flag)
    \/ Tick

Spec == Init /\ [][Next]_vars

----------------------------------------------------------------------------
Unreleased == [id \in DOMAIN schedules |-> schedules[id].total - schedules[id].released]

Locked == Total(Unreleased)

TypeOK ==
    /\ Len(schedules) <= MaxSchedules
    /\ \A id \in DOMAIN schedules : schedules[id].released \in 0..schedules[id].total
    /\ admin + vault + Total(received) = AdminFunds
    /\ paused \in BOOLEAN

(* The contract holds exactly what the schedules have not released: claims   *)
(* of one schedule never use up the tokens of another.                       *)
VaultCoversSchedules == vault = Locked

(* However the releases are spread, a beneficiary never has more than the    *)
(* straight line from start to end gives at that time (rounded down), has    *)
(* nothing before the cliff, and can have all of it once the end is reached. *)
ReleasedOnTheLine ==
    \A id \in DOMAIN schedules :
        LET s == schedules[id] IN
        /\ s.released * (s.end - s.start) <= s.total * (now - s.start) \/ s.released = 0 \/ now > s.end
        /\ now < s.cliff => s.released = 0
        /\ now >= s.end => Vested(s, now) = s.total
=============================================================================
