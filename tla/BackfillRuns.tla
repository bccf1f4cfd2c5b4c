---------------------------- MODULE BackfillRuns ----------------------------
(***************************************************************************)
(* Backfills of the indexer (backfillService.ts): a run works through its  *)
(* ledgers in chunks, one per timer tick, and can be paused and resumed.   *)
(* Calls wait for the audit file after they have changed the run; what     *)
(* they do when it has been written, or could not be, is a step of its     *)
(* own, and other calls come in between.  A dry run changes nothing.       *)
(***************************************************************************)
EXTENDS Integers, Sequences, SequencesExt

CONSTANTS
    Keys,       \* idempotency keys of requests
    NoKey,
    Ranges,     \* [first, last] of requests
    Chunk,      \* concurrency * CHUNK_SIZE_PER_WORKER
    MaxRange,   \* BACKFILL_MAX_LEDGER_RANGE
    MaxRuns,    \* bound of the model: runs
    MaxWaiting  \* bound of the model: calls that wait for the audit file of a run

VARIABLES
    runs,       \* in the order they were created
    timer,      \* runs whose timer is set
    waiting,    \* run -> what is to be done when the audit file is written: "schedule"
                \* or "completed", a sequence without meaning to its order
    stalled     \* history: runs not scheduled since, as the file could not be written

vars == <<runs, timer, waiting, stalled>>

Init ==
    /\ runs = <<>>
    /\ timer = {}
    /\ waiting = <<>>
    /\ stalled = {}

Await(r, what) == Len(waiting[r]) < MaxWaiting /\ waiting' = [waiting EXCEPT ![r] = Append(@, what)]

(* startBackfill: a key that was used before returns its run. *)
Start(key, range) ==
    /\ range.first <= range.last /\ range.last - range.first < MaxRange
    /\ key # NoKey => \A r \in DOMAIN runs : runs[r].key # key
    /\ Len(runs) < MaxRuns
    /\ runs' = Append(runs, [key |-> key, first |-> range.first, last |-> range.last,
                             status |-> "running", processed |-> 0, cursor |-> range.first])
    /\ waiting' = Append(waiting, <<"schedule">>)
    /\ UNCHANGED <<timer, stalled>>

Pause(r) ==
    /\ runs[r].status = "running"
    /\ runs' = [runs EXCEPT ![r].status = "paused"]
    /\ timer' = timer \ {r}
    /\ stalled' = stalled \ {r}
    /\ UNCHANGED waiting

(* The next tick is left to whoever paused. *)
AfterResume_Fault == "nothing"

(* What resumeRun does when the audit file is written. *)
AfterResume == "schedule"

Resume(r) ==
    /\ runs[r].status \in {"paused", "failed"}
    /\ runs' = [runs EXCEPT ![r].status = "running"]
    /\ Await(r, AfterResume)
    /\ UNCHANGED <<timer, stalled>>

(* scheduleNextTick replaces the timer that is set. *)
Written(r, n) ==
    /\ waiting' = [waiting EXCEPT ![r] = RemoveAt(@, n)]
    /\ IF waiting[r][n] = "schedule"
       THEN timer' = timer \cup {r} /\ stalled' = stalled \ {r}
       ELSE UNCHANGED <<timer, stalled>>
    /\ UNCHANGED runs

(* The file cannot be written: the call fails and nothing is scheduled.  A   *)
(* run that has completed is marked as failed by it.                         *)
NotWritten(r, n) ==
    /\ waiting' = [waiting EXCEPT ![r] = RemoveAt(@, n)]
    /\ IF waiting[r][n] = "completed"
       THEN /\ runs' = [runs EXCEPT ![r].status = "failed"]
            /\ timer' = timer \ {r}
            /\ UNCHANGED stalled
       ELSE /\ stalled' = stalled \cup {r}
            /\ UNCHANGED <<runs, timer>>

(* A tick works whatever has become of the run. *)
Works_Fault(run) == run.status \in {"running", "paused"}

Works(run) == run.status = "running"

(* The last chunk is as long as the others. *)
ChunkEnd_Fault(run) == run.cursor + Chunk - 1

ChunkEnd(run) ==
    IF run.cursor + Chunk - 1 < run.last THEN run.cursor + Chunk - 1 ELSE run.last

(* processRun: the timer fires; the run may have been paused since. *)
Tick(r) ==
    /\ r \in timer
    /\ ~Works(runs[r])
    /\ timer' = timer \ {r}
    /\ UNCHANGED <<runs, waiting, stalled>>

(* A chunk that is not the last sets the timer again. *)
ProcessChunk(r) ==
    /\ r \in timer
    /\ Works(runs[r])
    /\ ChunkEnd(runs[r]) < runs[r].last
    /\ runs' = [runs EXCEPT ![r].processed = @ + ChunkEnd(runs[r]) - runs[r].cursor + 1,
                            ![r].cursor = ChunkEnd(runs[r]) + 1]
    /\ UNCHANGED <<timer, waiting, stalled>>

(* The last chunk; of a run resumed after its last chunk it is empty. *)
Complete(r) ==
    /\ r \in timer
    /\ Works(runs[r])
    /\ ChunkEnd(runs[r]) >= runs[r].last
    /\ runs' = [runs EXCEPT ![r].processed = @ + ChunkEnd(runs[r]) - runs[r].cursor + 1,
                            ![r].cursor = ChunkEnd(runs[r]) + 1,
                            ![r].status = "completed"]
    /\ timer' = timer \ {r}
    /\ Await(r, "completed")
    /\ UNCHANGED stalled

(* A chunk fails before it has changed anything. *)
ChunkFails(r) ==
    /\ r \in timer
    /\ Works(runs[r])
    /\ runs' = [runs EXCEPT ![r].status = "failed"]
    /\ timer' = timer \ {r}
    /\ UNCHANGED <<waiting, stalled>>

Next ==
    \/ \E key \in Keys \cup {NoKey}, range \in Ranges : Start(key, range)
    \/ \E r \in DOMAIN runs :
          \/ Pause(r) \/ Resume(r) \/ Tick(r) \/ ProcessChunk(r) \/ Complete(r) \/ ChunkFails(r)
          \/ \E n \in DOMAIN waiting[r] : Written(r, n) \/ NotWritten(r, n)

Spec == Init /\ [][Next]_vars

----------------------------------------------------------------------------
TypeOK ==
    /\ timer \cup stalled \subseteq DOMAIN runs /\ DOMAIN waiting = DOMAIN runs
    /\ \A r \in DOMAIN runs :
          /\ runs[r].status \in {"running", "paused", "completed", "failed"}
          /\ runs[r].processed \in Nat

(* Every ledger of a run is counted once and in order, over pauses, failures *)
(* and repeated resumptions, and a run that has completed has done them all. *)
CountedOnce ==
    \A r \in DOMAIN runs :
        /\ runs[r].processed = runs[r].cursor - runs[r].first
        /\ runs[r].cursor <= runs[r].last + 1
        /\ runs[r].status = "completed" => runs[r].cursor = runs[r].last + 1

(* A run that says it is running has a next step: its timer is set, or a     *)
(* call that will set it waits for the audit file.  Only where that file     *)
(* could not be written is it left without.                                  *)
RunningIsDriven ==
    \A r \in DOMAIN runs : runs[r].status = "running" =>
        \/ r \in timer \/ r \in stalled
        \/ \E n \in DOMAIN waiting[r] : waiting[r][n] = "schedule"

(* A paused run makes no progress, whatever timers and calls are left over   *)
(* from before the pause.                                                    *)
PausedStands ==
    [][\A r \in DOMAIN runs : runs[r].status = "paused" => runs'[r].cursor = runs[r].cursor]_vars

(* What an operator may rely on when it pauses, resumes and reads the totals. *)
BackfillsCounted == [](CountedOnce /\ RunningIsDriven) /\ PausedStands
=============================================================================
