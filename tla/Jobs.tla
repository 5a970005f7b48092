-------------------------------- MODULE Jobs --------------------------------
(***************************************************************************)
(* The scheduler of a shard of the WASM host, wasm-host/src/jobs.rs, and   *)
(* one job of an App whose cron names every minute: each minute starts a   *)
(* run or records that it was skipped, and a run that ends is recorded     *)
(* before the job may run again.                                           *)
(*                                                                         *)
(* `running` and `records` are two maps under two mutexes; the tick, and   *)
(* the task of each run, take one after the other.  Jobs share nothing but *)
(* the maps, so one is enough.  Whether a minute names the job is an input *)
(* of every minute; the wall clock does not step back.                     *)
(***************************************************************************)
EXTENDS Naturals

CONSTANTS
    LastMinute,     \* bound: the minutes of a behaviour
    NoRecord        \* no record of the job

Fails == {"failed", "timed_out"}

Outcome == Fails \cup {"succeeded", "skipped"}

Record == [at : Nat, outcome : Outcome, failures : Nat]

ASSUME JobsAssumption ==
    /\ LastMinute \in Nat \ {0}
    /\ NoRecord \notin Record

VARIABLES
    minute,     \* the minute that was ticked last
    ticking,    \* the tick found the job running and is about to record it
    running,    \* the key is in the set of running jobs
    runs,       \* where the run that each minute started is, and its outcome
    record,     \* the job's record
    streak,     \* history: runs that failed or timed out in a row, as they ended
    panicked    \* history: a run of this process panicked

jobsVars == <<minute, ticking, running, runs, record, streak, panicked>>

Minutes == 1..LastMinute

NoRun == [at |-> "none", outcome |-> "none"]

JobsInit ==
    /\ minute = 0
    /\ ticking = FALSE
    /\ running = FALSE
    /\ runs = [m \in Minutes |-> NoRun]
    /\ record = NoRecord
    /\ streak = 0
    /\ panicked = FALSE

(* Scheduler::store(): the record, and the failures in a row it goes on      *)
(* from; a skip neither adds nor clears.                                     *)
Stored(at, outcome) ==
    LET before == IF record = NoRecord THEN 0 ELSE record.failures
    IN record' = [at |-> at, outcome |-> outcome,
                  failures |-> CASE outcome = "succeeded" -> 0
                                 [] outcome = "skipped"   -> before
                                 [] OTHER                 -> before + 1]

(* A minute that does not name the job. *)
NotDue ==
    /\ ~ticking /\ minute < LastMinute
    /\ minute' = minute + 1
    /\ UNCHANGED <<ticking, running, runs, record, streak, panicked>>

(* tick(): the key is inserted and the run spawned, or the tick goes on to   *)
(* record a skip.                                                            *)
TickJob ==
    /\ ~ticking /\ minute < LastMinute
    /\ minute' = minute + 1
    /\ running' = TRUE
    /\ IF running
       THEN ticking' = TRUE /\ UNCHANGED runs
       ELSE runs' = [runs EXCEPT ![minute'].at = "going"] /\ UNCHANGED ticking
    /\ UNCHANGED <<record, streak, panicked>>

RecordSkip ==
    /\ ticking
    /\ ticking' = FALSE
    /\ Stored(minute, "skipped")
    /\ UNCHANGED <<minute, running, runs, streak, panicked>>

-----------------------------------------------------------------------------
(* The task of a run. *)

RunOver(m, outcome) ==
    /\ runs[m].at = "going"
    /\ runs' = [runs EXCEPT ![m] = [at |-> "ended", outcome |-> outcome]]
    /\ streak' = IF outcome \in Fails THEN streak + 1 ELSE 0
    /\ UNCHANGED <<minute, ticking, running, record, panicked>>

StoreRun(m) ==
    /\ runs[m].at = "ended"
    /\ Stored(m, runs[m].outcome)
    /\ runs' = [runs EXCEPT ![m].at = "stored"]
    /\ UNCHANGED <<minute, ticking, running, streak, panicked>>

(* Mutant: the key is given back before the outcome is stored. *)
LeaveAtOnce(m) ==
    /\ runs[m].at \in {"ended", "stored"} /\ running
    /\ runs' = [runs EXCEPT ![m].at = IF @ = "stored" THEN "none" ELSE @]
    /\ running' = FALSE
    /\ UNCHANGED <<minute, ticking, record, streak, panicked>>

LeaveRunning(m) ==
    /\ runs[m].at = "stored"
    /\ runs' = [runs EXCEPT ![m] = NoRun]
    /\ running' = FALSE
    /\ UNCHANGED <<minute, ticking, record, streak, panicked>>

(* A panic ends the task of the run alone: nothing is stored, and the key    *)
(* stays.                                                                    *)
RunPanics(m) ==
    /\ runs[m].at = "going"
    /\ runs' = [runs EXCEPT ![m] = NoRun]
    /\ panicked' = TRUE
    /\ UNCHANGED <<minute, ticking, running, record, streak>>

(* The host restarts: both maps were its memory, and its runs end with it. *)
HostRestarts ==
    /\ ticking' = FALSE
    /\ running' = FALSE
    /\ runs' = [m \in Minutes |-> NoRun]
    /\ record' = NoRecord
    /\ streak' = 0
    /\ panicked' = FALSE
    /\ UNCHANGED minute

JobsNext ==
    \/ NotDue \/ TickJob \/ RecordSkip \/ HostRestarts
    \/ \E m \in Minutes :
         \/ \E outcome \in Fails \cup {"succeeded"} : RunOver(m, outcome)
         \/ StoreRun(m) \/ LeaveRunning(m) \/ RunPanics(m)

JobsSpec == JobsInit /\ [][JobsNext]_jobsVars

-----------------------------------------------------------------------------

(* jobs.rs:3 "A job runs at most once at a time": at most one run has not     *)
(* given its key back, and then the key is taken.                             *)
JobsTypeOK ==
    /\ minute \in 0..LastMinute
    /\ record # NoRecord => record.at \in Minutes /\ record.failures \in 0..LastMinute
    /\ \A m, n \in Minutes : runs[m] # NoRun /\ runs[n] # NoRun => m = n
    /\ (\E m \in Minutes : runs[m] # NoRun) => running
    /\ running => panicked \/ \E m \in Minutes : runs[m] # NoRun

(* jobs.rs:62: the record counts the runs that failed in a row, whatever      *)
(* skips were recorded between a run's end and its outcome, and a run that    *)
(* ended is lost to it at most until it is stored.                            *)
FailuresInARow ==
    (\A m \in Minutes : runs[m].at # "ended") =>
        streak = IF record = NoRecord THEN 0 ELSE record.failures

=============================================================================
