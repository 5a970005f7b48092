---------------------------- MODULE WorkersProofs ---------------------------
(***************************************************************************)
(* What is proved of the workers behind the gateway, each from its own     *)
(* specification: the jobs of the WASM host, the budgets of an assistant's *)
(* run and the grants it reads with, the crawl queue of its pods and the   *)
(* crawl of a website.                                                     *)
(***************************************************************************)
EXTENDS Jobs, RunBudgets, Grants, CrawlQueue, CrawlSite, OrdersProofs, FiniteSetTheorems,
        TLAPS

-----------------------------------------------------------------------------
(***************************************************************************)
(* For any number of minutes: a job runs at most once at a time, and its   *)
(* record counts the runs that failed in a row.                            *)
(*                                                                         *)
(* FailuresInARow speaks of the moments when every outcome is stored.  In  *)
(* between, one run has ended and its outcome goes on from what the record *)
(* has (FailuresCounted); one run is what the key is for (OneRun).         *)
(***************************************************************************)

RecordedFailures == IF record = NoRecord THEN 0 ELSE record.failures

(* The runs and the record, as far as the argument needs their types. *)
JobsTypes ==
    /\ minute \in Nat /\ minute <= LastMinute
    /\ runs \in [Minutes -> [at : {"none", "going", "ended", "stored"},
                             outcome : Fails \cup {"succeeded", "none"}]]
    /\ \A m \in Minutes : runs[m].at = "none" => runs[m] = NoRun
    /\ record # NoRecord => record \in Record
    /\ streak \in Nat

(* jobs.rs:3 "A job runs at most once at a time". *)
OneRun ==
    /\ \A m, n \in Minutes : runs[m].at # "none" /\ runs[n].at # "none" => m = n
    /\ \A m \in Minutes : runs[m].at # "none" => running

(* The streak and the record agree, but for the outcome that is not stored. *)
FailuresCounted ==
    /\ (\A m \in Minutes : runs[m].at # "ended") => streak = RecordedFailures
    /\ \A m \in Minutes : runs[m].at = "ended" =>
         /\ runs[m].outcome # "none"
         /\ streak = IF runs[m].outcome \in Fails THEN RecordedFailures + 1 ELSE 0

JobsInv == JobsTypes /\ OneRun /\ FailuresCounted

LEMMA RecordedIsNat == JobsTypes => RecordedFailures \in Nat
  BY DEF JobsTypes, RecordedFailures, Record

(* What storing an outcome makes of the record. *)
LEMMA StoredCounts ==
    ASSUME JobsTypes, NEW at \in Nat, NEW outcome \in Outcome, Stored(at, outcome)
    PROVE  /\ record' # NoRecord
           /\ record' \in Record
           /\ RecordedFailures' = IF outcome = "succeeded" THEN 0
                          ELSE IF outcome = "skipped" THEN RecordedFailures ELSE RecordedFailures + 1
<1> DEFINE f == CASE outcome = "succeeded" -> 0
                  [] outcome = "skipped"   -> RecordedFailures
                  [] OTHER                 -> RecordedFailures + 1
<1>1. f \in Nat /\ f = IF outcome = "succeeded" THEN 0
                       ELSE IF outcome = "skipped" THEN RecordedFailures ELSE RecordedFailures + 1
  BY RecordedIsNat
<1>2. record' = [at |-> at, outcome |-> outcome, failures |-> f]
  BY DEF Stored, RecordedFailures
<1> HIDE DEF f
<1>3. record' \in Record /\ record'.failures = f
  BY <1>1, <1>2 DEF Record
<1> QED BY <1>1, <1>3, JobsAssumption DEF RecordedFailures

LEMMA JobsStart == JobsInit => JobsInv
  BY JobsAssumption
  DEF JobsInit, JobsInv, JobsTypes, OneRun, FailuresCounted, RecordedFailures, NoRun, Minutes, Fails

LEMMA JobsStep == JobsInv /\ [JobsNext]_jobsVars => JobsInv'
<1> SUFFICES ASSUME JobsInv, [JobsNext]_jobsVars
             PROVE  JobsInv'
  OBVIOUS
<1> USE JobsAssumption DEF JobsInv
<1>1. CASE NotDue
  BY <1>1 DEF NotDue, JobsTypes, OneRun, FailuresCounted, RecordedFailures
<1>2. CASE TickJob
  <2>1. minute' \in Minutes /\ minute' \in Nat
    BY <1>2 DEF TickJob, JobsTypes, Minutes
  <2>2. CASE running
    BY <1>2, <2>1, <2>2 DEF TickJob, JobsTypes, OneRun, FailuresCounted, RecordedFailures, Minutes
  <2>3. CASE ~running
    <3>1. \A m \in Minutes : runs[m].at = "none" /\ runs[m] = NoRun
      BY <2>3 DEF OneRun, JobsTypes
    <3>2. runs' = [runs EXCEPT ![minute'].at = "going"]
      BY <1>2, <2>3 DEF TickJob
    <3>3. \A m \in Minutes : runs'[m] =
            IF m = minute' THEN [at |-> "going", outcome |-> "none"] ELSE NoRun
      BY <2>1, <3>1, <3>2 DEF JobsTypes, NoRun
    <3>4. DOMAIN runs' = Minutes /\ runs' = [m \in Minutes |-> runs'[m]]
      BY <3>2 DEF JobsTypes
    <3>5. /\ running' /\ streak' = streak /\ record' = record
          /\ minute' \in Nat /\ minute' <= LastMinute
      BY <1>2, <2>1 DEF TickJob, Minutes
    <3> QED BY <3>1, <3>3, <3>4, <3>5
            DEF JobsTypes, OneRun, FailuresCounted, RecordedFailures, NoRun, Fails
  <2> QED BY <2>2, <2>3
<1>3. CASE RecordSkip
  <2>1. RecordedFailures' = RecordedFailures /\ record' \in Record
    <3>1. Stored(minute, "skipped")
      BY <1>3, Zenon DEF RecordSkip
    <3>2. minute \in Nat /\ "skipped" \in Outcome
      BY DEF JobsTypes, Outcome
    <3> QED BY <3>1, <3>2, StoredCounts
  <2> QED BY <1>3, <2>1 DEF RecordSkip, JobsTypes, OneRun, FailuresCounted
<1>4. CASE HostRestarts
  BY <1>4 DEF HostRestarts, JobsTypes, OneRun, FailuresCounted, RecordedFailures, NoRun, Minutes, Fails
<1>5. ASSUME NEW m \in Minutes, NEW outcome \in Fails \cup {"succeeded"}, RunOver(m, outcome)
      PROVE  JobsInv'
  <2>1. /\ runs[m].at = "going"
        /\ \A n \in Minutes : runs'[n] =
             IF n = m THEN [at |-> "ended", outcome |-> outcome] ELSE runs[n]
    BY <1>5 DEF RunOver, JobsTypes
  <2>2. \A n \in Minutes \ {m} : runs[n].at = "none"
    BY <2>1 DEF OneRun
  <2>3. streak = RecordedFailures
    BY <2>1, <2>2 DEF FailuresCounted
  <2>4. /\ streak' = IF outcome \in Fails THEN RecordedFailures + 1 ELSE 0
        /\ minute' = minute /\ running' = running /\ record' = record
    BY <1>5, <2>3 DEF RunOver
  <2>5. JobsTypes'
    BY <1>5, <2>1, <2>4, RecordedIsNat DEF RunOver, JobsTypes, Fails
  <2>6. OneRun'
    BY <2>1, <2>2, <2>4 DEF OneRun
  <2>7. FailuresCounted'
    BY <2>1, <2>2, <2>4 DEF FailuresCounted, RecordedFailures, Fails
  <2> QED BY <2>5, <2>6, <2>7
<1>6. ASSUME NEW m \in Minutes, StoreRun(m)
      PROVE  JobsInv'
  <2>1. /\ runs[m].at = "ended"
        /\ \A n \in Minutes : /\ runs'[n].outcome = runs[n].outcome
                              /\ runs'[n].at = IF n = m THEN "stored" ELSE runs[n].at
    BY <1>6 DEF StoreRun, JobsTypes
  <2>2. \A n \in Minutes \ {m} : runs[n].at = "none"
    BY <2>1 DEF OneRun
  <2>3. m \in Nat /\ runs[m].outcome \in Fails \cup {"succeeded"}
    BY <2>1 DEF FailuresCounted, JobsTypes, Minutes
  <2>4. /\ record' \in Record
        /\ RecordedFailures' = IF runs[m].outcome \in Fails THEN RecordedFailures + 1 ELSE 0
    <3>1. Stored(m, runs[m].outcome)
      BY <1>6, Zenon DEF StoreRun
    <3>2. runs[m].outcome \in Outcome
      BY <2>3 DEF Fails, Outcome
    <3>3. (runs[m].outcome \in Fails) <=> runs[m].outcome # "succeeded"
      BY <2>3 DEF Fails, Outcome
    <3>4. runs[m].outcome # "skipped"
      BY <2>3 DEF Fails, Outcome
    <3> QED BY <2>3, <3>1, <3>2, <3>3, <3>4, StoredCounts
  <2>5. streak' = RecordedFailures' /\ minute' = minute /\ running' = running /\ streak' = streak
    BY <1>6, <2>1, <2>4 DEF StoreRun, FailuresCounted
  <2>6. JobsTypes'
    <3>1. runs' \in [Minutes -> [at : {"none", "going", "ended", "stored"},
                                 outcome : Fails \cup {"succeeded", "none"}]]
      BY <1>6 DEF StoreRun, JobsTypes
    <3>2. \A n \in Minutes : runs'[n].at = "none" => runs'[n] = NoRun
      BY <1>6, <2>1 DEF StoreRun, JobsTypes
    <3> QED BY <2>4, <2>5, <3>1, <3>2 DEF JobsTypes
  <2>7. OneRun'
    BY <2>1, <2>2, <2>5 DEF OneRun
  <2>8. FailuresCounted'
    BY <2>1, <2>2, <2>5 DEF FailuresCounted
  <2> QED BY <2>6, <2>7, <2>8
<1>7. ASSUME NEW m \in Minutes, LeaveRunning(m) \/ RunPanics(m)
      PROVE  JobsInv'
  <2>1. /\ runs[m].at \in {"going", "stored"}
        /\ runs' = [runs EXCEPT ![m] = NoRun]
        /\ minute' = minute /\ record' = record /\ streak' = streak
    BY <1>7 DEF LeaveRunning, RunPanics
  <2>2. \A n \in Minutes : runs[n].at # "none" => n = m
    BY <2>1 DEF OneRun
  <2>3. \A n \in Minutes : runs'[n] = NoRun
    BY <2>1, <2>2 DEF JobsTypes
  <2>4. streak = RecordedFailures
    BY <2>1, <2>2 DEF FailuresCounted
  <2>5. JobsTypes'
    BY <2>1, <2>3 DEF JobsTypes, NoRun
  <2> QED BY <2>1, <2>3, <2>4, <2>5 DEF OneRun, FailuresCounted, RecordedFailures, NoRun
<1>8. CASE UNCHANGED jobsVars
  BY <1>8 DEF jobsVars, JobsTypes, OneRun, FailuresCounted, RecordedFailures
<1> QED BY <1>1, <1>2, <1>3, <1>4, <1>5, <1>6, <1>7, <1>8 DEF JobsNext

(* jobs.rs:62: the record counts the runs that failed in a row, whatever      *)
(* skips were recorded between a run's end and its outcome.                   *)
THEOREM JobsCountFailures == JobsSpec => []FailuresInARow
<1>1. JobsInv => FailuresInARow
  BY DEF JobsInv, FailuresCounted, RecordedFailures, FailuresInARow
<1> QED BY <1>1, JobsStart, JobsStep, PTL DEF JobsSpec

(* jobs.rs:3 "A job runs at most once at a time": a minute starts no run      *)
(* while another has not given the key back.                                  *)
THEOREM JobRunsOnce == JobsSpec => []OneRun
<1>1. JobsInv => OneRun
  BY DEF JobsInv
<1> QED BY <1>1, JobsStart, JobsStep, PTL DEF JobsSpec

(* The types and bounds of a job. The failures in a row are at most the      *)
(* minutes so far, and fewer while a run is going; a taken key has its run,  *)
(* unless one panicked.                                                      *)
FailuresInMinutes ==
    /\ streak <= minute /\ RecordedFailures <= minute
    /\ \A m \in Minutes : runs[m].at = "going" => streak < minute

KeyHasRun == running => panicked \/ \E m \in Minutes : runs[m].at # "none"

RecordedInTime ==
    /\ ticking => minute \in Minutes
    /\ record # NoRecord => record.at \in Minutes

JobsBounds == FailuresInMinutes /\ KeyHasRun /\ RecordedInTime

(* What a record is made from is bounded as the record is.                   *)
LEMMA StoredInTime ==
    ASSUME JobsTypes, RecordedFailures <= minute, NEW at \in Minutes, NEW outcome \in Outcome,
           Stored(at, outcome),
           outcome \in Fails => RecordedFailures + 1 <= minute
    PROVE  RecordedFailures' <= minute /\ record' # NoRecord /\ record'.at \in Minutes
<1>1. at \in Nat /\ minute \in Nat
  BY DEF Minutes, JobsTypes
<1>2. /\ record' # NoRecord
      /\ RecordedFailures' = IF outcome = "succeeded" THEN 0
                     ELSE IF outcome = "skipped" THEN RecordedFailures ELSE RecordedFailures + 1
  BY <1>1, StoredCounts
<1>3. record'.at = at
  BY DEF Stored
<1>4. outcome \in Fails \/ outcome = "succeeded" \/ outcome = "skipped"
  BY DEF Outcome
<1> QED BY <1>1, <1>2, <1>3, <1>4, RecordedIsNat

LEMMA JobsBoundsStep ==
    JobsInv /\ JobsInv' /\ JobsBounds /\ [JobsNext]_jobsVars => JobsBounds'
<1> SUFFICES ASSUME JobsInv, JobsInv', JobsBounds, [JobsNext]_jobsVars
             PROVE  JobsBounds'
  OBVIOUS
<1> USE JobsAssumption DEF JobsBounds
<1>0. /\ minute \in Nat /\ minute <= LastMinute /\ streak \in Nat /\ RecordedFailures \in Nat
      /\ JobsTypes /\ OneRun /\ FailuresCounted
      /\ runs \in [Minutes -> [at : {"none", "going", "ended", "stored"},
                               outcome : Fails \cup {"succeeded", "none"}]]
  BY RecordedIsNat DEF JobsInv, JobsTypes
<1>1. CASE NotDue
  <2>1. /\ minute' = minute + 1 /\ ~ticking
        /\ UNCHANGED <<ticking, running, runs, record, streak, panicked>>
    BY <1>1 DEF NotDue
  <2>2. RecordedFailures' = RecordedFailures
    BY <2>1 DEF RecordedFailures
  <2> QED BY <1>0, <2>1, <2>2 DEF FailuresInMinutes, KeyHasRun, RecordedInTime, Minutes
<1>2. CASE TickJob
  <2>1. /\ minute' = minute + 1 /\ minute < LastMinute /\ running'
        /\ UNCHANGED <<record, streak, panicked>>
        /\ running => runs' = runs
        /\ ~running => runs' = [runs EXCEPT ![minute'].at = "going"]
    BY <1>2 DEF TickJob
  <2>2. RecordedFailures' = RecordedFailures
    BY <2>1 DEF RecordedFailures
  <2>3. minute' \in Minutes
    BY <1>0, <2>1 DEF Minutes
  <2>4. FailuresInMinutes'
    BY <1>0, <2>1, <2>2 DEF FailuresInMinutes, Minutes
  <2>5. KeyHasRun'
    BY <1>0, <2>1, <2>3 DEF KeyHasRun, Minutes
  <2> QED BY <2>1, <2>3, <2>4, <2>5 DEF RecordedInTime, Minutes
<1>3. CASE RecordSkip
  <2>1. /\ ticking /\ ~ticking' /\ Stored(minute, "skipped")
        /\ UNCHANGED <<minute, running, runs, streak, panicked>>
    BY <1>3 DEF RecordSkip
  <2>2. "skipped" \in Outcome /\ "skipped" \notin Fails
    BY DEF Outcome, Fails
  <2>3. RecordedFailures' <= minute /\ record'.at \in Minutes
    BY <1>0, <2>1, <2>2, StoredInTime DEF RecordedInTime, FailuresInMinutes
  <2> QED BY <2>1, <2>3 DEF FailuresInMinutes, KeyHasRun, RecordedInTime, Minutes
<1>4. CASE HostRestarts
  <2>1. /\ ~ticking' /\ ~running' /\ runs' = [m \in Minutes |-> NoRun] /\ record' = NoRecord
        /\ streak' = 0 /\ minute' = minute
    BY <1>4 DEF HostRestarts
  <2>2. RecordedFailures' = 0
    BY <2>1 DEF RecordedFailures
  <2> QED BY <1>0, <2>1, <2>2 DEF FailuresInMinutes, KeyHasRun, RecordedInTime, Minutes, NoRun
<1>5. ASSUME NEW m \in Minutes, NEW outcome \in Fails \cup {"succeeded"}, RunOver(m, outcome)
      PROVE  JobsBounds'
  <2>1. /\ runs[m].at = "going" /\ runs' = [runs EXCEPT ![m] = [at |-> "ended", outcome |-> outcome]]
        /\ streak' = IF outcome \in Fails THEN streak + 1 ELSE 0
        /\ UNCHANGED <<minute, ticking, running, record, panicked>>
    BY <1>5 DEF RunOver
  <2>2. RecordedFailures' = RecordedFailures
    BY <2>1 DEF RecordedFailures
  <2>3. \A n \in Minutes : runs'[n].at # "going"
    BY <1>0, <2>1 DEF OneRun
  <2>4. FailuresInMinutes'
    BY <1>0, <2>1, <2>2, <2>3 DEF FailuresInMinutes, Minutes
  <2>5. KeyHasRun'
    BY <1>0, <2>1 DEF KeyHasRun, Minutes
  <2> QED BY <2>1, <2>4, <2>5 DEF RecordedInTime, Minutes
<1>6. ASSUME NEW m \in Minutes, StoreRun(m)
      PROVE  JobsBounds'
  <2>1. /\ runs[m].at = "ended" /\ Stored(m, runs[m].outcome)
        /\ runs' = [runs EXCEPT ![m].at = "stored"]
        /\ UNCHANGED <<minute, ticking, running, streak, panicked>>
    BY <1>6 DEF StoreRun
  <2>2. /\ runs[m].outcome \in Outcome
        /\ streak = IF runs[m].outcome \in Fails THEN RecordedFailures + 1 ELSE 0
    BY <1>0, <2>1 DEF FailuresCounted, Outcome
  <2>3. RecordedFailures' <= minute /\ record'.at \in Minutes
    BY <1>0, <2>1, <2>2, StoredInTime DEF FailuresInMinutes
  <2>4. \A n \in Minutes : /\ runs'[n].at = "going" => runs[n].at = "going"
                           /\ runs[n].at # "none" => runs'[n].at # "none"
    BY <1>0, <2>1
  <2>5. FailuresInMinutes'
    BY <2>1, <2>3, <2>4 DEF FailuresInMinutes, Minutes
  <2>6. KeyHasRun'
    BY <2>1, <2>4 DEF KeyHasRun, Minutes
  <2> QED BY <2>1, <2>3, <2>5, <2>6 DEF RecordedInTime, Minutes
<1>7. ASSUME NEW m \in Minutes, LeaveRunning(m) \/ RunPanics(m)
      PROVE  JobsBounds'
  <2>1. /\ runs' = [runs EXCEPT ![m] = NoRun] /\ (~running' \/ panicked')
        /\ UNCHANGED <<minute, ticking, record, streak>>
    BY <1>7 DEF LeaveRunning, RunPanics
  <2>2. RecordedFailures' = RecordedFailures
    BY <2>1 DEF RecordedFailures
  <2>3. \A n \in Minutes : runs'[n] = IF n = m THEN NoRun ELSE runs[n]
    BY <1>0, <2>1
  <2>4. KeyHasRun'
    BY <2>1 DEF KeyHasRun
  <2> QED BY <1>0, <2>1, <2>2, <2>3, <2>4
          DEF FailuresInMinutes, RecordedInTime, Minutes, NoRun
<1>8. CASE UNCHANGED jobsVars
  BY <1>8 DEF jobsVars, FailuresInMinutes, KeyHasRun, RecordedInTime, RecordedFailures, Minutes
<1> QED BY <1>1, <1>2, <1>3, <1>4, <1>5, <1>6, <1>7, <1>8 DEF JobsNext

(* jobs.rs:3: at most one run has not given its key back, and then the key   *)
(* is taken; the record is of a minute that passed.                          *)
THEOREM JobsTyped == JobsSpec => []JobsTypeOK
<1>1. JobsInit => JobsBounds
  BY JobsAssumption DEF JobsInit, JobsBounds, FailuresInMinutes, KeyHasRun, RecordedInTime,
     RecordedFailures, NoRun
<1>2. JobsInv /\ JobsBounds => JobsTypeOK
  <2> SUFFICES ASSUME JobsInv, JobsBounds PROVE JobsTypeOK
    OBVIOUS
  <2>1. /\ minute \in Nat /\ minute <= LastMinute /\ RecordedFailures \in Nat
        /\ RecordedFailures <= minute
        /\ \A m \in Minutes : runs[m].at = "none" <=> runs[m] = NoRun
    BY RecordedIsNat DEF JobsInv, JobsBounds, JobsTypes, FailuresInMinutes, NoRun
  <2>2. record # NoRecord => record.at \in Minutes /\ record.failures \in 0..LastMinute
    BY <2>1, JobsAssumption DEF JobsBounds, RecordedInTime, RecordedFailures
  <2> QED BY <2>1, <2>2, JobsAssumption
          DEF JobsInv, JobsBounds, OneRun, KeyHasRun, JobsTypeOK
<1> QED BY <1>1, <1>2, JobsStart, JobsStep, JobsBoundsStep, PTL DEF JobsSpec

-----------------------------------------------------------------------------
(***************************************************************************)
(* RunBudgets. For any number of calls, whatever comes between a call's    *)
(* checks, a run that lives keeps to its budgets: steps exactly, and       *)
(* tokens and bytes but for the calls that were judged before the count    *)
(* was reached. The count of an active run is its whole use, for its entry *)
(* is dropped only after it ended (ActiveIsCounted).  The first call that  *)
(* is counted past what it had left uses the tokens up, so that only the   *)
(* calls under way then can do it after it (PastSpread).                   *)
(***************************************************************************)

BudgetsTypes ==
    /\ run \in {"active", "ended"} /\ cached \in BOOLEAN /\ counted \in BOOLEAN
    /\ ending \in {"idle", "asking", "dropping"}
    /\ usage \in [steps : 0..steps_per_run, tokens : Nat, egress : Nat]
    /\ used \in [steps : 0..steps_per_run, tokens : Nat, egress : Nat]
    /\ call \in [Calls -> [at : {"idle", "steps", "tokens", "budget", "asking", "egress",
                                "fetching", "packages"}, left : 0..max_tokens]]
    /\ past \in Nat
    /\ ~counted => usage = NoUse

(* The entry of an active run is its whole use: it is never dropped.         *)
ActiveIsCounted == run = "active" => used = usage /\ ending # "dropping"

N == Cardinality(Calls)

(* Calls that are past a check may add this much each, together with what is *)
(* used no more than the bounds.                                             *)
Fetching == {c \in Calls : call[c].at = "fetching"}

EgressSpread ==
    usage.egress + Cardinality(Fetching) * max_response_bytes
        < max_egress_bytes_per_run + N * max_response_bytes

MayAdd(c) ==
    IF call[c].at = "asking" THEN call[c].left + Prompt
    ELSE IF call[c].at = "budget" THEN tokens_left + Prompt ELSE 0

(* The calls in some order.                                                  *)
Order == CHOOSE e \in Bijection(1..N, Calls) : TRUE

(* What one call adds to the tokens at most.                                 *)
M == max_tokens + Prompt

(* p[i] bounds the total and what the first i calls may add to it.           *)
WithinBounds(p, total, add) ==
    /\ p \in [0..N -> Nat] /\ p[0] = total
    /\ \A i, k \in 0..N : i <= k => p[i] <= p[k]
    /\ \A i \in 1..N : p[i - 1] + add[Order[i]] <= p[i]
    /\ p[N] <= N * M

Bounded(total, add) == \E p : WithinBounds(p, total, add)

TokenSpread ==
    /\ past <= usage.tokens
    /\ Bounded(usage.tokens - past, [c \in Calls |-> MayAdd(c)])

(* The calls that may yet be counted past what they have left. *)
Sent == {c \in Calls : call[c].at \in {"budget", "asking"}}

PastSpread ==
    /\ \A c \in Calls : call[c].at = "asking" => usage.tokens + call[c].left >= max_tokens
    /\ \/ past = 0
       \/ usage.tokens >= max_tokens /\ past + Cardinality(Sent) * Largest <= N * Largest

BudgetsInv ==
    /\ BudgetsTypes /\ ActiveIsCounted /\ LiveRunWithinBudgets
    /\ run = "active" => EgressSpread /\ TokenSpread /\ PastSpread

LEMMA OrderOfCalls ==
    /\ N \in Nat \ {0}
    /\ Order \in [1..N -> Calls]
    /\ \A c \in Calls : \E i \in 1..N : Order[i] = c
    /\ \A i, k \in 1..N : Order[i] = Order[k] => i = k
<1>1. N \in Nat /\ Bijection(1..N, Calls) # {}
  BY FS_CardinalityType, BudgetsAssumption DEF N, ExistsBijection
<1>2. N # 0
  BY FS_EmptySet, BudgetsAssumption DEF N
<1>3. Order \in Bijection(1..N, Calls)
  BY <1>1 DEF Order
<1> HIDE DEF N, Order
<1>4. /\ Order \in [1..N -> Calls]
      /\ \A a, b \in 1..N : Order[a] = Order[b] => a = b
      /\ \A c \in Calls : \E i \in 1..N : Order[i] = c
  BY <1>3, Zenon DEF Bijection, Injection, Surjection, IsInjective
<1> QED BY <1>1, <1>2, <1>4

LEMMA MayAddBounded ==
    ASSUME BudgetsTypes, NEW c \in Calls
    PROVE  /\ MayAdd(c) \in Nat /\ MayAdd(c) <= M
           /\ tokens_left \in 0..max_tokens
           /\ tokens_left # 0 => usage.tokens + tokens_left = max_tokens
<1>1. usage.tokens \in Nat /\ call[c].left \in 0..max_tokens /\ max_tokens \in Nat /\ Prompt \in Nat
  BY BudgetsAssumption DEF BudgetsTypes
<1> QED BY <1>1 DEF MayAdd, tokens_left, M

(* A call that may add no more than before keeps the bounds.                 *)
LEMMA AddingLess ==
    ASSUME NEW total, NEW add \in [Calls -> Nat], NEW new \in [Calls -> Nat],
           Bounded(total, add), \A c \in Calls : new[c] <= add[c]
    PROVE  Bounded(total, new)
<1>1. PICK p : WithinBounds(p, total, add)
  BY DEF Bounded
<1>2. ASSUME NEW i \in 1..N PROVE p[i - 1] + new[Order[i]] <= p[i]
  <2>1. /\ Order[i] \in Calls /\ i - 1 \in 0..N /\ i \in 0..N
        /\ p[i - 1] + add[Order[i]] <= p[i] /\ p \in [0..N -> Nat]
    <3>1. Order[i] \in Calls /\ i - 1 \in 0..N /\ i \in 0..N
      BY OrderOfCalls
    <3> QED BY <1>1, <3>1 DEF WithinBounds
  <2>2. p[i - 1] \in Nat /\ p[i] \in Nat /\ add[Order[i]] \in Nat /\ new[Order[i]] \in Nat
        /\ new[Order[i]] <= add[Order[i]]
    BY <2>1
  <2> QED BY <2>1, <2>2
<1> QED BY <1>1, <1>2 DEF WithinBounds, Bounded

(* What a call adds moves from what it may add to the total.                 *)
LEMMA AddingOnes ==
    ASSUME NEW total \in Nat, NEW add \in [Calls -> Nat], NEW new \in [Calls -> Nat],
           Bounded(total, add), NEW c \in Calls, NEW n \in Nat,
           n <= add[c], new[c] = 0, \A d \in Calls : new[d] <= add[d]
    PROVE  Bounded(total + n, new)
<1>1. PICK p : WithinBounds(p, total, add)
  BY DEF Bounded
<1>2. PICK j \in 1..N : Order[j] = c
  BY OrderOfCalls
<1>3. /\ N \in Nat \ {0} /\ p \in [0..N -> Nat] /\ p[0] = total
      /\ \A i, k \in 0..N : i <= k => p[i] <= p[k]
      /\ \A i \in 1..N : p[i - 1] + add[Order[i]] <= p[i]
  BY <1>1, OrderOfCalls DEF WithinBounds
<1> DEFINE q == [i \in 0..N |-> IF i < j THEN p[i] + n ELSE p[i]]
<1>4. p[j - 1] + n <= p[j]
  <2>1. j - 1 \in 0..N /\ j \in 0..N /\ p[j - 1] + add[c] <= p[j]
    BY <1>1, <1>2, <1>3 DEF WithinBounds
  <2>2. p[j - 1] \in Nat /\ p[j] \in Nat /\ add[c] \in Nat
    BY <1>3, <2>1
  <2> QED BY <2>1, <2>2
<1>5. q \in [0..N -> Nat] /\ q[0] = total + n /\ q[N] = p[N]
  <2>1. 0 \in 0..N /\ N \in 0..N /\ 0 < j /\ ~(N < j)
    BY <1>2, <1>3
  <2>2. \A i \in 0..N : p[i] \in Nat /\ p[i] + n \in Nat
    BY <1>3
  <2> QED BY <1>3, <2>1, <2>2
<1>6. ASSUME NEW i \in 0..N, NEW k \in 0..N, i <= k PROVE q[i] <= q[k]
  <2>1. /\ p[i] \in Nat /\ p[k] \in Nat /\ p[i] <= p[k] /\ j - 1 \in 0..N /\ j \in 0..N
        /\ p[j - 1] \in Nat /\ p[j] \in Nat
    BY <1>3, <1>6
  <2>2. i < j => p[i] <= p[j - 1]
    BY <1>3, <2>1
  <2>3. k >= j => p[j] <= p[k]
    BY <1>3, <2>1
  <2> QED BY <1>4, <1>6, <2>1, <2>2, <2>3
<1>7. ASSUME NEW i \in 1..N PROVE q[i - 1] + new[Order[i]] <= q[i]
  <2>0. i - 1 \in 0..N /\ i \in 0..N /\ Order[i] \in Calls
    BY <1>3, OrderOfCalls
  <2>1. p[i - 1] + add[Order[i]] <= p[i]
    BY <1>3
  <2>2. /\ p[i - 1] \in Nat /\ p[i] \in Nat /\ add[Order[i]] \in Nat
        /\ new[Order[i]] \in Nat /\ new[Order[i]] <= add[Order[i]]
    BY <1>3, <2>0
  <2>3. i = j => new[Order[i]] = 0
    BY <1>2
  <2>4. CASE i = j
    BY <1>4, <2>0, <2>1, <2>2, <2>3, <2>4
  <2>5. CASE i # j
    BY <2>0, <2>1, <2>2, <2>5
  <2> QED BY <2>4, <2>5
<1>8. q[N] <= N * M
  BY <1>1, <1>5 DEF WithinBounds
<1> HIDE DEF q
<1>9. WithinBounds(q, total + n, new)
  BY <1>5, <1>6, <1>7, <1>8 DEF WithinBounds
<1> QED BY <1>9 DEF Bounded

(* A call that found tokens left may add what is left and its prompt, the    *)
(* others what any call may.                                                 *)
LEMMA AddingWhatIsLeft ==
    ASSUME NEW total \in Nat, total <= M, NEW add \in [Calls -> Nat], NEW c \in Calls,
           total + add[c] <= M, \A d \in Calls : add[d] <= M
    PROVE  Bounded(total, add)
<1>1. PICK j \in 1..N : Order[j] = c
  BY OrderOfCalls
<1>2. N \in Nat \ {0} /\ M \in Nat
  BY OrderOfCalls, BudgetsAssumption DEF M
<1> DEFINE q == [i \in 0..N |-> IF i < j THEN total + i * M ELSE i * M]
<1> HIDE DEF M
<1>3. \A i \in 0..N : i * M \in Nat
  BY <1>2
<1>4. ASSUME NEW i \in 0..N, NEW k \in 0..N, i < k PROVE i * M + M <= k * M
  <2>1. k * M - i * M - M = (k - i - 1) * M
    BY <1>2
  <2>2. (k - i - 1) * M \in Nat
    BY <1>2, <1>4
  <2> QED BY <1>2, <1>3, <2>1, <2>2
<1>5. q \in [0..N -> Nat]
  BY <1>3
<1>6. q[0] = total /\ q[N] = N * M
  BY <1>1, <1>2
<1>7. ASSUME NEW i \in 0..N, NEW k \in 0..N, i <= k PROVE q[i] <= q[k]
  BY <1>2, <1>3, <1>4, <1>7
<1>8. ASSUME NEW i \in 1..N PROVE q[i - 1] + add[Order[i]] <= q[i]
  <2>1. /\ Order[i] \in Calls /\ add[Order[i]] \in Nat /\ add[Order[i]] <= M
        /\ i - 1 \in 0..N /\ i \in 0..N /\ i - 1 < i
        /\ (i - 1) * M + M <= i * M /\ (i - 1) * M \in Nat /\ i * M \in Nat
    BY <1>3, <1>4, <1>2, OrderOfCalls
  <2>2. CASE i = j
    BY <1>1, <1>2, <2>1, <2>2
  <2>3. CASE i # j
    BY <1>1, <1>2, <2>1, <2>3
  <2> QED BY <2>2, <2>3
<1> HIDE DEF q
<1>9. WithinBounds(q, total, add)
  BY <1>2, <1>3, <1>5, <1>6, <1>7, <1>8 DEF WithinBounds
<1> QED BY <1>9 DEF Bounded

LEMMA BudgetsStart == BudgetsInit => BudgetsInv
<1> SUFFICES ASSUME BudgetsInit PROVE BudgetsInv
  OBVIOUS
<1>1. BudgetsTypes
  <2>1. 0 \in 0..steps_per_run /\ 0 \in 0..max_tokens /\ 0 \in Nat
    BY BudgetsAssumption
  <2>2. NoUse \in [steps : 0..steps_per_run, tokens : Nat, egress : Nat]
    BY <2>1 DEF NoUse
  <2>3. [c \in Calls |-> [at |-> "idle", left |-> 0]]
          \in [Calls -> [at : {"idle", "steps", "tokens", "budget", "asking", "egress",
                                "fetching", "packages"}, left : 0..max_tokens]]
    BY <2>1
  <2> QED BY <2>1, <2>2, <2>3 DEF BudgetsInit, BudgetsTypes
<1>2. Fetching = {} /\ Cardinality(Fetching) = 0
  BY FS_EmptySet DEF BudgetsInit, Fetching
<1>3. /\ N * max_response_bytes \in Nat /\ N * max_response_bytes > 0
      /\ N * M \in Nat /\ N \in Nat
  BY OrderOfCalls, BudgetsAssumption DEF M
<1>4. EgressSpread
  BY <1>2, <1>3, BudgetsAssumption DEF EgressSpread, BudgetsInit, NoUse
<1>5. TokenSpread
  <2>1. \A i \in 1..N : [c \in Calls |-> MayAdd(c)][Order[i]] = 0
    BY OrderOfCalls DEF MayAdd, BudgetsInit
  <2>2. past = 0 /\ past <= usage.tokens /\ usage.tokens - past = 0
    BY DEF BudgetsInit, NoUse
  <2>3. WithinBounds([i \in 0..N |-> 0], 0, [c \in Calls |-> MayAdd(c)])
    BY <1>3, <2>1 DEF WithinBounds
  <2>4. Bounded(0, [c \in Calls |-> MayAdd(c)])
    BY <2>3 DEF Bounded
  <2> QED BY <2>2, <2>4 DEF TokenSpread
<1>6. LiveRunWithinBudgets
  <2>1. N * Largest \in Nat
    BY <1>3, BudgetsAssumption
  <2> QED BY <1>3, <2>1, BudgetsAssumption DEF LiveRunWithinBudgets, BudgetsInit, NoUse, N, M
<1>7. PastSpread
  BY DEF PastSpread, BudgetsInit
<1> QED BY <1>1, <1>4, <1>5, <1>6, <1>7 DEF BudgetsInv, ActiveIsCounted, BudgetsInit

LEMMA BudgetsTypesStep ==
    BudgetsTypes /\ ActiveIsCounted /\ [BudgetsNext]_budgetsVars => BudgetsTypes'
<1> SUFFICES ASSUME BudgetsTypes, ActiveIsCounted, [BudgetsNext]_budgetsVars PROVE BudgetsTypes'
  OBVIOUS
<1> DEFINE At == {"idle", "steps", "tokens", "budget", "asking", "egress", "fetching", "packages"}
           Use == [steps : 0..steps_per_run, tokens : Nat, egress : Nat]
<1>1. /\ steps_per_run \in Nat \ {0} /\ max_tokens \in Nat /\ Prompt \in Nat
      /\ max_response_bytes \in Nat /\ Largest \in Nat
  BY BudgetsAssumption
<1>2. ASSUME NEW c \in Calls, NEW at \in At, NEW left \in 0..max_tokens,
             call' = [call EXCEPT ![c] = [at |-> at, left |-> left]]
      PROVE  call' \in [Calls -> [at : At, left : 0..max_tokens]]
  <2>1. [at |-> at, left |-> left] \in [at : At, left : 0..max_tokens]
    OBVIOUS
  <2> QED BY <1>2, <2>1 DEF BudgetsTypes
<1>3. ASSUME NEW c \in Calls, NEW at \in At, Goes(c, at)
      PROVE  call' \in [Calls -> [at : At, left : 0..max_tokens]]
  <2>1. 0 \in 0..max_tokens
    BY <1>1
  <2>2. call' = [call EXCEPT ![c] = [at |-> at, left |-> 0]]
    BY <1>3 DEF Goes
  <2> QED BY <1>2, <2>1, <2>2
<1>4. NoUse \in Use
  BY <1>1 DEF NoUse
<1>5. CASE RunEnds
  BY <1>5 DEF RunEnds, history, BudgetsTypes
<1>6. CASE CacheExpires
  BY <1>6 DEF CacheExpires, history, BudgetsTypes
<1>7. CASE EndFinished
  BY <1>7 DEF EndFinished, history, BudgetsTypes
<1>8. CASE ResolveFresh
  BY <1>8 DEF ResolveFresh, history, BudgetsTypes
<1>9. CASE Drop
  BY <1>4, <1>9 DEF Drop, history, BudgetsTypes
<1>10. ASSUME NEW c \in Calls, Call(c) PROVE BudgetsTypes'
  <2>1. CASE Authenticate(c)
    BY <1>3, <2>1 DEF Authenticate, history, BudgetsTypes
  <2>2. CASE CheckSteps(c)
    <3>1. CASE usage.steps >= steps_per_run
      BY <1>3, <2>2, <3>1 DEF CheckSteps, Count, BudgetsTypes
    <3>2. CASE ~(usage.steps >= steps_per_run)
      <4>1. usage.steps + 1 \in 0..steps_per_run
        BY <1>1, <3>2 DEF BudgetsTypes
      <4>2. [usage EXCEPT !.steps = @ + 1] \in Use
        BY <4>1 DEF BudgetsTypes
      <4>3. used' \in Use
        BY <2>2, <3>2, <4>2 DEF CheckSteps, Uses, BudgetsTypes, ActiveIsCounted
      <4> QED BY <1>3, <2>2, <3>2, <4>2, <4>3 DEF CheckSteps, Count, BudgetsTypes
    <3> QED BY <3>1, <3>2
  <2>3. CASE CheckTokens(c)
    BY <1>3, <2>3 DEF CheckTokens, history, BudgetsTypes
  <2>4. CASE Sends(c)
    BY <1>2, <2>4, MayAddBounded DEF Sends, history, BudgetsTypes
  <2>5. CASE Recorded(c)
    <3> DEFINE Capped == call[c].left + Prompt
    <3>1. PICK n \in 1..Capped \cup 1..Largest :
                  /\ Count([usage EXCEPT !.tokens = @ + n]) /\ Uses("tokens", n)
                  /\ past' = IF run = "active" /\ n > Capped THEN past + n - Capped ELSE past
      BY <2>5 DEF Recorded, Charges, HeldTo
    <3>2. /\ n \in Nat /\ usage.tokens + n \in Nat /\ used.tokens + n \in Nat
          /\ Capped \in Nat /\ past \in Nat
      BY <1>1 DEF BudgetsTypes
    <3>4. past' \in Nat
      BY <3>1, <3>2
    <3>3. [usage EXCEPT !.tokens = @ + n] \in Use /\ [used EXCEPT !.tokens = @ + n] \in Use
      BY <3>2 DEF BudgetsTypes
    <3> QED BY <1>3, <2>5, <3>1, <3>3, <3>4 DEF Recorded, Count, Uses, BudgetsTypes
  <2>6. CASE Unanswered(c)
    BY <1>3, <2>6 DEF Unanswered, history, BudgetsTypes
  <2>7. CASE EgressRemaining(c)
    BY <1>3, <2>7 DEF EgressRemaining, history, BudgetsTypes
  <2>8. CASE RecordEgress(c)
    <3>1. PICK n \in 0..max_response_bytes : Count([usage EXCEPT !.egress = @ + n]) /\ Uses("egress", n)
      BY <2>8 DEF RecordEgress
    <3>2. n \in Nat /\ usage.egress + n \in Nat /\ used.egress + n \in Nat
      BY <1>1 DEF BudgetsTypes
    <3>3. [usage EXCEPT !.egress = @ + n] \in Use /\ [used EXCEPT !.egress = @ + n] \in Use
      BY <3>2 DEF BudgetsTypes
    <3> QED BY <1>3, <2>8, <3>1, <3>3 DEF RecordEgress, Count, Uses, BudgetsTypes
  <2>9. CASE Package(c)
    BY <1>3, <2>9 DEF Package, history, BudgetsTypes
  <2> QED BY <1>10, <2>1, <2>2, <2>3, <2>4, <2>5, <2>6, <2>7, <2>8, <2>9 DEF Call
<1>11. CASE UNCHANGED budgetsVars
  BY <1>11 DEF budgetsVars, history, BudgetsTypes
<1> QED BY <1>5, <1>6, <1>7, <1>8, <1>9, <1>10, <1>11 DEF BudgetsNext

(* While the run is active its entry is its use.                             *)
LEMMA ActiveStep ==
    BudgetsTypes /\ ActiveIsCounted /\ [BudgetsNext]_budgetsVars => ActiveIsCounted'
<1> SUFFICES ASSUME BudgetsTypes, ActiveIsCounted, [BudgetsNext]_budgetsVars, run' = "active"
             PROVE  used' = usage' /\ ending' # "dropping"
  BY DEF ActiveIsCounted
<1>1. CASE RunEnds \/ CacheExpires \/ EndFinished \/ ResolveFresh \/ Drop
  BY <1>1 DEF RunEnds, CacheExpires, EndFinished, ResolveFresh, Drop, history, ActiveIsCounted
<1>2. ASSUME NEW c \in Calls, Call(c) PROVE used' = usage' /\ ending' # "dropping"
  BY <1>2 DEF Call, Authenticate, CheckSteps, CheckTokens, Sends, Recorded, Unanswered,
              EgressRemaining, RecordEgress, Package, Count, Uses, history, ActiveIsCounted
<1>3. CASE UNCHANGED budgetsVars
  BY <1>3 DEF budgetsVars, history, ActiveIsCounted
<1> QED BY <1>1, <1>2, <1>3 DEF BudgetsNext

(* What the step of a call leaves of the others.                             *)
LEMMA OthersKeep ==
    ASSUME BudgetsTypes, NEW c \in Calls, Call(c)
    PROVE  \A d \in Calls \ {c} : call'[d] = call[d]
BY DEF Call, Authenticate, CheckSteps, CheckTokens, Sends, Recorded, Unanswered, EgressRemaining,
       RecordEgress, Package, Goes, BudgetsTypes

(* A call fetches only after it found the bytes below their bound.           *)
LEMMA EgressStep ==
    ASSUME BudgetsTypes, ActiveIsCounted, EgressSpread, [BudgetsNext]_budgetsVars, run' = "active"
    PROVE  EgressSpread'
<1> DEFINE R == max_response_bytes
           k == Cardinality(Fetching)
           kn == Cardinality(Fetching')
<1>1. /\ R \in Nat /\ R > 0 /\ max_egress_bytes_per_run \in Nat /\ N \in Nat /\ N * R \in Nat
      /\ usage.egress \in Nat
  BY BudgetsAssumption, OrderOfCalls DEF BudgetsTypes
<1>2. IsFiniteSet(Fetching) /\ k \in Nat /\ k <= N
  BY FS_Subset, FS_CardinalityType, BudgetsAssumption DEF Fetching, N
<1>3. IsFiniteSet(Fetching') /\ kn \in Nat /\ kn <= N
  BY FS_Subset, FS_CardinalityType, BudgetsAssumption DEF Fetching, N
<1>4. usage.egress + k * R < max_egress_bytes_per_run + N * R
  BY DEF EgressSpread
<1> SUFFICES usage'.egress + kn * R < max_egress_bytes_per_run + N * R
  BY DEF EgressSpread
<1>5. ASSUME usage'.egress = usage.egress, Fetching' \subseteq Fetching
      PROVE  usage'.egress + kn * R < max_egress_bytes_per_run + N * R
  <2>1. kn <= k
    BY <1>2, <1>5, FS_Subset
  <2>2. kn * R <= k * R /\ kn * R \in Nat /\ k * R \in Nat
    BY <1>1, <1>2, <1>3, <2>1
  <2> HIDE DEF k, kn, R
  <2> QED BY <1>1, <1>4, <1>5, <2>2
<1>6. CASE RunEnds \/ CacheExpires \/ EndFinished \/ ResolveFresh \/ UNCHANGED budgetsVars
  BY <1>5, <1>6 DEF RunEnds, CacheExpires, EndFinished, ResolveFresh, budgetsVars, Fetching
<1>7. CASE Drop
  BY <1>7 DEF Drop, ActiveIsCounted
<1>8. ASSUME NEW c \in Calls, Call(c)
      PROVE  usage'.egress + kn * R < max_egress_bytes_per_run + N * R
  <2>1. \A d \in Calls \ {c} : call'[d] = call[d]
    BY <1>8, OthersKeep
  <2>2. CASE Authenticate(c) \/ CheckTokens(c) \/ Sends(c) \/ Unanswered(c) \/ Package(c)
    <3>1. usage'.egress = usage.egress /\ call'[c].at # "fetching"
      BY <2>2 DEF Authenticate, CheckTokens, Sends, Unanswered, Package, Goes, BudgetsTypes
    <3> QED BY <1>5, <2>1, <3>1 DEF Fetching
  <2>3. CASE CheckSteps(c) \/ Recorded(c)
    <3>1. usage'.egress = usage.egress /\ call'[c].at # "fetching"
      BY <2>3 DEF CheckSteps, Recorded, Count, Goes, BudgetsTypes
    <3> QED BY <1>5, <2>1, <3>1 DEF Fetching
  <2>4. CASE EgressRemaining(c)
    <3>1. CASE usage.egress >= max_egress_bytes_per_run
      <4>1. usage'.egress = usage.egress /\ call'[c].at # "fetching"
        BY <2>4, <3>1 DEF EgressRemaining, Goes, BudgetsTypes
      <4> QED BY <1>5, <2>1, <4>1 DEF Fetching
    <3>2. CASE ~(usage.egress >= max_egress_bytes_per_run)
      <4>1. usage' = usage
        BY <2>4 DEF EgressRemaining
      <4>2. kn * R <= N * R /\ kn * R \in Nat
        BY <1>1, <1>3
      <4> HIDE DEF kn, R
      <4> QED BY <1>1, <3>2, <4>1, <4>2
    <3> QED BY <3>1, <3>2
  <2>5. CASE RecordEgress(c)
    <3>1. PICK n \in 0..R : usage' = [usage EXCEPT !.egress = @ + n]
      BY <2>5 DEF RecordEgress, Count
    <3>2. usage'.egress = usage.egress + n
      BY <3>1 DEF BudgetsTypes
    <3>3. c \in Fetching /\ Fetching' = Fetching \ {c}
      BY <2>1, <2>5 DEF RecordEgress, Goes, Fetching, BudgetsTypes
    <3>4. kn = k - 1
      BY <1>2, <3>3, FS_RemoveElement
    <3>5. k * R = kn * R + R /\ kn * R \in Nat
      BY <1>1, <1>2, <1>3, <3>4
    <3> HIDE DEF k, kn, R
    <3> QED BY <1>1, <1>4, <3>1, <3>2, <3>5
  <2> QED BY <1>8, <2>2, <2>3, <2>4, <2>5 DEF Call
<1> QED BY <1>6, <1>7, <1>8 DEF BudgetsNext

(* A call sends what a check found to be left, and adds no more than that.   *)
LEMMA TokenStep ==
    ASSUME BudgetsTypes, BudgetsTypes', ActiveIsCounted, TokenSpread,
           [BudgetsNext]_budgetsVars, run' = "active"
    PROVE  TokenSpread'
<1> DEFINE add == [c \in Calls |-> MayAdd(c)]
           new == [c \in Calls |-> MayAdd(c)']
<1>1. /\ usage.tokens \in Nat /\ usage'.tokens \in Nat /\ Bounded(usage.tokens - past, add)
      /\ max_tokens \in Nat /\ Prompt \in Nat /\ Largest \in Nat /\ M = max_tokens + Prompt
      /\ past \in Nat /\ past' \in Nat /\ past <= usage.tokens
  BY BudgetsAssumption DEF BudgetsTypes, TokenSpread, M
<1>2. add \in [Calls -> Nat] /\ \A c \in Calls : add[c] = MayAdd(c)
  BY MayAddBounded
<1>3. ASSUME NEW c \in Calls
      PROVE  MayAdd(c)' \in Nat /\ MayAdd(c)' <= M
  <2>1. usage'.tokens \in Nat /\ call'[c].left \in 0..max_tokens
    BY DEF BudgetsTypes
  <2> QED BY <1>1, <2>1 DEF MayAdd, tokens_left
<1>4. new \in [Calls -> Nat] /\ \A c \in Calls : new[c] = MayAdd(c)' /\ new[c] <= M
  BY <1>3
<1> SUFFICES past' <= usage'.tokens /\ Bounded(usage'.tokens - past', new)
  BY DEF TokenSpread, Bounded, WithinBounds
<1>5. ASSUME usage'.tokens >= usage.tokens, NEW d \in Calls, call'[d] = call[d]
      PROVE  new[d] <= add[d]
  <2>1. call[d].left \in Nat
    BY <1>1 DEF BudgetsTypes
  <2> QED BY <1>1, <1>2, <1>4, <1>5, <2>1 DEF MayAdd, tokens_left
<1> HIDE DEF add, new
<1>6. ASSUME usage'.tokens = usage.tokens, past' = past, \A d \in Calls : new[d] <= add[d]
      PROVE  past' <= usage'.tokens /\ Bounded(usage'.tokens - past', new)
  BY <1>1, <1>2, <1>4, <1>6, AddingLess
<1>7. CASE RunEnds \/ CacheExpires \/ EndFinished \/ ResolveFresh \/ UNCHANGED budgetsVars
  <2>1. usage' = usage /\ call' = call /\ past' = past
    BY <1>7 DEF RunEnds, CacheExpires, EndFinished, ResolveFresh, budgetsVars, history
  <2> QED BY <1>1, <1>5, <1>6, <2>1
<1>8. CASE Drop
  BY <1>8 DEF Drop, ActiveIsCounted
<1>9. ASSUME NEW c \in Calls, Call(c)
      PROVE  past' <= usage'.tokens /\ Bounded(usage'.tokens - past', new)
  <2>1. \A d \in Calls \ {c} : call'[d] = call[d]
    BY <1>9, OthersKeep
  <2>2. ASSUME usage'.tokens = usage.tokens, past' = past, new[c] <= add[c]
        PROVE  past' <= usage'.tokens /\ Bounded(usage'.tokens - past', new)
    BY <1>1, <1>5, <1>6, <2>1, <2>2
  <2>3. CASE Authenticate(c) \/ CheckSteps(c) \/ Unanswered(c) \/ EgressRemaining(c) \/ RecordEgress(c)
             \/ Package(c)
    <3>1. usage'.tokens = usage.tokens /\ past' = past
      BY <2>3 DEF Authenticate, CheckSteps, Unanswered, EgressRemaining, RecordEgress, Package,
                  Count, history, BudgetsTypes
    <3>2. call'[c].at \notin {"asking", "budget"}
      BY <2>3 DEF Authenticate, CheckSteps, Unanswered, EgressRemaining, RecordEgress, Package,
                  Goes, BudgetsTypes
    <3>3. new[c] = 0
      BY <1>4, <3>2 DEF MayAdd
    <3>4. add[c] \in Nat
      BY <1>2
    <3> QED BY <2>2, <3>1, <3>3, <3>4
  <2>4. CASE CheckTokens(c)
    <3>1. usage' = usage /\ past' = past
      BY <2>4 DEF CheckTokens, history
    <3>2. CASE tokens_left = 0
      <4>1. call'[c].at = "idle"
        BY <2>4, <3>2 DEF CheckTokens, Goes, BudgetsTypes
      <4>2. new[c] = 0 /\ add[c] \in Nat
        BY <1>2, <1>4, <4>1 DEF MayAdd
      <4> QED BY <2>2, <3>1, <4>2
    <3>3. CASE tokens_left # 0
      <4>1. call'[c].at = "budget"
        BY <2>4, <3>3 DEF CheckTokens, Goes, BudgetsTypes
      <4>2. new[c] = tokens_left + Prompt
        BY <1>4, <3>1, <4>1 DEF MayAdd, tokens_left
      <4>3. usage'.tokens + new[c] <= M /\ usage'.tokens <= M
        BY <1>1, <3>1, <3>3, <4>2 DEF tokens_left
      <4>4. /\ usage'.tokens - past' \in Nat /\ usage'.tokens - past' <= M
            /\ usage'.tokens - past' + new[c] <= M
        BY <1>1, <1>4, <3>1, <4>3
      <4> QED BY <1>1, <1>4, <3>1, <4>4, AddingWhatIsLeft
    <3> QED BY <3>2, <3>3
  <2>5. CASE Sends(c)
    <3>1. /\ usage' = usage /\ past' = past /\ call[c].at = "budget"
          /\ call'[c] = [at |-> "asking", left |-> tokens_left]
      BY <2>5 DEF Sends, history, BudgetsTypes
    <3>2. new[c] = tokens_left + Prompt /\ add[c] = tokens_left + Prompt
      BY <1>2, <1>4, <3>1 DEF MayAdd
    <3>3. add[c] \in Nat
      BY <1>2
    <3> QED BY <2>2, <3>1, <3>2, <3>3
  <2>6. CASE Recorded(c)
    <3> DEFINE Capped == call[c].left + Prompt
    <3>1. PICK n \in 1..Capped \cup 1..Largest :
                  /\ usage' = [usage EXCEPT !.tokens = @ + n]
                  /\ past' = IF run = "active" /\ n > Capped THEN past + n - Capped ELSE past
      BY <2>6 DEF Recorded, Charges, HeldTo, Count
    <3>2. usage'.tokens = usage.tokens + n /\ n \in Nat /\ Capped \in Nat
      BY <1>1, <3>1 DEF BudgetsTypes
    <3>3. add[c] = Capped
      BY <1>2, <2>6 DEF Recorded, MayAdd
    <3>4. call'[c].at = "idle" /\ run = "active"
      BY <2>6 DEF Recorded, Goes, BudgetsTypes
    <3>5. new[c] = 0
      BY <1>4, <3>4 DEF MayAdd
    <3>6. \A d \in Calls : new[d] <= add[d]
      <4>1. 0 <= Capped /\ usage'.tokens >= usage.tokens
        BY <1>1, <3>2
      <4> HIDE DEF Capped
      <4> QED BY <1>5, <2>1, <3>3, <3>5, <4>1
    <3> DEFINE k == IF n > Capped THEN Capped ELSE n
    <3>7. /\ k \in Nat /\ k <= add[c] /\ usage.tokens - past \in Nat
          /\ past' <= usage'.tokens /\ usage'.tokens - past' = (usage.tokens - past) + k
      <4> HIDE DEF Capped
      <4>1. past' = IF n > Capped THEN past + n - Capped ELSE past
        BY <3>1, <3>4
      <4> QED BY <1>1, <3>2, <3>3, <4>1
    <3> HIDE DEF k, Capped
    <3>8. Bounded((usage.tokens - past) + k, new)
      BY <1>1, <1>2, <1>4, <3>5, <3>6, <3>7, AddingOnes
    <3> QED BY <3>7, <3>8
  <2> QED BY <1>9, <2>3, <2>4, <2>5, <2>6 DEF Call
<1> QED BY <1>7, <1>8, <1>9 DEF BudgetsNext

(* Only a call that was sent is counted past what it had left, and where one *)
(* is there is nothing left for a call after it.                             *)
LEMMA PastStep ==
    ASSUME BudgetsTypes, BudgetsTypes', ActiveIsCounted, PastSpread,
           [BudgetsNext]_budgetsVars, run' = "active"
    PROVE  PastSpread'
<1> DEFINE k == Cardinality(Sent)
           kn == Cardinality(Sent')
<1>1. /\ usage.tokens \in Nat /\ usage'.tokens \in Nat /\ past \in Nat /\ past' \in Nat
      /\ max_tokens \in Nat /\ Prompt \in Nat /\ Largest \in Nat /\ N \in Nat
      /\ \A c \in Calls : call[c].left \in 0..max_tokens
  BY BudgetsAssumption, OrderOfCalls DEF BudgetsTypes
<1>2. IsFiniteSet(Sent) /\ k \in Nat /\ k <= N
  BY FS_Subset, FS_CardinalityType, BudgetsAssumption DEF Sent, N
<1>3. IsFiniteSet(Sent') /\ kn \in Nat /\ kn <= N
  BY FS_Subset, FS_CardinalityType, BudgetsAssumption DEF Sent, N
<1>4. k * Largest \in Nat /\ kn * Largest \in Nat /\ N * Largest \in Nat
  BY <1>1, <1>2, <1>3
<1>5. /\ \A c \in Calls : call[c].at = "asking" => usage.tokens + call[c].left >= max_tokens
      /\ \/ past = 0
         \/ usage.tokens >= max_tokens /\ past + k * Largest <= N * Largest
  BY DEF PastSpread
<1> SUFFICES /\ \A c \in Calls : call'[c].at = "asking" => usage'.tokens + call'[c].left >= max_tokens
             /\ \/ past' = 0
                \/ usage'.tokens >= max_tokens /\ past' + kn * Largest <= N * Largest
  BY DEF PastSpread
<1>6. ASSUME usage'.tokens = usage.tokens, past' = past, Sent' \subseteq Sent
      PROVE  \/ past' = 0
             \/ usage'.tokens >= max_tokens /\ past' + kn * Largest <= N * Largest
  <2>1. kn <= k
    BY <1>2, <1>6, FS_Subset
  <2>2. kn * Largest <= k * Largest
    BY <1>1, <1>2, <1>3, <2>1
  <2> HIDE DEF k, kn
  <2> QED BY <1>1, <1>4, <1>5, <1>6, <2>2
<1> HIDE DEF k, kn
<1>7. CASE RunEnds \/ CacheExpires \/ EndFinished \/ ResolveFresh \/ UNCHANGED budgetsVars
  <2>1. usage' = usage /\ call' = call /\ past' = past
    BY <1>7 DEF RunEnds, CacheExpires, EndFinished, ResolveFresh, budgetsVars, history
  <2>2. Sent' \subseteq Sent
    BY <2>1 DEF Sent
  <2> QED BY <1>5, <1>6, <2>1, <2>2
<1>8. CASE Drop
  BY <1>8 DEF Drop, ActiveIsCounted
<1>9. ASSUME NEW c \in Calls, Call(c)
      PROVE  /\ \A d \in Calls : call'[d].at = "asking" => usage'.tokens + call'[d].left >= max_tokens
             /\ \/ past' = 0
                \/ usage'.tokens >= max_tokens /\ past' + kn * Largest <= N * Largest
  <2>1. \A d \in Calls \ {c} : call'[d] = call[d]
    BY <1>9, OthersKeep
  <2>2. ASSUME usage'.tokens >= usage.tokens, call'[c].at # "asking"
        PROVE  \A d \in Calls : call'[d].at = "asking" => usage'.tokens + call'[d].left >= max_tokens
    <3> SUFFICES ASSUME NEW d \in Calls, call'[d].at = "asking"
                 PROVE  usage'.tokens + call'[d].left >= max_tokens
      OBVIOUS
    <3>1. call'[d] = call[d]
      BY <2>1, <2>2
    <3>2. usage.tokens + call[d].left >= max_tokens /\ call[d].left \in Nat
      BY <1>1, <1>5, <3>1
    <3> QED BY <1>1, <2>2, <3>1, <3>2
  <2>3. CASE Authenticate(c) \/ CheckSteps(c) \/ Unanswered(c) \/ EgressRemaining(c) \/ RecordEgress(c)
             \/ Package(c)
    <3>1. usage'.tokens = usage.tokens /\ past' = past
      BY <2>3 DEF Authenticate, CheckSteps, Unanswered, EgressRemaining, RecordEgress, Package,
                  Count, history, BudgetsTypes
    <3>2. call'[c].at \notin {"asking", "budget"}
      BY <2>3 DEF Authenticate, CheckSteps, Unanswered, EgressRemaining, RecordEgress, Package,
                  Goes, BudgetsTypes
    <3>3. Sent' \subseteq Sent
      BY <2>1, <3>2 DEF Sent
    <3> QED BY <1>1, <1>6, <2>2, <3>1, <3>2, <3>3
  <2>4. CASE CheckTokens(c)
    <3>1. usage' = usage /\ past' = past /\ call'[c].at # "asking"
      BY <2>4 DEF CheckTokens, Goes, history, BudgetsTypes
    <3>2. CASE tokens_left = 0
      <4>1. call'[c].at = "idle"
        BY <2>4, <3>2 DEF CheckTokens, Goes, BudgetsTypes
      <4>2. Sent' \subseteq Sent
        BY <2>1, <4>1 DEF Sent
      <4> QED BY <1>1, <1>6, <2>2, <3>1, <4>2
    <3>3. CASE tokens_left # 0
      <4>1. past = 0
        BY <1>1, <1>5, <3>3 DEF tokens_left
      <4> QED BY <1>1, <2>2, <3>1, <4>1
    <3> QED BY <3>2, <3>3
  <2>5. CASE Sends(c)
    <3>1. /\ usage' = usage /\ past' = past /\ call[c].at = "budget"
          /\ call'[c] = [at |-> "asking", left |-> tokens_left]
      BY <2>5 DEF Sends, history, BudgetsTypes
    <3>2. Sent' \subseteq Sent
      BY <2>1, <3>1 DEF Sent
    <3>3. usage.tokens + tokens_left >= max_tokens
      BY <1>1 DEF tokens_left
    <3>4. \A d \in Calls : call'[d].at = "asking" => usage'.tokens + call'[d].left >= max_tokens
      BY <1>5, <2>1, <3>1, <3>3
    <3> QED BY <1>6, <3>1, <3>2, <3>4
  <2>6. CASE Recorded(c)
    <3> DEFINE Capped == call[c].left + Prompt
    <3>1. PICK n \in 1..Capped \cup 1..Largest :
                  /\ usage' = [usage EXCEPT !.tokens = @ + n]
                  /\ past' = IF run = "active" /\ n > Capped THEN past + n - Capped ELSE past
      BY <2>6 DEF Recorded, Charges, HeldTo, Count
    <3>2. /\ usage'.tokens = usage.tokens + n /\ n \in Nat /\ Capped \in Nat
          /\ Capped >= call[c].left /\ call[c].left \in Nat
      BY <1>1, <3>1 DEF BudgetsTypes
    <3>3. n > Capped => n <= Largest
      BY <1>1, <3>1, <3>2
    <3>4. call'[c].at = "idle" /\ run = "active" /\ usage.tokens + call[c].left >= max_tokens
      BY <1>5, <2>6 DEF Recorded, Goes, BudgetsTypes
    <3>5. c \in Sent /\ Sent' = Sent \ {c}
      BY <2>1, <2>6, <3>4 DEF Sent, Recorded
    <3>6. kn = k - 1
      BY <1>2, <3>5, FS_RemoveElement DEF k, kn
    <3>7. k * Largest = kn * Largest + Largest /\ k * Largest <= N * Largest
      BY <1>1, <1>2, <1>3, <3>6
    <3>8. \A d \in Calls : call'[d].at = "asking" => usage'.tokens + call'[d].left >= max_tokens
      BY <1>1, <2>2, <3>2, <3>4
    <3>9. past' = IF n > Capped THEN past + n - Capped ELSE past
      BY <3>1, <3>4
    <3> HIDE DEF Capped
    <3>10. CASE n > Capped
      <4>1. usage'.tokens >= max_tokens /\ past' <= past + Largest
        BY <1>1, <3>2, <3>3, <3>4, <3>9, <3>10
      <4> QED BY <1>1, <1>4, <1>5, <3>7, <3>8, <4>1
    <3>11. CASE ~(n > Capped)
      <4>1. usage'.tokens >= usage.tokens /\ past' = past
        BY <1>1, <3>2, <3>9, <3>11
      <4> QED BY <1>1, <1>4, <1>5, <3>7, <3>8, <4>1
    <3> QED BY <3>10, <3>11
  <2> QED BY <1>9, <2>3, <2>4, <2>5, <2>6 DEF Call
<1> QED BY <1>7, <1>8, <1>9 DEF BudgetsNext

(* Spread bounds are the bounds of the run.                                  *)
LEMMA SpreadIsWithin ==
    BudgetsTypes /\ ActiveIsCounted /\ run = "active" /\ EgressSpread /\ TokenSpread /\ PastSpread
    => LiveRunWithinBudgets
<1> SUFFICES ASSUME BudgetsTypes, ActiveIsCounted, run = "active", EgressSpread, TokenSpread,
                    PastSpread
             PROVE  LiveRunWithinBudgets
  OBVIOUS
<1>1. used = usage /\ usage.steps \in 0..steps_per_run /\ usage.egress \in Nat /\ steps_per_run \in Nat
     /\ usage.tokens \in Nat /\ past \in Nat
  BY BudgetsAssumption DEF ActiveIsCounted, BudgetsTypes
<1>2. PICK p : WithinBounds(p, usage.tokens - past, [c \in Calls |-> MayAdd(c)])
  BY DEF TokenSpread, Bounded
<1>3. usage.tokens <= N * (max_tokens + Prompt) + past
  <2>1. /\ p \in [0..N -> Nat] /\ p[0] = usage.tokens - past /\ p[0] <= p[N] /\ p[N] <= N * M
        /\ N \in Nat \ {0} /\ M \in Nat
    BY <1>2, OrderOfCalls, BudgetsAssumption DEF WithinBounds, M
  <2>2. N * M \in Nat /\ p[N] \in Nat /\ p[0] \in Nat
    BY <2>1
  <2>3. usage.tokens <= N * M + past
    BY <1>1, <2>1, <2>2
  <2> QED BY <2>3 DEF M
<1>5. past <= N * Largest
  <2>1. /\ Cardinality(Sent) \in Nat /\ N \in Nat /\ Largest \in Nat
    BY FS_Subset, FS_CardinalityType, BudgetsAssumption DEF Sent, N
  <2>2. Cardinality(Sent) * Largest \in Nat /\ N * Largest \in Nat
    BY <2>1
  <2> QED BY <1>1, <2>2 DEF PastSpread
<1>4. usage.egress < max_egress_bytes_per_run + N * max_response_bytes
  <2>1. /\ Cardinality(Fetching) \in Nat /\ N \in Nat /\ max_response_bytes \in Nat
        /\ max_egress_bytes_per_run \in Nat
    BY FS_Subset, FS_CardinalityType, BudgetsAssumption DEF Fetching, N
  <2>2. /\ Cardinality(Fetching) * max_response_bytes \in Nat
        /\ N * max_response_bytes \in Nat
    BY <2>1
  <2> QED BY <1>1, <2>1, <2>2 DEF EgressSpread
<1> QED BY <1>1, <1>3, <1>4, <1>5 DEF LiveRunWithinBudgets, N

LEMMA SpreadIsWithinNext ==
    (BudgetsTypes /\ ActiveIsCounted /\ run = "active" /\ EgressSpread /\ TokenSpread /\ PastSpread)'
    => LiveRunWithinBudgets'
BY SpreadIsWithin, PTL

LEMMA BudgetsStep == BudgetsInv /\ [BudgetsNext]_budgetsVars => BudgetsInv'
<1> SUFFICES ASSUME BudgetsInv, [BudgetsNext]_budgetsVars PROVE BudgetsInv'
  OBVIOUS
<1>1. BudgetsTypes' /\ ActiveIsCounted'
  BY BudgetsTypesStep, ActiveStep DEF BudgetsInv
<1>2. CASE run' = "active"
  <2>1. run = "active"
    BY <1>2 DEF BudgetsNext, RunEnds, CacheExpires, EndFinished, ResolveFresh, Drop, Call,
                Authenticate, CheckSteps, CheckTokens, Sends, Recorded, Unanswered,
                EgressRemaining, RecordEgress, Package, budgetsVars
  <2>2. EgressSpread' /\ TokenSpread' /\ PastSpread'
    BY <1>1, <1>2, <2>1, EgressStep, TokenStep, PastStep DEF BudgetsInv
  <2>3. LiveRunWithinBudgets'
    BY <1>1, <1>2, <2>2, SpreadIsWithinNext
  <2> QED BY <1>1, <2>2, <2>3 DEF BudgetsInv
<1>3. CASE run' # "active"
  <2>1. run # "active" => used' = used /\ past' = past
    BY DEF BudgetsNext, RunEnds, CacheExpires, EndFinished, ResolveFresh, Drop, Call,
           Authenticate, CheckSteps, CheckTokens, Sends, Recorded, Unanswered,
           EgressRemaining, RecordEgress, Package, Uses, history, budgetsVars
  <2>2. run = "active" => used' = used /\ past' = past
    BY <1>3 DEF BudgetsNext, RunEnds, CacheExpires, EndFinished, ResolveFresh, Drop, Call,
                Authenticate, CheckSteps, CheckTokens, Sends, Recorded, Unanswered,
                EgressRemaining, RecordEgress, Package, history, budgetsVars
  <2>3. LiveRunWithinBudgets'
    BY <2>1, <2>2 DEF BudgetsInv, LiveRunWithinBudgets
  <2> QED BY <1>1, <1>3, <2>3 DEF BudgetsInv
<1> QED BY <1>2, <1>3

(* limits.rs: while a run is active its budgets hold over its whole life,    *)
(* however many calls it makes at once and whenever its record is dropped:   *)
(* it is over by one answer of every call at most, and by what such an       *)
(* answer is counted for past what its call had left to ask for.             *)
THEOREM RunsKeepTheirBudgets == BudgetsSpec => []LiveRunWithinBudgets
<1>1. BudgetsInv => LiveRunWithinBudgets
  BY DEF BudgetsInv
<1> QED BY <1>1, BudgetsStart, BudgetsStep, PTL DEF BudgetsSpec

(* limits.rs: the counts of a run are within its steps, and a run that is not *)
(* counted has used nothing.                                                  *)
THEOREM BudgetsTyped == BudgetsSpec => []BudgetsTypeOK
<1>1. BudgetsInv => BudgetsTypeOK
  BY DEF BudgetsInv, BudgetsTypes, BudgetsTypeOK
<1> QED BY <1>1, BudgetsStart, BudgetsStep, PTL DEF BudgetsSpec

-----------------------------------------------------------------------------
(***************************************************************************)
(* The crawl queue, for any pods, sources, versions and attempts: a source *)
(* has no more jobs than there are pods and requests of the administrator, *)
(* and while no read outlasts its lease a job has one reader.              *)
(*                                                                         *)
(* Those who queue (Askers) ask whether a source has a pending job and     *)
(* queue one in another statement, and a late fail puts a row back that    *)
(* ended.  So the bound is of the rows that count or may count again       *)
(* (RowsOf), and of the askers that found none pending and have not queued *)
(* yet (Asking): one asks only when no row counts, and then every row that *)
(* may count again has a reader of its own (TableBounded).                 *)
(***************************************************************************)

JobType == [state : {"none", "queued", "running"}, source : Sources, attempts : Nat, stale : BOOLEAN]

Readings == {"work", "finish", "fail"}

Askings == {"queue due", "queue changed"}

PodType == [at : {"down", "idle", "due", "changed", "claim", "take"} \cup Askings \cup Readings,
            snap : [Sources -> Nat], seen : [Sources -> Nat], todo : SUBSET Sources,
            source : Sources, job : Jobs]

QueueTypes ==
    /\ version \in [Sources -> Nat] /\ indexed \in [Sources -> Nat]
    /\ job \in [Jobs -> JobType] /\ pod \in [Pods -> PodType]
    /\ recrawl \in [Recrawls -> SUBSET Sources]
    /\ \A r \in Recrawls : \A s, t \in recrawl[r] : s = t
    /\ upsets \in 0 .. MaxUpsets

(* The line names each row once, and none that ended. *)
Lined ==
    /\ line \in Seq(Jobs)
    /\ \A m, n \in 1..Len(line) : line[m] = line[n] => m = n
    /\ \A j \in Members(line) : job[j].state # "none"

(* pod[p] reads job j. *)
Reads(p, j) == pod[p].at \in Readings /\ pod[p].job = j

(* What a pod reads is of the row's source, as long as the row is there. *)
ReadAsNamed ==
    /\ \A p \in Pods, j \in Jobs : Reads(p, j) /\ job[j].state # "none" => job[j].source = pod[p].source
    /\ \A p, q \in Pods, j \in Jobs : Reads(p, j) /\ Reads(q, j) => pod[p].source = pod[q].source

(* Row j counts for s, or a late fail may put it back. *)
CountsFor(j, s) ==
    \/ job[j].state # "none" /\ job[j].source = s
    \/ job[j].state = "none" /\ \E p \in Pods : Reads(p, j) /\ pod[p].source = s

RowsOf(s) == {j \in Jobs : CountsFor(j, s)}

AsksFirst(p, s) == pod[p].at \in Askings /\ pod[p].source = s

Askers == Pods \cup Recrawls

Asking(s) == {p \in Pods : AsksFirst(p, s)} \cup {r \in Recrawls : s \in recrawl[r]}

TableBounded == \A s \in Sources : Cardinality(RowsOf(s)) + Cardinality(Asking(s)) <= Cardinality(Askers)

(* The row of a reader runs under its lease. *)
LeaseHeld ==
    ~Overruns => \A p \in Pods, j \in Jobs : Reads(p, j) =>
        /\ job[j].state = "running" /\ ~job[j].stale
        /\ \A q \in Pods : Reads(q, j) => p = q

QueueInv == QueueTypes /\ Lined /\ ReadAsNamed /\ TableBounded /\ LeaseHeld

-----------------------------------------------------------------------------
(* Records. *)

LEMMA RestingTypes ==
    /\ NoJob \in JobType /\ NoJob.state = "none" /\ ~NoJob.stale
    /\ NoneSeen \in [Sources -> Nat]
    /\ Resting \in PodType /\ Resting.at = "idle"
    /\ [Resting EXCEPT !.at = "down"] \in PodType
<1>1. (CHOOSE s \in Sources : TRUE) \in Sources /\ (CHOOSE j \in Jobs : TRUE) \in Jobs
  BY QueueAssumption
<1>2. NoJob \in JobType /\ NoJob.state = "none" /\ ~NoJob.stale /\ NoJob.source \in Sources
  BY <1>1 DEF NoJob, JobType
<1>3. NoneSeen \in [Sources -> Nat]
  BY DEF NoneSeen
<1>4. Resting \in PodType /\ Resting.at = "idle"
  BY <1>1, <1>2, <1>3 DEF Resting, PodType
<1>5. [Resting EXCEPT !.at = "down"] \in PodType
  BY <1>4 DEF PodType
<1> QED BY <1>2, <1>3, <1>4, <1>5

Loops == {"due", "changed", "claim"}

LEMMA BeginsTypes ==
    ASSUME NEW pd \in PodType, NEW at \in Loops
    PROVE  Begins(pd, at) \in PodType /\ Begins(pd, at).at \in Loops
<1> DEFINE left == IF at \in {"due", "changed"} THEN Described(pd.snap) ELSE {}
           b == IF left = {} THEN "claim" ELSE at
<1>1. left \in SUBSET Sources /\ NoJob.source \in Sources
  BY RestingTypes DEF Described, JobType
<1>2. b \in Loops
  BY DEF Loops
<1>3. Begins(pd, at) = [pd EXCEPT !.todo = left, !.source = NoJob.source, !.at = b]
  BY DEF Begins
<1> HIDE DEF left, b
<1> QED BY <1>1, <1>2, <1>3 DEF PodType, Loops

LEMMA PassesTypes ==
    ASSUME NEW pd \in PodType, NEW s \in Sources, pd.at \in {"due", "changed"} \cup Askings
    PROVE  Passes(pd, s) \in PodType /\ Passes(pd, s).at \in Loops
<1>1. CASE pd.todo = {s}
  <2>1. After(pd.at) \in Loops
    BY DEF After, Loops
  <2>2. Begins(pd, After(pd.at)) \in PodType /\ Begins(pd, After(pd.at)).at \in Loops
    BY <2>1, BeginsTypes
  <2> QED BY <1>1, <2>2 DEF Passes
<1>2. CASE pd.todo # {s}
  <2> DEFINE b == IF pd.at = "queue due" THEN "due" ELSE IF pd.at = "queue changed" THEN "changed" ELSE pd.at
  <2>1. b \in Loops
    BY DEF Askings, Loops
  <2>2. Passes(pd, s) = [pd EXCEPT !.todo = pd.todo \ {s}, !.source = NoJob.source, !.at = b]
    BY <1>2 DEF Passes, PodType
  <2>3. pd.todo \ {s} \in SUBSET Sources /\ NoJob.source \in Sources
    BY RestingTypes DEF PodType, JobType
  <2> HIDE DEF b
  <2> QED BY <2>1, <2>2, <2>3 DEF PodType, Loops
<1> QED BY <1>1, <1>2

LEMMA SeesTypes ==
    ASSUME NEW pd \in PodType, NEW s \in Sources, pd.at \in {"due", "changed"} \cup Askings
    PROVE  Sees(pd, s) \in PodType /\ Sees(pd, s).at \in Loops
<1> DEFINE x == [pd EXCEPT !.seen[s] = pd.snap[s]]
<1>1. x \in PodType /\ x.at = pd.at
  BY DEF PodType
<1>2. Sees(pd, s) = Passes(x, s)
  BY DEF Sees
<1> HIDE DEF x
<1> QED BY <1>1, <1>2, PassesTypes

-----------------------------------------------------------------------------
(* The line. *)

LEMMA LineGrows ==
    ASSUME NEW s \in Seq(Jobs), \A m, n \in 1..Len(s) : s[m] = s[n] => m = n,
           NEW j \in Jobs, j \notin Members(s)
    PROVE  /\ Append(s, j) \in Seq(Jobs)
           /\ \A m, n \in 1..Len(Append(s, j)) : Append(s, j)[m] = Append(s, j)[n] => m = n
           /\ Members(Append(s, j)) = Members(s) \cup {j}
<1> DEFINE w == Append(s, j)
<1>1. /\ w \in Seq(Jobs) /\ Len(w) = Len(s) + 1 /\ w[Len(s) + 1] = j
      /\ \A i \in 1..Len(s) : w[i] = s[i]
      /\ Len(s) \in Nat
  BY AppendProperties, LenProperties
<1> HIDE DEF w
<1>2. \A i \in 1..Len(w) : i = Len(s) + 1 \/ i \in 1..Len(s)
  BY <1>1
<1>3. \A i \in 1..Len(s) : i \in 1..Len(w) /\ s[i] # j
  BY <1>1 DEF Members
<1>4. Len(s) + 1 \in 1..Len(w)
  BY <1>1
<1>5. ASSUME NEW m \in 1..Len(w), NEW n \in 1..Len(w), w[m] = w[n] PROVE m = n
  <2>1. CASE m \in 1..Len(s) /\ n \in 1..Len(s)
    <3>1. s[m] = s[n]
      BY <1>1, <1>5, <2>1
    <3> QED BY <2>1, <3>1
  <2>2. CASE m = Len(s) + 1 /\ n \in 1..Len(s)
    <3>1. w[m] = j /\ w[n] = s[n] /\ s[n] # j
      BY <1>1, <1>3, <2>2
    <3> QED BY <1>5, <3>1
  <2>3. CASE m \in 1..Len(s) /\ n = Len(s) + 1
    <3>1. w[n] = j /\ w[m] = s[m] /\ s[m] # j
      BY <1>1, <1>3, <2>3
    <3> QED BY <1>5, <3>1
  <2>4. CASE m = Len(s) + 1 /\ n = Len(s) + 1
    BY <2>4
  <2> QED BY <1>2, <2>1, <2>2, <2>3, <2>4
<1>6. ASSUME NEW x PROVE x \in Members(w) <=> x \in Members(s) \cup {j}
  <2>1. x \in Members(w) <=> \E i \in 1..Len(w) : w[i] = x
    BY DEF Members
  <2>2. x \in Members(s) <=> \E i \in 1..Len(s) : s[i] = x
    BY DEF Members
  <2>3. ASSUME x \in Members(w) PROVE x \in Members(s) \cup {j}
    <3>1. PICK i \in 1..Len(w) : w[i] = x
      BY <2>1, <2>3
    <3> QED BY <1>1, <1>2, <2>2, <3>1
  <2>4. ASSUME x \in Members(s) PROVE x \in Members(w)
    <3>1. PICK i \in 1..Len(s) : s[i] = x
      BY <2>2, <2>4
    <3>2. i \in 1..Len(w) /\ w[i] = x
      BY <1>1, <1>3, <3>1
    <3> QED BY <2>1, <3>2
  <2>5. j \in Members(w)
    BY <1>1, <1>4 DEF Members
  <2> QED BY <2>3, <2>4, <2>5
<1> QED BY <1>1, <1>5, <1>6 DEF w

LEMMA LinePicked ==
    ASSUME NEW s \in Seq(Jobs), \A m, n \in 1..Len(s) : s[m] = s[n] => m = n, NEW I
    PROVE  /\ Picked(s, I) \in Seq(Jobs)
           /\ \A m, n \in 1..Len(Picked(s, I)) : Picked(s, I)[m] = Picked(s, I)[n] => m = n
           /\ \A x \in Members(Picked(s, I)) : \E n \in 1..Len(s) : n \in I /\ s[n] = x
<1> DEFINE w == Picked(s, I)
<1>1. w \in Seq(Jobs) /\ \E g : PickedUpTo(w, s, I, Len(s), g)
  BY PickedOrder
<1> HIDE DEF w
<1>2. PICK g : PickedUpTo(w, s, I, Len(s), g)
  BY <1>1
<1>3. /\ \A i \in 1..Len(w) : g[i] \in 1..Len(s) /\ g[i] \in I /\ w[i] = s[g[i]]
      /\ \A i, j \in 1..Len(w) : i < j => g[i] < g[j]
  BY <1>2 DEF PickedUpTo
<1>4. Len(w) \in Nat /\ Len(s) \in Nat
  BY <1>1, LenProperties
<1>5. ASSUME NEW m \in 1..Len(w), NEW n \in 1..Len(w), w[m] = w[n] PROVE m = n
  <2>1. g[m] = g[n] /\ g[m] \in Nat /\ g[n] \in Nat
    BY <1>3, <1>4, <1>5
  <2>2. ~(m < n) /\ ~(n < m)
    BY <1>3, <2>1
  <2> QED BY <1>4, <2>2
<1>6. ASSUME NEW x \in Members(w) PROVE \E n \in 1..Len(s) : n \in I /\ s[n] = x
  <2>1. PICK i \in 1..Len(w) : w[i] = x
    BY DEF Members
  <2> QED BY <1>3, <2>1
<1> QED BY <1>1, <1>5, <1>6 DEF w

LEMMA LineIsOfJobs ==
    ASSUME NEW s \in Seq(Jobs)
    PROVE  /\ DOMAIN s = 1..Len(s) /\ \A n \in 1..Len(s) : s[n] \in Jobs /\ s[n] \in Members(s)
           /\ Members(s) \subseteq Jobs
           /\ \A x : x \in Members(s) <=> \E n \in 1..Len(s) : s[n] = x
<1>1. DOMAIN s = 1..Len(s) /\ \A n \in 1..Len(s) : s[n] \in Jobs
  BY LenProperties, ElementOfSeq
<1> QED BY <1>1 DEF Members

-----------------------------------------------------------------------------
(* The bound. *)

LEMMA PartsAreFinite ==
    ASSUME NEW R \in SUBSET Jobs, NEW A \in SUBSET Askers
    PROVE  /\ IsFiniteSet(R) /\ Cardinality(R) \in Nat /\ IsFiniteSet(A) /\ Cardinality(A) \in Nat
           /\ IsFiniteSet(Askers) /\ Cardinality(Askers) \in Nat
           /\ \A S \in SUBSET R : Cardinality(S) \in Nat /\ Cardinality(S) <= Cardinality(R)
           /\ \A B \in SUBSET A : Cardinality(B) \in Nat /\ Cardinality(B) <= Cardinality(A)
<1>0. IsFiniteSet(Askers)
  BY QueueAssumption, FS_Union DEF Askers
<1>1. IsFiniteSet(R) /\ IsFiniteSet(A)
  BY <1>0, QueueAssumption, FS_Subset
<1>2. Cardinality(R) \in Nat /\ Cardinality(A) \in Nat /\ Cardinality(Askers) \in Nat
  BY <1>0, <1>1, FS_CardinalityType
<1>3. ASSUME NEW S \in SUBSET R PROVE Cardinality(S) \in Nat /\ Cardinality(S) <= Cardinality(R)
  BY <1>1, FS_Subset, FS_CardinalityType
<1>4. ASSUME NEW B \in SUBSET A PROVE Cardinality(B) \in Nat /\ Cardinality(B) <= Cardinality(A)
  BY <1>1, FS_Subset, FS_CardinalityType
<1> QED BY <1>0, <1>1, <1>2, <1>3, <1>4

(* Rows that each have a reader, and askers that read none. *)
LEMMA ReadersAreOthers ==
    ASSUME QueueTypes, NEW R \in SUBSET Jobs, \A j \in R : \E p \in Pods : Reads(p, j),
           NEW A \in SUBSET Askers, \A p \in A : p \in Pods => pod[p].at \notin Readings
    PROVE  Cardinality(R) + Cardinality(A) <= Cardinality(Askers)
<1> DEFINE D == {p \in Pods : pod[p].at \in Readings}
           f == [j \in R |-> CHOOSE p \in Pods : Reads(p, j)]
<1>1. ASSUME NEW j \in R PROVE f[j] \in Pods /\ Reads(f[j], j)
  OBVIOUS
<1>2. f \in [R -> D]
  BY <1>1 DEF Reads
<1>3. \A i, j \in R : f[i] = f[j] => i = j
  <2> HIDE DEF f
  <2> QED BY <1>1 DEF Reads
<1>4. f \in Injection(R, D)
  <2> HIDE DEF f
  <2> QED BY <1>2, <1>3 DEF Injection, IsInjective
<1>5. IsFiniteSet(D) /\ IsFiniteSet(A) /\ IsFiniteSet(Askers) /\ Cardinality(D) \in Nat
      /\ Cardinality(A) \in Nat /\ Cardinality(R) \in Nat
  <2>1. D \in SUBSET Askers
    BY DEF Askers
  <2> HIDE DEF D
  <2> QED BY <2>1, PartsAreFinite
<1>6. Cardinality(R) <= Cardinality(D)
  <2> HIDE DEF f, D
  <2> QED BY <1>4, <1>5, FS_Injection
<1>7. D \cap A = {} /\ D \cup A \in SUBSET Askers
  BY DEF Askers
<1>8. Cardinality(D \cup A) = Cardinality(D) + Cardinality(A)
  <2> HIDE DEF D
  <2>1. Cardinality(D \cup A) = Cardinality(D) + Cardinality(A) - Cardinality(D \cap A)
    BY <1>5, FS_Union
  <2>2. Cardinality(D \cap A) = 0
    BY <1>7, FS_EmptySet
  <2> QED BY <1>5, <2>1, <2>2
<1>9. Cardinality(D \cup A) <= Cardinality(Askers)
  BY <1>5, <1>7, FS_Subset
<1> HIDE DEF D
<1>10. Cardinality(Askers) \in Nat
  BY PartsAreFinite
<1> QED BY <1>5, <1>6, <1>8, <1>9, <1>10

LEMMA FewerCount ==
    ASSUME TableBounded,
           \A s \in Sources : RowsOf(s)' \subseteq RowsOf(s) /\ Asking(s)' \subseteq Asking(s)
    PROVE  TableBounded'
<1> SUFFICES ASSUME NEW s \in Sources
             PROVE  Cardinality(RowsOf(s)') + Cardinality(Asking(s)') <= Cardinality(Askers)
  BY DEF TableBounded
<1> DEFINE R == RowsOf(s)
           A == Asking(s)
           S == RowsOf(s)'
           B == Asking(s)'
<1>1. R \in SUBSET Jobs /\ A \in SUBSET Askers /\ S \in SUBSET R /\ B \in SUBSET A
  BY DEF RowsOf, Asking, Askers
<1>2. Cardinality(R) + Cardinality(A) <= Cardinality(Askers)
  BY DEF TableBounded
<1> HIDE DEF R, A, S, B
<1>3. /\ Cardinality(R) \in Nat /\ Cardinality(A) \in Nat /\ Cardinality(Askers) \in Nat
      /\ Cardinality(S) \in Nat /\ Cardinality(S) <= Cardinality(R)
      /\ Cardinality(B) \in Nat /\ Cardinality(B) <= Cardinality(A)
  BY <1>1, PartsAreFinite
<1>4. Cardinality(S) + Cardinality(B) <= Cardinality(Askers)
  BY <1>2, <1>3
<1> QED BY <1>4 DEF S, B

-----------------------------------------------------------------------------
(* The steps. *)

(* Row j stays what it was for those who count, or ends. *)
RowStays(j) ==
    \/ job'[j].state = "none"
    \/ /\ job[j].state # "none" /\ job'[j].state # "none" /\ job'[j].source = job[j].source

(* Pod q goes on reading what it read, or reads nothing, and does not ask. *)
Eases(q) ==
    \/ pod'[q] = pod[q]
    \/ /\ pod'[q].at \notin Askings
       /\ pod'[q].at \in Readings =>
            /\ pod[q].at \in Readings /\ pod'[q].job = pod[q].job /\ pod'[q].source = pod[q].source

LEMMA NothingNew ==
    ASSUME QueueInv, QueueTypes', Lined', \A j \in Jobs : RowStays(j), \A q \in Pods : Eases(q),
           \A r \in Recrawls : recrawl'[r] \subseteq recrawl[r],
           ~Overruns => \A j \in Jobs, q \in Pods : Reads(q, j)' => job'[j] = job[j]
    PROVE  QueueInv'
<1>1. ASSUME NEW q \in Pods, NEW j \in Jobs, Reads(q, j)'
      PROVE  Reads(q, j) /\ pod'[q].source = pod[q].source
  <2>1. pod'[q].at \in Readings /\ pod'[q].job = j
    BY <1>1 DEF Reads
  <2> QED BY <2>1 DEF Eases, Reads
<1>2. ReadAsNamed'
  <2>1. ASSUME NEW p \in Pods, NEW j \in Jobs, Reads(p, j)', job'[j].state # "none"
        PROVE  job'[j].source = pod'[p].source
    <3>1. Reads(p, j) /\ pod'[p].source = pod[p].source
      BY <1>1, <2>1
    <3>2. job[j].state # "none" /\ job'[j].source = job[j].source
      BY <2>1 DEF RowStays
    <3> QED BY <3>1, <3>2 DEF QueueInv, ReadAsNamed
  <2>2. ASSUME NEW p \in Pods, NEW q \in Pods, NEW j \in Jobs, Reads(p, j)', Reads(q, j)'
        PROVE  pod'[p].source = pod'[q].source
    <3>1. /\ Reads(p, j) /\ pod'[p].source = pod[p].source
          /\ Reads(q, j) /\ pod'[q].source = pod[q].source
      BY <1>1, <2>2
    <3> QED BY <3>1 DEF QueueInv, ReadAsNamed
  <2> QED BY <2>1, <2>2 DEF ReadAsNamed
<1>3. ASSUME NEW s \in Sources PROVE RowsOf(s)' \subseteq RowsOf(s) /\ Asking(s)' \subseteq Asking(s)
  <2>1. ASSUME NEW j \in Jobs, CountsFor(j, s)' PROVE CountsFor(j, s)
    <3>1. CASE job'[j].state # "none"
      BY <2>1, <3>1 DEF RowStays, CountsFor
    <3>2. CASE job'[j].state = "none"
      <4>1. PICK q \in Pods : Reads(q, j)' /\ pod'[q].source = s
        BY <2>1, <3>2 DEF CountsFor
      <4>2. Reads(q, j) /\ pod[q].source = s
        BY <1>1, <4>1
      <4>3. job[j].state # "none" => job[j].source = s
        BY <4>2 DEF QueueInv, ReadAsNamed
      <4> QED BY <4>2, <4>3 DEF CountsFor
    <3> QED BY <3>1, <3>2
  <2>2. RowsOf(s)' \subseteq RowsOf(s)
    BY <2>1 DEF RowsOf
  <2>3. ASSUME NEW q \in Pods, AsksFirst(q, s)' PROVE AsksFirst(q, s)
    BY <2>3 DEF AsksFirst, Eases
  <2>4. Asking(s)' \subseteq Asking(s)
    BY <2>3 DEF Asking
  <2> QED BY <2>2, <2>4
<1>4. TableBounded'
  BY <1>3, FewerCount DEF QueueInv
<1>5. LeaseHeld'
  <2> SUFFICES ASSUME ~Overruns, NEW p \in Pods, NEW j \in Jobs, Reads(p, j)'
               PROVE  /\ job'[j].state = "running" /\ ~job'[j].stale
                      /\ \A q \in Pods : Reads(q, j)' => p = q
    BY DEF LeaseHeld
  <2>1. Reads(p, j) /\ job'[j] = job[j]
    BY <1>1
  <2> QED BY <1>1, <2>1 DEF QueueInv, LeaseHeld
<1> QED BY <1>2, <1>4, <1>5 DEF QueueInv

(* No job of s was pending, and the question is asked by one who reads none. *)
LEMMA AskedOfNone ==
    ASSUME QueueInv, NEW s \in Sources, ~Pending(s), \A t \in Sources : RowsOf(t)' = RowsOf(t),
           \A q \in Asking(s)' : q \in Pods => pod[q].at \notin Readings,
           \A t \in Sources : t # s => Asking(t)' \subseteq Asking(t)
    PROVE  TableBounded'
<1> SUFFICES ASSUME NEW t \in Sources
             PROVE  Cardinality(RowsOf(t)') + Cardinality(Asking(t)') <= Cardinality(Askers)
  BY DEF TableBounded, Askers
<1> DEFINE B == Asking(t)'
           A == Asking(t)
           R == RowsOf(t)
<1>1. RowsOf(t)' = R /\ R \in SUBSET Jobs /\ A \in SUBSET Askers /\ B \in SUBSET Askers
  BY DEF RowsOf, Asking, Askers
<1>2. CASE t = s
  <2>1. \A j \in R : \E q \in Pods : Reads(q, j)
    <3> SUFFICES ASSUME NEW j \in Jobs, CountsFor(j, s) PROVE \E q \in Pods : Reads(q, j)
      BY <1>2 DEF RowsOf
    <3>1. job[j].state \in {"none", "queued", "running"}
      BY DEF QueueInv, QueueTypes, JobType
    <3>2. job[j].state = "none"
      BY <3>1 DEF Pending, CountsFor
    <3> QED BY <3>2 DEF CountsFor
  <2>2. \A q \in B : q \in Pods => pod[q].at \notin Readings
    BY <1>2
  <2> HIDE DEF B, R
  <2>3. Cardinality(R) + Cardinality(B) <= Cardinality(Askers)
    BY <1>1, <2>1, <2>2, ReadersAreOthers DEF QueueInv
  <2> QED BY <1>1, <2>3 DEF B
<1>3. CASE t # s
  <2>1. B \in SUBSET A
    BY <1>3
  <2>2. Cardinality(R) + Cardinality(A) <= Cardinality(Askers)
    BY DEF QueueInv, TableBounded
  <2> HIDE DEF A, B, R
  <2>3. /\ Cardinality(B) <= Cardinality(A) /\ Cardinality(B) \in Nat
        /\ Cardinality(A) \in Nat /\ Cardinality(R) \in Nat /\ Cardinality(Askers) \in Nat
    BY <1>1, <2>1, PartsAreFinite
  <2>4. Cardinality(R) + Cardinality(B) <= Cardinality(Askers)
    BY <2>2, <2>3
  <2> QED BY <1>1, <2>4 DEF B
<1> QED BY <1>2, <1>3

(* A pod found no pending job of s. *)
LEMMA OneAsks ==
    ASSUME QueueInv, QueueTypes', Lined', NEW p \in Pods, NEW s \in Sources, ~Pending(s),
           pod[p].at \notin Readings, NEW x \in PodType, x.at \in Askings, x.source = s,
           pod' = [pod EXCEPT ![p] = x], job' = job, recrawl' = recrawl
    PROVE  QueueInv'
<1>1. pod'[p] = x /\ \A q \in Pods : q # p => pod'[q] = pod[q]
  BY DEF QueueInv, QueueTypes
<1>2. x.at \notin Readings
  BY DEF Askings, Readings
<1>3. \A q \in Pods, j \in Jobs : Reads(q, j)' <=> Reads(q, j)
  BY <1>1, <1>2 DEF Reads
<1>4. \A q \in Pods, j \in Jobs : Reads(q, j) => pod'[q].source = pod[q].source
  BY <1>1 DEF Reads
<1>5. ReadAsNamed'
  <2>1. \A q \in Pods, j \in Jobs : Reads(q, j)' /\ job'[j].state # "none" => job'[j].source = pod'[q].source
    BY <1>3, <1>4 DEF QueueInv, ReadAsNamed
  <2>2. \A q, r \in Pods, j \in Jobs : Reads(q, j)' /\ Reads(r, j)' => pod'[q].source = pod'[r].source
    BY <1>3, <1>4 DEF QueueInv, ReadAsNamed
  <2> QED BY <2>1, <2>2 DEF ReadAsNamed
<1>6. LeaseHeld'
  BY <1>3 DEF QueueInv, LeaseHeld
<1>7. ASSUME NEW t \in Sources, NEW j \in Jobs PROVE CountsFor(j, t)' <=> CountsFor(j, t)
  BY <1>3, <1>4 DEF CountsFor
<1>8. \A t \in Sources : RowsOf(t)' = RowsOf(t)
  BY <1>7 DEF RowsOf
<1>9. ASSUME NEW q \in Asking(s)', q \in Pods PROVE pod[q].at \notin Readings
  <2>1. CASE q = p
    BY <2>1
  <2>2. CASE q # p /\ q \notin Recrawls
    BY <1>1, <1>9, <2>2 DEF Asking, AsksFirst, Askings, Readings
  <2> QED BY <1>9, <2>1, <2>2, QueueAssumption
<1>10. ASSUME NEW t \in Sources, t # s PROVE Asking(t)' \subseteq Asking(t)
  <2>1. \A q \in Pods : AsksFirst(q, t)' => AsksFirst(q, t)
    BY <1>1, <1>10 DEF AsksFirst
  <2> QED BY <2>1 DEF Asking
<1>11. TableBounded'
  BY <1>8, <1>9, <1>10, AskedOfNone
<1> QED BY <1>5, <1>6, <1>11 DEF QueueInv

(* One queues what it found none pending of, and asks no more. *)
LEMMA RowIsQueued ==
    ASSUME QueueInv, QueueTypes', Lined', NEW s \in Sources, NEW a \in Asking(s), NEW j \in Jobs,
           job[j].state = "none", ~HasReader(j),
           \A q \in Pods, k \in Jobs : Reads(q, k)' <=> Reads(q, k),
           \A q \in Pods, k \in Jobs : Reads(q, k) => pod'[q].source = pod[q].source,
           a \notin Asking(s)', \A t \in Sources : Asking(t)' \subseteq Asking(t),
           job' = [job EXCEPT ![j] = [NoJob EXCEPT !.state = "queued", !.source = s]]
    PROVE  QueueInv'
<1>1. /\ job'[j].state = "queued" /\ job'[j].source = s
      /\ \A k \in Jobs : k # j => job'[k] = job[k]
  BY RestingTypes DEF QueueInv, QueueTypes, JobType
<1>2. \A q \in Pods : ~Reads(q, j)
  BY DEF Reads, HasReader, Readings
<1>3. ReadAsNamed'
  <2>1. \A q \in Pods, k \in Jobs : Reads(q, k)' /\ job'[k].state # "none" => job'[k].source = pod'[q].source
    BY <1>1, <1>2 DEF QueueInv, ReadAsNamed
  <2>2. \A q, r \in Pods, k \in Jobs : Reads(q, k)' /\ Reads(r, k)' => pod'[q].source = pod'[r].source
    BY DEF QueueInv, ReadAsNamed
  <2> QED BY <2>1, <2>2 DEF ReadAsNamed
<1>4. LeaseHeld'
  BY <1>1, <1>2 DEF QueueInv, LeaseHeld
<1>5. ASSUME NEW t \in Sources, NEW k \in Jobs, k # j PROVE CountsFor(k, t)' <=> CountsFor(k, t)
  BY <1>1, <1>5 DEF CountsFor
<1>6. ASSUME NEW t \in Sources PROVE CountsFor(j, t)' <=> t = s
  BY <1>1 DEF CountsFor
<1>7. ASSUME NEW t \in Sources
      PROVE  Cardinality(RowsOf(t)') + Cardinality(Asking(t)') <= Cardinality(Askers)
  <2> DEFINE R == RowsOf(t)
             A == Asking(t)
             B == Asking(t)'
  <2>1. R \in SUBSET Jobs /\ A \in SUBSET Askers /\ B \in SUBSET A
    BY DEF RowsOf, Asking, Askers
  <2>2. Cardinality(R) + Cardinality(A) <= Cardinality(Askers)
    BY DEF QueueInv, TableBounded
  <2>3. /\ IsFiniteSet(R) /\ IsFiniteSet(A) /\ Cardinality(R) \in Nat /\ Cardinality(A) \in Nat
        /\ Cardinality(Askers) \in Nat /\ Cardinality(B) \in Nat /\ Cardinality(B) <= Cardinality(A)
    <3> HIDE DEF R, A, B
    <3> QED BY <2>1, PartsAreFinite
  <2>4. CASE t = s
    <3>1. a \in A /\ a \notin B
      BY <2>4
    <3>2. RowsOf(t)' = R \cup {j}
      BY <1>5, <1>6, <2>4 DEF RowsOf
    <3> HIDE DEF R, A, B
    <3>3. /\ IsFiniteSet(A \ {a}) /\ Cardinality(A \ {a}) = Cardinality(A) - 1
          /\ B \in SUBSET (A \ {a})
      BY <2>1, <2>3, <3>1, FS_RemoveElement
    <3>4. Cardinality(B) <= Cardinality(A) - 1
      BY <3>3, FS_Subset
    <3>5. Cardinality(R \cup {j}) \in Nat /\ Cardinality(R \cup {j}) <= Cardinality(R) + 1
      <4>1. /\ IsFiniteSet(R \cup {j})
            /\ Cardinality(R \cup {j}) = IF j \in R THEN Cardinality(R) ELSE Cardinality(R) + 1
        BY <2>3, FS_AddElement
      <4> QED BY <2>3, <4>1
    <3>6. Cardinality(R \cup {j}) + Cardinality(B) <= Cardinality(Askers)
      BY <2>2, <2>3, <3>4, <3>5
    <3> QED BY <3>2, <3>6 DEF B
  <2>5. CASE t # s
    <3>1. RowsOf(t)' \in SUBSET R
      BY <1>5, <1>6, <2>5 DEF RowsOf
    <3> HIDE DEF R, A, B
    <3>2. Cardinality(RowsOf(t)') \in Nat /\ Cardinality(RowsOf(t)') <= Cardinality(R)
      BY <2>1, <3>1, PartsAreFinite
    <3>3. Cardinality(RowsOf(t)') + Cardinality(B) <= Cardinality(Askers)
      BY <2>2, <2>3, <3>2
    <3> QED BY <3>3 DEF B
  <2> QED BY <2>4, <2>5
<1>8. TableBounded'
  BY <1>7 DEF TableBounded, Askers
<1> QED BY <1>3, <1>4, <1>8 DEF QueueInv

(* A pod queues what it found none pending of. *)
LEMMA OneQueues ==
    ASSUME QueueInv, QueueTypes', Lined', NEW p \in Pods, NEW j \in Jobs, job[j].state = "none", ~HasReader(j),
           pod[p].at \in Askings, NEW x \in PodType, x.at \in Loops,
           pod' = [pod EXCEPT ![p] = x], recrawl' = recrawl,
           job' = [job EXCEPT ![j] = [NoJob EXCEPT !.state = "queued", !.source = pod[p].source]]
    PROVE  QueueInv'
<1>1. pod'[p] = x /\ \A q \in Pods : q # p => pod'[q] = pod[q]
  BY DEF QueueInv, QueueTypes
<1>2. PICK s \in Sources : s = pod[p].source
  BY DEF QueueInv, QueueTypes, PodType
<1>3. x.at \notin Readings /\ x.at \notin Askings /\ pod[p].at \notin Readings
  BY DEF Loops, Askings, Readings
<1>4. \A q \in Pods, k \in Jobs : Reads(q, k)' <=> Reads(q, k)
  BY <1>1, <1>3 DEF Reads
<1>5. \A q \in Pods, k \in Jobs : Reads(q, k) => pod'[q].source = pod[q].source
  BY <1>1, <1>3 DEF Reads
<1>6. p \in Asking(s) /\ p \notin Asking(s)'
  <2>1. AsksFirst(p, s) /\ ~AsksFirst(p, s)' /\ p \notin Recrawls
    BY <1>1, <1>2, <1>3, QueueAssumption DEF AsksFirst
  <2> QED BY <2>1 DEF Asking
<1>7. ASSUME NEW t \in Sources PROVE Asking(t)' \subseteq Asking(t)
  <2>1. \A q \in Pods : AsksFirst(q, t)' => AsksFirst(q, t)
    BY <1>1, <1>3 DEF AsksFirst
  <2> QED BY <2>1 DEF Asking
<1>8. job' = [job EXCEPT ![j] = [NoJob EXCEPT !.state = "queued", !.source = s]]
  BY <1>2
<1> QED BY <1>4, <1>5, <1>6, <1>7, <1>8, RowIsQueued

(* A pod takes a row that is ready, or whose lease ran out. *)
LEMMA OneTakes ==
    ASSUME QueueInv, QueueTypes', Lined', NEW p \in Pods, NEW j \in Jobs, job[j].state # "none", Claimable(j),
           pod[p].at \notin Readings, NEW x \in PodType, x.at \in Readings, x.job = j, x.source = job[j].source,
           pod' = [pod EXCEPT ![p] = x], recrawl' = recrawl,
           job'[j].state = "running", ~job'[j].stale, job'[j].source = job[j].source,
           \A k \in Jobs : k # j => job'[k] = job[k]
    PROVE  QueueInv'
<1>1. pod'[p] = x /\ \A q \in Pods : q # p => pod'[q] = pod[q]
  BY DEF QueueInv, QueueTypes
<1>2. \A q \in Pods, k \in Jobs : Reads(q, k)' <=> (IF q = p THEN k = j ELSE Reads(q, k))
  BY <1>1 DEF Reads
<1>3. \A k \in Jobs : ~Reads(p, k)
  BY DEF Reads
<1>4. \A k \in Jobs : job'[k].state # "none" <=> job[k].state # "none"
  OBVIOUS
<1>5. \A k \in Jobs : job'[k].source = job[k].source
  OBVIOUS
<1>6. ReadAsNamed'
  <2>1. ASSUME NEW q \in Pods, NEW k \in Jobs, Reads(q, k)', job'[k].state # "none"
        PROVE  job'[k].source = pod'[q].source
    <3>1. CASE q = p
      BY <1>1, <1>2, <2>1, <3>1
    <3>2. CASE q # p
      BY <1>1, <1>2, <1>4, <1>5, <2>1, <3>2 DEF QueueInv, ReadAsNamed
    <3> QED BY <3>1, <3>2
  <2>2. ASSUME NEW q \in Pods, NEW k \in Jobs, Reads(q, k)' PROVE k = j => pod'[q].source = job[j].source
    <3>1. CASE q = p
      BY <1>1, <3>1
    <3>2. CASE q # p
      BY <1>1, <1>2, <2>2, <3>2 DEF QueueInv, ReadAsNamed
    <3> QED BY <3>1, <3>2
  <2>3. ASSUME NEW q \in Pods, NEW r \in Pods, NEW k \in Jobs, Reads(q, k)', Reads(r, k)'
        PROVE  pod'[q].source = pod'[r].source
    <3>1. CASE k = j
      BY <2>2, <2>3, <3>1
    <3>2. CASE k # j
      <4>1. q # p /\ r # p /\ Reads(q, k) /\ Reads(r, k)
        BY <1>2, <2>3, <3>2
      <4> QED BY <1>1, <4>1 DEF QueueInv, ReadAsNamed
    <3> QED BY <3>1, <3>2
  <2> QED BY <2>1, <2>3 DEF ReadAsNamed
<1>7. LeaseHeld'
  <2> SUFFICES ASSUME ~Overruns, NEW q \in Pods, NEW k \in Jobs, Reads(q, k)'
               PROVE  /\ job'[k].state = "running" /\ ~job'[k].stale
                      /\ \A r \in Pods : Reads(r, k)' => q = r
    BY DEF LeaseHeld
  <2>1. \A r \in Pods : ~Reads(r, j)
    BY DEF QueueInv, LeaseHeld, Claimable
  <2>2. CASE k = j
    BY <1>2, <2>1, <2>2
  <2>3. CASE k # j
    <3>1. q # p /\ Reads(q, k) /\ job'[k] = job[k]
      BY <1>2, <2>3
    <3>2. \A r \in Pods : Reads(r, k)' => Reads(r, k)
      BY <1>2, <2>3
    <3> QED BY <3>1, <3>2 DEF QueueInv, LeaseHeld
  <2> QED BY <2>2, <2>3
<1>8. ASSUME NEW t \in Sources PROVE RowsOf(t)' \subseteq RowsOf(t) /\ Asking(t)' \subseteq Asking(t)
  <2>1. ASSUME NEW k \in Jobs, CountsFor(k, t)' PROVE CountsFor(k, t)
    <3>1. CASE job[k].state # "none"
      BY <1>4, <1>5, <2>1, <3>1 DEF CountsFor
    <3>2. CASE job[k].state = "none"
      <4>1. PICK q \in Pods : Reads(q, k)' /\ pod'[q].source = t
        BY <1>4, <2>1, <3>2 DEF CountsFor
      <4>2. q # p /\ Reads(q, k) /\ pod[q].source = t
        BY <1>1, <1>2, <3>2, <4>1
      <4> QED BY <3>2, <4>2 DEF CountsFor
    <3> QED BY <3>1, <3>2
  <2>2. ASSUME NEW q \in Pods, AsksFirst(q, t)' PROVE AsksFirst(q, t)
    BY <1>1, <2>2 DEF AsksFirst, Askings, Readings
  <2> QED BY <2>1, <2>2 DEF RowsOf, Asking, Askers
<1>9. TableBounded'
  BY <1>8, FewerCount DEF QueueInv
<1> QED BY <1>6, <1>7, <1>9 DEF QueueInv

(* A reader could not read, and its row is queued for later, whatever became *)
(* of it.                                                                    *)
LEMMA OneFails ==
    ASSUME QueueInv, QueueTypes', Lined', NEW p \in Pods, NEW j \in Jobs, Reads(p, j),
           NEW x \in PodType, x.at = "claim", pod' = [pod EXCEPT ![p] = x], recrawl' = recrawl,
           job'[j].state = "queued", job'[j].source = pod[p].source,
           \A k \in Jobs : k # j => job'[k] = job[k]
    PROVE  QueueInv'
<1>1. pod'[p] = x /\ \A q \in Pods : q # p => pod'[q] = pod[q]
  BY DEF QueueInv, QueueTypes
<1>2. \A q \in Pods, k \in Jobs : Reads(q, k)' <=> q # p /\ Reads(q, k)
  BY <1>1 DEF Reads, Readings
<1>3. ReadAsNamed'
  <2>1. ASSUME NEW q \in Pods, NEW k \in Jobs, Reads(q, k)', job'[k].state # "none"
        PROVE  job'[k].source = pod'[q].source
    <3>1. q # p /\ Reads(q, k) /\ pod'[q] = pod[q]
      BY <1>1, <1>2, <2>1
    <3>2. CASE k = j
      BY <3>1, <3>2 DEF QueueInv, ReadAsNamed
    <3>3. CASE k # j
      BY <2>1, <3>1, <3>3 DEF QueueInv, ReadAsNamed
    <3> QED BY <3>2, <3>3
  <2>2. ASSUME NEW q \in Pods, NEW r \in Pods, NEW k \in Jobs, Reads(q, k)', Reads(r, k)'
        PROVE  pod'[q].source = pod'[r].source
    <3>1. Reads(q, k) /\ Reads(r, k) /\ pod'[q] = pod[q] /\ pod'[r] = pod[r]
      BY <1>1, <1>2, <2>2
    <3> QED BY <3>1 DEF QueueInv, ReadAsNamed
  <2> QED BY <2>1, <2>2 DEF ReadAsNamed
<1>4. LeaseHeld'
  <2> SUFFICES ASSUME ~Overruns, NEW q \in Pods, NEW k \in Jobs, Reads(q, k)'
               PROVE  /\ job'[k].state = "running" /\ ~job'[k].stale
                      /\ \A r \in Pods : Reads(r, k)' => q = r
    BY DEF LeaseHeld
  <2>1. q # p /\ Reads(q, k) /\ \A r \in Pods : Reads(r, k)' => Reads(r, k)
    BY <1>2
  <2>2. k # j
    BY <2>1 DEF QueueInv, LeaseHeld
  <2> QED BY <2>1, <2>2 DEF QueueInv, LeaseHeld
<1>5. ASSUME NEW t \in Sources PROVE RowsOf(t)' \subseteq RowsOf(t) /\ Asking(t)' \subseteq Asking(t)
  <2>1. ASSUME NEW k \in Jobs, CountsFor(k, t)' PROVE CountsFor(k, t)
    <3>1. CASE k = j
      <4>1. pod[p].source = t
        BY <2>1, <3>1 DEF CountsFor
      <4>2. job[j].state # "none" => job[j].source = t
        BY <4>1 DEF QueueInv, ReadAsNamed
      <4> QED BY <3>1, <4>1, <4>2 DEF CountsFor
    <3>2. CASE k # j
      BY <1>1, <1>2, <2>1, <3>2 DEF CountsFor
    <3> QED BY <3>1, <3>2
  <2>2. ASSUME NEW q \in Pods, AsksFirst(q, t)' PROVE AsksFirst(q, t)
    BY <1>1, <2>2 DEF AsksFirst, Askings
  <2> QED BY <2>1, <2>2 DEF RowsOf, Asking, Askers
<1>6. TableBounded'
  BY <1>5, FewerCount DEF QueueInv
<1> QED BY <1>3, <1>4, <1>6 DEF QueueInv

-----------------------------------------------------------------------------
(* The actions. *)

(* An action of a pod that leaves the table and the line alone. *)
LEMMA PodAlone ==
    ASSUME QueueInv, NEW p \in Pods, NEW x \in PodType, pod' = [pod EXCEPT ![p] = x],
           UNCHANGED <<job, line, version, recrawl>>, indexed' \in [Sources -> Nat], upsets' \in 0 .. MaxUpsets,
           x.at \notin Askings,
           x.at \in Readings => pod[p].at \in Readings /\ x.job = pod[p].job /\ x.source = pod[p].source
    PROVE  QueueInv'
<1>1. QueueTypes'
  BY DEF QueueInv, QueueTypes
<1>2. Lined'
  BY DEF QueueInv, Lined
<1>3. \A j \in Jobs : RowStays(j) /\ job'[j] = job[j]
  BY DEF RowStays
<1>4. \A q \in Pods : Eases(q)
  BY DEF Eases, QueueInv, QueueTypes
<1> QED BY <1>1, <1>2, <1>3, <1>4, NothingNew

LEMMA LooksKeep ==
    ASSUME QueueInv, NEW p \in Pods, NEW s \in Sources, LookDue(p, s) \/ LookChanged(p, s)
    PROVE  QueueInv'
<1> DEFINE y == pod[p]
<1>1. y \in PodType /\ upsets \in 0 .. MaxUpsets /\ indexed \in [Sources -> Nat]
  BY DEF QueueInv, QueueTypes
<1>2. y.at \in {"due", "changed"} /\ UNCHANGED <<version, indexed, job, line, recrawl, upsets>>
  BY DEF LookDue, LookChanged
<1>3. ASSUME NEW x \in PodType, x.at \in Loops, pod' = [pod EXCEPT ![p] = x] PROVE QueueInv'
  BY <1>1, <1>2, <1>3, PodAlone DEF Loops, Askings, Readings
<1>4. ASSUME NEW a \in Askings, pod' = [pod EXCEPT ![p] = [y EXCEPT !.at = a, !.source = s]], ~Pending(s)
      PROVE  QueueInv'
  <2> DEFINE x == [y EXCEPT !.at = a, !.source = s]
  <2>1. x \in PodType /\ x.at = a /\ x.source = s
    BY <1>1 DEF PodType
  <2>2. pod' = [pod EXCEPT ![p] = x]
    BY <1>4
  <2> HIDE DEF x
  <2>3. QueueTypes'
    BY <1>2, <2>1, <2>2 DEF QueueInv, QueueTypes
  <2>4. Lined'
    BY <1>2 DEF QueueInv, Lined
  <2>5. y.at \notin Readings
    BY <1>2 DEF Readings
  <2> QED BY <1>2, <1>4, <2>1, <2>2, <2>3, <2>4, <2>5, OneAsks
<1>5. Passes(y, s) \in PodType /\ Passes(y, s).at \in Loops /\ Sees(y, s) \in PodType /\ Sees(y, s).at \in Loops
  BY <1>1, <1>2, PassesTypes, SeesTypes
<1>6. CASE LookDue(p, s)
  <2>1. CASE pod' = [pod EXCEPT ![p] = Passes(y, s)]
    BY <1>3, <1>5, <2>1
  <2>2. CASE ~Pending(s) /\ pod' = [pod EXCEPT ![p].at = "queue due", ![p].source = s]
    <3>1. pod' = [pod EXCEPT ![p] = [y EXCEPT !.at = "queue due", !.source = s]]
      BY <2>2 DEF QueueInv, QueueTypes, PodType
    <3> QED BY <1>4, <2>2, <3>1 DEF Askings
  <2> QED BY <1>6, <2>1, <2>2 DEF LookDue
<1>7. CASE LookChanged(p, s)
  <2>1. pod' = [pod EXCEPT ![p] = IF y.seen[s] = y.snap[s] \/ Pending(s) THEN Sees(y, s)
                                  ELSE [y EXCEPT !.at = "queue changed", !.source = s]]
    BY <1>7 DEF LookChanged
  <2>2. CASE y.seen[s] = y.snap[s] \/ Pending(s)
    <3>1. pod' = [pod EXCEPT ![p] = Sees(y, s)]
      BY <2>1, <2>2
    <3> QED BY <1>3, <1>5, <3>1
  <2>3. CASE ~(y.seen[s] = y.snap[s] \/ Pending(s))
    <3>1. pod' = [pod EXCEPT ![p] = [y EXCEPT !.at = "queue changed", !.source = s]]
      BY <2>1, <2>3
    <3> QED BY <1>4, <2>3, <3>1 DEF Askings
  <2> QED BY <2>2, <2>3
<1> QED BY <1>6, <1>7

LEMMA QueuesKeep ==
    ASSUME QueueInv, NEW p \in Pods, QueueDue(p) \/ QueueChanged(p)
    PROVE  QueueInv'
<1> DEFINE y == pod[p]
           s == pod[p].source
<1>1. y \in PodType /\ s \in Sources /\ y.at \in Askings /\ UNCHANGED <<version, indexed, recrawl, upsets>>
  BY DEF QueueInv, QueueTypes, PodType, QueueDue, QueueChanged, Askings
<1>2. Enqueue(s) /\ \E x \in PodType : x.at \in Loops /\ pod' = [pod EXCEPT ![p] = x]
  <2>1. /\ Passes(y, s) \in PodType /\ Passes(y, s).at \in Loops
        /\ Sees(y, s) \in PodType /\ Sees(y, s).at \in Loops
    BY <1>1, PassesTypes, SeesTypes
  <2> QED BY <2>1 DEF QueueDue, QueueChanged
<1>3. PICK x \in PodType : x.at \in Loops /\ pod' = [pod EXCEPT ![p] = x]
  BY <1>2
<1>4. PICK j \in Jobs : /\ job[j].state = "none" /\ ~HasReader(j) /\ line' = Append(line, j)
                        /\ job' = [job EXCEPT ![j] = [NoJob EXCEPT !.state = "queued", !.source = s]]
  BY <1>2 DEF Enqueue
<1>5. job' \in [Jobs -> JobType] /\ job'[j].state = "queued" /\ \A k \in Jobs : k # j => job'[k] = job[k]
  BY <1>1, <1>4, RestingTypes DEF QueueInv, QueueTypes, JobType
<1>6. QueueTypes'
  BY <1>1, <1>3, <1>5 DEF QueueInv, QueueTypes
<1>7. /\ line \in Seq(Jobs) /\ j \notin Members(line) /\ \A m, n \in 1..Len(line) : line[m] = line[n] => m = n
      /\ \A k \in Members(line) : k \in Jobs /\ job[k].state # "none"
  BY <1>4, LineIsOfJobs DEF QueueInv, Lined
<1>8. Lined'
  <2>1. /\ line' \in Seq(Jobs) /\ \A m, n \in 1..Len(line') : line'[m] = line'[n] => m = n
        /\ Members(line') = Members(line) \cup {j}
    BY <1>4, <1>7, LineGrows
  <2>2. \A k \in Members(line') : job'[k].state # "none"
    BY <1>5, <1>7, <2>1
  <2> QED BY <2>1, <2>2 DEF Lined
<1> QED BY <1>1, <1>3, <1>4, <1>6, <1>8, OneQueues

(* The line after some rows ended. *)
LEMMA LineShrinks ==
    ASSUME QueueInv, QueueTypes', NEW I, line' = Picked(line, I) \/ (\E e : line' = Without(line, e)),
           \A j \in Members(line') : j \in Members(line) => job'[j].state # "none"
    PROVE  Lined'
<1>1. line \in Seq(Jobs) /\ \A m, n \in 1..Len(line) : line[m] = line[n] => m = n
  BY DEF QueueInv, Lined
<1>2. /\ line' \in Seq(Jobs) /\ \A m, n \in 1..Len(line') : line'[m] = line'[n] => m = n
      /\ Members(line') \subseteq Members(line)
  <2>1. CASE line' = Picked(line, I)
    <3>1. /\ line' \in Seq(Jobs) /\ \A m, n \in 1..Len(line') : line'[m] = line'[n] => m = n
          /\ \A x \in Members(line') : \E n \in 1..Len(line) : n \in I /\ line[n] = x
      BY <1>1, <2>1, LinePicked
    <3>2. Members(line') \subseteq Members(line)
      BY <1>1, <3>1, LineIsOfJobs
    <3> QED BY <3>1, <3>2
  <2>2. CASE \E e : line' = Without(line, e)
    <3>1. PICK e : line' = Without(line, e)
      BY <2>2
    <3>2. /\ line' \in Seq(Jobs) /\ \A m, n \in 1..Len(line') : line'[m] = line'[n] => m = n
          /\ Members(line') = Members(line) \ {e}
      BY <1>1, <3>1, WithoutOrder
    <3> QED BY <3>2
  <2> QED BY <2>1, <2>2
<1> QED BY <1>2 DEF Lined

(* A member of the line is one of what it was picked from. *)
LEMMA LineLeaves ==
    ASSUME QueueInv
    PROVE  /\ \A e : e \notin Members(Without(line, e))
           /\ \A S : \A j \in Members(Picked(line, {n \in DOMAIN line : line[n] \notin S})) : j \notin S
           /\ \A j \in Members(line) : j \in Jobs /\ job[j].state # "none"
<1>1. line \in Seq(Jobs) /\ \A m, n \in 1..Len(line) : line[m] = line[n] => m = n
  BY DEF QueueInv, Lined
<1>2. ASSUME NEW e PROVE e \notin Members(Without(line, e))
  <2>1. Members(Without(line, e)) = Members(line) \ {e}
    BY <1>1, WithoutOrder
  <2> QED BY <2>1
<1>3. ASSUME NEW S, NEW j \in Members(Picked(line, {n \in DOMAIN line : line[n] \notin S})) PROVE j \notin S
  <2> DEFINE I == {n \in DOMAIN line : line[n] \notin S}
  <2>1. \A x \in Members(Picked(line, I)) : \E n \in 1..Len(line) : n \in I /\ line[n] = x
    <3> HIDE DEF I
    <3> QED BY <1>1, LinePicked
  <2> QED BY <2>1
<1>4. \A j \in Members(line) : j \in Jobs /\ job[j].state # "none"
  BY <1>1, LineIsOfJobs DEF QueueInv, Lined
<1> QED BY <1>2, <1>3, <1>4

LEMMA FailSpentKeeps ==
    ASSUME QueueInv, NEW p \in Pods, FailSpent(p)
    PROVE  QueueInv'
<1> DEFINE spent == {j \in Jobs : /\ job[j].state = "running" /\ job[j].stale
                                  /\ job[j].attempts >= MaxAttempts}
<1>1. /\ pod[p].at = "claim" /\ UNCHANGED <<version, indexed, recrawl, upsets>>
      /\ job' = [j \in Jobs |-> IF j \in spent THEN NoJob ELSE job[j]]
      /\ line' = Picked(line, {n \in DOMAIN line : line[n] \notin spent})
      /\ pod' = [pod EXCEPT ![p].at = "take"]
  BY DEF FailSpent
<1>2. \A j \in Jobs : IF j \in spent THEN job'[j] = NoJob ELSE job'[j] = job[j]
  BY <1>1
<1>3. \A j \in spent : job[j].stale
  OBVIOUS
<1> HIDE DEF spent
<1>4. QueueTypes'
  <2>1. job' \in [Jobs -> JobType]
    BY <1>1, RestingTypes DEF QueueInv, QueueTypes
  <2>2. pod' \in [Pods -> PodType]
    <3> DEFINE x == [pod[p] EXCEPT !.at = "take"]
    <3>1. x \in PodType
      <4>1. pod[p] \in PodType
        BY DEF QueueInv, QueueTypes
      <4> QED BY <4>1 DEF PodType
    <3>2. pod' = [pod EXCEPT ![p] = x]
      BY <1>1
    <3> HIDE DEF x
    <3> QED BY <3>1, <3>2 DEF QueueInv, QueueTypes
  <2> QED BY <1>1, <2>1, <2>2 DEF QueueInv, QueueTypes
<1>5. Lined'
  <2>1. \A j \in Members(line') : j \notin spent
    BY <1>1, LineLeaves
  <2>2. \A j \in Members(line') : j \in Members(line) => job'[j].state # "none"
    BY <1>2, <2>1, LineLeaves
  <2> QED BY <1>1, <1>4, <2>2, LineShrinks
<1>6. \A j \in Jobs : RowStays(j)
  BY <1>2, RestingTypes DEF RowStays
<1>7. \A q \in Pods : pod'[q] = pod[q] \/ (q = p /\ pod'[q].at = "take")
  BY <1>1 DEF QueueInv, QueueTypes, PodType
<1>8. \A q \in Pods : Eases(q)
  BY <1>7 DEF Eases, Askings, Readings
<1>9. ASSUME ~Overruns, NEW j \in Jobs, NEW q \in Pods, Reads(q, j)' PROVE job'[j] = job[j]
  <2>1. Reads(q, j)
    BY <1>7, <1>9 DEF Reads, Readings
  <2> QED BY <1>2, <1>3, <1>9, <2>1 DEF QueueInv, LeaseHeld
<1> QED BY <1>1, <1>4, <1>5, <1>6, <1>8, <1>9, NothingNew

LEMMA TakesKeep ==
    ASSUME QueueInv, NEW p \in Pods, TakeJob(p)
    PROVE  QueueInv'
<1>1. PICK n \in 1..Len(line) :
         /\ Claimable(line[n])
         /\ LET j == line[n]
            IN /\ job' = [job EXCEPT ![j].state = "running", ![j].stale = FALSE,
                                      ![j].attempts = @ + IF job[j].stale THEN 1 ELSE 0]
               /\ pod' = [pod EXCEPT ![p].job = j, ![p].source = job[j].source,
                                     ![p].at = IF job[j].source \in Described(pod[p].snap) THEN "work"
                                               ELSE "finish"]
  BY DEF TakeJob
<1>2. pod[p].at = "take" /\ UNCHANGED <<version, indexed, line, recrawl, upsets>>
  BY DEF TakeJob
<1> DEFINE j == line[n]
           y == pod[p]
           a == IF job[j].source \in Described(y.snap) THEN "work" ELSE "finish"
           x == [y EXCEPT !.job = j, !.source = job[j].source, !.at = a]
<1>3. j \in Jobs /\ job[j].state # "none" /\ Claimable(j)
  BY <1>1, LineIsOfJobs DEF QueueInv, Lined
<1>4. y \in PodType /\ job[j] \in JobType
  BY <1>3 DEF QueueInv, QueueTypes
<1>5. a \in Readings
  BY DEF Readings
<1>6. pod' = [pod EXCEPT ![p] = x]
  BY <1>1 DEF QueueInv, QueueTypes, PodType
<1>7. x \in PodType /\ x.at \in Readings /\ x.job = j /\ x.source = job[j].source
  <2> HIDE DEF a, j
  <2> QED BY <1>3, <1>4, <1>5 DEF PodType, JobType
<1>8. /\ job'[j].state = "running" /\ ~job'[j].stale /\ job'[j].source = job[j].source
      /\ \A k \in Jobs : k # j => job'[k] = job[k]
      /\ job' \in [Jobs -> JobType]
  <2> DEFINE m == job[j].attempts + IF job[j].stale THEN 1 ELSE 0
             z == [job[j] EXCEPT !.state = "running", !.stale = FALSE, !.attempts = m]
  <2>1. m \in Nat
    BY <1>4 DEF JobType
  <2>2. job' = [job EXCEPT ![j] = z]
    BY <1>1, <1>3 DEF QueueInv, QueueTypes, JobType
  <2>3. z \in JobType /\ z.state = "running" /\ ~z.stale /\ z.source = job[j].source
    <3> HIDE DEF m, j
    <3> QED BY <1>4, <2>1 DEF JobType
  <2> HIDE DEF z, j
  <2> QED BY <1>3, <2>2, <2>3 DEF QueueInv, QueueTypes
<1> HIDE DEF x, j
<1>9. QueueTypes'
  BY <1>2, <1>6, <1>7, <1>8 DEF QueueInv, QueueTypes
<1>10. Lined'
  BY <1>2, <1>3, <1>8, LineLeaves DEF QueueInv, Lined
<1>11. y.at \notin Readings
  BY <1>2 DEF Readings
<1>12. recrawl' = recrawl
  BY <1>2
<1> HIDE DEF y
<1> QED BY <1>3, <1>12, <1>6, <1>7, <1>8, <1>9, <1>10, <1>11, OneTakes DEF y

(* A pod lets its row go. *)
LEMMA LetsGo ==
    ASSUME QueueInv, NEW p \in Pods, NEW j \in Jobs, Reads(p, j),
           pod' = [pod EXCEPT ![p].at = "claim", ![p].job = Resting.job]
    PROVE  /\ pod' \in [Pods -> PodType]
           /\ \E x \in PodType : x.at = "claim" /\ pod' = [pod EXCEPT ![p] = x]
           /\ \A q \in Pods : Eases(q)
           /\ ~Overruns => \A k \in Jobs, q \in Pods : Reads(q, k)' => k # j
<1> DEFINE x == [pod[p] EXCEPT !.at = "claim", !.job = Resting.job]
<1>1. pod \in [Pods -> PodType] /\ Resting.job \in Jobs
  BY RestingTypes DEF QueueInv, QueueTypes, PodType
<1>2. pod' = [pod EXCEPT ![p] = x]
  BY <1>1 DEF PodType
<1>3. x \in PodType /\ x.at = "claim"
  BY <1>1 DEF PodType
<1> HIDE DEF x
<1>4. pod'[p] = x /\ \A q \in Pods : q # p => pod'[q] = pod[q]
  BY <1>1, <1>2
<1>5. \A q \in Pods : Eases(q)
  BY <1>3, <1>4 DEF Eases, Askings, Readings
<1>6. ASSUME ~Overruns, NEW k \in Jobs, NEW q \in Pods, Reads(q, k)' PROVE k # j
  <2>1. q # p /\ Reads(q, k)
    BY <1>3, <1>4, <1>6 DEF Reads, Readings
  <2> QED BY <1>6, <2>1 DEF QueueInv, LeaseHeld
<1>7. pod' \in [Pods -> PodType]
  BY <1>1, <1>2, <1>3
<1> QED BY <1>2, <1>3, <1>5, <1>6, <1>7

(* A row ends with its reader. *)
LEMMA RowEnds ==
    ASSUME QueueInv, NEW p \in Pods, NEW j \in Jobs, Reads(p, j), UNCHANGED <<version, indexed, recrawl, upsets>>,
           pod' = [pod EXCEPT ![p].at = "claim", ![p].job = Resting.job],
           job' = [job EXCEPT ![j] = NoJob], line' = Without(line, j)
    PROVE  QueueInv'
<1>1. job'[j] = NoJob /\ job' \in [Jobs -> JobType] /\ \A k \in Jobs : k # j => job'[k] = job[k]
  BY RestingTypes DEF QueueInv, QueueTypes
<1>2. /\ pod' \in [Pods -> PodType] /\ \A q \in Pods : Eases(q)
      /\ ~Overruns => \A k \in Jobs, q \in Pods : Reads(q, k)' => k # j
  BY LetsGo
<1>3. QueueTypes'
  BY <1>1, <1>2 DEF QueueInv, QueueTypes
<1>4. Lined'
  <2>1. \A k \in Members(line') : k \in Members(line) => job'[k].state # "none"
    BY <1>1, LineLeaves
  <2> QED BY <1>3, <2>1, LineShrinks
<1>5. \A k \in Jobs : RowStays(k)
  BY <1>1, RestingTypes DEF RowStays
<1>6. ~Overruns => \A k \in Jobs, q \in Pods : Reads(q, k)' => job'[k] = job[k]
  BY <1>1, <1>2
<1> QED BY <1>2, <1>3, <1>4, <1>5, <1>6, NothingNew

LEMMA EndsKeep ==
    ASSUME QueueInv, NEW p \in Pods, Finish(p) \/ Fail(p)
    PROVE  QueueInv'
<1> DEFINE j == pod[p].job
           y == pod[p]
<1>1. /\ j \in Jobs /\ Reads(p, j) /\ y \in PodType /\ job[j] \in JobType
      /\ UNCHANGED <<version, indexed, recrawl, upsets>>
      /\ pod' = [pod EXCEPT ![p].at = "claim", ![p].job = Resting.job] /\ line' = Without(line, j)
  BY DEF Finish, Fail, QueueInv, QueueTypes, PodType, Reads, Readings
<1>2. CASE job' = [job EXCEPT ![j] = NoJob]
  <2> HIDE DEF j
  <2> QED BY <1>1, <1>2, RowEnds
<1>3. CASE Fail(p) /\ ~(job[j].attempts + 1 >= MaxAttempts)
  <2> DEFINE z == [job[j] EXCEPT !.state = "queued", !.stale = FALSE, !.source = y.source,
                                 !.attempts = job[j].attempts + 1]
  <2>1. job' = [job EXCEPT ![j] = z]
    <3>1. job' = [job EXCEPT ![j] = IF job[j].attempts + 1 >= MaxAttempts THEN NoJob
                                    ELSE [job[j] EXCEPT !.state = "queued", !.stale = FALSE,
                                                        !.source = pod[p].source,
                                                        !.attempts = job[j].attempts + 1]]
      BY <1>3 DEF Fail
    <3> QED BY <1>3, <3>1
  <2>2. z \in JobType /\ z.state = "queued" /\ z.source = y.source
    <3>1. y.source \in Sources /\ job[j].attempts + 1 \in Nat
      BY <1>1 DEF PodType, JobType
    <3> HIDE DEF j, y
    <3> QED BY <1>1, <3>1 DEF JobType
  <2> HIDE DEF z
  <2>3. /\ job'[j].state = "queued" /\ job'[j].source = y.source /\ job' \in [Jobs -> JobType]
        /\ \A k \in Jobs : k # j => job'[k] = job[k]
    <3> HIDE DEF j, y
    <3> QED BY <1>1, <2>1, <2>2 DEF QueueInv, QueueTypes
  <2> HIDE DEF j
  <2>4. PICK x \in PodType : x.at = "claim" /\ pod' = [pod EXCEPT ![p] = x]
    BY <1>1, LetsGo
  <2>5. pod' \in [Pods -> PodType]
    BY <1>1, LetsGo
  <2>6. QueueTypes'
    BY <1>1, <2>3, <2>5 DEF QueueInv, QueueTypes
  <2>7. Lined'
    <3>1. \A k \in Members(line') : k \in Members(line) => job'[k].state # "none"
      BY <1>1, <2>3, LineLeaves
    <3> QED BY <1>1, <2>6, <3>1, LineShrinks
  <2>8. j \in Jobs /\ Reads(p, j) /\ job'[j].source = pod[p].source
    BY <1>1, <2>3
  <2>9. x \in PodType /\ x.at = "claim" /\ pod' = [pod EXCEPT ![p] = x]
    BY <2>4
  <2>10. recrawl' = recrawl
    BY <1>1
  <2> HIDE DEF y
  <2> QED BY <2>10, <2>3, <2>6, <2>7, <2>8, <2>9, OneFails
<1>4. Fail(p) /\ job[j].attempts + 1 >= MaxAttempts => job' = [job EXCEPT ![j] = NoJob]
  BY DEF Fail
<1>5. Finish(p) => job' = [job EXCEPT ![j] = NoJob]
  BY DEF Finish
<1> HIDE DEF j
<1> QED BY <1>2, <1>3, <1>4, <1>5

(* A pod goes on with its minute, leaves it, stops or starts; the table is *)
(* left alone.                                                             *)
PodMoves(p) ==
    Snapshot(p) \/ TakeNone(p) \/ Read(p) \/ ReadFails(p) \/ StatementFails(p) \/ Stop(p) \/ Restart(p)

LEMMA RestsTypes ==
    ASSUME QueueInv, NEW p \in Pods
    PROVE  Rests(p) \in PodType /\ Rests(p).at = "idle"
BY RestingTypes DEF Rests, QueueInv, QueueTypes, PodType

LEMMA PodMovesKeep ==
    ASSUME QueueInv, NEW p \in Pods, PodMoves(p)
    PROVE  QueueInv'
<1> DEFINE y == pod[p]
<1>1. y \in PodType /\ pod \in [Pods -> PodType] /\ version \in [Sources -> Nat]
  BY DEF QueueInv, QueueTypes
<1>2. /\ version' = version /\ job' = job /\ line' = line /\ recrawl' = recrawl
      /\ upsets' \in 0 .. MaxUpsets /\ indexed' \in [Sources -> Nat]
  <2>1. version' = version /\ job' = job /\ line' = line /\ recrawl' = recrawl
    BY DEF PodMoves, Snapshot, TakeNone, Read, ReadFails, StatementFails, Stop, Restart
  <2>2. upsets' \in 0 .. MaxUpsets
    <3>1. upsets' = upsets \/ Upset
      BY DEF PodMoves, Snapshot, TakeNone, Read, ReadFails, StatementFails, Stop, Restart
    <3>2. upsets \in 0 .. MaxUpsets /\ MaxUpsets \in Nat
      BY QueueAssumption DEF QueueInv, QueueTypes
    <3>3. Upset => upsets' \in 0 .. MaxUpsets
      BY <3>2 DEF Upset
    <3> QED BY <3>1, <3>2, <3>3
  <2>3. CASE Read(p)
    <3>1. y.source \in Sources /\ y.snap[y.source] \in Nat
      BY <1>1 DEF PodType
    <3> QED BY <2>1, <2>2, <2>3, <3>1 DEF Read, QueueInv, QueueTypes
  <2>4. CASE ~Read(p)
    BY <2>1, <2>2, <2>4 DEF PodMoves, Snapshot, TakeNone, ReadFails, StatementFails, Stop, Restart, QueueInv, QueueTypes
  <2> QED BY <2>1, <2>2, <2>3, <2>4
<1>3. ASSUME NEW x \in PodType, x.at \notin Askings \cup Readings, pod' = [pod EXCEPT ![p] = x]
      PROVE  QueueInv'
  BY <1>2, <1>3, PodAlone
<1>4. ASSUME NEW a \in Readings, y.at \in Readings, pod' = [pod EXCEPT ![p] = [y EXCEPT !.at = a]]
      PROVE  QueueInv'
  <2> DEFINE x == [y EXCEPT !.at = a]
  <2>1. x \in PodType /\ x.at \in Readings /\ x.job = y.job /\ x.source = y.source
    BY <1>1 DEF PodType
  <2>2. pod' = [pod EXCEPT ![p] = x]
    BY <1>4
  <2> HIDE DEF x
  <2>3. x.at \notin Askings
    BY <2>1 DEF Askings, Readings
  <2> QED BY <1>2, <1>4, <2>1, <2>2, <2>3, PodAlone
<1>5. \A a \in Loops \cup {"take", "idle", "down"} : a \notin Askings \cup Readings
  BY DEF Loops, Askings, Readings
<1>6. CASE Snapshot(p)
  <2> DEFINE z == [y EXCEPT !.snap = version]
  <2>1. z \in PodType
    BY <1>1 DEF PodType
  <2>2. pod' = [pod EXCEPT ![p] = Begins(z, "due")]
    BY <1>6 DEF Snapshot
  <2> HIDE DEF z
  <2>3. Begins(z, "due") \in PodType /\ Begins(z, "due").at \in Loops
    BY <2>1, BeginsTypes DEF Loops
  <2> QED BY <1>3, <1>5, <2>2, <2>3
<1>7. CASE TakeNone(p)
  <2>1. pod' = [pod EXCEPT ![p] = Rests(p)]
    BY <1>7 DEF TakeNone
  <2> QED BY <1>3, <1>5, <2>1, RestsTypes
<1>8. CASE Read(p)
  <2>1. y.at = "work" /\ pod' = [pod EXCEPT ![p] = [y EXCEPT !.at = "finish"]]
    BY <1>1, <1>8 DEF Read
  <2> QED BY <1>4, <2>1 DEF Readings
<1>9. CASE ReadFails(p)
  <2>1. y.at = "work" /\ pod' = [pod EXCEPT ![p] = [y EXCEPT !.at = "fail"]]
    BY <1>1, <1>9 DEF ReadFails
  <2> QED BY <1>4, <2>1 DEF Readings
<1>10. CASE StatementFails(p)
  <2>1. CASE pod' = [pod EXCEPT ![p] = Begins(y, After(y.at))]
    <3>1. After(y.at) \in Loops
      BY DEF After, Loops
    <3>2. Begins(y, After(y.at)) \in PodType /\ Begins(y, After(y.at)).at \in Loops
      BY <1>1, <3>1, BeginsTypes
    <3> QED BY <1>3, <1>5, <2>1, <3>2
  <2>2. CASE pod' = [pod EXCEPT ![p] = Rests(p)]
    BY <1>3, <1>5, <2>2, RestsTypes
  <2> QED BY <1>10, <2>1, <2>2 DEF StatementFails
<1>11. CASE Stop(p)
  <2>1. pod' = [pod EXCEPT ![p] = [Resting EXCEPT !.at = "down"]]
    BY <1>11 DEF Stop
  <2>2. [Resting EXCEPT !.at = "down"] \in PodType /\ [Resting EXCEPT !.at = "down"].at = "down"
    BY RestingTypes DEF PodType
  <2> QED BY <1>3, <1>5, <2>1, <2>2
<1>12. CASE Restart(p)
  <2>1. pod' = [pod EXCEPT ![p] = Resting]
    BY <1>12 DEF Restart
  <2> QED BY <1>3, <1>5, <2>1, RestingTypes
<1> QED BY <1>6, <1>7, <1>8, <1>9, <1>10, <1>11, <1>12 DEF PodMoves

(* The clock and the repository. *)
LEMMA ClockKeeps ==
    ASSUME QueueInv, \/ \E j \in Jobs : Ready(j) \/ LeaseEnds(j)
                     \/ \E s \in Sources : Edit(s)
    PROVE  QueueInv'
<1>1. pod' = pod /\ recrawl' = recrawl
  BY DEF Ready, LeaseEnds, Edit
<1>2. \A q \in Pods : Eases(q)
  BY <1>1 DEF Eases
<1>3. \A q \in Pods, j \in Jobs : Reads(q, j)' <=> Reads(q, j)
  BY <1>1 DEF Reads
<1>4. ASSUME NEW j \in Jobs, Ready(j) PROVE QueueInv'
  <2>1. job' = job /\ QueueTypes' /\ line' = Append(line, j) /\ job[j].state # "none"
    BY <1>4 DEF Ready, QueueInv, QueueTypes
  <2>2. /\ line \in Seq(Jobs) /\ j \notin Members(line) /\ \A m, n \in 1..Len(line) : line[m] = line[n] => m = n
        /\ \A k \in Members(line) : job[k].state # "none"
    BY <1>4, LineIsOfJobs DEF Ready, QueueInv, Lined
  <2>3. /\ line' \in Seq(Jobs) /\ \A m, n \in 1..Len(line') : line'[m] = line'[n] => m = n
        /\ Members(line') = Members(line) \cup {j}
    BY <2>1, <2>2, LineGrows
  <2>4. Lined'
    BY <2>1, <2>2, <2>3 DEF Lined
  <2> QED BY <1>1, <1>2, <2>1, <2>4, NothingNew DEF RowStays
<1>5. ASSUME NEW j \in Jobs, LeaseEnds(j) PROVE QueueInv'
  <2> DEFINE z == [job[j] EXCEPT !.stale = TRUE]
  <2>1. job' = [job EXCEPT ![j] = z] /\ UNCHANGED <<version, indexed, line, recrawl, upsets>>
    BY <1>5 DEF LeaseEnds, QueueInv, QueueTypes, JobType
  <2>2. z \in JobType /\ z.state = job[j].state /\ z.source = job[j].source
    BY DEF QueueInv, QueueTypes, JobType
  <2> HIDE DEF z
  <2>3. job'[j] = z /\ job' \in [Jobs -> JobType] /\ \A k \in Jobs : k # j => job'[k] = job[k]
    BY <2>1, <2>2 DEF QueueInv, QueueTypes
  <2>4. QueueTypes'
    BY <1>1, <2>1, <2>3 DEF QueueInv, QueueTypes
  <2>5. \A k \in Jobs : job'[k].state = job[k].state /\ job'[k].source = job[k].source
    BY <2>2, <2>3
  <2>6. Lined'
    BY <2>1, <2>5, LineIsOfJobs DEF QueueInv, Lined
  <2>7. \A k \in Jobs : RowStays(k)
    BY <2>5 DEF RowStays
  <2>8. ~Overruns => \A q \in Pods : ~Reads(q, j)
    BY <1>5 DEF LeaseEnds, HasReader, Reads, Readings
  <2>9. ~Overruns => \A k \in Jobs, q \in Pods : Reads(q, k)' => job'[k] = job[k]
    BY <1>3, <2>3, <2>8
  <2> QED BY <1>1, <1>2, <2>4, <2>6, <2>7, <2>9, NothingNew
<1>6. ASSUME NEW s \in Sources, Edit(s) PROVE QueueInv'
  <2>1. UNCHANGED <<indexed, job, line, pod, recrawl>> /\ upsets' = upsets + 1 /\ upsets < MaxUpsets
    BY <1>6 DEF Edit, Upset
  <2>2. PICK v \in Versions(s) : version' = [version EXCEPT ![s] = v]
    BY <1>6 DEF Edit
  <2>3. v \in Nat
    BY <2>2, QueueAssumption
  <2>4. QueueTypes'
    BY <2>1, <2>2, <2>3, QueueAssumption DEF QueueInv, QueueTypes
  <2>5. Lined'
    BY <2>1 DEF QueueInv, Lined
  <2> QED BY <1>2, <2>1, <2>4, <2>5, NothingNew DEF RowStays
<1> QED BY <1>4, <1>5, <1>6

(* The administrator's requests. *)
LEMMA RecrawlsKeep ==
    ASSUME QueueInv, NEW r \in Recrawls,
           (\E s \in Sources : AskRecrawl(r, s)) \/ QueueRecrawl(r) \/ RecrawlEnds(r)
    PROVE  QueueInv'
<1>1. pod' = pod /\ recrawl \in [Recrawls -> SUBSET Sources] /\ \A s, t \in recrawl[r] : s = t
  BY DEF AskRecrawl, QueueRecrawl, RecrawlEnds, QueueInv, QueueTypes
<1>2. \A q \in Pods, k \in Jobs : Reads(q, k)' <=> Reads(q, k)
  BY <1>1 DEF Reads
<1>3. ASSUME NEW s \in Sources, AskRecrawl(r, s) PROVE QueueInv'
  <2>1. /\ ~Pending(s) /\ recrawl' = [recrawl EXCEPT ![r] = {s}] /\ recrawl[r] = {}
        /\ UNCHANGED <<version, indexed, job, line>> /\ upsets' \in 0 .. MaxUpsets
    BY <1>3, QueueAssumption DEF AskRecrawl, Upset, QueueInv, QueueTypes
  <2>2. recrawl'[r] = {s} /\ \A u \in Recrawls : u # r => recrawl'[u] = recrawl[u]
    BY <1>1, <2>1
  <2>3. QueueTypes'
    BY <1>1, <2>1, <2>2 DEF QueueInv, QueueTypes
  <2>4. Lined' /\ ReadAsNamed' /\ LeaseHeld'
    BY <1>1, <1>2, <2>1 DEF QueueInv, Lined, ReadAsNamed, LeaseHeld
  <2>5. \A t \in Sources : RowsOf(t)' = RowsOf(t)
    BY <1>1, <1>2, <2>1 DEF RowsOf, CountsFor
  <2>6. ASSUME NEW q \in Asking(s)', q \in Pods PROVE pod[q].at \notin Readings
    BY <1>1, <2>6, QueueAssumption DEF Asking, AsksFirst, Askings, Readings
  <2>7. ASSUME NEW t \in Sources, t # s PROVE Asking(t)' \subseteq Asking(t)
    BY <1>1, <2>2, <2>7 DEF Asking, AsksFirst
  <2>8. TableBounded'
    BY <2>1, <2>5, <2>6, <2>7, AskedOfNone
  <2> QED BY <2>3, <2>4, <2>8 DEF QueueInv
<1>4. CASE QueueRecrawl(r)
  <2>1. PICK s \in recrawl[r] : Enqueue(s)
    BY <1>4 DEF QueueRecrawl
  <2>2. s \in Sources /\ recrawl[r] = {s} /\ recrawl' = [recrawl EXCEPT ![r] = {}]
    BY <1>1, <1>4, <2>1 DEF QueueRecrawl
  <2>3. recrawl'[r] = {} /\ \A u \in Recrawls : u # r => recrawl'[u] = recrawl[u]
    BY <1>1, <2>2
  <2>4. PICK j \in Jobs : /\ job[j].state = "none" /\ ~HasReader(j) /\ line' = Append(line, j)
                          /\ job' = [job EXCEPT ![j] = [NoJob EXCEPT !.state = "queued", !.source = s]]
    BY <2>1 DEF Enqueue
  <2>5. job' \in [Jobs -> JobType] /\ job'[j].state = "queued" /\ \A k \in Jobs : k # j => job'[k] = job[k]
    BY <2>2, <2>4, RestingTypes DEF QueueInv, QueueTypes, JobType
  <2>6. QueueTypes'
    <3>1. recrawl' \in [Recrawls -> SUBSET Sources] /\ \A u \in Recrawls : \A v, w \in recrawl'[u] : v = w
      BY <1>1, <2>2, <2>3 DEF QueueInv, QueueTypes
    <3>2. UNCHANGED <<version, indexed, pod, upsets>>
      BY <1>4 DEF QueueRecrawl
    <3> QED BY <2>5, <3>1, <3>2 DEF QueueInv, QueueTypes
  <2>7. Lined'
    <3>1. /\ line \in Seq(Jobs) /\ j \notin Members(line)
          /\ \A m, n \in 1..Len(line) : line[m] = line[n] => m = n
          /\ \A k \in Members(line) : k \in Jobs /\ job[k].state # "none"
      BY <2>4, LineIsOfJobs DEF QueueInv, Lined
    <3>2. /\ line' \in Seq(Jobs) /\ \A m, n \in 1..Len(line') : line'[m] = line'[n] => m = n
          /\ Members(line') = Members(line) \cup {j}
      BY <2>4, <3>1, LineGrows
    <3>3. \A k \in Members(line') : job'[k].state # "none"
      BY <2>5, <3>1, <3>2
    <3> QED BY <3>2, <3>3 DEF Lined
  <2>8. r \in Asking(s) /\ r \notin Asking(s)'
    BY <1>1, <2>2, <2>3, QueueAssumption DEF Asking
  <2>9. ASSUME NEW t \in Sources PROVE Asking(t)' \subseteq Asking(t)
    BY <1>1, <2>2, <2>3 DEF Asking, AsksFirst
  <2> QED BY <1>1, <1>2, <2>2, <2>4, <2>6, <2>7, <2>8, <2>9, RowIsQueued
<1>5. CASE RecrawlEnds(r)
  <2>1. recrawl' = [recrawl EXCEPT ![r] = {}] /\ UNCHANGED <<version, indexed, job, line, pod, upsets>>
    BY <1>5 DEF RecrawlEnds
  <2>2. recrawl'[r] = {} /\ \A u \in Recrawls : u # r => recrawl'[u] = recrawl[u]
    BY <1>1, <2>1
  <2>3. QueueTypes' /\ Lined'
    BY <1>1, <2>1, <2>2 DEF QueueInv, QueueTypes, Lined
  <2>4. \A u \in Recrawls : recrawl'[u] \subseteq recrawl[u]
    BY <2>2
  <2> QED BY <2>1, <2>3, <2>4, NothingNew DEF RowStays, Eases
<1> QED BY <1>3, <1>4, <1>5

-----------------------------------------------------------------------------

LEMMA QueueBegins == QueueInit => QueueInv
<1> SUFFICES ASSUME QueueInit PROVE QueueInv
  OBVIOUS
<1>1. QueueTypes
  <2>1. \A s \in Sources : (CHOOSE v \in Versions(s) : v # 0) \in Nat
    BY QueueAssumption
  <2>2. version \in [Sources -> Nat]
    BY <2>1 DEF QueueInit
  <2>3. /\ indexed \in [Sources -> Nat] /\ job \in [Jobs -> JobType] /\ pod \in [Pods -> PodType]
        /\ recrawl \in [Recrawls -> SUBSET Sources] /\ \A r \in Recrawls : recrawl[r] = {}
    BY RestingTypes DEF QueueInit
  <2> QED BY <2>2, <2>3, QueueAssumption DEF QueueInit, QueueTypes
<1>2. (\A j \in Jobs : job[j].state = "none") /\ (\A p \in Pods : pod[p].at = "idle")
      /\ \A r \in Recrawls : recrawl[r] = {}
  BY RestingTypes DEF QueueInit
<1>3. Lined
  <2>1. line \in Seq(Jobs) /\ Len(line) = 0
    BY DEF QueueInit
  <2> QED BY <2>1 DEF Lined, Members
<1>4. \A p \in Pods, j \in Jobs : ~Reads(p, j)
  BY <1>2 DEF Reads, Readings
<1>5. ASSUME NEW s \in Sources PROVE RowsOf(s) = {} /\ Asking(s) = {}
  BY <1>2, <1>4 DEF RowsOf, CountsFor, Asking, AsksFirst, Askings
<1>6. TableBounded
  <2>1. Cardinality({}) = 0 /\ Cardinality(Askers) \in Nat
    BY FS_EmptySet, PartsAreFinite
  <2> QED BY <1>5, <2>1 DEF TableBounded
<1> QED BY <1>1, <1>3, <1>4, <1>6 DEF QueueInv, ReadAsNamed, LeaseHeld

LEMMA QueueSteps == QueueInv /\ [QueueNext]_queueVars => QueueInv'
<1> SUFFICES ASSUME QueueInv, [QueueNext]_queueVars PROVE QueueInv'
  OBVIOUS
<1>1. ASSUME NEW p \in Pods, Minute(p) \/ ReadFails(p) \/ StatementFails(p) \/ Stop(p) \/ Restart(p)
      PROVE  QueueInv'
  <2>1. CASE PodMoves(p)
    BY <2>1, PodMovesKeep
  <2>2. CASE QueueDue(p) \/ QueueChanged(p)
    BY <2>2, QueuesKeep
  <2>3. CASE \E s \in Sources : LookDue(p, s) \/ LookChanged(p, s)
    BY <2>3, LooksKeep
  <2>4. CASE FailSpent(p)
    BY <2>4, FailSpentKeeps
  <2>5. CASE TakeJob(p)
    BY <2>5, TakesKeep
  <2>6. CASE Finish(p) \/ Fail(p)
    BY <2>6, EndsKeep
  <2> QED BY <1>1, <2>1, <2>2, <2>3, <2>4, <2>5, <2>6 DEF Minute, PodMoves
<1>2. CASE \/ \E j \in Jobs : Ready(j) \/ LeaseEnds(j)
           \/ \E s \in Sources : Edit(s)
  BY <1>2, ClockKeeps
<1>3. CASE UNCHANGED queueVars
  <2>1. UNCHANGED <<version, indexed, job, line, pod, recrawl, upsets>>
    BY <1>3 DEF queueVars
  <2>2. QueueTypes' /\ Lined'
    BY <2>1 DEF QueueInv, QueueTypes, Lined
  <2> QED BY <2>1, <2>2, NothingNew DEF RowStays, Eases
<1>4. ASSUME NEW r \in Recrawls, (\E s \in Sources : AskRecrawl(r, s)) \/ QueueRecrawl(r) \/ RecrawlEnds(r)
      PROVE  QueueInv'
  BY <1>4, RecrawlsKeep
<1> QED BY <1>1, <1>2, <1>3, <1>4 DEF QueueNext

LEMMA InvKeepsTheQueue == QueueInv => QueueKept
<1> SUFFICES ASSUME QueueInv PROVE QueueKept
  OBVIOUS
<1>1. ASSUME NEW s \in Sources
      PROVE  Cardinality({j \in Jobs : job[j].state # "none" /\ job[j].source = s}) <= Cardinality(Askers)
  <2> DEFINE S == {j \in Jobs : job[j].state # "none" /\ job[j].source = s}
             R == RowsOf(s)
             A == Asking(s)
  <2>1. S \in SUBSET R /\ R \in SUBSET Jobs /\ A \in SUBSET Askers
    BY DEF RowsOf, CountsFor, Asking, Askers
  <2>2. Cardinality(R) + Cardinality(A) <= Cardinality(Askers)
    BY DEF QueueInv, TableBounded
  <2> HIDE DEF S, R, A
  <2>3. /\ Cardinality(S) \in Nat /\ Cardinality(S) <= Cardinality(R)
        /\ Cardinality(R) \in Nat /\ Cardinality(A) \in Nat /\ Cardinality(Askers) \in Nat
    BY <2>1, PartsAreFinite
  <2>4. Cardinality(S) <= Cardinality(Askers)
    BY <2>2, <2>3
  <2> QED BY <2>4 DEF S
<1>2. /\ line \in Seq(Jobs) /\ DOMAIN line = 1..Len(line)
      /\ \A m, n \in DOMAIN line : line[m] = line[n] => m = n
  BY LineIsOfJobs DEF QueueInv, Lined
<1>3. /\ \A p \in Pods : pod[p].source \in Sources /\ pod[p].job \in Jobs
      /\ \A r \in Recrawls : recrawl[r] \subseteq Sources
  BY DEF QueueInv, QueueTypes, PodType
<1>4. QueueTypeOK
  BY <1>1, <1>2, <1>3 DEF QueueTypeOK, QueueInv, QueueTypes, JobType, Askers
<1>5. OneReader
  <2> SUFFICES ASSUME ~Overruns, NEW p \in Pods, NEW q \in Pods,
                      pod[p].at \in Readings, pod[q].at \in Readings, pod[p].job = pod[q].job
               PROVE  p = q
    BY DEF OneReader, Readings
  <2>1. Reads(p, pod[p].job) /\ Reads(q, pod[p].job)
    BY DEF Reads
  <2> QED BY <1>3, <2>1 DEF QueueInv, LeaseHeld
<1> QED BY <1>4, <1>5 DEF QueueKept

(* However many pods fill and work the table, and whatever stops or fails, a *)
(* source has no more jobs than there are pods and requests of the           *)
(* administrator at once, although the question and the insert are two       *)
(* statements, and a job has one reader while no read outlasts its lease     *)
(* (pending, claim, finish and fail of queue.rs, recrawl of chat/admin.rs).  *)
THEOREM QueueIsKept == QueueSpec => []QueueKept
<1>1. QueueSpec => []QueueInv
  BY QueueBegins, QueueSteps, PTL DEF QueueSpec
<1> QED BY <1>1, InvKeepsTheQueue, PTL

-----------------------------------------------------------------------------
(***************************************************************************)
(* The crawl of a website, for any site, crawls, cuts, failures and        *)
(* decisions of an administrator: a page leaves the knowledge only when    *)
(* the site said so or enough runs in a row missed it, and a page is       *)
(* indexed as of its stored hash, or about to be, or left behind by a cut, *)
(* a failure, a crossing crawl or the patterns of a manifest.              *)
(*                                                                         *)
(* A row's failed_runs is at most the runs that missed it (RunsCounted)    *)
(* because a crawl misses an address once: what it missed it had queued,   *)
(* what it queued it takes from the frontier once, and what it does not    *)
(* reach it never queued (WalkOk).                                         *)
(***************************************************************************)

RowType == [held : BOOLEAN, hash : Nat, failed_runs : 0 .. GONE_AFTER_RUNS - 1, excluded : BOOLEAN]

WalkType == [at : {"idle", "walk", "skip", "fetch", "upsert", "index", "store", "links"},
             frontier : SUBSET Items, queued : SUBSET Items, item : Items,
             stored : Nat, got : Nat, answered : BOOLEAN, complete : BOOLEAN,
             blind : BOOLEAN, sitemap_only : BOOLEAN, missed : SUBSET Items, omits : SUBSET Items]

(* An address is queued once and missed once; what was got of it is a version of it. *)
WalkOk(wk) ==
    /\ wk \in WalkType
    /\ wk.frontier \subseteq wk.queued /\ wk.missed \subseteq wk.queued \ wk.frontier
    /\ wk.at = "fetch" => wk.item \in wk.queued \ (wk.frontier \cup wk.missed)
    /\ wk.at \in {"upsert", "index", "store", "links"} => wk.got \in Serves(wk.item)

RunsCounted == \A i \in Items : row[i].failed_runs <= missed[i]

SiteTypes ==
    /\ served \in [Items -> Nat] /\ \A i \in Items : served[i] \in Serves(i)
    /\ passages \in [Items -> Nat] /\ missed \in [Items -> Nat] /\ row \in [Items -> RowType]
    /\ links \in [Items -> SUBSET Items] /\ holds \subseteq Crawlers /\ behind \subseteq Items
    /\ walk \in [Crawlers -> WalkType]

WalksOk == \A w \in Crawlers : WalkOk(walk[w])

Indexing == {"index", "store"}

(* The address is indexed as of its hash, or about to be, or left behind. *)
IndexedAt(i) ==
    row[i].hash # 0 /\ ~row[i].excluded
        => \/ passages[i] = row[i].hash \/ i \in behind
           \/ \E w \in Crawlers : walk[w].item = i /\ walk[w].at \in Indexing

SiteInv == SiteTypes /\ WalksOk /\ RunsCounted /\ \A i \in Items : IndexedAt(i)

-----------------------------------------------------------------------------
(* Walks. *)

LEMMA NoRowType == NoRow \in RowType /\ NoRow.hash = 0 /\ ~NoRow.held /\ NoRow.failed_runs = 0
  BY SiteAssumption DEF NoRow, RowType

LEMMA IdleIsOk == WalkOk(Idle) /\ Idle.at = "idle"
  BY SiteAssumption DEF WalkOk, WalkType, Idle

LEMMA DoneIsOk ==
    ASSUME NEW wk, WalkOk(wk)
    PROVE  WalkOk(Done(wk)) /\ Done(wk).at = "walk" /\ Done(wk).queued = wk.queued
  BY SiteAssumption DEF WalkOk, WalkType, Done

LEMMA PushedIsOk ==
    ASSUME NEW wk, WalkOk(wk), wk.at = "walk", NEW S \in SUBSET Items
    PROVE  WalkOk(Pushed(wk, S)) /\ Pushed(wk, S).at = "walk"
<1>1. Pushed(wk, S) = [wk EXCEPT !.frontier = wk.frontier \cup (S \ wk.queued), !.queued = wk.queued \cup S]
  BY DEF Pushed, WalkOk, WalkType
<1> DEFINE f == wk.frontier \cup (S \ wk.queued)
           q == wk.queued \cup S
<1>2. wk \in WalkType /\ f \in SUBSET Items /\ q \in SUBSET Items /\ f \subseteq q /\ wk.missed \subseteq q \ f
  BY DEF WalkOk, WalkType
<1> HIDE DEF f, q
<1>3. [wk EXCEPT !.frontier = f, !.queued = q] \in WalkType
  BY <1>2 DEF WalkType
<1>4. Pushed(wk, S) = [wk EXCEPT !.frontier = f, !.queued = q]
  BY <1>1 DEF f, q
<1> QED BY <1>2, <1>3, <1>4 DEF WalkOk, WalkType

LEMMA AnsweredIsOk ==
    ASSUME NEW wk, WalkOk(wk)
    PROVE  LET x == [wk EXCEPT !.answered = TRUE] IN WalkOk(x) /\ x.at = wk.at /\ x.queued = wk.queued
  BY DEF WalkOk, WalkType

LEMMA MovesOk ==
    ASSUME NEW wk, WalkOk(wk), NEW at, at \in {"index", "store", "links"}, wk.at \in {"upsert", "index", "store"}
    PROVE  LET x == [wk EXCEPT !.at = at] IN WalkOk(x) /\ x.at = at /\ x.item = wk.item
  BY DEF WalkOk, WalkType

(* One crawl walks on. *)
LEMMA OneWalks ==
    ASSUME SiteInv, NEW w \in Crawlers, NEW wk, WalkOk(wk), Walks(w, wk)
    PROVE  /\ walk' \in [Crawlers -> WalkType] /\ WalksOk'
           /\ walk'[w] = wk /\ \A v \in Crawlers : v # w => walk'[v] = walk[v]
<1>1. wk \in WalkType
  BY DEF WalkOk
<1>2. walk' = [walk EXCEPT ![w] = wk] /\ walk \in [Crawlers -> WalkType]
  BY DEF Walks, SiteInv, SiteTypes
<1>3. /\ walk' \in [Crawlers -> WalkType] /\ walk'[w] = wk
      /\ \A v \in Crawlers : v # w => walk'[v] = walk[v]
  BY <1>1, <1>2
<1>4. WalksOk'
  <2> SUFFICES ASSUME NEW v \in Crawlers PROVE WalkOk(walk'[v])
    BY DEF WalksOk, WalkOk
  <2> QED BY <1>3 DEF SiteInv, WalksOk
<1> QED BY <1>3, <1>4

(* Nothing that indexing depends on changes for an address, or the address *)
(* needs no passages.                                                      *)
IndexLeft(i) ==
    \/ row'[i].hash = 0 \/ row'[i].excluded
    \/ /\ row'[i].hash = row[i].hash /\ row'[i].excluded = row[i].excluded
       /\ passages'[i] = passages[i] /\ (i \in behind => i \in behind')

LEMMA IndexKept ==
    ASSUME SiteInv, NEW i \in Items, IndexLeft(i),
           \A w \in Crawlers : walk[w].at \in Indexing /\ walk[w].item = i =>
                walk'[w].at \in Indexing /\ walk'[w].item = i
    PROVE  IndexedAt(i)'
<1> SUFFICES ASSUME row'[i].hash # 0, ~row'[i].excluded
             PROVE  \/ passages'[i] = row'[i].hash \/ i \in behind'
                    \/ \E w \in Crawlers : walk'[w].item = i /\ walk'[w].at \in Indexing
  BY DEF IndexedAt
<1>1. /\ row'[i].hash = row[i].hash /\ row'[i].excluded = row[i].excluded
      /\ passages'[i] = passages[i] /\ (i \in behind => i \in behind')
  BY DEF IndexLeft
<1>2. \/ passages[i] = row[i].hash \/ i \in behind
      \/ \E w \in Crawlers : walk[w].item = i /\ walk[w].at \in Indexing
  BY <1>1 DEF SiteInv, IndexedAt
<1> QED BY <1>1, <1>2

(* A crawl that is not indexing walks on, and rows, passages and marks stay. *)
LEMMA OnlyWalks ==
    ASSUME SiteInv, NEW w \in Crawlers, NEW wk, WalkOk(wk), Walks(w, wk), walk[w].at \notin Indexing,
           UNCHANGED <<served, row, passages, links, missed, behind>>, holds' \subseteq Crawlers
    PROVE  SiteInv'
<1>1. /\ walk' \in [Crawlers -> WalkType] /\ WalksOk'
      /\ walk'[w] = wk /\ \A v \in Crawlers : v # w => walk'[v] = walk[v]
  BY OneWalks
<1>2. SiteTypes' /\ RunsCounted'
  BY <1>1 DEF SiteInv, SiteTypes, RunsCounted
<1>3. ASSUME NEW i \in Items PROVE IndexedAt(i)'
  <2>1. IndexLeft(i)
    BY DEF IndexLeft
  <2> QED BY <1>1, <2>1, IndexKept
<1> QED BY <1>1, <1>2, <1>3 DEF SiteInv

-----------------------------------------------------------------------------
(* The actions. *)

(* The row's run is good: it is held, with no failed runs and its hash as it *)
(* was or as the crawl found it.                                             *)
LEMMA GoodRun ==
    ASSUME SiteInv, NEW i \in Items, NEW h \in BOOLEAN, NEW hash \in Nat,
           row' = [row EXCEPT ![i] = [row[i] EXCEPT !.held = h, !.hash = hash, !.failed_runs = 0]],
           missed' = [missed EXCEPT ![i] = 0]
    PROVE  /\ row' \in [Items -> RowType] /\ missed' \in [Items -> Nat] /\ RunsCounted'
           /\ row'[i].held = h /\ row'[i].hash = hash /\ row'[i].excluded = row[i].excluded
           /\ \A k \in Items : k # i => row'[k] = row[k]
<1> DEFINE r == [row[i] EXCEPT !.held = h, !.hash = hash, !.failed_runs = 0]
<1>2. row \in [Items -> RowType] /\ missed \in [Items -> Nat] /\ row[i] \in RowType
  BY DEF SiteInv, SiteTypes
<1>1. r \in RowType /\ r.held = h /\ r.hash = hash /\ r.failed_runs = 0 /\ r.excluded = row[i].excluded
  <2>1. 0 \in 0 .. GONE_AFTER_RUNS - 1
    BY SiteAssumption
  <2> QED BY <1>2, <2>1, Zenon DEF RowType
<1>3. row' = [row EXCEPT ![i] = r]
  OBVIOUS
<1> HIDE DEF r
<1>4. row' \in [Items -> RowType] /\ row'[i] = r /\ \A k \in Items : k # i => row'[k] = row[k]
  BY <1>1, <1>2, <1>3
<1>5. missed' \in [Items -> Nat] /\ missed'[i] = 0 /\ \A k \in Items : k # i => missed'[k] = missed[k]
  BY <1>2
<1>6. RunsCounted'
  BY <1>1, <1>4, <1>5 DEF SiteInv, RunsCounted
<1> QED BY <1>1, <1>4, <1>5, <1>6

LEMMA WalkFacts ==
    ASSUME SiteInv, NEW w \in Crawlers
    PROVE  /\ WalkOk(walk[w]) /\ walk[w] \in WalkType /\ walk[w].item \in Items
           /\ served[walk[w].item] \in Serves(walk[w].item) /\ served[walk[w].item] \in Nat
           /\ row[walk[w].item] \in RowType /\ row[walk[w].item].hash \in Nat
           /\ links[walk[w].item] \in SUBSET Items
<1>1. WalkOk(walk[w]) /\ walk[w] \in WalkType /\ walk[w].item \in Items
  BY DEF SiteInv, SiteTypes, WalksOk, WalkType
<1> QED BY <1>1 DEF SiteInv, SiteTypes, RowType

LEMMA BeginsKeep ==
    ASSUME SiteInv, NEW w \in Crawlers, BeginCrawl(w)
    PROVE  SiteInv'
<1>1. PICK listed \in SUBSET (Items \ Docs), blind \in BOOLEAN, only \in BOOLEAN :
        \E dated \in IF only THEN SUBSET {i \in listed : row[i].hash # 0} ELSE {{}} :
           LET from == IF only THEN dated \cup {i \in listed : row[i].hash = 0} ELSE {Start} \cup listed
           IN Walks(w, [Idle EXCEPT !.at = "walk", !.frontier = from, !.queued = from,
                                    !.complete = ~only, !.blind = blind, !.sitemap_only = only])
  BY DEF BeginCrawl
<1> DEFINE Dated == IF only THEN SUBSET {i \in listed : row[i].hash # 0} ELSE {{}}
<1>6. Dated \subseteq SUBSET Items
  OBVIOUS
<1>7. PICK dated \in Dated :
        LET from == IF only THEN dated \cup {i \in listed : row[i].hash = 0} ELSE {Start} \cup listed
        IN Walks(w, [Idle EXCEPT !.at = "walk", !.frontier = from, !.queued = from,
                                 !.complete = ~only, !.blind = blind, !.sitemap_only = only])
  BY <1>1, Zenon
<1> HIDE DEF Dated
<1>8. dated \in SUBSET Items
  BY <1>6, <1>7
<1> DEFINE from == IF only THEN dated \cup {i \in listed : row[i].hash = 0} ELSE {Start} \cup listed
           wk == [Idle EXCEPT !.at = "walk", !.frontier = from, !.queued = from,
                              !.complete = ~only, !.blind = blind, !.sitemap_only = only]
<1>2. from \in SUBSET Items
  BY <1>8, SiteAssumption
<1>3. Walks(w, wk)
  BY <1>7
<1>4. (~only) \in BOOLEAN
  OBVIOUS
<1> DEFINE c == ~only
<1> HIDE DEF from, c
<1>5. WalkOk(wk)
  <2>1. wk = [Idle EXCEPT !.at = "walk", !.frontier = from, !.queued = from,
                          !.complete = c, !.blind = blind, !.sitemap_only = only]
    BY DEF c
  <2>2. Idle \in WalkType /\ c \in BOOLEAN
    BY <1>4, IdleIsOk DEF WalkOk, c
  <2>3. wk \in WalkType
    BY <1>2, <2>1, <2>2, Zenon DEF WalkType
  <2>4. wk.at = "walk" /\ wk.frontier = from /\ wk.queued = from /\ wk.missed = {}
    BY DEF Idle
  <2> HIDE DEF wk
  <2> QED BY <2>3, <2>4 DEF WalkOk
<1> HIDE DEF wk
<1> QED BY <1>3, <1>5, OnlyWalks DEF BeginCrawl, Indexing, SiteInv, SiteTypes

LEMMA WalksKeep ==
    ASSUME SiteInv, NEW w \in Crawlers,
           CapReached(w) \/ (\E i \in Items : Visit(w, i)) \/ Success(w)
    PROVE  SiteInv'
<1> DEFINE y == walk[w]
<1>1. WalkOk(y) /\ y \in WalkType /\ holds \subseteq Crawlers
  BY WalkFacts DEF SiteInv, SiteTypes
<1>2. CASE CapReached(w)
  <2> DEFINE x == [y EXCEPT !.frontier = {}, !.complete = FALSE]
  <2>1. WalkOk(x)
    BY <1>1, <1>2 DEF WalkOk, WalkType, CapReached
  <2>2. Walks(w, x)
    BY <1>2 DEF CapReached
  <2> HIDE DEF x
  <2> QED BY <1>1, <1>2, <2>1, <2>2, OnlyWalks DEF CapReached, Indexing
<1>3. ASSUME NEW i \in Items, Visit(w, i) PROVE SiteInv'
  <2>0. PICK omits \in SUBSET (Patterned \cap {i}) :
               Walks(w, [y EXCEPT !.frontier = @ \ {i}, !.item = i, !.stored = row[i].hash,
                                  !.omits = omits,
                                  !.at = IF y.blind \/ i \in Docs \cap omits
                                         THEN "skip" ELSE "fetch"])
    BY <1>3 DEF Visit
  <2> DEFINE at == IF y.blind \/ i \in Docs \cap omits THEN "skip" ELSE "fetch"
             f == y.frontier \ {i}
             h == row[i].hash
             x == [y EXCEPT !.frontier = f, !.item = i, !.stored = h, !.omits = omits, !.at = at]
  <2>1. at \in {"skip", "fetch"} /\ h \in Nat /\ i \in y.frontier /\ f \in SUBSET Items
        /\ omits \in SUBSET Items
    BY <1>1, <1>3 DEF Visit, SiteInv, SiteTypes, RowType, WalkType
  <2>2. Walks(w, x)
    BY <2>0
  <2>3. f \subseteq y.queued /\ y.missed \subseteq y.queued \ f /\ i \in y.queued \ (f \cup y.missed)
    BY <1>1, <2>1 DEF WalkOk
  <2> HIDE DEF at, f, h
  <2>4. x \in WalkType /\ x.at = at /\ x.item = i /\ x.frontier = f /\ x.queued = y.queued /\ x.missed = y.missed
    BY <1>1, <2>1 DEF WalkType
  <2> HIDE DEF x
  <2>5. WalkOk(x)
    BY <2>1, <2>3, <2>4 DEF WalkOk
  <2>6. holds' \subseteq Crawlers
    BY <1>1, <1>3 DEF Visit
  <2> QED BY <1>3, <2>2, <2>5, <2>6, OnlyWalks DEF Visit, Indexing
<1>4. CASE Success(w)
  <2> DEFINE x == [y EXCEPT !.at = "upsert", !.got = served[y.item]]
  <2>1. WalkOk(x)
    BY <1>1, WalkFacts DEF WalkOk, WalkType
  <2>2. Walks(w, x)
    BY <1>4 DEF Success
  <2> HIDE DEF x
  <2> QED BY <1>1, <1>4, <2>1, <2>2, OnlyWalks DEF Success, Indexing
<1> QED BY <1>2, <1>3, <1>4

LEMMA SkippedKeeps ==
    ASSUME SiteInv, NEW w \in Crawlers, Skipped(w)
    PROVE  SiteInv'
<1> DEFINE i == walk[w].item
           x == Done(walk[w])
<1>1. i \in Items /\ WalkOk(walk[w]) /\ row[i] \in RowType /\ row[i].hash \in Nat
  BY WalkFacts
<1>2. WalkOk(x) /\ Walks(w, x) /\ walk[w].at \notin Indexing /\ UNCHANGED <<served, passages, links, behind>>
      /\ missed' = [missed EXCEPT ![i] = 0] /\ holds' = holds \ {w}
  BY <1>1, DoneIsOk DEF Skipped, Indexing
<1>3. row' = [row EXCEPT ![i] = [row[i] EXCEPT !.held = TRUE, !.hash = row[i].hash, !.failed_runs = 0]]
  BY <1>1 DEF Skipped, SiteInv, SiteTypes, RowType
<1> HIDE DEF i, x
<1>4. /\ row' \in [Items -> RowType] /\ missed' \in [Items -> Nat] /\ RunsCounted'
      /\ row'[i].hash = row[i].hash /\ row'[i].excluded = row[i].excluded
      /\ \A k \in Items : k # i => row'[k] = row[k]
  BY <1>1, <1>2, <1>3, GoodRun
<1>5. walk' \in [Crawlers -> WalkType] /\ WalksOk' /\ \A v \in Crawlers : v # w => walk'[v] = walk[v]
  BY <1>2, OneWalks
<1>6. SiteTypes'
  BY <1>2, <1>4, <1>5 DEF SiteInv, SiteTypes
<1>7. ASSUME NEW k \in Items PROVE IndexLeft(k)
  BY <1>2, <1>4 DEF IndexLeft
<1>8. ASSUME NEW k \in Items PROVE IndexedAt(k)'
  BY <1>2, <1>5, <1>7, IndexKept
<1> QED BY <1>4, <1>5, <1>6, <1>8 DEF SiteInv

LEMMA NotModifiedKeeps ==
    ASSUME SiteInv, NEW w \in Crawlers, NotModified(w)
    PROVE  SiteInv'
<1> DEFINE i == walk[w].item
           y == [walk[w] EXCEPT !.answered = TRUE]
           found == IF w \in holds THEN Followed(walk[w], links[i]) ELSE {}
           x == Pushed(Done(y), found)
<1>1. i \in Items /\ WalkOk(walk[w]) /\ row[i] \in RowType /\ links[i] \in SUBSET Items
  BY WalkFacts
<1>2. /\ Walks(w, x) /\ walk[w].at \notin Indexing /\ UNCHANGED <<served, passages, links, behind>>
      /\ holds' = holds \ {w}
      /\ IF w \in holds
         THEN row' = [row EXCEPT ![i].failed_runs = 0] /\ missed' = [missed EXCEPT ![i] = 0]
         ELSE UNCHANGED <<row, missed>>
  BY DEF NotModified, Indexing
<1>3. WalkOk(x)
  <2>1. WalkOk(y)
    BY <1>1, AnsweredIsOk
  <2>2. found \in SUBSET Items
    BY <1>1 DEF Followed
  <2> HIDE DEF y, found
  <2>3. WalkOk(Done(y)) /\ Done(y).at = "walk"
    BY <2>1, DoneIsOk
  <2> QED BY <2>2, <2>3, PushedIsOk
<1> HIDE DEF x
<1>4. /\ row' \in [Items -> RowType] /\ missed' \in [Items -> Nat] /\ RunsCounted'
      /\ row'[i].hash = row[i].hash /\ row'[i].excluded = row[i].excluded
      /\ \A k \in Items : k # i => row'[k] = row[k]
  <2>1. CASE w \in holds
    <3>1. row[i].hash \in Nat /\ row[i].held \in BOOLEAN
      BY <1>1 DEF RowType
    <3>2. row' = [row EXCEPT ![i] = [row[i] EXCEPT !.held = row[i].held, !.hash = row[i].hash, !.failed_runs = 0]]
      BY <1>1, <1>2, <2>1 DEF SiteInv, SiteTypes, RowType
    <3> HIDE DEF i
    <3> QED BY <1>1, <1>2, <2>1, <3>1, <3>2, GoodRun
  <2>2. CASE w \notin holds
    BY <1>2, <2>2 DEF SiteInv, SiteTypes, RunsCounted
  <2> QED BY <2>1, <2>2
<1> HIDE DEF i
<1>5. walk' \in [Crawlers -> WalkType] /\ WalksOk' /\ \A v \in Crawlers : v # w => walk'[v] = walk[v]
  BY <1>2, <1>3, OneWalks
<1>6. SiteTypes'
  BY <1>2, <1>4, <1>5 DEF SiteInv, SiteTypes
<1>7. ASSUME NEW k \in Items PROVE IndexLeft(k)
  BY <1>2, <1>4 DEF IndexLeft
<1>8. ASSUME NEW k \in Items PROVE IndexedAt(k)'
  BY <1>2, <1>5, <1>7, IndexKept
<1> QED BY <1>4, <1>5, <1>6, <1>8 DEF SiteInv

LEMMA UpsertKeeps ==
    ASSUME SiteInv, NEW w \in Crawlers, Upsert(w)
    PROVE  SiteInv'
<1> DEFINE i == walk[w].item
           got == walk[w].got
           kept == walk[w].stored = got \/ i \in walk[w].omits
           at == IF kept THEN "links" ELSE "index"
           x == [walk[w] EXCEPT !.at = at, !.answered = TRUE]
<1>1. i \in Items /\ WalkOk(walk[w]) /\ walk[w] \in WalkType /\ row[i] \in RowType /\ got \in Nat
  BY WalkFacts DEF WalkType
<1>2. /\ walk[w].at = "upsert" /\ Walks(w, x) /\ UNCHANGED <<served, passages, links>>
      /\ missed' = [missed EXCEPT ![i] = 0] /\ holds' = holds \cup {w}
      /\ behind' = IF kept /\ row[i].hash # got THEN behind \cup {i} ELSE behind
  BY DEF Upsert
<1>3. row' = [row EXCEPT ![i] = [row[i] EXCEPT !.held = TRUE, !.hash = got, !.failed_runs = 0]]
  BY <1>1 DEF Upsert, SiteInv, SiteTypes, RowType
<1>4. WalkOk(x) /\ x.at = at /\ x.item = i
  <2>1. at \in {"links", "index"}
    OBVIOUS
  <2> HIDE DEF at
  <2>2. x \in WalkType /\ x.at = at /\ x.item = i /\ x.got = got /\ x.frontier = walk[w].frontier
        /\ x.queued = walk[w].queued /\ x.missed = walk[w].missed
    BY <1>1, <2>1 DEF WalkType
  <2> HIDE DEF x
  <2> QED BY <1>1, <1>2, <2>1, <2>2 DEF WalkOk
<1> HIDE DEF i, got, x
<1>5. /\ row' \in [Items -> RowType] /\ missed' \in [Items -> Nat] /\ RunsCounted'
      /\ row'[i].hash = got /\ row'[i].excluded = row[i].excluded
      /\ \A k \in Items : k # i => row'[k] = row[k]
  BY <1>1, <1>2, <1>3, GoodRun
<1>6. /\ walk' \in [Crawlers -> WalkType] /\ WalksOk'
      /\ walk'[w] = x /\ \A v \in Crawlers : v # w => walk'[v] = walk[v]
  BY <1>2, <1>4, OneWalks
<1>7. SiteTypes'
  BY <1>1, <1>2, <1>5, <1>6 DEF SiteInv, SiteTypes
<1>8. ASSUME NEW k \in Items PROVE IndexedAt(k)'
  <2>1. CASE k = i /\ ~kept
    BY <1>4, <1>6, <2>1 DEF IndexedAt, Indexing
  <2>2. CASE k = i /\ kept /\ row[i].hash # got
    BY <1>2, <2>2 DEF IndexedAt
  <2>3. CASE k # i \/ (kept /\ row[i].hash = got)
    <3>1. IndexLeft(k)
      BY <1>2, <1>5, <2>3 DEF IndexLeft
    <3> QED BY <1>2, <1>6, <3>1, IndexKept DEF Indexing
  <2> QED BY <2>1, <2>2, <2>3
<1> QED BY <1>5, <1>6, <1>7, <1>8 DEF SiteInv

-----------------------------------------------------------------------------
(* Misses. *)

(* The failed_runs of an address when S is missed. *)
RunsOf(i, S) == row[i].failed_runs + IF i \in S THEN 1 ELSE 0

LEMMA MissesCount ==
    ASSUME SiteInv, NEW w \in Crawlers, NEW S, S \cap walk[w].missed = {}, Missed(w, S), NEW i \in Items
    PROVE  /\ missed'[i] \in Nat /\ RunsOf(i, S) \in Nat
           /\ RunsOf(i, S) < GONE_AFTER_RUNS => RunsOf(i, S) <= missed'[i]
           /\ RunsOf(i, S) >= GONE_AFTER_RUNS => i \in S /\ missed'[i] >= GONE_AFTER_RUNS
<1> DEFINE f == row[i].failed_runs
           n == missed[i]
<1>1. GONE_AFTER_RUNS \in Nat /\ f \in 0 .. GONE_AFTER_RUNS - 1 /\ n \in Nat /\ f <= n
  BY SiteAssumption DEF SiteInv, SiteTypes, RowType, RunsCounted
<1>2. missed'[i] = IF i \in S /\ n < GONE_AFTER_RUNS THEN n + 1 ELSE n
  BY DEF Missed
<1>3. RunsOf(i, S) = f + IF i \in S THEN 1 ELSE 0
  BY DEF RunsOf
<1> HIDE DEF f, n
<1> QED BY <1>1, <1>2, <1>3

(* The rows of S are missed, and those that are spent are deleted. *)
LEMMA AgesKeep ==
    ASSUME SiteInv, NEW w \in Crawlers, NEW S, S \cap walk[w].missed = {}, Missed(w, S),
           NEW wk, WalkOk(wk), Walks(w, wk), walk[w].at \notin Indexing, UNCHANGED served,
           NEW T \in SUBSET Items, Delete(w, T), row' \in [Items -> RowType],
           \A i \in Items : IF RunsOf(i, S) >= GONE_AFTER_RUNS THEN i \in T /\ row'[i] = NoRow
                            ELSE /\ i \notin T /\ row'[i].failed_runs = RunsOf(i, S)
                                 /\ row'[i].hash = row[i].hash /\ row'[i].excluded = row[i].excluded
                                 /\ row[i].held => row'[i].held
    PROVE  SiteInv' /\ \A i \in Items : row[i].held /\ ~row'[i].held => missed'[i] >= GONE_AFTER_RUNS
<1>1. /\ walk' \in [Crawlers -> WalkType] /\ WalksOk' /\ \A v \in Crawlers : v # w => walk'[v] = walk[v]
  BY OneWalks
<1>2. missed' \in [Items -> Nat]
  <2>1. missed' = [i \in Items |-> missed'[i]]
    BY DEF Missed
  <2>2. \A i \in Items : missed'[i] \in Nat
    BY MissesCount
  <2> QED BY <2>1, <2>2
<1>3. /\ passages' = [i \in Items |-> IF i \in T THEN 0 ELSE passages[i]]
      /\ links' = [i \in Items |-> IF i \in T THEN {} ELSE links[i]]
      /\ holds' \subseteq holds /\ behind' = behind \ T
  BY DEF Delete
<1>4. SiteTypes'
  BY <1>1, <1>2, <1>3 DEF SiteInv, SiteTypes
<1>5. RunsCounted'
  <2> SUFFICES ASSUME NEW i \in Items PROVE row'[i].failed_runs <= missed'[i]
    BY DEF RunsCounted
  <2>1. CASE RunsOf(i, S) >= GONE_AFTER_RUNS
    BY <1>2, <2>1, NoRowType
  <2>2. CASE ~(RunsOf(i, S) >= GONE_AFTER_RUNS)
    <3>1. RunsOf(i, S) \in Nat /\ GONE_AFTER_RUNS \in Nat
      BY MissesCount, SiteAssumption
    <3>2. RunsOf(i, S) <= missed'[i]
      BY <2>2, <3>1, MissesCount
    <3> QED BY <2>2, <3>2
  <2> QED BY <2>1, <2>2
<1>6. ASSUME NEW i \in Items PROVE IndexedAt(i)'
  <2>1. IndexLeft(i)
    BY <1>3, NoRowType DEF IndexLeft
  <2> QED BY <1>1, <2>1, IndexKept
<1>7. ASSUME NEW i \in Items, row[i].held, ~row'[i].held PROVE missed'[i] >= GONE_AFTER_RUNS
  <2>1. RunsOf(i, S) >= GONE_AFTER_RUNS
    BY <1>7
  <2> QED BY <2>1, MissesCount
<1> QED BY <1>1, <1>4, <1>5, <1>6, <1>7 DEF SiteInv

(* A row is deleted when the site said so, or when enough runs missed it. *)
KeptStep == \A i \in Items : row[i].held /\ ~row'[i].held => served[i] = 0 \/ missed'[i] >= GONE_AFTER_RUNS

LEMMA FetchFailsKeeps ==
    ASSUME SiteInv, NEW w \in Crawlers, FetchFails(w)
    PROVE  SiteInv' /\ KeptStep
<1> DEFINE i == walk[w].item
           count == [k \in Items |-> row[k].failed_runs + IF k = i THEN 1 ELSE 0]
           T == {i} \cap Spent(count)
           y == [walk[w] EXCEPT !.missed = walk[w].missed \cup {i}]
           r == IF i \in Spent(count) THEN NoRow ELSE [row[i] EXCEPT !.held = TRUE, !.failed_runs = count[i]]
<1>1. i \in Items /\ WalkOk(walk[w]) /\ walk[w] \in WalkType /\ row[i] \in RowType
  BY WalkFacts
<1>2. /\ walk[w].at = "fetch" /\ Walks(w, Done(y)) /\ UNCHANGED served
      /\ Delete(w, T) /\ Missed(w, {i})
      /\ row' = [row EXCEPT ![i] = r]
  BY DEF FetchFails
<1>3. WalkOk(Done(y))
  <2>1. i \in walk[w].queued \ (walk[w].frontier \cup walk[w].missed)
    BY <1>1, <1>2 DEF WalkOk
  <2> HIDE DEF i
  <2>2. /\ y \in WalkType /\ y.missed = walk[w].missed \cup {i} /\ y.frontier = walk[w].frontier
        /\ y.queued = walk[w].queued
    BY <1>1, <1>2, <2>1 DEF WalkType
  <2> HIDE DEF y
  <2>3. y.frontier \subseteq y.queued /\ y.missed \subseteq y.queued \ y.frontier
    BY <1>1, <2>1, <2>2 DEF WalkOk
  <2> QED BY <2>2, <2>3, SiteAssumption DEF Done, WalkOk, WalkType
<1>4. {i} \cap walk[w].missed = {}
  BY <1>1, <1>2 DEF WalkOk
<1>5. \A k \in Items : count[k] = RunsOf(k, {i})
  BY DEF RunsOf
<1>6. \A k \in Items : k \in Spent(count) <=> RunsOf(k, {i}) >= GONE_AFTER_RUNS
  BY <1>5 DEF Spent
<1>7. \A k \in Items : RunsOf(k, {i}) >= GONE_AFTER_RUNS => k = i
  <2> HIDE DEF i
  <2> QED BY <1>2, <1>4, MissesCount
<1>8. r \in RowType /\ IF RunsOf(i, {i}) >= GONE_AFTER_RUNS THEN r = NoRow
                       ELSE /\ r.failed_runs = RunsOf(i, {i}) /\ r.held
                            /\ r.hash = row[i].hash /\ r.excluded = row[i].excluded
  <2>1. CASE i \in Spent(count)
    <3>1. r = NoRow
      BY <2>1
    <3> HIDE DEF r, count
    <3> QED BY <1>1, <1>6, <2>1, <3>1, NoRowType
  <2>2. CASE i \notin Spent(count)
    <3> DEFINE n == count[i]
    <3>1. n = RunsOf(i, {i}) /\ n \in 0 .. GONE_AFTER_RUNS - 1
      <4>1. n = RunsOf(i, {i}) /\ ~(RunsOf(i, {i}) >= GONE_AFTER_RUNS)
        BY <1>1, <1>5, <1>6, <2>2
      <4>2. RunsOf(i, {i}) \in Nat /\ GONE_AFTER_RUNS \in Nat
        <5> HIDE DEF i
        <5> QED BY <1>1, <1>2, <1>4, MissesCount, SiteAssumption
      <4> HIDE DEF n, i
      <4> QED BY <4>1, <4>2
    <3>2. r = [row[i] EXCEPT !.held = TRUE, !.failed_runs = n]
      BY <2>2
    <3> HIDE DEF n, r, i, count
    <3>3. r \in RowType /\ r.failed_runs = n /\ r.held /\ r.hash = row[i].hash /\ r.excluded = row[i].excluded
      BY <1>1, <3>1, <3>2, Zenon DEF RowType
    <3> QED BY <1>1, <1>6, <2>2, <3>1, <3>3
  <2> QED BY <2>1, <2>2
<1>9. /\ row' \in [Items -> RowType] /\ row'[i] = r /\ \A k \in Items : k # i => row'[k] = row[k]
  <2> HIDE DEF r, i
  <2> QED BY <1>1, <1>2, <1>8 DEF SiteInv, SiteTypes
<1>10. T \in SUBSET Items /\ \A k \in Items : k \in T <=> RunsOf(k, {i}) >= GONE_AFTER_RUNS
  BY <1>1, <1>6, <1>7
<1>11. \A k \in Items : k # i => RunsOf(k, {i}) = row[k].failed_runs
  BY DEF RunsOf, SiteInv, SiteTypes, RowType
<1>12. walk[w].at \notin Indexing
  BY <1>2 DEF Indexing
<1> HIDE DEF r, i, T, y, count
<1>13. \A k \in Items : IF RunsOf(k, {i}) >= GONE_AFTER_RUNS THEN k \in T /\ row'[k] = NoRow
                        ELSE /\ k \notin T /\ row'[k].failed_runs = RunsOf(k, {i})
                             /\ row'[k].hash = row[k].hash /\ row'[k].excluded = row[k].excluded
                             /\ row[k].held => row'[k].held
  BY <1>7, <1>8, <1>9, <1>10, <1>11
<1>14. SiteInv' /\ \A k \in Items : row[k].held /\ ~row'[k].held => missed'[k] >= GONE_AFTER_RUNS
  BY <1>2, <1>3, <1>4, <1>9, <1>10, <1>12, <1>13, AgesKeep
<1> QED BY <1>14 DEF KeptStep

LEMMA GoneKeeps ==
    ASSUME SiteInv, NEW w \in Crawlers, Gone(w)
    PROVE  SiteInv' /\ KeptStep
<1> DEFINE i == walk[w].item
           x == Done(walk[w])
<1>1. i \in Items /\ WalkOk(walk[w])
  BY WalkFacts
<1>2. /\ walk[w].at \notin Indexing /\ served[i] = 0 /\ row' = [row EXCEPT ![i] = NoRow]
      /\ Walks(w, x) /\ UNCHANGED <<served, missed>>
      /\ passages' = [k \in Items |-> IF k \in {i} THEN 0 ELSE passages[k]]
      /\ links' = [k \in Items |-> IF k \in {i} THEN {} ELSE links[k]]
      /\ holds' \subseteq holds /\ behind' = behind \ {i}
  BY DEF Gone, Delete, Indexing
<1>3. WalkOk(x)
  BY <1>1, DoneIsOk
<1> HIDE DEF i, x
<1>4. /\ walk' \in [Crawlers -> WalkType] /\ WalksOk' /\ \A v \in Crawlers : v # w => walk'[v] = walk[v]
  BY <1>2, <1>3, OneWalks
<1>5. row' \in [Items -> RowType] /\ row'[i] = NoRow /\ \A k \in Items : k # i => row'[k] = row[k]
  BY <1>1, <1>2, NoRowType DEF SiteInv, SiteTypes
<1>6. SiteTypes'
  BY <1>2, <1>4, <1>5 DEF SiteInv, SiteTypes
<1>7. RunsCounted'
  <2>1. \A k \in Items : missed[k] \in Nat
    BY DEF SiteInv, SiteTypes
  <2> QED BY <1>2, <1>5, <2>1, NoRowType DEF SiteInv, RunsCounted
<1>8. ASSUME NEW k \in Items PROVE IndexedAt(k)'
  <2>1. IndexLeft(k)
    BY <1>2, <1>5, NoRowType DEF IndexLeft
  <2> QED BY <1>2, <1>4, <2>1, IndexKept
<1> QED BY <1>2, <1>4, <1>5, <1>6, <1>7, <1>8 DEF SiteInv, KeptStep

LEMMA CrawlEndsKeep ==
    ASSUME SiteInv, NEW w \in Crawlers, EndCrawl(w)
    PROVE  SiteInv' /\ KeptStep
<1> DEFINE S == Unreached(w)
           count == [i \in Items |-> row[i].failed_runs + IF i \in S THEN 1 ELSE 0]
           T == Spent(count)
<1>1. WalkOk(walk[w]) /\ walk[w].at \notin Indexing /\ Walks(w, Idle) /\ UNCHANGED served
  BY WalkFacts DEF EndCrawl, Indexing
<1>2. CASE row' = Aged(count) /\ Delete(w, T) /\ Missed(w, S)
  <2>1. S \cap walk[w].missed = {}
    BY <1>1 DEF Unreached, WalkOk
  <2>2. \A i \in Items : count[i] = RunsOf(i, S)
    BY DEF RunsOf
  <2>3. T \in SUBSET Items /\ \A i \in Items : i \in T <=> RunsOf(i, S) >= GONE_AFTER_RUNS
    BY <2>2 DEF Spent
  <2>4. row' = [i \in Items |-> IF i \in T THEN NoRow ELSE [row[i] EXCEPT !.failed_runs = count[i]]]
    BY <1>2 DEF Aged
  <2> HIDE DEF S, T, count
  <2>5. ASSUME NEW i \in Items, i \notin T
        PROVE  /\ row'[i] \in RowType /\ row'[i].failed_runs = RunsOf(i, S)
               /\ row'[i].hash = row[i].hash /\ row'[i].excluded = row[i].excluded
               /\ row'[i].held = row[i].held
    <3>1. RunsOf(i, S) \in Nat /\ GONE_AFTER_RUNS \in Nat /\ ~(RunsOf(i, S) >= GONE_AFTER_RUNS)
      BY <1>2, <2>1, <2>3, <2>5, MissesCount, SiteAssumption
    <3>2. RunsOf(i, S) \in 0 .. GONE_AFTER_RUNS - 1
      BY <3>1
    <3>3. row[i] \in RowType
      BY DEF SiteInv, SiteTypes
    <3>4. row'[i] = [row[i] EXCEPT !.failed_runs = RunsOf(i, S)]
      BY <2>2, <2>4, <2>5
    <3> QED BY <3>2, <3>3, <3>4, Zenon DEF RowType
  <2>6. ASSUME NEW i \in Items, i \in T PROVE row'[i] = NoRow /\ row'[i] \in RowType
    BY <2>4, <2>6, NoRowType
  <2>7. row' \in [Items -> RowType]
    <3>1. \A i \in Items : row'[i] \in RowType
      BY <2>5, <2>6
    <3> QED BY <2>4, <3>1
  <2>8. \A i \in Items : IF RunsOf(i, S) >= GONE_AFTER_RUNS THEN i \in T /\ row'[i] = NoRow
                         ELSE /\ i \notin T /\ row'[i].failed_runs = RunsOf(i, S)
                              /\ row'[i].hash = row[i].hash /\ row'[i].excluded = row[i].excluded
                              /\ row[i].held => row'[i].held
    BY <2>3, <2>5, <2>6
  <2>9. SiteInv' /\ \A i \in Items : row[i].held /\ ~row'[i].held => missed'[i] >= GONE_AFTER_RUNS
    BY <1>1, <1>2, <2>1, <2>3, <2>7, <2>8, IdleIsOk, AgesKeep
  <2> QED BY <2>9 DEF KeptStep
<1>3. CASE UNCHANGED <<row, passages, links, holds, missed, behind>>
  <2>1. holds' \subseteq Crawlers
    BY <1>3 DEF SiteInv, SiteTypes
  <2>2. SiteInv'
    BY <1>1, <1>3, <2>1, IdleIsOk, OnlyWalks
  <2> QED BY <1>3, <2>2 DEF KeptStep
<1> QED BY <1>2, <1>3 DEF EndCrawl

LEMMA IndexingKeeps ==
    ASSUME SiteInv, NEW w \in Crawlers, Excluded(w) \/ Extract(w) \/ Store(w) \/ IndexFails(w)
    PROVE  SiteInv'
<1> DEFINE i == walk[w].item
           y == walk[w]
<1>1. i \in Items /\ WalkOk(y) /\ y.got \in Nat
  BY WalkFacts DEF WalkType
<1>2. y.at \in Indexing /\ UNCHANGED <<served, row, links, holds, missed>>
  BY DEF Excluded, Extract, Store, IndexFails, Indexing
<1>3. PICK at \in {"store", "links"} : Walks(w, [y EXCEPT !.at = at]) /\ (Extract(w) => at = "store")
  BY DEF Excluded, Extract, Store, IndexFails
<1> DEFINE x == [y EXCEPT !.at = at]
<1>4. WalkOk(x) /\ x.at = at /\ x.item = i
  BY <1>1, <1>2, MovesOk DEF Indexing
<1>5. passages' \in [Items -> Nat] /\ behind' \subseteq Items
  BY <1>1 DEF Excluded, Extract, Store, IndexFails, SiteInv, SiteTypes
<1>6. /\ walk' \in [Crawlers -> WalkType] /\ WalksOk'
      /\ walk'[w] = x /\ \A v \in Crawlers : v # w => walk'[v] = walk[v]
  BY <1>3, <1>4, OneWalks
<1>7. SiteTypes' /\ RunsCounted'
  BY <1>2, <1>5, <1>6 DEF SiteInv, SiteTypes, RunsCounted
<1>8. ASSUME NEW k \in Items PROVE IndexedAt(k)'
  <2>1. CASE k # i
    <3>1. passages'[k] = passages[k] /\ (k \in behind => k \in behind')
      BY <1>1, <2>1 DEF Excluded, Extract, Store, IndexFails, SiteInv, SiteTypes
    <3>2. IndexLeft(k)
      BY <1>2, <3>1 DEF IndexLeft
    <3>3. \A v \in Crawlers : walk[v].item = k => v # w
      BY <2>1
    <3> QED BY <1>6, <3>2, <3>3, IndexKept
  <2>2. CASE k = i /\ Excluded(w)
    BY <1>2, <2>2 DEF Excluded, IndexedAt
  <2>3. CASE k = i /\ Extract(w)
    BY <1>3, <1>4, <1>6, <2>3 DEF IndexedAt, Indexing
  <2>4. CASE k = i /\ Store(w)
    <3>1. passages'[i] = y.got /\ behind' = IF row[i].hash = y.got THEN behind \ {i} ELSE behind \cup {i}
      BY <1>1, <2>4 DEF Store, SiteInv, SiteTypes
    <3> QED BY <1>2, <2>4, <3>1 DEF IndexedAt
  <2>5. CASE k = i /\ IndexFails(w)
    BY <2>5 DEF IndexFails, IndexedAt
  <2> QED BY <2>1, <2>2, <2>3, <2>4, <2>5
<1> QED BY <1>6, <1>7, <1>8 DEF SiteInv

LEMMA LinksKeep ==
    ASSUME SiteInv, NEW w \in Crawlers, RecordLinks(w)
    PROVE  SiteInv'
<1> DEFINE i == walk[w].item
           found == LinksIn(i, walk[w].got)
           x == Pushed(Done(walk[w]), Followed(walk[w], found))
<1>1. i \in Items /\ WalkOk(walk[w]) /\ walk[w].at = "links" /\ found \in SUBSET Items
  BY WalkFacts, SiteAssumption DEF RecordLinks, WalkOk
<1>2. /\ Walks(w, x) /\ UNCHANGED <<served, row, passages, missed, behind>>
      /\ links' = [links EXCEPT ![i] = links[i] \cup found] /\ holds' = holds \ {w}
  BY DEF RecordLinks
<1>3. WalkOk(x)
  <2>1. Followed(walk[w], found) \in SUBSET Items
    BY <1>1 DEF Followed
  <2>2. WalkOk(Done(walk[w])) /\ Done(walk[w]).at = "walk"
    BY <1>1, DoneIsOk
  <2> QED BY <2>1, <2>2, PushedIsOk
<1> HIDE DEF i, found, x
<1>4. /\ walk' \in [Crawlers -> WalkType] /\ WalksOk' /\ \A v \in Crawlers : v # w => walk'[v] = walk[v]
  BY <1>2, <1>3, OneWalks
<1>5. links' \in [Items -> SUBSET Items]
  BY <1>1, <1>2 DEF SiteInv, SiteTypes
<1>6. SiteTypes' /\ RunsCounted'
  BY <1>2, <1>4, <1>5 DEF SiteInv, SiteTypes, RunsCounted
<1>7. ASSUME NEW k \in Items PROVE IndexedAt(k)'
  <2>1. IndexLeft(k)
    BY <1>2 DEF IndexLeft
  <2> QED BY <1>1, <1>4, <2>1, IndexKept DEF Indexing
<1> QED BY <1>4, <1>6, <1>7 DEF SiteInv

LEMMA CutsKeep ==
    ASSUME SiteInv, NEW w \in Crawlers, CutOff(w)
    PROVE  SiteInv'
<1> DEFINE i == walk[w].item
<1>1. i \in Items /\ Walks(w, Idle) /\ UNCHANGED <<served, row, passages, links, missed>>
      /\ behind' = (IF walk[w].at \in Indexing THEN behind \cup {i} ELSE behind) /\ holds' = holds \ {w}
  BY WalkFacts DEF CutOff, Indexing
<1>2. /\ walk' \in [Crawlers -> WalkType] /\ WalksOk' /\ \A v \in Crawlers : v # w => walk'[v] = walk[v]
  BY <1>1, IdleIsOk, OneWalks
<1>3. SiteTypes' /\ RunsCounted'
  BY <1>1, <1>2 DEF SiteInv, SiteTypes, RunsCounted
<1>4. ASSUME NEW k \in Items PROVE IndexedAt(k)'
  <2>1. CASE walk[w].at \in Indexing /\ k = i
    BY <1>1, <2>1 DEF IndexedAt
  <2>2. CASE ~(walk[w].at \in Indexing /\ k = i)
    <3>1. IndexLeft(k)
      BY <1>1 DEF IndexLeft
    <3> QED BY <1>2, <2>2, <3>1, IndexKept
  <2> QED BY <2>1, <2>2
<1> QED BY <1>2, <1>3, <1>4 DEF SiteInv

(* The website and the administrator. *)
LEMMA EditsKeep ==
    ASSUME SiteInv, NEW i \in Items, SiteChanges(i) \/ Exclude(i) \/ Include(i)
    PROVE  SiteInv' /\ KeptStep
<1>1. walk' = walk /\ UNCHANGED <<links, holds, missed, behind>>
  BY DEF SiteChanges, Exclude, Include
<1>2. WalksOk'
  BY <1>1 DEF SiteInv, WalksOk
<1>3. served' \in [Items -> Nat] /\ \A k \in Items : served'[k] \in Serves(k)
  BY SiteAssumption DEF SiteChanges, Exclude, Include, SiteInv, SiteTypes
<1>4. passages' \in [Items -> Nat] /\ row' \in [Items -> RowType]
  <2>1. row \in [Items -> RowType] /\ passages \in [Items -> Nat] /\ row[i] \in RowType
    BY DEF SiteInv, SiteTypes
  <2>2. [row[i] EXCEPT !.excluded = TRUE] \in RowType /\ [row[i] EXCEPT !.excluded = FALSE, !.hash = 0] \in RowType
    BY <2>1, Zenon DEF RowType
  <2>3. Exclude(i) => row' = [row EXCEPT ![i] = [row[i] EXCEPT !.excluded = TRUE]] /\ passages' = [passages EXCEPT ![i] = 0]
    BY <2>1 DEF Exclude, RowType
  <2>4. Include(i) => row' = [row EXCEPT ![i] = [row[i] EXCEPT !.excluded = FALSE, !.hash = 0]] /\ passages' = passages
    BY <2>1 DEF Include, RowType
  <2>5. SiteChanges(i) => row' = row /\ passages' = passages
    BY DEF SiteChanges
  <2>6. row' = row \/ \E r \in RowType : row' = [row EXCEPT ![i] = r]
    BY <2>2, <2>3, <2>4, <2>5, Zenon
  <2>7. row' \in [Items -> RowType]
    BY <2>1, <2>6
  <2>8. passages' \in [Items -> Nat]
    BY <2>1, <2>3, <2>4, <2>5
  <2> QED BY <2>7, <2>8
<1>5. \A k \in Items : /\ row'[k].failed_runs = row[k].failed_runs /\ row'[k].held = row[k].held
                       /\ IndexLeft(k)
  BY DEF SiteChanges, Exclude, Include, IndexLeft, SiteInv, SiteTypes, RowType
<1>6. SiteTypes' /\ RunsCounted' /\ KeptStep
  BY <1>1, <1>3, <1>4, <1>5 DEF SiteInv, SiteTypes, RunsCounted, KeptStep
<1>7. ASSUME NEW k \in Items PROVE IndexedAt(k)'
  BY <1>1, <1>5, IndexKept
<1> QED BY <1>2, <1>6, <1>7 DEF SiteInv

-----------------------------------------------------------------------------

LEMMA SiteBegins == SiteInit => SiteInv
<1> SUFFICES ASSUME SiteInit PROVE SiteInv
  OBVIOUS
<1>1. \A i \in Items : (CHOOSE v \in Serves(i) : v # 0) \in Serves(i)
  BY SiteAssumption
<1>2. SiteTypes
  <2>1. served \in [Items -> Nat] /\ \A i \in Items : served[i] \in Serves(i)
    BY <1>1, SiteAssumption DEF SiteInit
  <2> QED BY <2>1, NoRowType, IdleIsOk DEF SiteInit, SiteTypes, WalkOk
<1>3. WalksOk
  BY IdleIsOk DEF SiteInit, WalksOk
<1> QED BY <1>2, <1>3, NoRowType DEF SiteInit, SiteInv, RunsCounted, IndexedAt

(* The other steps of a crawl delete nothing. *)
LEMMA OthersDelete ==
    ASSUME SiteInv, NEW w \in Crawlers, CrawlStep(w), ~FetchFails(w), ~Gone(w), ~EndCrawl(w)
    PROVE  KeptStep
<1>1. \A i \in Items : row[i].held => row'[i].held
  <2>1. CASE row' = row
    BY <2>1
  <2>2. CASE Skipped(w) \/ Upsert(w) \/ NotModified(w)
    <3>1. row \in [Items -> RowType] /\ walk[w].item \in Items
      BY WalkFacts DEF SiteInv, SiteTypes
    <3>2. Skipped(w) => \A i \in Items : row[i].held => row'[i].held
      BY <3>1 DEF Skipped, RowType
    <3>3. Upsert(w) => \A i \in Items : row[i].held => row'[i].held
      BY <3>1 DEF Upsert, RowType
    <3>4. NotModified(w) => \A i \in Items : row[i].held => row'[i].held
      BY <3>1 DEF NotModified, RowType
    <3> QED BY <2>2, <3>2, <3>3, <3>4
  <2> QED BY <2>1, <2>2 DEF CrawlStep, BeginCrawl, CapReached, Visit, Success, Excluded, Extract, Store,
                            IndexFails, RecordLinks, CutOff
<1> QED BY <1>1 DEF KeptStep

LEMMA SiteSteps == SiteInv /\ [SiteNext]_siteVars => SiteInv' /\ KeptStep
<1> SUFFICES ASSUME SiteInv, [SiteNext]_siteVars PROVE SiteInv' /\ KeptStep
  OBVIOUS
<1>1. CASE \E i \in Items : SiteChanges(i) \/ Exclude(i) \/ Include(i)
  BY <1>1, EditsKeep
<1>2. ASSUME NEW w \in Crawlers, CrawlStep(w) PROVE SiteInv' /\ KeptStep
  <2>1. CASE FetchFails(w) \/ Gone(w) \/ EndCrawl(w)
    BY <2>1, FetchFailsKeeps, GoneKeeps, CrawlEndsKeep
  <2>2. CASE ~(FetchFails(w) \/ Gone(w) \/ EndCrawl(w))
    <3>1. KeptStep
      BY <1>2, <2>2, OthersDelete
    <3>2. SiteInv'
      BY <1>2, <2>2, BeginsKeep, WalksKeep, SkippedKeeps, NotModifiedKeeps, UpsertKeeps, IndexingKeeps,
         LinksKeep, CutsKeep DEF CrawlStep
    <3> QED BY <3>1, <3>2
  <2> QED BY <2>1, <2>2
<1>3. CASE UNCHANGED siteVars
  <2>1. UNCHANGED <<served, row, passages, links, walk, holds, missed, behind>>
    BY <1>3 DEF siteVars
  <2>2. SiteTypes' /\ WalksOk' /\ RunsCounted'
    BY <2>1 DEF SiteInv, SiteTypes, WalksOk, RunsCounted
  <2>3. ASSUME NEW k \in Items PROVE IndexedAt(k)'
    BY <2>1 DEF SiteInv, IndexedAt
  <2> QED BY <2>1, <2>2, <2>3 DEF SiteInv, KeptStep
<1> QED BY <1>1, <1>2, <1>3 DEF SiteNext

LEMMA SiteIsInv == SiteSpec => []SiteInv
BY SiteBegins, SiteSteps, PTL DEF SiteSpec

(* For any site and any crawls, cut where they may be: an address leaves the *)
(* knowledge only when the site says it is gone, or with the miss of as many *)
(* runs in a row as it takes (record_failed_page, age_unreached, forget).    *)
THEOREM PagesAreKept == SiteSpec => KeptUntilGone
<1>1. SiteInv /\ [SiteNext]_siteVars =>
        [\A i \in Items : row[i].held /\ ~row'[i].held
                            => served[i] = 0 \/ missed'[i] >= GONE_AFTER_RUNS]_siteVars
  BY SiteSteps DEF KeptStep
<1> QED BY <1>1, SiteIsInv, PTL DEF SiteSpec, KeptUntilGone

(* A page that is not excluded is indexed as of its hash, or a crawl is      *)
(* about to, unless a cut between storing the hash and indexing the text, a  *)
(* failure of the Indexer, or two crawls that crossed left it behind         *)
(* (upsert_page_fetched, Indexer::index, apply_inclusion).                   *)
THEOREM HashesAreIndexed == SiteSpec => []IndexedUnlessBehind
<1>1. SiteInv => IndexedUnlessBehind
  BY DEF SiteInv, IndexedAt, IndexedUnlessBehind, Indexing
<1> QED BY <1>1, SiteIsInv, PTL

(* The rows, the crawls and the histories keep their types. *)
THEOREM SiteIsTyped == SiteSpec => []SiteTypeOK
<1>1. SiteInv => SiteTypeOK
  BY DEF SiteInv, SiteTypes, SiteTypeOK, RowType, WalkType
<1> QED BY <1>1, SiteIsInv, PTL

-----------------------------------------------------------------------------
(***************************************************************************)
(* For any runs, sessions and numbers of hand-overs and calls: the grants  *)
(* of the agent proxy.                                                     *)
(*                                                                         *)
(* The types carry what a task knows where it stands (TaskKnows): the      *)
(* realm makes each grant once, so one that is held, alive or in a task's  *)
(* hands never becomes another's.                                          *)
(***************************************************************************)

(* What a hand-over has checked, and what a retirement has in hand. *)
TaskKnows(t) ==
    /\ task[t].at \in {"resolved", "checked", "exchanged"}
         => task[t].run \in RunIds /\ task[t].session \in Sessions
    /\ task[t].at \in {"resolved", "checked", "ending"} => task[t].grant = NoGrant
    /\ task[t].at \in {"checked", "exchanged"}
         => PersonOf[task[t].session] = CreatedBy[task[t].run]
    /\ task[t].at = "exchanged"
         => task[t].grant \in GrantIds /\ session_of[task[t].grant] = task[t].session
    /\ task[t].at \in {"retire", "lock", "revoke"}
         => task[t].grant \in GrantIds /\ session_of[task[t].grant] \in Sessions
    /\ task[t].at = "ending" => task[t].run \in RunIds

GrantsTypes ==
    /\ GrantsTypeOK
    /\ \A g \in alive : session_of[g] \in Sessions
    /\ \A t \in Tasks : TaskKnows(t)
    /\ \A c \in ReadCalls : reading[c].at # "idle" => reading[c].run \in RunIds
                                                     /\ reading[c].grant \in GrantIds

LEMMA GrantsTypesInit == GrantsInit => GrantsTypes
  BY GrantsAssumption DEF GrantsInit, GrantsTypes, GrantsTypeOK, TaskType, ReadType, IdleTask,
     IdleRead, TaskKnows, NoGrant, GrantIds

(* A step that makes no grant keeps what is said of the grants. *)
LEMMA TypesOfTheRealm ==
  ASSUME GrantsTypes,
         \/ \E r \in RunIds : RunFinishes(r)
         \/ \E s \in Sessions : SignsOut(s)
         \/ \E g \in GrantIds : AccessExpires(g)
  PROVE  GrantsTypes'
  BY DEF GrantsTypes, GrantsTypeOK, TaskKnows, OwnPerson, RunFinishes, SignsOut, AccessExpires,
     realmVars, historyVars, GrantsOf

LEMMA TypesOfBinds ==
  ASSUME GrantsTypes, NEW b \in HandOvers, Binds(b)
  PROVE  GrantsTypes'
<1> USE GrantsAssumption DEF GrantsTypes, GrantsTypeOK, realmVars, historyVars, Tasks
<1>1. ASSUME NEW r \in RunIds, NEW s \in Sessions, HandOver(b, r, s) PROVE GrantsTypes'
  BY <1>1 DEF HandOver, TaskType, TaskKnows, OwnPerson
<1>2. CASE Introspect(b)
  BY <1>2 DEF Introspect, GoesTo, TaskEnds, IdleTask, IsTheirs, TaskType, TaskKnows, OwnPerson,
     NoGrant
<1>3. CASE Exchange(b)
  <2>1. PICK g \in GrantIds :
          /\ session_of[g] = NoSession
          /\ session_of' = [session_of EXCEPT ![g] = task[b].session]
          /\ alive' = alive \cup {g}
          /\ \/ /\ task' = [task EXCEPT ![b].at = "exchanged", ![b].grant = g]
                /\ unexpired' = unexpired \cup {g}
                /\ overtaken' \subseteq overtaken \cup {g}
                /\ UNCHANGED unrevoked
             \/ /\ TaskEnds(b)
                /\ unrevoked' = unrevoked \cup {task[b].session}
                /\ UNCHANGED <<unexpired, overtaken>>
    BY <1>3 DEF Exchange, IsNext
  <2>2. task[b].session \in Sessions /\ task[b].run \in RunIds
        /\ PersonOf[task[b].session] = CreatedBy[task[b].run]
    BY <1>3 DEF Exchange, TaskKnows
  <2>3. /\ session_of' \in [GrantIds -> Sessions \cup {NoSession}]
        /\ \A h \in GrantIds : session_of[h] \in Sessions => session_of'[h] = session_of[h]
        /\ session_of'[g] = task[b].session
    BY <2>1, <2>2
  <2>4. \A t \in Tasks : TaskKnows(t)'
    BY <2>1, <2>2, <2>3 DEF TaskKnows, TaskType, TaskEnds, IdleTask
  <2>5. task' \in [Tasks -> TaskType]
    BY <2>1 DEF TaskType, TaskEnds, IdleTask
  <2>6. \A r \in RunIds : grant_of'[r] # NoGrant => OwnPerson(r, grant_of[r])'
    BY <1>3, <2>3 DEF Exchange, OwnPerson, NoGrant
  <2>7. \A h \in alive' : session_of'[h] \in Sessions
    BY <2>1, <2>2, <2>3
  <2>8. QED
    BY <1>3, <2>1, <2>2, <2>3, <2>4, <2>5, <2>6, <2>7 DEF Exchange
<1>4. CASE Abandon(b)
  <2>1. task' \in [Tasks -> TaskType] /\ \A t \in Tasks : TaskKnows(t)'
    BY <1>4 DEF Abandon, TaskEnds, IdleTask, TaskType, TaskKnows
  <2>2. task[b].grant # NoGrant => session_of[task[b].grant] \in Sessions
    BY <1>4 DEF Abandon, TaskKnows, TaskType
  <2>3. QED
    BY <1>4, <2>1, <2>2 DEF Abandon, OwnPerson
<1>5. CASE Hold(b)
  <2>1. task[b].grant \in GrantIds /\ task[b].run \in RunIds
        /\ OwnPerson(task[b].run, task[b].grant)
    BY <1>5 DEF Hold, TaskKnows, OwnPerson
  <2>2. grant_of[task[b].run] # NoGrant => grant_of[task[b].run] \in GrantIds
                                      /\ session_of[grant_of[task[b].run]] \in Sessions
    BY <2>1 DEF OwnPerson
  <2>3. \A r \in RunIds : grant_of'[r] # NoGrant => OwnPerson(r, grant_of[r])'
    BY <1>5, <2>1 DEF Hold, OwnPerson
  <2>4. task' \in [Tasks -> TaskType] /\ \A t \in Tasks : TaskKnows(t)'
    BY <1>5, <2>1, <2>2 DEF Hold, Retire, IdleTask, TaskType, TaskKnows
  <2>5. QED
    BY <1>5, <2>1, <2>3, <2>4 DEF Hold
<1>6. QED
  BY <1>1, <1>2, <1>3, <1>4, <1>5 DEF Binds

LEMMA TypesOfRetires ==
  ASSUME GrantsTypes, NEW t \in Tasks, Retires(t)
  PROVE  GrantsTypes'
<1> USE GrantsAssumption DEF GrantsTypes, GrantsTypeOK, realmVars, historyVars, OwnPerson
<1>1. CASE RetireLooks(t)
  <2>1. HandedOver(session_of[task[t].grant]) \subseteq GrantIds
    BY DEF HandedOver, TaskKnows, Tasks
  <2>2. task' \in [Tasks -> TaskType] /\ \A u \in Tasks : TaskKnows(u)'
    BY <1>1 DEF RetireLooks, GoesTo, TaskEnds, IdleTask, TaskType, TaskKnows
  <2>3. QED
    BY <1>1, <2>1, <2>2 DEF RetireLooks
<1>2. CASE RetireLocks(t)
  BY <1>2 DEF RetireLocks, GoesTo, TaskType, TaskKnows
<1>3. CASE Revoke(t)
  <2>1. session_of[task[t].grant] \in Sessions
    BY <1>3 DEF Revoke, TaskKnows
  <2>2. task' \in [Tasks -> TaskType] /\ \A u \in Tasks : TaskKnows(u)'
    BY <1>3 DEF Revoke, TaskEnds, IdleTask, TaskType, TaskKnows
  <2>3. QED
    BY <1>3, <2>1, <2>2 DEF Revoke
<1>4. QED
  BY <1>1, <1>2, <1>3 DEF Retires

LEMMA TypesOfSweeps ==
  ASSUME GrantsTypes, Sweeps
  PROVE  GrantsTypes'
<1> USE GrantsAssumption DEF GrantsTypes, GrantsTypeOK, realmVars, historyVars, OwnPerson, Tasks
<1>1. CASE SweepStarts
  BY <1>1 DEF SweepStarts, TaskKnows
<1>2. ASSUME NEW r \in RunIds, SweepPasses(r) PROVE GrantsTypes'
  BY <1>2 DEF SweepPasses, TaskKnows
<1>3. ASSUME NEW r \in RunIds, SweepEnds(r) PROVE GrantsTypes'
  <2>1. task' \in [Tasks -> TaskType]
    BY <1>3 DEF SweepEnds, TaskType, NoGrant
  <2>2. \A t \in Tasks : TaskKnows(t)'
    <3> SUFFICES ASSUME NEW t \in Tasks PROVE TaskKnows(t)'
      OBVIOUS
    <3>1. CASE t = Sweep
      BY <1>3, <3>1 DEF SweepEnds, TaskType, TaskKnows
    <3>2. CASE t # Sweep
      BY <1>3, <3>2 DEF SweepEnds, TaskKnows
    <3>3. QED
      BY <3>1, <3>2
  <2>3. QED
    BY <1>3, <2>1, <2>2 DEF SweepEnds
<1>4. CASE End
  <2>1. task[Sweep].run \in RunIds
    BY <1>4 DEF End, TaskKnows
  <2>2. \A r \in RunIds : grant_of'[r] # NoGrant => OwnPerson(r, grant_of[r])'
    BY <1>4 DEF End
  <2>3. task' \in [Tasks -> TaskType] /\ \A t \in Tasks : TaskKnows(t)'
    BY <1>4, <2>1 DEF End, Retire, IdleTask, TaskType, TaskKnows, OwnPerson
  <2>4. QED
    BY <1>4, <2>1, <2>2, <2>3 DEF End
<1>5. QED
  BY <1>1, <1>2, <1>3, <1>4 DEF Sweeps

(* A call knows its run and the grant it took. *)
ReadKnows(x) == x.at # "idle" => x.run \in RunIds /\ x.grant \in GrantIds

(* A call changes itself alone, and at most drops what its run holds. *)
LEMMA TypesOfOneRead ==
  ASSUME GrantsTypes, NEW c \in ReadCalls, NEW x \in ReadType, ReadKnows(x),
         reading' = [reading EXCEPT ![c] = x],
         UNCHANGED <<active, realmVars, task, todo, overtaken>>,
         unexpired' \subseteq GrantIds, unrevoked' \subseteq Sessions,
         grant_of' \in [RunIds -> GrantIds \cup {NoGrant}],
         \A r \in RunIds : grant_of'[r] \in {NoGrant, grant_of[r]}
  PROVE  GrantsTypes'
<1>1. reading' \in [ReadCalls -> ReadType]
      /\ \A d \in ReadCalls : reading'[d].at # "idle" => reading'[d].run \in RunIds
                                                        /\ reading'[d].grant \in GrantIds
  BY DEF GrantsTypes, GrantsTypeOK, ReadKnows
<1>2. \A t \in Tasks : TaskKnows(t)'
  BY DEF GrantsTypes, TaskKnows, realmVars
<1>3. \A r \in RunIds : grant_of'[r] # NoGrant => OwnPerson(r, grant_of[r])'
  BY DEF GrantsTypes, GrantsTypeOK, OwnPerson, realmVars
<1>4. GrantsTypeOK'
  BY <1>1, <1>3 DEF GrantsTypes, GrantsTypeOK, realmVars
<1>5. QED
  BY <1>1, <1>2, <1>4 DEF GrantsTypes, realmVars

LEMMA TypesOfReads ==
  ASSUME GrantsTypes, NEW c \in ReadCalls, ReadsData(c)
  PROVE  GrantsTypes'
<1> DEFINE x == reading[c]
<1>1. /\ reading \in [ReadCalls -> ReadType] /\ x \in ReadType /\ ReadKnows(x)
      /\ unexpired \subseteq GrantIds /\ unrevoked \subseteq Sessions
      /\ grant_of \in [RunIds -> GrantIds \cup {NoGrant}]
      /\ \A r \in RunIds : grant_of[r] # NoGrant => session_of[grant_of[r]] \in Sessions
  BY DEF GrantsTypes, GrantsTypeOK, ReadKnows, OwnPerson
<1>2. IdleRead \in ReadType /\ ReadKnows(IdleRead)
  BY DEF IdleRead, ReadType, ReadKnows
<1>3. ASSUME x.at # "idle", NEW at \in {"refresh", "refused"}
      PROVE  [x EXCEPT !.at = at] \in ReadType /\ ReadKnows([x EXCEPT !.at = at])
  BY <1>1, <1>3 DEF ReadType, ReadKnows
<1>4. ASSUME NEW r \in RunIds, TakeGrant(c, r) PROVE GrantsTypes'
  <2>1. [at |-> "wait", run |-> r, grant |-> grant_of[r]] \in ReadType
        /\ ReadKnows([at |-> "wait", run |-> r, grant |-> grant_of[r]])
    BY <1>1, <1>4 DEF TakeGrant, ReadType, ReadKnows
  <2>2. QED
    BY <1>1, <1>4, <2>1, TypesOfOneRead DEF TakeGrant, historyVars
<1>5. CASE LockGrant(c)
  <2>1. UNCHANGED <<active, realmVars, unexpired, grant_of, task, todo, historyVars>>
    BY <1>5 DEF LockGrant
  <2>2. CASE reading' = [reading EXCEPT ![c] = IdleRead]
    BY <1>1, <1>2, <2>1, <2>2, TypesOfOneRead DEF historyVars
  <2>3. CASE reading' = [reading EXCEPT ![c] = [x EXCEPT !.at = "refresh"]] /\ x.at # "idle"
    <3>1. [x EXCEPT !.at = "refresh"] \in ReadType /\ ReadKnows([x EXCEPT !.at = "refresh"])
      BY <1>3, <2>3
    <3>2. QED
      BY <1>1, <2>1, <2>3, <3>1, TypesOfOneRead DEF historyVars
  <2>4. QED
    BY <1>5, <2>2, <2>3 DEF LockGrant
<1>6. CASE RefreshAnswers(c)
  <2>1. UNCHANGED <<active, realmVars, grant_of, task, todo, historyVars>>
    BY <1>6 DEF RefreshAnswers
  <2>2. unexpired' \subseteq GrantIds /\ x.at # "idle"
    BY <1>1, <1>6 DEF RefreshAnswers, ReadKnows
  <2>3. CASE reading' = [reading EXCEPT ![c] = IdleRead]
    BY <1>1, <1>2, <2>1, <2>2, <2>3, TypesOfOneRead DEF historyVars
  <2>4. CASE reading' = [reading EXCEPT ![c] = [x EXCEPT !.at = "refused"]]
    <3>1. [x EXCEPT !.at = "refused"] \in ReadType /\ ReadKnows([x EXCEPT !.at = "refused"])
      BY <1>3, <2>2
    <3>2. QED
      BY <1>1, <2>1, <2>2, <2>4, <3>1, TypesOfOneRead DEF historyVars
  <2>5. QED
    BY <1>6, <2>3, <2>4 DEF RefreshAnswers
<1>7. CASE DropRefused(c)
  <2>1. unrevoked' \subseteq Sessions
    BY <1>1, <1>7 DEF DropRefused, ReadKnows
  <2>2. /\ grant_of' \in [RunIds -> GrantIds \cup {NoGrant}]
        /\ \A r \in RunIds : grant_of'[r] \in {NoGrant, grant_of[r]}
    BY <1>1, <1>7 DEF DropRefused
  <2>3. QED
    BY <1>1, <1>2, <1>7, <2>1, <2>2, TypesOfOneRead DEF DropRefused
<1>8. CASE CallEnds(c)
  BY <1>1, <1>2, <1>8, TypesOfOneRead DEF CallEnds, historyVars
<1>9. QED
  BY <1>4, <1>5, <1>6, <1>7, <1>8 DEF ReadsData

(* Every grant is made once, for the person of the run it is handed to. *)
THEOREM GrantsTyped == GrantsSpec => []GrantsTypes
<1>1. GrantsTypes /\ [GrantsNext]_grantsVars => GrantsTypes'
  <2> SUFFICES ASSUME GrantsTypes, [GrantsNext]_grantsVars PROVE GrantsTypes'
    OBVIOUS
  <2>1. CASE UNCHANGED grantsVars
    BY <2>1 DEF grantsVars, realmVars, historyVars, GrantsTypes, GrantsTypeOK, OwnPerson,
       TaskKnows
  <2>2. CASE GrantsNext
    BY <2>2, TypesOfTheRealm, TypesOfBinds, TypesOfRetires, TypesOfSweeps, TypesOfReads
       DEF GrantsNext
  <2>3. QED
    BY <2>1, <2>2
<1>2. QED
  BY <1>1, GrantsTypesInit, PTL DEF GrantsSpec

THEOREM GrantsType == GrantsSpec => []GrantsTypeOK
  BY GrantsTyped, PTL DEF GrantsTypes

-----------------------------------------------------------------------------

(* Only an exchange makes a grant or says whose it is, and it says it once. *)
LEMMA OnlyExchangesMake ==
  ASSUME [GrantsNext]_grantsVars, ~ \E b \in HandOvers : Exchange(b)
  PROVE  session_of' = session_of /\ alive' \subseteq alive
<1>1. CASE UNCHANGED grantsVars
  BY <1>1 DEF grantsVars, realmVars
<1>2. CASE \/ \E r \in RunIds : RunFinishes(r)
           \/ \E z \in Sessions : SignsOut(z)
           \/ \E g \in GrantIds : AccessExpires(g)
  BY <1>2 DEF RunFinishes, SignsOut, AccessExpires, realmVars
<1>3. CASE \E b \in HandOvers : Binds(b)
  BY <1>3 DEF Binds, HandOver, Introspect, Abandon, Hold, realmVars
<1>4. CASE \E t \in Tasks : Retires(t)
  BY <1>4 DEF Retires, RetireLooks, RetireLocks, Revoke, realmVars
<1>5. CASE Sweeps
  BY <1>5 DEF Sweeps, SweepStarts, SweepPasses, SweepEnds, End, realmVars
<1>6. CASE \E c \in ReadCalls : ReadsData(c)
  BY <1>6 DEF ReadsData, TakeGrant, LockGrant, RefreshAnswers, DropRefused, CallEnds,
     realmVars
<1>7. QED
  BY <1>1, <1>2, <1>3, <1>4, <1>5, <1>6 DEF GrantsNext

LEMMA TheSessionStays ==
  ASSUME GrantsTypes, [GrantsNext]_grantsVars, NEW g \in GrantIds, session_of[g] \in Sessions
  PROVE  session_of'[g] = session_of[g]
<1>1. CASE \E b \in HandOvers : Exchange(b)
  BY <1>1, GrantsAssumption DEF Exchange, IsNext, GrantsTypes, GrantsTypeOK
<1>2. CASE ~ \E b \in HandOvers : Exchange(b)
  BY <1>2, OnlyExchangesMake
<1>3. QED
  BY <1>1, <1>2

(* Somebody who will see to the grants of the session. *)
SeenTo(s) ==
    \/ s \in unrevoked
    \/ \E r \in RunIds : grant_of[r] # NoGrant /\ session_of[grant_of[r]] = s
    \/ \E t \in Tasks : /\ task[t].at \in {"exchanged", "retire", "lock", "revoke"}
                        /\ session_of[task[t].grant] = s

LEMMA SeenToIsKept ==
  ASSUME GrantsTypes, [GrantsNext]_grantsVars, NEW s \in Sessions, SeenTo(s),
         ~ \E t \in Tasks : Revoke(t) /\ session_of[task[t].grant] = s
  PROVE  SeenTo(s)'
<1> USE GrantsAssumption DEF GrantsTypes, GrantsTypeOK, realmVars, historyVars, Tasks, SeenTo
<1>1. CASE UNCHANGED grantsVars
  BY <1>1 DEF grantsVars
<1>2. CASE \/ \E r \in RunIds : RunFinishes(r)
           \/ \E z \in Sessions : SignsOut(z)
           \/ \E g \in GrantIds : AccessExpires(g)
  BY <1>2 DEF RunFinishes, SignsOut, AccessExpires
<1>3. ASSUME NEW b \in HandOvers, Binds(b) PROVE SeenTo(s)'
  <2>1. ASSUME NEW r \in RunIds, NEW z \in Sessions, HandOver(b, r, z) PROVE SeenTo(s)'
    BY <2>1 DEF HandOver
  <2>2. CASE Introspect(b)
    BY <2>2 DEF Introspect, GoesTo
  <2>3. CASE Abandon(b)
    <3>1. ASSUME NEW t \in Tasks, session_of[task[t].grant] = s,
                 task[t].at \in {"exchanged", "retire", "lock", "revoke"}
          PROVE  SeenTo(s)'
      <4>1. CASE t = b
        BY <2>3, <3>1, <4>1 DEF Abandon, TaskKnows, NoGrant, GrantIds
      <4>2. CASE t # b
        BY <2>3, <3>1, <4>2 DEF Abandon, TaskEnds
      <4>3. QED
        BY <4>1, <4>2
    <3>2. QED
      BY <2>3, <3>1 DEF Abandon
  <2>4. CASE Exchange(b)
    BY <2>4 DEF Exchange, IsNext, TaskEnds, TaskKnows, OwnPerson
  <2>5. CASE Hold(b)
    <3>1. /\ task[b].grant \in GrantIds /\ task[b].run \in RunIds
          /\ grant_of'[task[b].run] = task[b].grant
          /\ \A r \in RunIds : r # task[b].run => grant_of'[r] = grant_of[r]
          /\ \A t \in Tasks : t # b => task'[t] = task[t]
          /\ grant_of[task[b].run] # NoGrant => task'[b].at = "retire"
                                           /\ task'[b].grant = grant_of[task[b].run]
          /\ session_of' = session_of /\ unrevoked' = unrevoked
      BY <2>5 DEF Hold, Retire, TaskKnows
    <3>2. ASSUME NEW r \in RunIds, grant_of[r] # NoGrant, session_of[grant_of[r]] = s
          PROVE  SeenTo(s)'
      BY <3>1, <3>2
    <3>3. ASSUME NEW t \in Tasks, session_of[task[t].grant] = s,
                 task[t].at \in {"exchanged", "retire", "lock", "revoke"}
          PROVE  SeenTo(s)'
      <4>1. CASE t = b
        BY <3>1, <3>3, <4>1 DEF NoGrant, GrantIds
      <4>2. CASE t # b
        BY <3>1, <3>3, <4>2
      <4>3. QED
        BY <4>1, <4>2
    <3>4. QED
      BY <3>1, <3>2, <3>3
  <2>6. QED
    BY <1>3, <2>1, <2>2, <2>3, <2>4, <2>5 DEF Binds
<1>4. ASSUME NEW t \in Tasks, Retires(t) PROVE SeenTo(s)'
  <2>1. CASE RetireLooks(t)
    <3>1. /\ \A u \in Tasks : u # t => task'[u] = task[u]
          /\ \/ Shared(session_of[task[t].grant])
             \/ task'[t].at = "lock" /\ task'[t].grant = task[t].grant
          /\ session_of' = session_of /\ unrevoked' = unrevoked /\ grant_of' = grant_of
      BY <2>1 DEF RetireLooks, GoesTo, TaskEnds, TaskType
    <3>2. ASSUME NEW u \in Tasks, session_of[task[u].grant] = s,
                 task[u].at \in {"exchanged", "retire", "lock", "revoke"}
          PROVE  SeenTo(s)'
      <4>1. CASE u = t
        BY <3>1, <3>2, <4>1 DEF Shared
      <4>2. CASE u # t
        BY <3>1, <3>2, <4>2
      <4>3. QED
        BY <4>1, <4>2
    <3>3. QED
      BY <3>1, <3>2
  <2>2. CASE RetireLocks(t)
    BY <2>2 DEF RetireLocks, GoesTo
  <2>3. CASE Revoke(t)
    BY <2>3 DEF Revoke, TaskEnds
  <2>4. QED
    BY <1>4, <2>1, <2>2, <2>3 DEF Retires
<1>5. CASE Sweeps
  <2>1. CASE End
    <3>1. /\ task[Sweep].run \in RunIds /\ task[Sweep].at = "ending"
          /\ \A r \in RunIds : r # task[Sweep].run => grant_of'[r] = grant_of[r]
          /\ \A t \in Tasks : t # Sweep => task'[t] = task[t]
          /\ grant_of[task[Sweep].run] # NoGrant => task'[Sweep].at = "retire"
                                           /\ task'[Sweep].grant = grant_of[task[Sweep].run]
          /\ session_of' = session_of /\ unrevoked' = unrevoked
      BY <2>1 DEF End, Retire, TaskKnows
    <3>2. QED
      BY <3>1
  <2>2. CASE SweepStarts \/ \E r \in RunIds : SweepPasses(r) \/ SweepEnds(r)
    BY <2>2 DEF SweepStarts, SweepPasses, SweepEnds
  <2>3. QED
    BY <1>5, <2>1, <2>2 DEF Sweeps
<1>6. ASSUME NEW c \in ReadCalls, ReadsData(c) PROVE SeenTo(s)'
  <2>1. CASE DropRefused(c)
    BY <2>1 DEF DropRefused
  <2>2. CASE LockGrant(c) \/ RefreshAnswers(c) \/ CallEnds(c) \/ \E r \in RunIds : TakeGrant(c, r)
    BY <2>2 DEF LockGrant, RefreshAnswers, CallEnds, TakeGrant
  <2>3. QED
    BY <1>6, <2>1, <2>2 DEF ReadsData
<1>7. QED
  BY <1>1, <1>2, <1>3, <1>4, <1>5, <1>6 DEF GrantsNext

(* delegation.rs:9-12: the last grant of a session revokes them all. *)
THEOREM TheLastRevokes == GrantsSpec => []LastRevokesAll
<1>1. LastRevokesAll <=> \A g \in alive : SeenTo(session_of[g])
  BY DEF LastRevokesAll, SeenTo
<1>2. (LastRevokesAll <=> \A g \in alive : SeenTo(session_of[g]))'
  BY DEF LastRevokesAll, SeenTo
<1>3. GrantsInit => LastRevokesAll
  BY DEF GrantsInit, LastRevokesAll
<1>4. GrantsTypes /\ GrantsTypes' /\ LastRevokesAll /\ [GrantsNext]_grantsVars => LastRevokesAll'
  <2> SUFFICES ASSUME GrantsTypes, GrantsTypes', LastRevokesAll, [GrantsNext]_grantsVars,
                      NEW g \in alive'
               PROVE  SeenTo(session_of[g])'
    BY <1>2
  <2>1. CASE g \in alive
    <3>1. session_of'[g] = session_of[g] /\ session_of[g] \in Sessions
      BY <2>1, TheSessionStays DEF GrantsTypes, GrantsTypeOK
    <3>2. CASE \E t \in Tasks : Revoke(t) /\ session_of[task[t].grant] = session_of[g]
      BY <3>1, <3>2 DEF Revoke, GrantsOf, SeenTo, GrantsTypes, GrantsTypeOK
    <3>3. CASE ~ \E t \in Tasks : Revoke(t) /\ session_of[task[t].grant] = session_of[g]
      <4>1. SeenTo(session_of[g])
        BY <1>1, <2>1
      <4> QED
        BY <3>1, <3>3, <4>1, SeenToIsKept DEF SeenTo
    <3>4. QED
      BY <3>2, <3>3
  <2>2. CASE g \notin alive
    <3>1. PICK b \in HandOvers : Exchange(b)
      BY <2>2, OnlyExchangesMake
    <3>2. QED
      BY <2>2, <3>1 DEF Exchange, TaskEnds, SeenTo, GrantsTypes, GrantsTypeOK, Tasks, TaskKnows,
         TaskType
  <2>3. QED
    BY <2>1, <2>2
<1>5. QED
  BY <1>3, <1>4, GrantsTyped, PTL DEF GrantsSpec

-----------------------------------------------------------------------------

(* A grant a run holds, or is about to. *)
InUse(g) ==
    /\ g \in GrantIds
    /\ \/ \E r \in RunIds : grant_of[r] = g
       \/ \E b \in HandOvers : task[b].at = "exchanged" /\ task[b].grant = g

(* What RetireLooks marks, while the revocation lasts. *)
InUseIsLive ==
    \A g \in GrantIds : InUse(g) /\ session_of[g] \in signed_in \cap Named
                          => g \in alive \cup overtaken

LateIsOvertaken ==
    \A g \in GrantIds : InUse(g) /\ session_of[g] \in Named /\ BeingRevoked(session_of[g])
                          => g \in overtaken

(* What comes into use was just made. *)
LEMMA ComesIntoUse ==
  ASSUME GrantsTypes, [GrantsNext]_grantsVars, NEW g \in GrantIds, InUse(g)',
         ~ \E b \in HandOvers : Exchange(b)
  PROVE  InUse(g)
<1> USE GrantsAssumption DEF GrantsTypes, GrantsTypeOK, Tasks, InUse
<1>1. CASE UNCHANGED grantsVars
  BY <1>1 DEF grantsVars
<1>2. CASE \/ \E r \in RunIds : RunFinishes(r)
           \/ \E z \in Sessions : SignsOut(z)
           \/ \E h \in GrantIds : AccessExpires(h)
  BY <1>2 DEF RunFinishes, SignsOut, AccessExpires
<1>3. ASSUME NEW b \in HandOvers, Binds(b) PROVE InUse(g)
  <2>1. ASSUME NEW r \in RunIds, NEW z \in Sessions, HandOver(b, r, z) PROVE InUse(g)
    BY <2>1 DEF HandOver, TaskType
  <2>2. CASE Introspect(b) \/ Abandon(b)
    BY <2>2 DEF Introspect, Abandon, GoesTo, TaskEnds, IdleTask, TaskType
  <2>3. CASE Hold(b)
    <3>1. /\ \A r \in RunIds : grant_of'[r] = grant_of[r] \/ grant_of'[r] = task[b].grant
          /\ task[b].at = "exchanged"
          /\ \A x \in HandOvers : task'[x].at = "exchanged" => task'[x] = task[x]
      BY <2>3 DEF Hold, Retire, IdleTask
    <3>2. QED
      BY <3>1
  <2>4. QED
    BY <1>3, <2>1, <2>2, <2>3 DEF Binds
<1>4. ASSUME NEW t \in Tasks, Retires(t) PROVE InUse(g)
  <2>1. grant_of' = grant_of /\ \A x \in HandOvers : task'[x].at = "exchanged" => task'[x] = task[x]
    BY <1>4 DEF Retires, RetireLooks, RetireLocks, Revoke, GoesTo, TaskEnds, IdleTask, TaskType
  <2>2. QED
    BY <2>1
<1>5. CASE Sweeps
  <2>1. \A r \in RunIds : grant_of'[r] = grant_of[r] \/ grant_of'[r] = NoGrant
    BY <1>5 DEF Sweeps, SweepStarts, SweepPasses, SweepEnds, End
  <2>2. \A x \in HandOvers : task'[x].at = "exchanged" => task'[x] = task[x]
    BY <1>5 DEF Sweeps, SweepStarts, SweepPasses, SweepEnds, End, Retire, IdleTask
  <2>3. QED
    BY <2>1, <2>2 DEF NoGrant, GrantIds
<1>6. ASSUME NEW c \in ReadCalls, ReadsData(c) PROVE InUse(g)
  <2>1. task' = task /\ \A r \in RunIds : grant_of'[r] = grant_of[r] \/ grant_of'[r] = NoGrant
    BY <1>6 DEF ReadsData, TakeGrant, LockGrant, RefreshAnswers, DropRefused, CallEnds
  <2>2. QED
    BY <2>1 DEF NoGrant, GrantIds
<1>7. QED
  BY <1>1, <1>2, <1>3, <1>4, <1>5, <1>6 DEF GrantsNext

(* A revocation begins where retire() finds no grant of the session, and     *)
(* marks what is handed over by then.                                        *)
LEMMA RevocationBegins ==
  ASSUME GrantsTypes, [GrantsNext]_grantsVars, NEW s \in Named, BeingRevoked(s)',
         ~ \E b \in HandOvers : Exchange(b)
  PROVE  \/ BeingRevoked(s)
         \/ \E t \in Tasks : RetireLooks(t) /\ ~Shared(s) /\ HandedOver(s) \subseteq overtaken'
<1> USE GrantsAssumption DEF GrantsTypes, GrantsTypeOK, Tasks
<1>0. session_of' = session_of
  BY OnlyExchangesMake
<1>1. CASE \E t \in Tasks : RetireLooks(t)
  BY <1>0, <1>1 DEF RetireLooks, BeingRevoked, GoesTo, TaskEnds, IdleTask, TaskType
<1>2. CASE ~ \E t \in Tasks : RetireLooks(t)
  <2>1. \A t \in Tasks : task'[t].at \in {"lock", "revoke"}
           => task[t].at \in {"lock", "revoke"} /\ task'[t].grant = task[t].grant
    <3>1. CASE UNCHANGED grantsVars
      BY <3>1 DEF grantsVars
    <3>2. CASE \/ \E r \in RunIds : RunFinishes(r)
               \/ \E z \in Sessions : SignsOut(z)
               \/ \E h \in GrantIds : AccessExpires(h)
      BY <3>2 DEF RunFinishes, SignsOut, AccessExpires
    <3>3. ASSUME NEW b \in HandOvers, Binds(b)
          PROVE  \A t \in Tasks : task'[t].at \in {"lock", "revoke"} => task'[t] = task[t]
      BY <3>3 DEF Binds, HandOver, Introspect, Abandon, Hold, Retire, GoesTo, TaskEnds,
         IdleTask, TaskType
    <3>4. ASSUME NEW t \in Tasks, Retires(t)
          PROVE  \A u \in Tasks : task'[u].at \in {"lock", "revoke"}
                   => task[u].at \in {"lock", "revoke"} /\ task'[u].grant = task[u].grant
      BY <1>2, <3>4 DEF Retires, RetireLocks, Revoke, GoesTo, TaskEnds, IdleTask, TaskType
    <3>5. CASE Sweeps
      BY <3>5 DEF Sweeps, SweepStarts, SweepPasses, SweepEnds, End, Retire, IdleTask
    <3>6. CASE \E c \in ReadCalls : ReadsData(c)
      BY <3>6 DEF ReadsData, TakeGrant, LockGrant, RefreshAnswers, DropRefused, CallEnds
    <3>7. QED
      BY <3>1, <3>2, <3>3, <3>4, <3>5, <3>6 DEF GrantsNext
  <2>2. QED
    BY <1>0, <2>1 DEF BeingRevoked
<1>3. QED
  BY <1>1, <1>2

(* The history only grows, and no session opens. *)
LEMMA OvertakenGrows ==
  ASSUME [GrantsNext]_grantsVars
  PROVE  overtaken \subseteq overtaken'
  BY DEF GrantsNext, grantsVars, historyVars, RunFinishes, SignsOut, AccessExpires, Binds,
     HandOver, Introspect, Exchange, Abandon, Hold, Retires, RetireLooks, RetireLocks,
     Revoke, Sweeps, SweepStarts, SweepPasses, SweepEnds, End, ReadsData, TakeGrant, LockGrant,
     RefreshAnswers, DropRefused, CallEnds

LEMMA SignedInShrinks ==
  ASSUME [GrantsNext]_grantsVars
  PROVE  signed_in' \subseteq signed_in
  BY DEF GrantsNext, grantsVars, realmVars, RunFinishes, SignsOut, AccessExpires, Binds,
     HandOver, Introspect, Exchange, Abandon, Hold, Retires, RetireLooks, RetireLocks,
     Revoke, Sweeps, SweepStarts, SweepPasses, SweepEnds, End, ReadsData, TakeGrant, LockGrant,
     RefreshAnswers, DropRefused, CallEnds

(* A grant ends with its session, or by a revocation in it. *)
LEMMA WhatEndsAGrant ==
  ASSUME GrantsTypes, [GrantsNext]_grantsVars, NEW g \in alive, g \notin alive',
         session_of[g] \in signed_in'
  PROVE  BeingRevoked(session_of[g])
<1>1. CASE \E s \in Sessions : SignsOut(s)
  BY <1>1 DEF SignsOut, GrantsOf
<1>2. CASE \E t \in Tasks : Revoke(t)
  BY <1>2 DEF Revoke, GrantsOf, BeingRevoked
<1>3. CASE /\ ~ \E s \in Sessions : SignsOut(s)
           /\ ~ \E t \in Tasks : Revoke(t)
  BY <1>3 DEF GrantsNext, grantsVars, realmVars, RunFinishes, AccessExpires, Binds, HandOver,
     Introspect, Exchange, Abandon, Hold, Retires, RetireLooks, RetireLocks, Sweeps,
     SweepStarts, SweepPasses, SweepEnds, End, ReadsData, TakeGrant, LockGrant, RefreshAnswers,
     DropRefused, CallEnds
<1>4. QED
  BY <1>1, <1>2, <1>3

(* A grant that is made is alive, and marked if it comes too late. *)
LEMMA LiveThroughExchange ==
  ASSUME GrantsTypes, InUseIsLive, LateIsOvertaken, NEW b \in HandOvers, Exchange(b)
  PROVE  (InUseIsLive /\ LateIsOvertaken)'
<1> USE DEF GrantsTypes, GrantsTypeOK
<1> DEFINE s == task[b].session
<1>1. PICK g \in GrantIds :
        /\ session_of[g] = NoSession
        /\ session_of' = [session_of EXCEPT ![g] = s]
        /\ alive' = alive \cup {g}
        /\ \/ /\ task' = [task EXCEPT ![b].at = "exchanged", ![b].grant = g]
              /\ overtaken' = IF BeingRevoked(s) THEN overtaken \cup {g} ELSE overtaken
           \/ TaskEnds(b) /\ overtaken' = overtaken
  BY DEF Exchange, IsNext
<1>2. s \in Sessions /\ b \in Tasks /\ grant_of' = grant_of /\ signed_in' = signed_in
  BY DEF Exchange, TaskKnows, Tasks
<1>3. \A h \in GrantIds : h # g => session_of'[h] = session_of[h]
  BY <1>1
<1>4. \A t \in Tasks : t # b => task'[t] = task[t]
  BY <1>1 DEF TaskEnds
<1>5. task'[b].at \notin {"lock", "revoke"} /\ (task'[b].at = "exchanged" => task'[b].grant = g)
  BY <1>1, <1>2 DEF TaskEnds, IdleTask, TaskType
<1>6. \A z \in Sessions : BeingRevoked(z)' => BeingRevoked(z)
  BY <1>1, <1>3, <1>4, <1>5, GrantsAssumption DEF BeingRevoked, TaskKnows
<1>7. \A h \in GrantIds : h # g /\ InUse(h)' => InUse(h)
  BY <1>2, <1>4, <1>5 DEF InUse, Tasks
<1>8. session_of'[g] = s /\ (InUse(g)' => task'[b].at = "exchanged")
  <2>1. \A r \in RunIds : grant_of[r] # g
    BY <1>1, GrantsAssumption DEF OwnPerson, NoGrant, GrantIds
  <2>2. \A x \in HandOvers : x # b => ~(task'[x].at = "exchanged" /\ task'[x].grant = g)
    BY <1>1, <1>4, GrantsAssumption DEF TaskKnows, Tasks
  <2>3. QED
    BY <1>1, <1>2, <2>1, <2>2 DEF InUse
<1>9. ASSUME NEW h \in GrantIds, InUse(h)', NEW z \in Named, session_of'[h] = z,
             BeingRevoked(z)'
      PROVE  h \in overtaken'
  <2>2. BeingRevoked(z)
    BY <1>6, <1>9, GrantsAssumption
  <2>3. CASE h = g
    <3>1. task'[b].at = "exchanged" /\ BeingRevoked(s)
      BY <1>8, <1>9, <2>2, <2>3
    <3>2. ~TaskEnds(b)
      BY <1>2, <3>1 DEF TaskEnds, IdleTask
    <3>3. QED
      BY <1>1, <2>3, <3>1, <3>2
  <2>4. CASE h # g
    BY <1>1, <1>3, <1>7, <1>9, <2>2, <2>4 DEF LateIsOvertaken
  <2>5. QED
    BY <2>3, <2>4
<1>10. ASSUME NEW h \in GrantIds, InUse(h)', session_of'[h] \in (signed_in \cap Named)'
       PROVE  h \in (alive \cup overtaken)'
  BY <1>1, <1>2, <1>3, <1>7, <1>10 DEF InUseIsLive
<1>11. QED
  <2>1. InUseIsLive'
    BY <1>10 DEF InUseIsLive
  <2>2. LateIsOvertaken'
    BY <1>9 DEF LateIsOvertaken, BeingRevoked
  <2>3. QED
    BY <2>1, <2>2 DEF InUseIsLive, LateIsOvertaken

(* T-6483: a revocation ends the grants of no other run, but of one handed   *)
(* over meanwhile.                                                           *)
THEOREM HeldGrantsLive == GrantsSpec => []HeldIsLive
<1> DEFINE Live == InUseIsLive /\ LateIsOvertaken
<1>1. GrantsInit => Live
  BY GrantsAssumption DEF GrantsInit, InUseIsLive, LateIsOvertaken, InUse, NoGrant, GrantIds,
     IdleTask, Tasks
<1>2. GrantsTypes /\ GrantsTypes' /\ Live /\ [GrantsNext]_grantsVars => Live'
  <2> SUFFICES ASSUME GrantsTypes, GrantsTypes', Live, [GrantsNext]_grantsVars
               PROVE  Live'
    OBVIOUS
  <2>1. CASE \E b \in HandOvers : Exchange(b)
    BY <2>1, LiveThroughExchange
  <2>2. CASE ~ \E b \in HandOvers : Exchange(b)
    <3>1. session_of' = session_of
      BY <2>2, OnlyExchangesMake
    <3>2. ASSUME NEW g \in GrantIds, InUse(g)', session_of'[g] \in (signed_in \cap Named)'
          PROVE  g \in (alive \cup overtaken)'
      <4>1. InUse(g)
        BY <2>2, <3>2, ComesIntoUse
      <4>2. session_of[g] \in signed_in \cap Named
        BY <3>1, <3>2, SignedInShrinks
      <4>3. g \in alive \cup overtaken
        BY <4>1, <4>2 DEF InUseIsLive
      <4>4. CASE g \in overtaken
        BY <4>4, OvertakenGrows
      <4>5. CASE g \in alive /\ g \notin alive'
        <5>1. BeingRevoked(session_of[g])
          BY <3>1, <3>2, <4>5, WhatEndsAGrant
        <5>2. QED
          BY <4>1, <4>2, <5>1, OvertakenGrows DEF LateIsOvertaken
      <4>6. QED
        BY <4>3, <4>4, <4>5
    <3>3. ASSUME NEW g \in GrantIds, InUse(g)', NEW z \in Named, session_of'[g] = z,
                 BeingRevoked(z)'
          PROVE  g \in overtaken'
      <4>1. InUse(g)
        BY <2>2, <3>3, ComesIntoUse
      <4>2. CASE BeingRevoked(z)
        BY <3>1, <3>3, <4>1, <4>2, OvertakenGrows DEF LateIsOvertaken
      <4>3. ASSUME NEW t \in Tasks, RetireLooks(t), ~Shared(z),
                   HandedOver(z) \subseteq overtaken'
            PROVE  g \in overtaken'
        <5>1. \A r \in RunIds : grant_of[r] # g
          BY <3>1, <3>3, <4>3 DEF Shared, NoGrant, GrantIds
        <5>2. PICK b \in HandOvers : task[b].at = "exchanged" /\ task[b].grant = g
          BY <4>1, <5>1 DEF InUse
        <5>3. task[b].session = z
          BY <3>1, <3>3, <5>2 DEF GrantsTypes, TaskKnows, Tasks
        <5>4. QED
          BY <4>3, <5>2, <5>3 DEF HandedOver
      <4>4. QED
        BY <2>2, <3>3, <4>2, <4>3, RevocationBegins
    <3>4. InUseIsLive'
      BY <3>2 DEF InUseIsLive
    <3>5. LateIsOvertaken'
      BY <3>3 DEF LateIsOvertaken, BeingRevoked
    <3>6. QED
      BY <3>4, <3>5
  <2>3. QED
    BY <2>1, <2>2
<1>3. GrantsTypes /\ Live => HeldIsLive
  BY DEF GrantsTypes, GrantsTypeOK, InUseIsLive, HeldIsLive, InUse
<1>4. QED
  BY <1>1, <1>2, <1>3, GrantsTyped, PTL DEF GrantsSpec

=============================================================================
