----------------------------- MODULE CrawlQueue -----------------------------
(***************************************************************************)
(* The assistant's crawl jobs: the crawl_jobs table (crawl/queue.rs), and  *)
(* the minute of each pod that fills and works it (worker.rs enqueue_due,  *)
(* enqueue_changed and work_one; Minute::work of bin/jc-assistant.rs); and *)
(* the administrator's requests for a crawl (chat/admin.rs recrawl).       *)
(*                                                                         *)
(* They share the table and nothing else, so every statement is a step of  *)
(* its own, except that a source's last_crawl is read with its pending     *)
(* jobs.  What the repository describes of a source is its version, 0 when *)
(* no manifest names it; reading a source puts the version of the reading  *)
(* pod's snapshot in the index.  A row that ended is as good as no row:    *)
(* its slot is used again.                                                 *)
(***************************************************************************)
EXTENDS Naturals, Sequences, FiniteSets, Orders

CONSTANTS
    Sources,        \* catalogue and guide sources, which are read when they change
    Versions(_),    \* the versions of a source
    Pods,
    Recrawls,       \* the administrator's requests that are answered at once
    Jobs,           \* the slots of rows queued or running
    MaxAttempts,    \* 5
    Overruns,       \* a read may outlast its lease
    MaxUpsets       \* bound: changes of the repository, pods that stop, requests,
                    \* reads and statements that fail

ASSUME QueueAssumption ==
    /\ MaxAttempts \in Nat \ {0} /\ MaxUpsets \in Nat
    /\ Overruns \in BOOLEAN /\ IsFiniteSet(Jobs) /\ IsFiniteSet(Pods)
    /\ IsFiniteSet(Recrawls) /\ Pods \cap Recrawls = {}
    /\ Sources # {} /\ Jobs # {}
    /\ \A s \in Sources : Versions(s) \subseteq Nat /\ \E v \in Versions(s) : v # 0

VARIABLES
    version,    \* what the repository describes of a source
    indexed,    \* the version last read, 0 before the first read (last_crawl is NULL)
    job,        \* the rows
    line,       \* the rows past their run_after, in its order
    pod,        \* the pods
    recrawl,    \* the source a request found no job of, and queues next
    upsets

queueVars == <<version, indexed, job, line, pod, recrawl, upsets>>

-----------------------------------------------------------------------------

NoJob == [state |-> "none", source |-> CHOOSE s \in Sources : TRUE, attempts |-> 0, stale |-> FALSE]

NoneSeen == [s \in Sources |-> 0]

Resting == [at |-> "idle", snap |-> NoneSeen, seen |-> NoneSeen, todo |-> {},
            source |-> NoJob.source, job |-> CHOOSE j \in Jobs : TRUE]

QueueInit ==
    /\ version = [s \in Sources |-> CHOOSE v \in Versions(s) : v # 0]
    /\ indexed = NoneSeen
    /\ job = [j \in Jobs |-> NoJob]
    /\ line = <<>>
    /\ pod = [p \in Pods |-> Resting]
    /\ recrawl = [r \in Recrawls |-> {}]
    /\ upsets = 0

-----------------------------------------------------------------------------
(* The table. *)

HasReader(j) == \E p \in Pods : pod[p].at \in {"work", "finish", "fail"} /\ pod[p].job = j

(* Mutant: a job that runs does not count. *)
PendingIfQueued(s) == \E j \in Jobs : job[j].state = "queued" /\ job[j].source = s

(* pending. *)
Pending(s) == \E j \in Jobs : job[j].state \in {"queued", "running"} /\ job[j].source = s

(* enqueue, enqueue_check: a row, ready at once. *)
Enqueue(s) ==
    LET free == {j \in Jobs : job[j].state = "none" /\ ~HasReader(j)}
        j == CHOOSE j \in free : TRUE
    IN /\ free # {}
       /\ job' = [job EXCEPT ![j] = [NoJob EXCEPT !.state = "queued", !.source = s]]
       /\ line' = Append(line, j)

(* run_after has passed. *)
Ready(j) ==
    /\ job[j].state = "queued" /\ \A n \in DOMAIN line : line[n] # j
    /\ line' = Append(line, j)
    /\ UNCHANGED <<version, indexed, job, pod, recrawl, upsets>>

(* claimed_at is LEASE ago. *)
LeaseEnds(j) ==
    /\ job[j].state = "running" /\ ~job[j].stale
    /\ Overruns \/ ~HasReader(j)
    /\ job' = [job EXCEPT ![j].stale = TRUE]
    /\ UNCHANGED <<version, indexed, line, pod, recrawl, upsets>>

-----------------------------------------------------------------------------
(* A pod's minute: Minute::work. *)

Described(snap) == {s \in Sources : snap[s] # 0}

(* The loops over the sources come one after another: what is due, what has   *)
(* changed, and then the queue is worked.                                     *)
Begins(pd, at) ==
    LET todo == IF at \in {"due", "changed"} THEN Described(pd.snap) ELSE {}
    IN [pd EXCEPT !.todo = todo, !.source = NoJob.source,
                  !.at = IF todo = {} THEN "claim" ELSE at]

After(at) == IF at \in {"due", "queue due"} THEN "changed" ELSE "claim"

(* The loop goes on without s. *)
Passes(pd, s) ==
    IF pd.todo = {s} THEN Begins(pd, After(pd.at))
    ELSE [pd EXCEPT !.todo = @ \ {s}, !.source = NoJob.source,
                    !.at = IF @ = "queue due" THEN "due" ELSE IF @ = "queue changed" THEN "changed" ELSE @]

(* The manifests are read. *)
Snapshot(p) ==
    /\ pod[p].at = "idle"
    /\ pod' = [pod EXCEPT ![p] = Begins([@ EXCEPT !.snap = version], "due")]
    /\ UNCHANGED <<version, indexed, job, line, recrawl, upsets>>

(* Mutant: only a source never read is due. *)
LookNew(p, s) ==
    /\ pod[p].at = "due" /\ s \in pod[p].todo
    /\ pod' = [pod EXCEPT ![p] = IF Pending(s) \/ indexed[s] # 0 THEN Passes(@, s)
                                 ELSE [@ EXCEPT !.at = "queue due", !.source = s]]
    /\ UNCHANGED <<version, indexed, job, line, recrawl, upsets>>

(* enqueue_due: a source never read is due, another when its schedule names  *)
(* the minute; one with a pending job is passed over.                        *)
LookDue(p, s) ==
    /\ pod[p].at = "due" /\ s \in pod[p].todo
    /\ \/ /\ Pending(s) \/ indexed[s] # 0
          /\ pod' = [pod EXCEPT ![p] = Passes(@, s)]
       \/ /\ ~Pending(s)
          /\ pod' = [pod EXCEPT ![p].at = "queue due", ![p].source = s]
    /\ UNCHANGED <<version, indexed, job, line, recrawl, upsets>>

QueueDue(p) ==
    /\ pod[p].at = "queue due"
    /\ Enqueue(pod[p].source)
    /\ pod' = [pod EXCEPT ![p] = Passes(@, pod[p].source)]
    /\ UNCHANGED <<version, indexed, recrawl, upsets>>

(* enqueue_changed: a source described as the pod saw it before is passed    *)
(* over; another is seen now, whether a job was pending or is queued.        *)
Sees(pd, s) == Passes([pd EXCEPT !.seen[s] = pd.snap[s]], s)

LookChanged(p, s) ==
    /\ pod[p].at = "changed" /\ s \in pod[p].todo
    /\ pod' = [pod EXCEPT ![p] = IF @.seen[s] = @.snap[s] \/ Pending(s) THEN Sees(@, s)
                                 ELSE [@ EXCEPT !.at = "queue changed", !.source = s]]
    /\ UNCHANGED <<version, indexed, job, line, recrawl, upsets>>

QueueChanged(p) ==
    /\ pod[p].at = "queue changed"
    /\ Enqueue(pod[p].source)
    /\ pod' = [pod EXCEPT ![p] = Sees(@, pod[p].source)]
    /\ UNCHANGED <<version, indexed, recrawl, upsets>>

-----------------------------------------------------------------------------
(* work_one. *)

(* claim, its first statement: jobs that lost their last worker are failed. *)
FailSpent(p) ==
    /\ pod[p].at = "claim"
    /\ LET spent == {j \in Jobs : /\ job[j].state = "running" /\ job[j].stale
                                  /\ job[j].attempts >= MaxAttempts}
       IN /\ job' = [j \in Jobs |-> IF j \in spent THEN NoJob ELSE job[j]]
          /\ line' = Picked(line, {n \in DOMAIN line : line[n] \notin spent})
    /\ pod' = [pod EXCEPT ![p].at = "take"]
    /\ UNCHANGED <<version, indexed, recrawl, upsets>>

(* Mutant: a running job is claimed whatever its lease. *)
ClaimableRunning(j) == job[j].state \in {"queued", "running"}

(* Mutant: a job whose lease ran out is not claimed again. *)
ClaimableQueued(j) == job[j].state = "queued"

Claimable(j) == job[j].state = "queued" \/ job[j].stale

(* claim, its second: the first that is ready or whose lease ran out. *)
TakeJob(p) ==
    /\ pod[p].at = "take"
    /\ \E n \in 1 .. Len(line) :
         /\ Claimable(line[n]) /\ \A m \in 1 .. n - 1 : ~Claimable(line[m])
         /\ LET j == line[n]
            IN /\ job' = [job EXCEPT ![j].state = "running", ![j].stale = FALSE,
                                      ![j].attempts = @ + IF job[j].stale THEN 1 ELSE 0]
               /\ pod' = [pod EXCEPT ![p].job = j, ![p].source = job[j].source,
                                     ![p].at = IF job[j].source \in Described(pod[p].snap) THEN "work"
                                               ELSE "finish"]
    /\ UNCHANGED <<version, indexed, line, recrawl, upsets>>

(* The queue has none ready: the minute is over. *)
Rests(p) == [Resting EXCEPT !.seen = pod[p].seen]

TakeNone(p) ==
    /\ pod[p].at = "take"
    /\ \A n \in 1 .. Len(line) : ~Claimable(line[n])
    /\ pod' = [pod EXCEPT ![p] = Rests(p)]
    /\ UNCHANGED <<version, indexed, job, line, recrawl, upsets>>

(* The source is read as the snapshot describes it. *)
Read(p) ==
    /\ pod[p].at = "work"
    /\ indexed' = [indexed EXCEPT ![pod[p].source] = pod[p].snap[pod[p].source]]
    /\ pod' = [pod EXCEPT ![p].at = "finish"]
    /\ UNCHANGED <<version, job, line, recrawl, upsets>>

(* finish, by the job's id, whatever has become of it. *)
Finish(p) ==
    /\ pod[p].at = "finish"
    /\ job' = [job EXCEPT ![pod[p].job] = NoJob]
    /\ line' = Without(line, pod[p].job)
    /\ pod' = [pod EXCEPT ![p].at = "claim", ![p].job = Resting.job]
    /\ UNCHANGED <<version, indexed, recrawl, upsets>>

(* fail, likewise: queued for later, or failed with its last attempt. *)
Fail(p) ==
    /\ pod[p].at = "fail"
    /\ LET j == pod[p].job
           last == job[j].attempts + 1 >= MaxAttempts
       IN /\ job' = [job EXCEPT ![j] = IF last THEN NoJob
                                       ELSE [job[j] EXCEPT !.state = "queued", !.stale = FALSE,
                                                           !.source = pod[p].source,
                                                           !.attempts = job[j].attempts + 1]]
          /\ line' = Without(line, j)
    /\ pod' = [pod EXCEPT ![p].at = "claim", ![p].job = Resting.job]
    /\ UNCHANGED <<version, indexed, recrawl, upsets>>

-----------------------------------------------------------------------------
Upset == upsets < MaxUpsets /\ upsets' = upsets + 1

(* The administrator's requests: recrawl.  One that finds a job pending is   *)
(* answered 409 and changes nothing.                                         *)
AskRecrawl(r, s) ==
    /\ recrawl[r] = {} /\ ~Pending(s) /\ Upset
    /\ recrawl' = [recrawl EXCEPT ![r] = {s}]
    /\ UNCHANGED <<version, indexed, job, line, pod>>

QueueRecrawl(r) ==
    /\ \E s \in recrawl[r] : Enqueue(s)
    /\ recrawl' = [recrawl EXCEPT ![r] = {}]
    /\ UNCHANGED <<version, indexed, pod, upsets>>

(* The insert fails, or the caller is gone before it. *)
RecrawlEnds(r) ==
    /\ recrawl[r] # {}
    /\ recrawl' = [recrawl EXCEPT ![r] = {}]
    /\ UNCHANGED <<version, indexed, job, line, pod, upsets>>

-----------------------------------------------------------------------------
(* Faults, and the repository. *)

(* The source cannot be read. *)
ReadFails(p) ==
    /\ pod[p].at = "work" /\ Upset
    /\ pod' = [pod EXCEPT ![p].at = "fail"]
    /\ UNCHANGED <<version, indexed, job, line, recrawl>>

(* A statement fails: a loop over the sources is left for the next one; a    *)
(* claim or a claimed job is left as it is, and the minute is over.          *)
StatementFails(p) ==
    /\ Upset
    /\ \/ /\ pod[p].at \in {"due", "queue due", "changed", "queue changed"}
          /\ pod' = [pod EXCEPT ![p] = Begins(@, After(@.at))]
       \/ /\ pod[p].at \in {"claim", "take", "work", "finish", "fail"}
          /\ pod' = [pod EXCEPT ![p] = Rests(p)]
    /\ UNCHANGED <<version, indexed, job, line, recrawl>>

(* The pod is killed, or ends between two minutes. *)
Stop(p) ==
    /\ pod[p].at # "down" /\ Upset
    /\ pod' = [pod EXCEPT ![p] = [Resting EXCEPT !.at = "down"]]
    /\ UNCHANGED <<version, indexed, job, line, recrawl>>

Restart(p) ==
    /\ pod[p].at = "down"
    /\ pod' = [pod EXCEPT ![p] = Resting]
    /\ UNCHANGED <<version, indexed, job, line, recrawl, upsets>>

Edit(s) ==
    /\ Upset
    /\ version' \in {[version EXCEPT ![s] = v] : v \in Versions(s) \ {version[s]}}
    /\ UNCHANGED <<indexed, job, line, pod, recrawl>>

-----------------------------------------------------------------------------

Minute(p) ==
    \/ Snapshot(p) \/ QueueDue(p) \/ QueueChanged(p)
    \/ \E s \in Sources : LookDue(p, s) \/ LookChanged(p, s)
    \/ FailSpent(p) \/ TakeJob(p) \/ TakeNone(p) \/ Read(p) \/ Finish(p) \/ Fail(p)

QueueNext ==
    \/ \E p \in Pods : Minute(p) \/ ReadFails(p) \/ StatementFails(p) \/ Stop(p) \/ Restart(p)
    \/ \E j \in Jobs : Ready(j) \/ LeaseEnds(j)
    \/ \E r \in Recrawls : (\E s \in Sources : AskRecrawl(r, s)) \/ QueueRecrawl(r) \/ RecrawlEnds(r)
    \/ \E s \in Sources : Edit(s)

QueueSpec == QueueInit /\ [][QueueNext]_queueVars

(* Pods are scheduled and restarted, backoffs and leases pass, and a         *)
(* schedule names some minute again and again.                               *)
QueueFair ==
    /\ \A p \in Pods : WF_queueVars(Minute(p) \/ Restart(p))
    /\ SF_queueVars(\E p \in Pods, s \in Sources : LookDue(p, s) /\ pod'[p].at = "queue due")
    /\ \A j \in Jobs : WF_queueVars(Ready(j) \/ LeaseEnds(j))

QueueFairSpec == QueueSpec /\ QueueFair

-----------------------------------------------------------------------------

(* The state has its types, and the table keeps its bound: the question      *)
(* whether a job is pending and the insert are two statements, so pods and   *)
(* the administrator's requests may queue a source side by side, but none    *)
(* of them adds a second job of its own (pending, queue.rs 52).              *)
QueueTypeOK ==
    /\ version \in [Sources -> Nat] /\ indexed \in [Sources -> Nat]
    /\ job \in [Jobs -> [state : {"none", "queued", "running"}, source : Sources,
                         attempts : Nat, stale : BOOLEAN]]
    /\ line \in Seq(Jobs) /\ \A m, n \in DOMAIN line : line[m] = line[n] => m = n
    /\ \A p \in Pods : pod[p].source \in Sources /\ pod[p].job \in Jobs
    /\ \A r \in Recrawls : recrawl[r] \subseteq Sources
    /\ upsets \in 0 .. MaxUpsets
    /\ \A s \in Sources :
         Cardinality({j \in Jobs : job[j].state # "none" /\ job[j].source = s})
            <= Cardinality(Pods \cup Recrawls)

(* While no read outlasts its lease, a job is read by one pod at a time:     *)
(* whatever stops, a job changes hands only after its reader let it go       *)
(* (claim, finish and fail name the job by its id alone).                    *)
OneReader ==
    ~Overruns => \A p, q \in Pods :
        pod[p].at \in {"work", "finish", "fail"} /\ pod[q].at \in {"work", "finish", "fail"}
        /\ pod[p].job = pod[q].job => p = q

(* The table keeps its bound, and a job its reader.                          *)
QueueKept == QueueTypeOK /\ OneReader

(* Every job ends: it is done, or failed, and its source can be queued anew. *)
JobEnds == \A j \in Jobs : []<>(job[j].state = "none")

(* Once the repository is left alone, faults stop and no pod works on with   *)
(* an older snapshot, the index has every source as it is described.  A pod  *)
(* whose queue never runs dry does not end its minute, and keeps the         *)
(* snapshot it began it with (work_one is called until it finds no job).     *)
CatchesUp ==
    \A s \in Sources :
        <>[](\A p \in Pods : pod[p].at \in {"idle", "down"} \/ pod[p].snap[s] = version[s])
            => <>[](version[s] # 0 => indexed[s] = version[s])

(* Without waiting for a schedule: when every pod took note of what is       *)
(* described now and no job is left, it was read (enqueue_changed, worker.rs *)
(* 502: "so a change to an Endpoint or a model reaches the index within a    *)
(* minute, not at the next scheduled read").                                 *)
ChangeIsRead ==
    \A s \in Sources :
        /\ version[s] # 0 /\ ~Pending(s)
        /\ \A p \in Pods : pod[p].at \in {"idle", "down"}
        /\ \E p \in Pods : pod[p].at = "idle"
        /\ \A p \in Pods : pod[p].at = "idle" => pod[p].seen[s] = version[s]
        => indexed[s] = version[s]

=============================================================================
