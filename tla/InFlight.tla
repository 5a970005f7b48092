------------------------------ MODULE InFlight ------------------------------
(***************************************************************************)
(* The gateway's admission layer, middleware/in_flight.rs: how many        *)
(* requests are worked on at once, in total, per class and per caller.     *)
(*                                                                         *)
(* Every try_acquire of a semaphore, every critical section of the callers *)
(* mutex and every drop of a permit is a step of its own: requests run on  *)
(* the threads of one runtime and interleave between them.  The handler is *)
(* only alive or not; the two timers of a plain read fire at any time.     *)
(***************************************************************************)
EXTENDS Naturals, FiniteSets

CONSTANTS
    Requests,       \* the concurrent tasks; each serves request after request
    Callers,        \* the keys of the callers map
    Caller,         \* the caller key of a task's requests
    Class,          \* anonymous, read, loadtest, plain, download of a task's requests
    Total,          \* JC_GATEWAY_MAX_IN_FLIGHT
    PerCaller,      \* JC_GATEWAY_MAX_IN_FLIGHT_PER_CALLER
    LoadtestShare,  \* JC_GATEWAY_LOADTEST_IN_FLIGHT
    Downloads,      \* JC_GATEWAY_MAX_DOWNLOADS
    SLOW_WEIGHT     \* the slots a slow read holds, its own included

(* A class as `Class::of`, `caller_of`, `is_plain_read` and the route can    *)
(* make it: only a genuine token is the load generator's, a plain read is a  *)
(* read, and file.csv is a read that is not plain.                           *)
Classes ==
    {k \in [anonymous: BOOLEAN, read: BOOLEAN, loadtest: BOOLEAN,
            plain: BOOLEAN, download: BOOLEAN] :
        /\ k.loadtest => ~k.anonymous
        /\ k.plain => k.read /\ ~k.download
        /\ k.download => k.read}

ASSUME RequestsFinite == IsFiniteSet(Requests)

ASSUME ClassAssumption ==
    /\ Caller \in [Requests -> Callers]
    /\ Class \in [Requests -> Classes]

ASSUME LimitAssumption ==
    /\ Total \in Nat \ {0}
    /\ PerCaller \in Nat \ {0}
    /\ LoadtestShare \in Nat \ {0}
    /\ Downloads \in Nat \ {0}
    /\ SLOW_WEIGHT \in Nat \ {0}

AtLeast(n, least) == IF n < least THEN least ELSE n

AtMost(n, most) == IF n > most THEN most ELSE n

anonymous_share(total) == AtLeast(total \div 2, 1)

write_reserve(total) == AtMost(AtLeast(total \div 8, 1), total - 1)

SlowBudget == AtLeast(Total \div 2, SLOW_WEIGHT)

Semaphores == {"total", "anonymous", "reads", "slow", "anonymous_slow", "downloads"}

(* The permits `InFlight::new` gives each semaphore. *)
Capacity(s) ==
    IF s = "total" THEN Total
    ELSE IF s = "anonymous" THEN anonymous_share(Total)
    ELSE IF s = "reads" THEN AtLeast(Total - write_reserve(Total), 1)
    ELSE IF s = "slow" THEN SlowBudget
    ELSE IF s = "anonymous_slow" THEN AtLeast(SlowBudget \div 2, SLOW_WEIGHT)
    ELSE Downloads

(* The permits one acquisition takes. *)
Take(s) == IF s \in {"slow", "anonymous_slow"} THEN SLOW_WEIGHT ELSE 1

(* The caller's share a request counts against. *)
Cap(r) == IF Class[r].loadtest THEN LoadtestShare ELSE PerCaller

(* The requests that leave the write reserve alone. *)
Shared(r) == Class[r].read \/ Class[r].anonymous

VARIABLES
    pc,         \* where the task of a request is
    free,       \* the permits left in a semaphore
    held,       \* the requests that hold a permit of a semaphore
    count,      \* the callers map; 0 is no entry
    tickets,    \* the requests that hold a Ticket
    weighed,    \* the tickets of weight SLOW_WEIGHT
    answer      \* how the request was answered, while the answer is on its way

vars == <<pc, free, held, count, tickets, weighed, answer>>

PCs == {"idle", "total", "anonymous", "reads", "caller", "running", "anonymous_slow",
        "slow", "weigh", "unweigh", "slow_running", "drop", "release", "answered"}

(* Where the handler's future, and the broker call it waits on, is alive. *)
HandlerAlive ==
    {"running", "anonymous_slow", "slow", "weigh", "unweigh", "slow_running"}

Answers == {"none", "forbidden", "anonymous_share", "busy", "ran_out", "handler", "abandoned"}

Init ==
    /\ pc = [r \in Requests |-> "idle"]
    /\ free = [s \in Semaphores |-> Capacity(s)]
    /\ held = [s \in Semaphores |-> {}]
    /\ count = [c \in Callers |-> 0]
    /\ tickets = {}
    /\ weighed = {}
    /\ answer = [r \in Requests |-> "none"]

-----------------------------------------------------------------------------

Goto(r, place) == pc' = [pc EXCEPT ![r] = place]

Answer(r, a) == answer' = [answer EXCEPT ![r] = a]

Acquire(r, s) ==
    /\ free[s] >= Take(s)
    /\ free' = [free EXCEPT ![s] = @ - Take(s)]
    /\ held' = [held EXCEPT ![s] = @ \cup {r}]

(* Mutant: a slow read's permits come back as one. *)
ReleaseOne(r, s) ==
    /\ r \in held[s]
    /\ free' = [free EXCEPT ![s] = @ + 1]
    /\ held' = [held EXCEPT ![s] = @ \ {r}]

Release(r, s) ==
    /\ r \in held[s]
    /\ free' = [free EXCEPT ![s] = @ + Take(s)]
    /\ held' = [held EXCEPT ![s] = @ \ {r}]

(* The layer takes a request in; the load generator's other requests than   *)
(* reads are refused before any slot.                                       *)
Enforce(r) ==
    /\ pc[r] = "idle"
    /\ ~(Class[r].loadtest /\ ~Class[r].read)
    /\ Goto(r, "total")
    /\ UNCHANGED <<free, held, count, tickets, weighed, answer>>

LoadtestWrites(r) ==
    /\ pc[r] = "idle"
    /\ Class[r].loadtest /\ ~Class[r].read
    /\ Goto(r, "answered")
    /\ Answer(r, "forbidden")
    /\ UNCHANGED <<free, held, count, tickets, weighed>>

(* The semaphores `slots` tries, in order: what follows `s` for request `r`. *)
AfterSlot(r, s) ==
    IF s = "total" /\ Class[r].anonymous THEN "anonymous"
    ELSE IF s # "reads" /\ Shared(r) THEN "reads"
    ELSE "caller"

SlotOrder == {"total", "anonymous", "reads"}

TakeSlot(r, s) ==
    /\ pc[r] = s
    /\ Acquire(r, s)
    /\ Goto(r, AfterSlot(r, s))
    /\ UNCHANGED <<count, tickets, weighed, answer>>

(* A full semaphore: the `?` of `take` drops the slots taken so far. *)
RefuseSlot(r, s) ==
    /\ pc[r] = s
    /\ free[s] < Take(s)
    /\ Goto(r, "release")
    /\ Answer(r, IF s # "total" /\ Class[r].anonymous THEN "anonymous_share" ELSE "busy")
    /\ UNCHANGED <<free, held, count, tickets, weighed>>

(* Mutant: one admitted past the caller's share. *)
AdmitOneMore(r) ==
    /\ pc[r] = "caller"
    /\ count[Caller[r]] <= Cap(r)
    /\ count' = [count EXCEPT ![Caller[r]] = @ + 1]
    /\ tickets' = tickets \cup {r}
    /\ Goto(r, "running")
    /\ UNCHANGED <<free, held, weighed, answer>>

(* The caller's share, under the lock of the callers map. *)
Admit(r) ==
    /\ pc[r] = "caller"
    /\ count[Caller[r]] < Cap(r)
    /\ count' = [count EXCEPT ![Caller[r]] = @ + 1]
    /\ tickets' = tickets \cup {r}
    /\ Goto(r, "running")
    /\ UNCHANGED <<free, held, weighed, answer>>

RefuseCaller(r) ==
    /\ pc[r] = "caller"
    /\ count[Caller[r]] >= Cap(r)
    /\ Goto(r, "release")
    /\ Answer(r, "busy")
    /\ UNCHANGED <<free, held, count, tickets, weighed>>

-----------------------------------------------------------------------------
(* The handler of a file.csv holds one of the download slots as it builds. *)

StartDownload(r) ==
    /\ pc[r] = "running"
    /\ Class[r].download
    /\ r \notin held["downloads"]
    /\ Acquire(r, "downloads")
    /\ UNCHANGED <<pc, count, tickets, weighed, answer>>

RefuseDownload(r) ==
    /\ pc[r] = "running"
    /\ Class[r].download
    /\ r \notin held["downloads"]
    /\ free["downloads"] < Take("downloads")
    /\ Goto(r, "drop")
    /\ Answer(r, "busy")
    /\ UNCHANGED <<free, held, count, tickets, weighed>>

(* The file is built, or the building handler was dropped. *)
EndDownload(r) ==
    /\ pc[r] \in {"running", "drop"}
    /\ Release(r, "downloads")
    /\ UNCHANGED <<pc, count, tickets, weighed, answer>>

-----------------------------------------------------------------------------
(* The handler answers; `time` polls it before it looks at a timer. *)
HandlerAnswers(r) ==
    /\ pc[r] \in {"running", "slow_running"}
    /\ r \notin held["downloads"]
    /\ Goto(r, "drop")
    /\ Answer(r, "handler")
    /\ UNCHANGED <<free, held, count, tickets, weighed>>

(* The client is gone: the future is dropped where it awaits the handler. *)
Abandon(r) ==
    /\ pc[r] \in {"running", "slow_running"}
    /\ Goto(r, "drop")
    /\ Answer(r, "abandoned")
    /\ UNCHANGED <<free, held, count, tickets, weighed>>

(* A plain read is unanswered after SLOW_AFTER: `weigh` begins. *)
SlowAfter(r) ==
    /\ pc[r] = "running"
    /\ Class[r].plain
    /\ Goto(r, IF Class[r].anonymous THEN "anonymous_slow" ELSE "slow")
    /\ UNCHANGED <<free, held, count, tickets, weighed, answer>>

SlowOrder == {"anonymous_slow", "slow"}

TakeSlow(r, s) ==
    /\ pc[r] = s
    /\ Acquire(r, s)
    /\ Goto(r, IF s = "anonymous_slow" THEN "slow" ELSE "weigh")
    /\ UNCHANGED <<count, tickets, weighed, answer>>

(* Mutant: a slow read runs on when the slow budget is full. *)
RefuseSlowRunsOn(r, s) ==
    /\ pc[r] = s
    /\ free[s] < Take(s)
    /\ Goto(r, "slow_running")
    /\ UNCHANGED <<free, held, count, tickets, weighed, answer>>

RefuseSlow(r, s) ==
    /\ pc[r] = s
    /\ free[s] < Take(s)
    /\ Goto(r, "unweigh")
    /\ UNCHANGED <<free, held, count, tickets, weighed, answer>>

Weight(r) == IF r \in weighed THEN SLOW_WEIGHT ELSE 1

(* Mutant: the caller's share is not looked at again. *)
RoomToWeighAnyShare(r) == count[Caller[r]] # 0

(* The rest of `weigh`, under the lock of the callers map. *)
RoomToWeigh(r) ==
    /\ count[Caller[r]] # 0
    /\ count[Caller[r]] + (SLOW_WEIGHT - Weight(r)) <= Cap(r)

Weigh(r) ==
    /\ pc[r] = "weigh"
    /\ RoomToWeigh(r)
    /\ count' = [count EXCEPT ![Caller[r]] = @ + (SLOW_WEIGHT - Weight(r))]
    /\ weighed' = weighed \cup {r}
    /\ Goto(r, "slow_running")
    /\ UNCHANGED <<free, held, tickets, answer>>

RefuseWeigh(r) ==
    /\ pc[r] = "weigh"
    /\ ~RoomToWeigh(r)
    /\ Goto(r, "unweigh")
    /\ UNCHANGED <<free, held, count, tickets, weighed, answer>>

(* `weigh` answers false: its locals are dropped, the slow permits first. *)
Unweigh(r, s) ==
    /\ pc[r] = "unweigh"
    /\ s = IF r \in held["slow"] THEN "slow" ELSE "anonymous_slow"
    /\ Release(r, s)
    /\ UNCHANGED <<pc, count, tickets, weighed, answer>>

NoRoom(r) ==
    /\ pc[r] = "unweigh"
    /\ \A s \in SlowOrder : r \notin held[s]
    /\ Goto(r, "drop")
    /\ Answer(r, "busy")
    /\ UNCHANGED <<free, held, count, tickets, weighed>>

(* Mutant: no timeout around the rest of the answer. *)
DeadlineNever(r) == FALSE

(* A slow read is unanswered at READ_DEADLINE. *)
Deadline(r) ==
    /\ pc[r] = "slow_running"
    /\ Goto(r, "drop")
    /\ Answer(r, "ran_out")
    /\ UNCHANGED <<free, held, count, tickets, weighed>>

-----------------------------------------------------------------------------
(* Mutant: a slow read's ticket counts down by one. *)
DropTicketOne(r) ==
    /\ pc[r] = "drop"
    /\ r \notin held["downloads"]
    /\ count' = [count EXCEPT ![Caller[r]] = IF @ < 1 THEN 0 ELSE @ - 1]
    /\ tickets' = tickets \ {r}
    /\ weighed' = weighed \ {r}
    /\ Goto(r, "release")
    /\ UNCHANGED <<free, held, answer>>

(* `Ticket::drop`, after the handler's future and what it held are dropped. *)
DropTicket(r) ==
    /\ pc[r] = "drop"
    /\ r \notin held["downloads"]
    /\ count' = [count EXCEPT ![Caller[r]] = IF @ < Weight(r) THEN 0 ELSE @ - Weight(r)]
    /\ tickets' = tickets \ {r}
    /\ weighed' = weighed \ {r}
    /\ Goto(r, "release")
    /\ UNCHANGED <<free, held, answer>>

(* The order in which the Vec drops its permits: as `slots` and `weigh`      *)
(* pushed them.                                                              *)
Rank(s) ==
    CASE s = "total" -> 1 [] s = "anonymous" -> 2 [] s = "reads" -> 3
      [] s = "slow" -> 4 [] s = "anonymous_slow" -> 5 [] s = "downloads" -> 6

DropSlot(r, s) ==
    /\ pc[r] = "release"
    /\ \A t \in Semaphores : Rank(t) < Rank(s) => r \notin held[t]
    /\ Release(r, s)
    /\ UNCHANGED <<pc, count, tickets, weighed, answer>>

Answered(r) ==
    /\ pc[r] = "release"
    /\ \A s \in Semaphores : r \notin held[s]
    /\ Goto(r, "answered")
    /\ UNCHANGED <<free, held, count, tickets, weighed, answer>>

(* The answer left; the task may take another request. *)
Leave(r) ==
    /\ pc[r] = "answered"
    /\ Goto(r, "idle")
    /\ Answer(r, "none")
    /\ UNCHANGED <<free, held, count, tickets, weighed>>

-----------------------------------------------------------------------------

(* The steps of the layer's own code: no await lies between them. *)
LayerStep(r) ==
    \/ \E s \in SlotOrder : TakeSlot(r, s) \/ RefuseSlot(r, s)
    \/ Admit(r) \/ RefuseCaller(r)
    \/ \E s \in SlowOrder : TakeSlow(r, s) \/ RefuseSlow(r, s)
    \/ Weigh(r) \/ RefuseWeigh(r)
    \/ \E s \in SlowOrder : Unweigh(r, s)
    \/ NoRoom(r)
    \/ DropTicket(r)
    \/ \E s \in Semaphores : DropSlot(r, s)
    \/ Answered(r)

Step(r) ==
    \/ Enforce(r) \/ LoadtestWrites(r) \/ Leave(r)
    \/ StartDownload(r) \/ RefuseDownload(r) \/ EndDownload(r)
    \/ HandlerAnswers(r) \/ Abandon(r)
    \/ SlowAfter(r) \/ Deadline(r)
    \/ LayerStep(r)

Next == \E r \in Requests : Step(r)

Spec == Init /\ [][Next]_vars

(* The scheduler runs a runnable task and the two timers fire; nothing      *)
(* makes a broker answer, a client leave or another request arrive.         *)
FairSpec ==
    /\ Spec
    /\ \A r \in Requests :
        /\ WF_vars(LayerStep(r))
        /\ WF_vars(SlowAfter(r))
        /\ WF_vars(Deadline(r))

-----------------------------------------------------------------------------
(* What the layer promises. *)

TypeOK ==
    /\ pc \in [Requests -> PCs]
    /\ free \in [Semaphores -> Nat]
    /\ held \in [Semaphores -> SUBSET Requests]
    /\ count \in [Callers -> Nat]
    /\ tickets \in SUBSET Requests
    /\ weighed \in SUBSET Requests
    /\ answer \in [Requests -> Answers]

(* No path of the layer (a refusal half way through `slots`, a failed       *)
(* `weigh`, an abandoned client, a deadline) loses a permit or gives one    *)
(* back twice: what is free and what is held is always what `new` made.     *)
PermitsConserved ==
    \A s \in Semaphores : free[s] + Take(s) * Cardinality(held[s]) = Capacity(s)

TicketsOf(c) == {r \in tickets : Caller[r] = c}

(* The weight of a set of tickets against a caller's share, those of W      *)
(* weighed as slow reads.                                                   *)
WeightOf(S, W) == Cardinality(S) + (SLOW_WEIGHT - 1) * Cardinality(S \cap W)

(* The callers map counts exactly the tickets that are out, a slow read's   *)
(* at SLOW_WEIGHT: `Ticket::drop` takes back what `admit` and `weigh` added,*)
(* so no caller is locked out by a count that never comes down.             *)
CallerCountExact == \A c \in Callers : count[c] = WeightOf(TicketsOf(c), weighed)

OrdinaryOf(c) == {r \in TicketsOf(c) : ~Class[r].loadtest}

LoadtestOf(c) == {r \in TicketsOf(c) : Class[r].loadtest}

(* No caller holds more than its share, a slow read weighed in full; one    *)
(* subject's load generator tokens and its other tokens share one count and *)
(* are each held to their own share.                                        *)
CallerWithinShare ==
    \A c \in Callers :
        /\ WeightOf(OrdinaryOf(c), weighed) <= PerCaller
        /\ WeightOf(LoadtestOf(c), weighed) <= LoadtestShare

(* The class shares over the admitted requests: readers and the anonymous   *)
(* leave the write reserve, the anonymous leave half the gateway, slow      *)
(* reads weigh no more than the slow budget, whatever is being refused,     *)
(* weighed or dropped meanwhile.                                            *)
ClassShares ==
    /\ Cardinality(tickets) <= Total
    /\ Cardinality({r \in tickets : Shared(r)}) <= Capacity("reads")
    /\ Cardinality({r \in tickets : Class[r].anonymous}) <= Capacity("anonymous")
    /\ SLOW_WEIGHT * Cardinality(weighed) <= SlowBudget
    /\ SLOW_WEIGHT * Cardinality({r \in weighed : Class[r].anonymous})
         <= Capacity("anonymous_slow")

(* A handler, and the broker call under it, never outlives its slots: while *)
(* it is alive its request holds the ticket and every slot of its class.    *)
HandlerHoldsSlots ==
    \A r \in Requests : pc[r] \in HandlerAlive =>
        /\ r \in tickets
        /\ r \in held["total"]
        /\ Class[r].anonymous => r \in held["anonymous"]
        /\ Shared(r) => r \in held["reads"]
        /\ pc[r] = "slow_running" => r \in held["slow"]

(* A request that is answered, refused or abandoned leaves nothing behind.  *)
NothingLeftBehind ==
    \A r \in Requests : pc[r] \in {"idle", "answered"} =>
        r \notin tickets /\ \A s \in Semaphores : r \notin held[s]

(* Where a request that holds a permit of a semaphore can be. *)
HolderPlaces(s) ==
    IF s = "total" THEN PCs \ {"idle", "total", "answered"}
    ELSE IF s = "anonymous" THEN PCs \ {"idle", "total", "anonymous", "answered"}
    ELSE IF s = "reads" THEN PCs \ {"idle", "total", "anonymous", "reads", "answered"}
    ELSE IF s = "anonymous_slow"
         THEN {"slow", "weigh", "unweigh", "slow_running", "drop", "release"}
    ELSE IF s = "slow" THEN {"weigh", "unweigh", "slow_running", "drop", "release"}
    ELSE {"running", "drop"}

(* The slots a request needs, and from where to where it must hold them. *)
Slotted == HandlerAlive \cup {"caller", "drop"}

Ticketed == HandlerAlive \cup {"drop"}

HoldersPlaced ==
    \A r \in Requests :
        /\ \A s \in Semaphores : r \in held[s] => pc[r] \in HolderPlaces(s)
        /\ r \in held["downloads"] => Class[r].download
        /\ pc[r] \in HandlerAlive \ {"running"} => Class[r].plain
        /\ pc[r] \in {"anonymous", "anonymous_slow"} => Class[r].anonymous

SlotsHeld ==
    \A r \in Requests :
        /\ pc[r] \in Slotted \cup {"anonymous", "reads"} => r \in held["total"]
        /\ pc[r] \in Slotted \cup {"reads"} /\ Class[r].anonymous => r \in held["anonymous"]
        /\ pc[r] \in Slotted /\ Shared(r) => r \in held["reads"]
        /\ r \in weighed \/ pc[r] = "weigh" => r \in held["slow"]
        /\ r \in weighed \/ pc[r] \in {"weigh", "slow"} =>
             (Class[r].anonymous => r \in held["anonymous_slow"])

TicketsPlaced ==
    \A r \in Requests :
        /\ r \in tickets <=> pc[r] \in Ticketed
        /\ r \in weighed => pc[r] \in {"slow_running", "drop"}
        /\ pc[r] = "slow_running" => r \in weighed

(* The inductive invariant: the books balance (permits and counts), every   *)
(* permit is held where the layer's control flow may hold it, and every     *)
(* ticket stands on the slots of its class.  The balance alone is not       *)
(* inductive: that a permit is never taken twice by one request follows     *)
(* from where its holder is.                                                *)
IndInv ==
    /\ TypeOK
    /\ PermitsConserved
    /\ CallerCountExact
    /\ HoldersPlaced
    /\ SlotsHeld
    /\ TicketsPlaced
    /\ CallerWithinShare

(* The two timers bound a plain read even when the broker never answers and *)
(* the client never leaves: its slots come back.                            *)
PlainReadEnds ==
    \A r \in Requests :
        Class[r].plain => (pc[r] = "running" ~> pc[r] = "answered")

-----------------------------------------------------------------------------
(* The layer implements Admission: a request is admitted when its ticket is *)
(* made and ends when its ticket is dropped.                                *)

SameCaller(q, r) == Caller[q] = Caller[r]

Abstract ==
    INSTANCE Admission WITH
        Anonymous <- {r \in Requests : Class[r].anonymous},
        Readers <- {r \in Requests : Shared(r)},
        Share <- Cap,
        Limit <- Capacity,
        SlowWeight <- SLOW_WEIGHT,
        admitted <- tickets,
        slow <- weighed

(* However the steps of concurrent requests interleave, a ticket is only    *)
(* made, or weighed as a slow read's, while every share has room for it     *)
(* at that very step, counted over the tickets that are out.                *)
ImplementsAdmission == Abstract!Spec

=============================================================================
