---------------------------- MODULE RateLimiter -----------------------------
(***************************************************************************)
(* The token buckets of middleware/rate_limit.rs.                          *)
(*                                                                         *)
(* A request reads the clock, may sweep the shards, and then spends from   *)
(* its bucket under its shard's lock.  The clock it spends by is the one   *)
(* it read: two requests may come to the lock in the other order, and time *)
(* passes while one sweeps.  Tokens are counted in units, ONE of them to a *)
(* token, exactly, where the code has an f64; the limits of a slug do not  *)
(* change.                                                                 *)
(***************************************************************************)
EXTENDS Integers, FiniteSets

CONSTANTS
    Requests,       \* bound: the calls of `spend`
    Keys,           \* (slug, caller) pairs
    Slugs,
    SlugOf,         \* the slug of a key
    SHARDS,
    shard_of,       \* the shard of a key
    ONE,            \* units of a token
    Rate,           \* units that refill in a tick, per slug
    Burst,          \* the tokens of a full bucket, per slug
    Costs,          \* what a request may spend
    SHARD_CAP,
    SWEEP_SIZE,
    SWEEP_INTERVAL,
    IDLE_EVICTION,
    MaxClock,       \* bound: ticks of the clock
    NoKey

Shards == 1..SHARDS

(* A shard's overflow bucket of a slug. *)
Overflow(s, slug) == <<s, slug>>

Ids == Keys \cup {Overflow(s, slug) : s \in Shards, slug \in Slugs}

ASSUME ConstantAssumption ==
    /\ SHARDS \in Nat \ {0}
    /\ NoKey \notin Keys
    /\ Keys \cap {Overflow(s, slug) : s \in Shards, slug \in Slugs} = {}
    /\ SlugOf \in [Keys -> Slugs] /\ shard_of \in [Keys -> Shards]
    /\ ONE \in Nat \ {0} /\ Rate \in [Slugs -> Nat \ {0}] /\ Burst \in [Slugs -> Nat \ {0}]
    /\ Costs \subseteq Nat \ {0}
    /\ SHARD_CAP \in Nat \ {0}
    /\ SWEEP_SIZE \in Nat /\ SWEEP_INTERVAL \in Nat /\ IDLE_EVICTION \in Nat
    /\ MaxClock \in Nat

VARIABLES
    clock,
    req,        \* the requests: where, which key, what cost, the clock they read
    held,       \* the buckets that exist
    tokens,     \* the units of a bucket when it was last touched
    last,       \* and when that was
    swept,      \* when the map was last measured, -1 before
    sweeper,    \* the request that holds the lock of `swept`
    ideal,      \* the units an exact bucket would hold now
    late,       \* the time the requests of a bucket took from the clock to the lock
    promise     \* what a refused caller was told: when, and how much there is then

buckets == <<held, tokens, last>>
sweepVars == <<swept, sweeper>>
ghosts == <<ideal, late, promise>>
vars == <<clock, req, buckets, sweepVars, ghosts>>

-----------------------------------------------------------------------------

Slug(i) == IF i \in Keys THEN SlugOf[i] ELSE i[2]

Shard(i) == IF i \in Keys THEN shard_of[i] ELSE i[1]

Capacity(i) == Burst[Slug(i)] * ONE

Least(a, b) == IF a <= b THEN a ELSE b

Elapsed(now, since) == IF now >= since THEN now - since ELSE 0

(* The units after `elapsed` ticks of refill. *)
Refill(units, elapsed, rate, capacity) == Least(units + elapsed * rate, capacity)

(* What bucket i holds at `now`. *)
TokensAt(i, now) == Refill(tokens[i], Elapsed(now, last[i]), Rate[Slug(i)], Capacity(i))

(* The buckets of a shard. *)
InShard(s) == {i \in held : Shard(i) = s}

(* A request outside `spend`. *)
Outside(at) == [at |-> at, key |-> NoKey, cost |-> 0, now |-> 0, shard |-> 0]

Init ==
    /\ clock = 0
    /\ req = [r \in Requests |-> Outside("idle")]
    /\ held = {}
    /\ tokens = [i \in Ids |-> 0]
    /\ last = [i \in Ids |-> 0]
    /\ swept = -1
    /\ sweeper = {}
    /\ ideal = [i \in Ids |-> Capacity(i)]
    /\ late = [i \in Ids |-> 0]
    /\ promise = [i \in Ids |-> {}]

(* A tick; an exact bucket refills with the clock.  A full bucket owes no    *)
(* lateness.                                                                 *)
Tick ==
    /\ clock < MaxClock
    /\ clock' = clock + 1
    /\ ideal' = [i \in Ids |-> Least(ideal[i] + Rate[Slug(i)], Capacity(i))]
    /\ late' = [i \in Ids |-> IF ideal'[i] = Capacity(i) THEN 0 ELSE late[i]]
    /\ UNCHANGED <<req, buckets, sweepVars, promise>>

(* `spend` is called: the clock was read. *)
Arrive(r, k, cost) ==
    /\ req[r].at = "idle"
    /\ req' = [req EXCEPT ![r] = [at |-> "sweep", key |-> k, cost |-> cost, now |-> clock, shard |-> 0]]
    /\ UNCHANGED <<clock, buckets, sweepVars, ghosts>>

-----------------------------------------------------------------------------
(* `sweep`. *)

(* The interval has passed, by the request's clock. *)
Due(r) == swept = -1 \/ Elapsed(req[r].now, swept) >= SWEEP_INTERVAL

(* Another request sweeps, or it is too early. *)
SkipSweep(r) ==
    /\ req[r].at = "sweep"
    /\ sweeper # {} \/ ~Due(r)
    /\ req' = [req EXCEPT ![r].at = "spend"]
    /\ UNCHANGED <<clock, buckets, sweepVars, ghosts>>

StartSweep(r) ==
    /\ req[r].at = "sweep"
    /\ sweeper = {} /\ Due(r)
    /\ sweeper' = {r}
    /\ swept' = req[r].now
    /\ req' = [req EXCEPT ![r].at = "measure"]
    /\ UNCHANGED <<clock, buckets, ghosts>>

Measure(r) ==
    /\ req[r].at = "measure"
    /\ IF Cardinality(held) < SWEEP_SIZE
       THEN /\ sweeper' = {}
            /\ req' = [req EXCEPT ![r].at = "spend"]
       ELSE /\ req' = [req EXCEPT ![r].at = "retain", ![r].shard = 1]
            /\ UNCHANGED sweeper
    /\ UNCHANGED <<clock, buckets, swept, ghosts>>

(* Mutant: a bucket is judged by the limits of the request that sweeps. *)
KeptByMyLimits(r, i) ==
    \/ Elapsed(req[r].now, last[i]) < IDLE_EVICTION
    \/ TokensAt(i, req[r].now) < Capacity(req[r].key)

(* The sweep of r keeps bucket i. *)
Kept(r, i) ==
    \/ Elapsed(req[r].now, last[i]) < IDLE_EVICTION
    \/ TokensAt(i, req[r].now) < Capacity(i)

(* One shard, under its lock. *)
Retain(r) ==
    LET s == req[r].shard
        dropped == {i \in InShard(s) : ~Kept(r, i)}
    IN /\ req[r].at = "retain"
       /\ held' = held \ dropped
       /\ tokens' = [i \in Ids |-> IF i \in dropped THEN 0 ELSE tokens[i]]
       /\ last' = [i \in Ids |-> IF i \in dropped THEN 0 ELSE last[i]]
       /\ IF s = SHARDS
          THEN /\ sweeper' = {}
               /\ req' = [req EXCEPT ![r].at = "spend", ![r].shard = 0]
          ELSE /\ req' = [req EXCEPT ![r].shard = s + 1]
               /\ UNCHANGED sweeper
       /\ UNCHANGED <<clock, swept, ghosts>>

-----------------------------------------------------------------------------
(* The rest of `spend`, under the lock of the key's shard. *)

(* Mutant: the map grows with every caller. *)
OwnBucket(k) == k

(* The bucket a key spends from. *)
Spends(k) ==
    IF Cardinality(InShard(shard_of[k])) >= SHARD_CAP /\ k \notin held
    THEN Overflow(shard_of[k], SlugOf[k])
    ELSE k

(* Mutant: a new bucket starts empty. *)
StartsEmpty(i, now) == IF i \in held THEN TokensAt(i, now) ELSE 0

(* The units of bucket i before the request spends. *)
Refilled(i, now) == IF i \in held THEN TokensAt(i, now) ELSE Capacity(i)

(* Mutant: the seconds are rounded down. *)
WaitRoundedDown(i, cost, have) == (Least(cost * ONE, Capacity(i)) - have) \div Rate[Slug(i)]

(* RateLimit-Reset: the ticks until the missing units exist, rounded up. *)
Wait(i, cost, have) ==
    LET missing == Least(cost * ONE, Capacity(i)) - have
    IN (missing + Rate[Slug(i)] - 1) \div Rate[Slug(i)]

Touch(i, now, units) ==
    /\ held' = held \cup {i}
    /\ tokens' = [tokens EXCEPT ![i] = units]
    /\ last' = [last EXCEPT ![i] = now]
    /\ late' = [late EXCEPT ![i] = @ + (clock - now)]

Allow(r) ==
    LET q == req[r]
        i == Spends(q.key)
        have == Refilled(i, q.now)
    IN /\ q.at = "spend"
       /\ have >= q.cost * ONE
       /\ Touch(i, q.now, have - q.cost * ONE)
       /\ ideal' = [ideal EXCEPT ![i] = @ - q.cost * ONE]
       /\ promise' = [promise EXCEPT ![i] = {}]
       /\ req' = [req EXCEPT ![r] = Outside("done")]
       /\ UNCHANGED <<clock, sweepVars>>

(* 429, with the time to wait; a cost above the burst waits for the burst. *)
Refuse(r) ==
    LET q == req[r]
        i == Spends(q.key)
        have == Refilled(i, q.now)
    IN /\ q.at = "spend"
       /\ have < q.cost * ONE
       /\ Touch(i, q.now, have)
       /\ promise' = [promise EXCEPT ![i] =
             {[at |-> q.now + Wait(i, q.cost, have), units |-> Least(q.cost * ONE, Capacity(i))]}]
       /\ req' = [req EXCEPT ![r] = Outside("done")]
       /\ UNCHANGED <<clock, sweepVars, ideal>>

Next ==
    \/ Tick
    \/ \E r \in Requests :
        \/ \E k \in Keys, cost \in Costs : Arrive(r, k, cost)
        \/ SkipSweep(r) \/ StartSweep(r) \/ Measure(r) \/ Retain(r)
        \/ Allow(r) \/ Refuse(r)

Spec == Init /\ [][Next]_vars

-----------------------------------------------------------------------------

Request == [at : {"idle", "sweep", "measure", "retain", "spend", "done"}, key : Keys \cup {NoKey},
            cost : Nat, now : Nat, shard : Nat]

(* No bucket holds more than its burst, and none was touched, and no request *)
(* is counted, in the future.                                                *)
TypeOK ==
    /\ clock \in Nat
    /\ req \in [Requests -> Request]
    /\ \A r \in Requests : req[r].now <= clock
    /\ \A r \in Requests : req[r].at \notin {"idle", "done"} => req[r].key \in Keys
    /\ held \subseteq Ids
    /\ tokens \in [Ids -> Nat]
    /\ last \in [Ids -> Nat]
    /\ \A i \in Ids : tokens[i] <= Capacity(i) /\ last[i] <= clock
    /\ swept \in -1..clock
    /\ sweeper \subseteq Requests
    /\ ideal \in [Ids -> Int]
    /\ late \in [Ids -> Nat]

(* What a request of bucket i would find now. *)
Available(i) == IF i \in held THEN TokensAt(i, clock) ELSE Capacity(i)

(* rate_limit.rs:10: "a caller may spend a burst at once and then goes at    *)
(* the steady rate": however requests overtake each other and sweeps come    *)
(* between, a bucket never holds more than an exact bucket, beyond the       *)
(* refill of the time its requests took from reading the clock to the lock   *)
(* since it was last full.                                                   *)
WithinRate ==
    \A i \in Ids : Available(i) <= ideal[i] + late[i] * Rate[Slug(i)]

(* And never less: neither a late request nor a sweep costs a caller tokens. *)
NotShortchanged == \A i \in Ids : Available(i) >= ideal[i]

(* rate_limit.rs:173: "a client that waits exactly this long is never        *)
(* refused for being a fraction early": what a refusal said will be there,   *)
(* is there, unless another request was allowed in between.                  *)
WaitIsEnough ==
    \A i \in Ids : \A p \in promise[i] :
        i \in held => TokensAt(i, p.at) >= p.units

(* rate_limit.rs:46: "The most callers a shard holds": a flood of new        *)
(* callers, racing with the sweep that makes room, grows no shard beyond it. *)
MapIsBounded == \A s \in Shards : Cardinality(InShard(s) \cap Keys) <= SHARD_CAP

=============================================================================
