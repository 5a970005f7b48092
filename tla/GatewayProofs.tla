---------------------------- MODULE GatewayProofs ---------------------------
(***************************************************************************)
(* What is proved of the gateway's smaller parts, each from its own        *)
(* specification: the rate limiter, the creates quota, the download cache, *)
(* the preview reload, the usage and activity counts, the revocation poll, *)
(* the policy decision and the fan-out filters. The parts share no state;  *)
(* no lemma of one is used by another.                                     *)
(***************************************************************************)
EXTENDS RateLimiter, Creates, Downloads, Reload, Counts, Pollers, Decision, Filters,
        FiniteSetTheorems, TLAPS

-----------------------------------------------------------------------------
(***************************************************************************)
(* RateLimiter. The buckets stay between an exact token bucket and one     *)
(* that also gets the refill of its requests' lateness, for all limits,    *)
(* callers, shards and clocks: TypeOK, WithinRate and NotShortchanged are  *)
(* an inductive invariant together.                                        *)
(***************************************************************************)

(* The books of the limiter: what the buckets hold, and what an exact one    *)
(* would hold.                                                               *)
IndInv ==
    /\ TypeOK
    /\ WithinRate
    /\ NotShortchanged
    /\ \A i \in Ids : ideal[i] <= Capacity(i)

-----------------------------------------------------------------------------
(* Arithmetic. *)

(* A product distributes and grows with its factor. *)
LEMMA Products ==
    ASSUME NEW a \in Nat, NEW b \in Nat, NEW r \in Nat
    PROVE  /\ a * r \in Nat /\ b * r \in Nat
           /\ (a + b) * r = a * r + b * r
           /\ a <= b => a * r <= b * r
<1>1. a * r \in Nat /\ b * r \in Nat /\ (a + b) * r = a * r + b * r
  OBVIOUS
<1>2. ASSUME a <= b PROVE a * r <= b * r
  <2>1. PICK c \in Nat : b = a + c
    BY <1>2
  <2>2. (a + c) * r = a * r + c * r /\ c * r \in Nat
    OBVIOUS
  <2> QED
    BY <1>1, <2>1, <2>2
<1> QED
  BY <1>1, <1>2

(* A refill keeps within the burst. *)
LEMMA RefillFacts ==
    ASSUME NEW u \in Nat, NEW e \in Nat, NEW r \in Nat, NEW cap \in Nat, u <= cap
    PROVE  /\ Refill(u, e, r, cap) \in Nat
           /\ u <= Refill(u, e, r, cap) /\ Refill(u, e, r, cap) <= cap
  BY Products DEF Refill, Least

(* It only grows with time. *)
LEMMA RefillGrows ==
    ASSUME NEW u \in Nat, NEW e \in Nat, NEW f \in Nat, NEW r \in Nat, NEW cap \in Nat, e <= f
    PROVE  Refill(u, e, r, cap) <= Refill(u, f, r, cap)
  BY Products DEF Refill, Least

(* One tick more refills at most what a tick refills, and that unless full. *)
LEMMA RefillTick ==
    ASSUME NEW u \in Nat, NEW e \in Nat, NEW f \in Nat, f = e + 1, NEW r \in Nat, NEW cap \in Nat, u <= cap
    PROVE  Refill(u, f, r, cap) = Least(Refill(u, e, r, cap) + r, cap)
<1>1. (e + 1) * r = e * r + r /\ e * r \in Nat
  BY Products
<1> QED
  BY <1>1 DEF Refill, Least

(* Refilling in two steps is refilling at once, if nothing is spent. *)
LEMMA RefillTwice ==
    ASSUME NEW u \in Nat, NEW e \in Nat, NEW f \in Nat, NEW g \in Nat, g = e + f,
           NEW r \in Nat, NEW cap \in Nat, u <= cap
    PROVE  Refill(u, g, r, cap) = Refill(Refill(u, e, r, cap), f, r, cap)
<1>1. (e + f) * r = e * r + f * r /\ e * r \in Nat /\ f * r \in Nat
  BY Products
<1> QED
  BY <1>1 DEF Refill, Least

(* Spending c before a refill leaves at least what spending it after does,  *)
(* and at most the refill more than the rest.                                *)
LEMMA SpendRefill ==
    ASSUME NEW u \in Nat, NEW c \in Nat, NEW f \in Nat, NEW r \in Nat, NEW cap \in Nat,
           u <= cap, c <= u
    PROVE  /\ Refill(u - c, f, r, cap) >= Refill(u, f, r, cap) - c
           /\ Refill(u - c, f, r, cap) <= (u - c) + f * r
  BY Products DEF Refill, Least

(* The constants of a bucket. *)
LEMMA LimitFacts ==
    ASSUME NEW i \in Ids
    PROVE  /\ Slug(i) \in Slugs /\ Shard(i) \in Shards
           /\ Rate[Slug(i)] \in Nat /\ Capacity(i) \in Nat
<1>1. Slug(i) \in Slugs /\ Shard(i) \in Shards
  BY ConstantAssumption DEF Ids, Slug, Shard, Overflow
<1>2. Burst[Slug(i)] \in Nat /\ Rate[Slug(i)] \in Nat /\ ONE \in Nat
  BY <1>1, ConstantAssumption
<1> QED
  BY <1>1, <1>2 DEF Capacity

(* A key spends from its own bucket or from an overflow bucket. *)
LEMMA SpendsType ==
    ASSUME NEW k \in Keys
    PROVE  Spends(k) \in Ids
  BY ConstantAssumption DEF Spends, Ids

-----------------------------------------------------------------------------

(* What a bucket holds is a natural number within its burst. *)
LEMMA AvailableFacts ==
    ASSUME TypeOK, NEW i \in Ids, NEW moment \in Nat
    PROVE  /\ TokensAt(i, moment) \in Nat /\ TokensAt(i, moment) <= Capacity(i)
           /\ Refilled(i, moment) \in Nat /\ Refilled(i, moment) <= Capacity(i)
           /\ Available(i) \in Nat /\ Available(i) <= Capacity(i)
           /\ moment <= clock => Refilled(i, moment) <= Available(i)
<1>1. tokens[i] \in Nat /\ last[i] \in Nat /\ tokens[i] <= Capacity(i) /\ clock \in Nat
  BY DEF TypeOK
<1>2. Rate[Slug(i)] \in Nat /\ Capacity(i) \in Nat
  BY LimitFacts
<1>3. Elapsed(moment, last[i]) \in Nat /\ Elapsed(clock, last[i]) \in Nat
      /\ (moment <= clock => Elapsed(moment, last[i]) <= Elapsed(clock, last[i]))
  BY <1>1 DEF Elapsed
<1>4. TokensAt(i, moment) \in Nat /\ TokensAt(i, moment) <= Capacity(i)
  BY <1>1, <1>2, <1>3, RefillFacts DEF TokensAt
<1>5. TokensAt(i, clock) \in Nat /\ TokensAt(i, clock) <= Capacity(i)
  BY <1>1, <1>2, <1>3, RefillFacts DEF TokensAt
<1>6. moment <= clock => TokensAt(i, moment) <= TokensAt(i, clock)
  BY <1>1, <1>2, <1>3, RefillGrows DEF TokensAt
<1> QED
  BY <1>1, <1>2, <1>4, <1>5, <1>6 DEF Refilled, Available

(* A late refill, and the rest of it at the clock, is no less than the       *)
(* bucket holds at the clock.                                                *)
LEMMA LateRefill ==
    ASSUME TypeOK, NEW i \in Ids, NEW moment \in Nat, moment <= clock
    PROVE  Available(i) <= Refill(Refilled(i, moment), clock - moment, Rate[Slug(i)], Capacity(i))
<1> DEFINE rate == Rate[Slug(i)]
           cap == Capacity(i)
           rest == clock - moment
<1>1. tokens[i] \in Nat /\ last[i] \in Nat /\ tokens[i] <= cap /\ clock \in Nat /\ last[i] <= clock
  BY DEF TypeOK
<1>2. rate \in Nat /\ cap \in Nat /\ rest \in Nat
  BY LimitFacts, <1>1
<1> HIDE DEF rate, cap, rest
<1>3. CASE i \notin held
  <2>1. cap <= Refill(cap, rest, rate, cap)
    BY <1>2, RefillFacts
  <2> QED
    BY <1>3, <2>1 DEF Available, Refilled, rate, cap, rest
<1>4. CASE i \in held /\ moment >= last[i]
  <2>1. /\ Elapsed(moment, last[i]) \in Nat /\ Elapsed(clock, last[i]) \in Nat
        /\ Elapsed(clock, last[i]) = Elapsed(moment, last[i]) + rest
    BY <1>1, <1>4 DEF Elapsed, rest
  <2>2. Refill(tokens[i], Elapsed(clock, last[i]), rate, cap)
          = Refill(Refill(tokens[i], Elapsed(moment, last[i]), rate, cap), rest, rate, cap)
    <3>1. PICK u \in Nat, e \in Nat, g \in Nat :
            u = tokens[i] /\ e = Elapsed(moment, last[i]) /\ g = Elapsed(clock, last[i])
      BY <1>1, <2>1
    <3>2. g = e + rest /\ u <= cap
      BY <1>1, <2>1, <3>1
    <3>3. Refill(u, g, rate, cap) = Refill(Refill(u, e, rate, cap), rest, rate, cap)
      BY <1>2, <3>2, RefillTwice
    <3> QED
      BY <3>1, <3>3
  <2>3. Refill(tokens[i], Elapsed(clock, last[i]), rate, cap) \in Nat
    BY <1>1, <1>2, <2>1, RefillFacts
  <2> QED
    BY <1>4, <2>2, <2>3 DEF Available, Refilled, TokensAt, rate, cap, rest
<1>5. CASE i \in held /\ ~(moment >= last[i])
  <2>1. Elapsed(moment, last[i]) = 0 /\ Elapsed(clock, last[i]) \in Nat
        /\ Elapsed(clock, last[i]) <= rest
    BY <1>1, <1>5 DEF Elapsed, rest
  <2>2. Refill(tokens[i], 0, rate, cap) = tokens[i]
    BY <1>1, <1>2 DEF Refill, Least
  <2>3. Refill(tokens[i], Elapsed(clock, last[i]), rate, cap) <= Refill(tokens[i], rest, rate, cap)
    BY <1>1, <1>2, <2>1, RefillGrows
  <2> QED
    BY <1>5, <2>1, <2>2, <2>3 DEF Available, Refilled, TokensAt, rate, cap, rest
<1> QED
  BY <1>3, <1>4, <1>5

-----------------------------------------------------------------------------
(* The steps. *)

(* At first no bucket exists and every exact bucket is full. *)
LEMMA IndInvInit == Init => IndInv
<1> SUFFICES ASSUME Init PROVE IndInv
  OBVIOUS
<1>1. \A i \in Ids : Capacity(i) \in Nat /\ Rate[Slug(i)] \in Nat
  BY LimitFacts
<1>2. TypeOK
  BY <1>1 DEF Init, TypeOK, Request, Outside
<1>3. \A i \in Ids : Available(i) = Capacity(i) /\ ideal[i] = Capacity(i) /\ late[i] = 0
  BY DEF Init, Available
<1> QED
  BY <1>1, <1>2, <1>3 DEF IndInv, WithinRate, NotShortchanged

(* A step that leaves the clock, the buckets and the exact ones alone. *)
LEMMA OutsideTheBuckets ==
    ASSUME IndInv, TypeOK', UNCHANGED <<clock, buckets, ideal, late>>
    PROVE  IndInv'
  BY DEF IndInv, buckets, WithinRate, NotShortchanged, Available, TokensAt

(* A tick refills a bucket as it refills an exact one. *)
LEMMA TickStep ==
    ASSUME IndInv, Tick
    PROVE  IndInv'
<1>1. TypeOK /\ clock \in Nat /\ clock' = clock + 1
  BY DEF IndInv, TypeOK, Tick
<1>2. UNCHANGED <<req, held, tokens, last, swept, sweeper>>
  BY DEF Tick, buckets, sweepVars
<1>3. ASSUME NEW i \in Ids
      PROVE  /\ ideal'[i] = Least(ideal[i] + Rate[Slug(i)], Capacity(i))
             /\ late'[i] = IF ideal'[i] = Capacity(i) THEN 0 ELSE late[i]
             /\ ideal[i] \in Int /\ late[i] \in Nat /\ ideal'[i] \in Int /\ late'[i] \in Nat
  BY LimitFacts DEF IndInv, TypeOK, Tick, Least
<1>4. TypeOK'
  <2>1. ideal' \in [Ids -> Int] /\ late' \in [Ids -> Nat]
    BY <1>3 DEF Tick
  <2>2. swept \in -1..(clock + 1)
    BY <1>1 DEF TypeOK
  <2>3. \A r \in Requests : req[r].now <= clock + 1
    BY <1>1 DEF TypeOK, Request
  <2>4. \A i \in Ids : last[i] <= clock + 1
    BY <1>1 DEF TypeOK
  <2> QED
    BY <1>1, <1>2, <2>1, <2>2, <2>3, <2>4 DEF TypeOK, Capacity
<1>5. ASSUME NEW i \in Ids
      PROVE  /\ Available(i)' <= ideal'[i] + late'[i] * Rate[Slug(i)]
             /\ Available(i)' >= ideal'[i]
             /\ ideal'[i] <= Capacity(i)
  <2> DEFINE rate == Rate[Slug(i)]
             cap == Capacity(i)
  <2>1. rate \in Nat /\ cap \in Nat
    BY LimitFacts
  <2>2. Available(i) \in Nat /\ Available(i) <= cap
    BY <1>1, AvailableFacts
  <2>3. Available(i)' = Least(Available(i) + rate, cap)
    <3>1. CASE i \notin held
      BY <1>2, <3>1, <2>1 DEF Available, Least, Capacity
    <3>2. CASE i \in held
      <4>1. tokens[i] \in Nat /\ tokens[i] <= cap /\ last[i] \in Nat /\ last[i] <= clock
        BY <1>1 DEF TypeOK
      <4>2. /\ Elapsed(clock, last[i]) \in Nat /\ Elapsed(clock', last[i]) \in Nat
            /\ Elapsed(clock', last[i]) = Elapsed(clock, last[i]) + 1
        BY <1>1, <4>1 DEF Elapsed
      <4>3. Refill(tokens[i], Elapsed(clock', last[i]), rate, cap)
              = Least(Refill(tokens[i], Elapsed(clock, last[i]), rate, cap) + rate, cap)
        BY <2>1, <4>1, <4>2, RefillTick
      <4> QED
        BY <1>2, <3>2, <4>3 DEF Available, TokensAt, Capacity
    <3> QED
      BY <3>1, <3>2
  <2>4. Available(i) <= ideal[i] + late[i] * rate /\ Available(i) >= ideal[i] /\ ideal[i] <= cap
    BY DEF IndInv, WithinRate, NotShortchanged
  <2>5. late[i] * rate \in Nat
    BY <1>3, <2>1, Products
  <2> HIDE DEF rate, cap
  <2>6. CASE ideal'[i] = cap
    <3>1. late'[i] * rate = 0
      BY <1>3, <2>1, <2>6 DEF cap
    <3>2. Least(ideal[i] + rate, cap) = cap /\ ideal[i] \in Int
      BY <1>3, <2>6 DEF rate, cap
    <3>3. Available(i)' = cap
      BY <2>1, <2>2, <2>3, <2>4, <3>2 DEF Least
    <3> QED
      BY <2>1, <2>6, <3>1, <3>3 DEF rate, cap
  <2>7. CASE ideal'[i] # cap
    BY <1>3, <2>1, <2>2, <2>3, <2>4, <2>5, <2>7 DEF Least, rate, cap
  <2> QED
    BY <2>6, <2>7
<1> QED
  BY <1>4, <1>5 DEF IndInv, WithinRate, NotShortchanged, Capacity

(* A sweep drops full buckets only: a caller finds what it had. *)
LEMMA RetainStep ==
    ASSUME IndInv, NEW r \in Requests, Retain(r)
    PROVE  IndInv'
<1> DEFINE s == req[r].shard
           dropped == {i \in InShard(s) : ~Kept(r, i)}
<1>1. TypeOK /\ clock \in Nat /\ req[r] \in Request /\ req[r].now \in Nat /\ req[r].now <= clock
  BY DEF IndInv, TypeOK, Request
<1>2. /\ held' = held \ dropped
      /\ tokens' = [i \in Ids |-> IF i \in dropped THEN 0 ELSE tokens[i]]
      /\ last' = [i \in Ids |-> IF i \in dropped THEN 0 ELSE last[i]]
      /\ UNCHANGED <<clock, swept, ideal, late>>
  BY DEF Retain, ghosts
<1>3. sweeper' \subseteq Requests /\ req' \in [Requests -> Request]
      /\ \A q \in Requests : req'[q].now = req[q].now /\ req'[q].key = req[q].key
                              /\ (req'[q].at \notin {"idle", "done"} => req[q].at \notin {"idle", "done"})
  <2>1. CASE s = SHARDS
    BY <1>1, <2>1 DEF Retain, TypeOK, Request
  <2>2. CASE s # SHARDS
    BY <1>1, <2>2 DEF Retain, TypeOK, Request
  <2> QED
    BY <2>1, <2>2
<1>4. TypeOK'
  <2>1. \A i \in Ids : Capacity(i) \in Nat
    BY LimitFacts
  <2> HIDE DEF dropped
  <2> QED
    BY <1>1, <1>2, <1>3, <2>1 DEF TypeOK, Capacity
<1>5. ASSUME NEW i \in Ids
      PROVE  Available(i)' = Available(i)
  <2>1. CASE i \in dropped
    <3>1. i \in held /\ ~(TokensAt(i, req[r].now) < Capacity(i))
      BY <2>1 DEF InShard, Kept
    <3>2. Refilled(i, req[r].now) <= Available(i) /\ Available(i) <= Capacity(i) /\ Available(i) \in Nat
          /\ TokensAt(i, req[r].now) \in Nat
      BY <1>1, AvailableFacts
    <3>3. Available(i) = Capacity(i)
      BY <3>1, <3>2, LimitFacts DEF Refilled
    <3> QED
      BY <1>2, <2>1, <3>3 DEF Available, Capacity
  <2>2. CASE i \notin dropped
    <3> HIDE DEF dropped
    <3> QED
      BY <1>2, <2>2 DEF Available, TokensAt, Capacity
  <2> QED
    BY <2>1, <2>2
<1> QED
  BY <1>2, <1>4, <1>5 DEF IndInv, WithinRate, NotShortchanged, Capacity

(* A request that spends c units, or none, under the lock. *)
LEMMA TouchStep ==
    ASSUME IndInv, TypeOK', NEW i \in Ids, NEW moment \in Nat, moment <= clock, NEW c \in Nat,
           c <= Refilled(i, moment),
           UNCHANGED clock, Touch(i, moment, Refilled(i, moment) - c),
           ideal' = [ideal EXCEPT ![i] = @ - c]
    PROVE  IndInv'
<1> DEFINE rate == Rate[Slug(i)]
           cap == Capacity(i)
           have == Refilled(i, moment)
           rest == clock - moment
<1>1. TypeOK /\ clock \in Nat /\ ideal[i] \in Int /\ late[i] \in Nat /\ late \in [Ids -> Nat]
      /\ ideal \in [Ids -> Int] /\ tokens \in [Ids -> Nat] /\ last \in [Ids -> Nat]
  BY DEF IndInv, TypeOK
<1>2. rate \in Nat /\ cap \in Nat /\ rest \in Nat
  BY <1>1, LimitFacts
<1>3. have \in Nat /\ have <= cap /\ have <= Available(i) /\ Available(i) \in Nat
  BY <1>1, AvailableFacts
<1>4. Available(i) <= Refill(have, rest, rate, cap)
  BY <1>1, LateRefill
<1>5. Available(i) <= ideal[i] + late[i] * rate /\ Available(i) >= ideal[i] /\ ideal[i] <= cap
  BY DEF IndInv, WithinRate, NotShortchanged
<1>6. late'[i] = late[i] + rest /\ ideal'[i] = ideal[i] - c
  BY <1>1 DEF Touch
<1>7. Available(i)' = Refill(have - c, rest, rate, cap)
  <2>1. i \in held' /\ tokens'[i] = have - c /\ last'[i] = moment /\ clock' = clock
    BY <1>1 DEF Touch
  <2>2. Elapsed(clock, moment) = rest
    BY <1>1 DEF Elapsed
  <2> QED
    BY <2>1, <2>2 DEF Available, TokensAt, Capacity
<1> HIDE DEF rate, cap, have, rest
<1>8. /\ Refill(have - c, rest, rate, cap) >= Refill(have, rest, rate, cap) - c
      /\ Refill(have - c, rest, rate, cap) <= (have - c) + rest * rate
  BY <1>2, <1>3, SpendRefill DEF have
<1>9. /\ Refill(have - c, rest, rate, cap) \in Nat /\ Refill(have, rest, rate, cap) \in Nat
  <2>1. have - c \in Nat /\ have - c <= cap
    BY <1>2, <1>3 DEF have
  <2> QED
    BY <1>2, <1>3, <2>1, RefillFacts
<1>10. (late[i] + rest) * rate = late[i] * rate + rest * rate
       /\ late[i] * rate \in Nat /\ rest * rate \in Nat
  BY <1>1, <1>2, Products
<1>11. /\ Available(i)' <= ideal'[i] + late'[i] * rate
       /\ Available(i)' >= ideal'[i]
       /\ ideal'[i] <= cap
  BY <1>1, <1>2, <1>3, <1>4, <1>5, <1>6, <1>7, <1>8, <1>9, <1>10
<1>12. ASSUME NEW j \in Ids, j # i
       PROVE  Available(j)' = Available(j) /\ ideal'[j] = ideal[j] /\ late'[j] = late[j]
  BY <1>1, <1>12 DEF Touch, Available, TokensAt, Capacity
<1> QED
  BY <1>11, <1>12 DEF IndInv, WithinRate, NotShortchanged, Capacity, rate, cap

(* The clock that a request spends by, and what it spends. *)
LEMMA SpendType ==
    ASSUME TypeOK, NEW r \in Requests, req[r].at = "spend", NEW c \in Nat,
           c <= Refilled(Spends(req[r].key), req[r].now),
           Touch(Spends(req[r].key), req[r].now, Refilled(Spends(req[r].key), req[r].now) - c),
           req' = [req EXCEPT ![r] = Outside("done")],
           ideal' \in [Ids -> Int],
           UNCHANGED <<clock, sweepVars>>
    PROVE  /\ TypeOK'
           /\ Spends(req[r].key) \in Ids /\ req[r].now \in Nat /\ req[r].now <= clock
<1> DEFINE i == Spends(req[r].key)
           moment == req[r].now
           have == Refilled(i, moment)
<1>1. req[r].key \in Keys /\ moment \in Nat /\ moment <= clock /\ clock \in Nat
  BY DEF TypeOK, Request
<1>2. i \in Ids
  BY <1>1, SpendsType
<1>3. have \in Nat /\ have <= Capacity(i) /\ Capacity(i) \in Nat
  BY <1>1, <1>2, AvailableFacts, LimitFacts
<1> HIDE DEF i, have
<1>4. have - c \in Nat /\ have - c <= Capacity(i) /\ clock - moment \in Nat
  BY <1>1, <1>3 DEF i, have
<1>5. /\ held' = held \cup {i}
      /\ tokens' = [tokens EXCEPT ![i] = have - c]
      /\ last' = [last EXCEPT ![i] = moment]
      /\ late' = [late EXCEPT ![i] = @ + (clock - moment)]
  BY DEF Touch, i, have
<1>6. held' \subseteq Ids /\ tokens' \in [Ids -> Nat] /\ last' \in [Ids -> Nat] /\ late' \in [Ids -> Nat]
  BY <1>1, <1>2, <1>4, <1>5 DEF TypeOK
<1>7. \A j \in Ids : tokens'[j] <= Capacity(j) /\ last'[j] <= clock
  BY <1>1, <1>2, <1>4, <1>5 DEF TypeOK
<1>8. req' \in [Requests -> Request] /\ \A q \in Requests :
        req'[q].now <= clock /\ (req'[q].at \notin {"idle", "done"} => req'[q].key \in Keys)
  BY <1>1 DEF TypeOK, Request, Outside
<1>9. TypeOK'
  BY <1>1, <1>6, <1>7, <1>8 DEF TypeOK, sweepVars, Capacity
<1> QED
  BY <1>1, <1>2, <1>9 DEF i

(* An admitted request is spent from the exact bucket too. *)
LEMMA AllowStep ==
    ASSUME IndInv, NEW r \in Requests, Allow(r)
    PROVE  IndInv'
<1> DEFINE i == Spends(req[r].key)
           moment == req[r].now
           c == req[r].cost * ONE
<1>1. TypeOK /\ req[r] \in Request /\ req[r].key \in Keys /\ moment \in Nat
  BY DEF IndInv, TypeOK, Allow, Request
<1>2. c \in Nat
  <2>1. req[r].cost \in Nat /\ ONE \in Nat
    BY <1>1, ConstantAssumption DEF Request
  <2> QED
    BY <2>1
<1>3. i \in Ids /\ Refilled(i, moment) \in Nat
  BY <1>1, SpendsType, AvailableFacts
<1>4. c <= Refilled(i, moment) /\ Touch(i, moment, Refilled(i, moment) - c)
      /\ ideal' = [ideal EXCEPT ![i] = @ - c]
      /\ req' = [req EXCEPT ![r] = Outside("done")]
      /\ UNCHANGED <<clock, sweepVars>> /\ req[r].at = "spend"
  BY <1>2, <1>3 DEF Allow
<1> HIDE DEF c
<1>5. ideal' \in [Ids -> Int]
  BY <1>1, <1>2, <1>3, <1>4 DEF TypeOK
<1>6. TypeOK' /\ moment <= clock
  BY <1>1, <1>2, <1>4, <1>5, SpendType
<1> QED
  BY <1>1, <1>2, <1>3, <1>4, <1>6, TouchStep

(* A refused one is not. *)
LEMMA RefuseStep ==
    ASSUME IndInv, NEW r \in Requests, Refuse(r)
    PROVE  IndInv'
<1> DEFINE i == Spends(req[r].key)
           moment == req[r].now
<1>1. TypeOK /\ req[r] \in Request /\ req[r].key \in Keys /\ moment \in Nat
  BY DEF IndInv, TypeOK, Refuse, Request
<1>2. i \in Ids /\ Refilled(i, moment) \in Nat
  BY <1>1, SpendsType, AvailableFacts
<1>3. 0 <= Refilled(i, moment) /\ Touch(i, moment, Refilled(i, moment) - 0)
      /\ req' = [req EXCEPT ![r] = Outside("done")]
      /\ UNCHANGED <<clock, sweepVars>> /\ req[r].at = "spend" /\ ideal' = ideal
  <2>1. Refilled(i, moment) - 0 = Refilled(i, moment)
    BY <1>2
  <2> QED
    BY <1>2, <2>1 DEF Refuse
<1>4. ideal' \in [Ids -> Int] /\ ideal' = [ideal EXCEPT ![i] = @ - 0]
  BY <1>1, <1>2, <1>3 DEF TypeOK
<1>5. TypeOK' /\ moment <= clock
  BY <1>1, <1>3, <1>4, SpendType
<1> QED
  BY <1>1, <1>2, <1>3, <1>4, <1>5, TouchStep

(* A request arrives, skips the sweep, or measures for one. *)
LEMMA RequestStep ==
    ASSUME IndInv, NEW r \in Requests,
           \/ \E k \in Keys, cost \in Costs : Arrive(r, k, cost)
           \/ SkipSweep(r) \/ StartSweep(r) \/ Measure(r)
    PROVE  IndInv'
<1>1. TypeOK /\ UNCHANGED <<clock, buckets, ideal, late>>
  BY DEF IndInv, Arrive, SkipSweep, StartSweep, Measure, ghosts
<1>2. ASSUME NEW k \in Keys, NEW cost \in Costs, Arrive(r, k, cost) PROVE TypeOK'
  <2>1. cost \in Nat /\ clock \in Nat
    BY <1>1, ConstantAssumption DEF TypeOK
  <2> QED
    BY <1>1, <1>2, <2>1 DEF TypeOK, Arrive, Request, buckets, sweepVars, ghosts, Capacity
<1>3. ASSUME SkipSweep(r) PROVE TypeOK'
  BY <1>1, <1>3 DEF TypeOK, SkipSweep, Request, buckets, sweepVars, ghosts, Capacity
<1>4. ASSUME StartSweep(r) PROVE TypeOK'
  BY <1>1, <1>4 DEF TypeOK, StartSweep, Request, buckets, ghosts, Capacity
<1>5. ASSUME Measure(r) PROVE TypeOK'
  BY <1>1, <1>5 DEF TypeOK, Measure, Request, buckets, ghosts, Capacity
<1>6. TypeOK'
  BY <1>2, <1>3, <1>4, <1>5
<1> QED
  BY <1>1, <1>6, OutsideTheBuckets

(* IndInv is inductive: rate_limit.rs keeps it with every step of every      *)
(* request, whatever order the requests come to the locks in.                *)
THEOREM Inductive == Spec => []IndInv
<1>1. IndInv /\ [Next]_vars => IndInv'
  <2> SUFFICES ASSUME IndInv, [Next]_vars PROVE IndInv'
    OBVIOUS
  <2>1. CASE UNCHANGED vars
    <3>1. TypeOK'
      BY <2>1 DEF IndInv, TypeOK, vars, buckets, sweepVars, ghosts, Capacity
    <3> QED
      BY <2>1, <3>1, OutsideTheBuckets DEF vars, ghosts
  <2>2. CASE Tick
    BY <2>2, TickStep
  <2>3. ASSUME NEW r \in Requests,
               \/ \E k \in Keys, cost \in Costs : Arrive(r, k, cost)
               \/ SkipSweep(r) \/ StartSweep(r) \/ Measure(r) \/ Retain(r)
               \/ Allow(r) \/ Refuse(r)
        PROVE  IndInv'
    BY <2>3, RequestStep, RetainStep, AllowStep, RefuseStep
  <2> QED
    BY <2>1, <2>2, <2>3 DEF Next
<1> QED
  BY <1>1, IndInvInit, PTL DEF Spec

(* No bucket of the limiter holds more than its burst, and no clock it       *)
(* stores is ahead of the time.                                              *)
THEOREM TypeCorrect == Spec => []TypeOK
<1>1. IndInv => TypeOK
  BY DEF IndInv
<1> QED
  BY <1>1, Inductive, PTL

(* Whatever sweeps and overtaking requests do, a caller is never allowed     *)
(* more than a token bucket of its Endpoint's limits allows and the refill   *)
(* of its own requests' lateness.                                            *)
THEOREM RateIsKept == Spec => []WithinRate
<1>1. IndInv => WithinRate
  BY DEF IndInv
<1> QED
  BY <1>1, Inductive, PTL

(* And it never finds less than that token bucket holds.                     *)
THEOREM NothingIsLost == Spec => []NotShortchanged
<1>1. IndInv => NotShortchanged
  BY DEF IndInv
<1> QED
  BY <1>1, Inductive, PTL

-----------------------------------------------------------------------------
(* The size of the map. *)

MapInv == held \subseteq Ids /\ IsFiniteSet(held) /\ MapIsBounded

(* Dropping buckets keeps the bound. *)
LEMMA FewerBuckets ==
    ASSUME MapInv, held' \subseteq held
    PROVE  MapInv'
<1>1. held' \subseteq Ids /\ IsFiniteSet(held')
  BY FS_Subset DEF MapInv
<1>2. ASSUME NEW s \in Shards
      PROVE  Cardinality(InShard(s)' \cap Keys) <= SHARD_CAP
  <2>1. IsFiniteSet(InShard(s) \cap Keys)
    BY FS_Subset DEF MapInv, InShard
  <2>2. InShard(s)' \cap Keys \subseteq InShard(s) \cap Keys
    BY DEF InShard, Shard
  <2>3. /\ Cardinality(InShard(s)' \cap Keys) <= Cardinality(InShard(s) \cap Keys)
        /\ Cardinality(InShard(s)' \cap Keys) \in Nat /\ Cardinality(InShard(s) \cap Keys) \in Nat
    BY <2>1, <2>2, FS_Subset, FS_CardinalityType
  <2> QED
    BY <2>3, ConstantAssumption DEF MapInv, MapIsBounded
<1> QED
  BY <1>1, <1>2 DEF MapInv, MapIsBounded

(* A new caller gets a bucket of its own only below the cap. *)
LEMMA OneMoreBucket ==
    ASSUME MapInv, NEW k \in Keys, held' = held \cup {Spends(k)}
    PROVE  MapInv'
<1>1. held' \subseteq Ids /\ IsFiniteSet(held')
  BY SpendsType, FS_AddElement DEF MapInv
<1>2. CASE Spends(k) \in held
  BY <1>2, FewerBuckets
<1>3. CASE Spends(k) \notin Keys
  <2>1. ASSUME NEW s \in Shards PROVE InShard(s)' \cap Keys = InShard(s) \cap Keys
    BY <1>3 DEF InShard, Shard
  <2> QED
    BY <1>1, <2>1 DEF MapInv, MapIsBounded
<1>4. CASE Spends(k) \in Keys /\ Spends(k) \notin held
  <2>1. Spends(k) = k /\ k \notin held /\ ~(Cardinality(InShard(shard_of[k])) >= SHARD_CAP)
    <3>1. Overflow(shard_of[k], SlugOf[k]) \notin Keys
      BY ConstantAssumption
    <3> QED
      BY <1>4, <3>1 DEF Spends
  <2>2. ASSUME NEW s \in Shards
        PROVE  Cardinality(InShard(s)' \cap Keys) <= SHARD_CAP
    <3>1. CASE s = shard_of[k]
      <4>1. IsFiniteSet(InShard(s)) /\ Cardinality(InShard(s)) \in Nat
        BY FS_Subset, FS_CardinalityType DEF MapInv, InShard
      <4>2. IsFiniteSet(InShard(s) \cap Keys)
            /\ Cardinality(InShard(s) \cap Keys) <= Cardinality(InShard(s))
            /\ Cardinality(InShard(s) \cap Keys) \in Nat
        BY <4>1, FS_Subset, FS_CardinalityType
      <4>3. InShard(s)' \cap Keys = (InShard(s) \cap Keys) \cup {k}
        BY <2>1, <3>1 DEF InShard, Shard
      <4>4. k \notin InShard(s) \cap Keys
        BY <2>1 DEF InShard
      <4>5. Cardinality(InShard(s)' \cap Keys) = Cardinality(InShard(s) \cap Keys) + 1
        BY <4>2, <4>3, <4>4, FS_AddElement
      <4> QED
        BY <2>1, <3>1, <4>1, <4>2, <4>5, ConstantAssumption
    <3>2. CASE s # shard_of[k]
      <4>1. InShard(s)' \cap Keys = InShard(s) \cap Keys
        BY <2>1, <3>2 DEF InShard, Shard
      <4> QED
        BY <4>1 DEF MapInv, MapIsBounded
    <3> QED
      BY <3>1, <3>2
  <2> QED
    BY <1>1, <2>2 DEF MapInv, MapIsBounded
<1> QED
  BY <1>2, <1>3, <1>4

(* However many callers arrive, and whenever a sweep makes room, a shard     *)
(* holds at most SHARD_CAP of them.                                          *)
THEOREM MapStaysBounded == Spec => []MapIsBounded
<1>1. Init => MapInv
  <2> SUFFICES ASSUME Init PROVE MapInv
    OBVIOUS
  <2>1. \A s \in Shards : InShard(s) \cap Keys = {}
    BY DEF Init, InShard
  <2>2. MapIsBounded
    <3>1. Cardinality({}) = 0
      BY FS_EmptySet
    <3>2. 0 <= SHARD_CAP
      BY ConstantAssumption
    <3>3. \A s \in Shards : Cardinality(InShard(s) \cap Keys) = 0
      BY <2>1, <3>1, Zenon
    <3> QED
      BY <3>2, <3>3, Zenon DEF MapIsBounded
  <2>3. held = {} /\ IsFiniteSet({})
    BY FS_EmptySet DEF Init
  <2> QED
    BY <2>2, <2>3 DEF MapInv
<1>2. IndInv /\ MapInv /\ [Next]_vars => MapInv'
  <2> SUFFICES ASSUME IndInv, MapInv, [Next]_vars PROVE MapInv'
    OBVIOUS
  <2>1. ASSUME NEW r \in Requests, Allow(r) \/ Refuse(r) PROVE MapInv'
    <3>1. req[r].key \in Keys
      BY <2>1 DEF IndInv, TypeOK, Allow, Refuse
    <3>2. held' = held \cup {Spends(req[r].key)}
      BY <2>1 DEF Allow, Refuse, Touch
    <3> QED
      BY <3>1, <3>2, OneMoreBucket
  <2>2. ASSUME NEW r \in Requests, Retain(r) PROVE held' \subseteq held
    BY <2>2 DEF Retain
  <2>3. ASSUME UNCHANGED vars \/ Tick \/ \E r \in Requests :
                 \/ \E k \in Keys, cost \in Costs : Arrive(r, k, cost)
                 \/ SkipSweep(r) \/ StartSweep(r) \/ Measure(r)
        PROVE  held' \subseteq held
    BY <2>3 DEF vars, buckets, Tick, Arrive, SkipSweep, StartSweep, Measure
  <2> QED
    BY <2>1, <2>2, <2>3, FewerBuckets DEF Next
<1>3. MapInv => MapIsBounded
  BY DEF MapInv
<1> QED
  BY <1>1, <1>2, <1>3, Inductive, PTL DEF Spec

-----------------------------------------------------------------------------
(* What a refusal promises. *)

Promises == [Ids -> SUBSET [at : Nat, units : Nat]]

PromiseInv == promise \in Promises /\ WaitIsEnough

(* The ticks of a division rounded up refill what is missing. *)
LEMMA RoundedUp ==
    ASSUME NEW m \in Nat, NEW r \in Nat \ {0}
    PROVE  (m + r - 1) \div r \in Nat /\ ((m + r - 1) \div r) * r >= m
<1> DEFINE a == m + r - 1
           q == a \div r
<1>1. a \in Nat /\ q \in Nat
  BY SMTT(30)
<1>2. a = r * q + (a % r) /\ a % r \in 0..(r - 1)
  BY SMTT(30)
<1>3. r * q = q * r /\ q * r \in Nat
  BY <1>1
<1> HIDE DEF q
<1>4. q * r >= m
  BY <1>2, <1>3
<1> QED
  BY <1>1, <1>4 DEF q

(* A bucket that a step leaves alone, or drops, keeps its promises. *)
LEMMA PromisesLeftAlone ==
    ASSUME PromiseInv, UNCHANGED promise, held' \subseteq held,
           \A i \in held' : i \in Ids => tokens'[i] = tokens[i] /\ last'[i] = last[i]
    PROVE  PromiseInv'
  BY DEF PromiseInv, Promises, WaitIsEnough, TokensAt, Capacity

(* A request that touches its bucket leaves there only a promise it keeps. *)
LEMMA PromiseOfTheTouched ==
    ASSUME PromiseInv, TypeOK, NEW i \in Ids, NEW moment \in Nat, NEW units, Touch(i, moment, units),
           NEW P \in SUBSET [at : Nat, units : Nat], promise' = [promise EXCEPT ![i] = P],
           \A p \in P : Refill(units, Elapsed(p.at, moment), Rate[Slug(i)], Capacity(i)) >= p.units
    PROVE  PromiseInv'
<1>1. promise' \in Promises /\ promise'[i] = P
  BY DEF PromiseInv, Promises
<1>2. tokens'[i] = units /\ last'[i] = moment
  BY DEF Touch, TypeOK
<1>3. ASSUME NEW p \in promise'[i]
      PROVE  TokensAt(i, p.at)' >= p.units
  BY <1>1, <1>2, <1>3 DEF TokensAt, Capacity
<1>4. ASSUME NEW j \in Ids, j # i, NEW p \in promise'[j], j \in held'
      PROVE  TokensAt(j, p.at)' >= p.units
  <2>1. /\ j \in held /\ p \in promise[j]
        /\ tokens'[j] = tokens[j] /\ last'[j] = last[j]
    BY <1>4 DEF Touch, TypeOK, PromiseInv, Promises
  <2>2. TokensAt(j, p.at) >= p.units
    BY <2>1 DEF PromiseInv, WaitIsEnough
  <2> QED
    BY <2>1, <2>2 DEF TokensAt, Capacity
<1> QED
  BY <1>1, <1>3, <1>4 DEF PromiseInv, WaitIsEnough

(* After the ticks of Wait, the bucket holds what the refusal said. *)
LEMMA RefusalIsKept ==
    ASSUME TypeOK, NEW r \in Requests, Refuse(r), PromiseInv
    PROVE  PromiseInv'
<1> DEFINE k == req[r].key
           i == Spends(k)
           moment == req[r].now
           cost == req[r].cost
           have == Refilled(i, moment)
           rate == Rate[Slug(i)]
           cap == Capacity(i)
           units == Least(cost * ONE, cap)
           w == Wait(i, cost, have)
           p == [at |-> moment + w, units |-> units]
<1>1. k \in Keys /\ moment \in Nat /\ cost \in Nat
  BY DEF TypeOK, Request, Refuse
<1>2. i \in Ids
  BY <1>1, SpendsType
<1>3. have \in Nat /\ have <= cap
  BY <1>1, <1>2, AvailableFacts
<1>4. rate \in Nat \ {0} /\ cap \in Nat /\ cost * ONE \in Nat
  <2>1. Slug(i) \in Slugs /\ cap \in Nat
    BY <1>2, LimitFacts
  <2>2. rate \in Nat \ {0} /\ ONE \in Nat
    BY <2>1, ConstantAssumption
  <2> QED
    BY <1>1, <2>1, <2>2
<1>5. /\ Touch(i, moment, have) /\ have < cost * ONE
      /\ promise' = [promise EXCEPT ![i] = {p}]
  BY DEF Refuse
<1>6. w = ((units - have) + rate - 1) \div rate
  BY DEF Wait
<1> HIDE DEF have, rate, cap, w, i, k, cost, moment
<1>7. units \in Nat /\ units - have \in Nat /\ units <= cap
  BY <1>3, <1>4, <1>5 DEF Least
<1> HIDE DEF units
<1>8. w \in Nat /\ w * rate >= units - have
  BY <1>4, <1>6, <1>7, RoundedUp
<1>9. Refill(have, w, rate, cap) >= units
  <2>1. w * rate \in Nat
    BY <1>4, <1>8
  <2> QED
    BY <1>3, <1>4, <1>7, <1>8, <2>1 DEF Refill, Least
<1>10. p \in [at : Nat, units : Nat] /\ p.units = units /\ Elapsed(p.at, moment) = w
  BY <1>1, <1>7, <1>8 DEF Elapsed
<1> HIDE DEF p
<1>11. {p} \in SUBSET [at : Nat, units : Nat]
  BY <1>10
<1>12. \A q \in {p} : Refill(have, Elapsed(q.at, moment), Rate[Slug(i)], Capacity(i)) >= q.units
  BY <1>9, <1>10 DEF rate, cap
<1> QED
  BY <1>1, <1>2, <1>5, <1>11, <1>12, PromiseOfTheTouched

(* A client that waits the time its refusal named finds the tokens it asked  *)
(* for, for all limits and costs, unless another request was allowed.        *)
THEOREM WaitingIsEnough == Spec => []WaitIsEnough
<1>1. Init => PromiseInv
  BY DEF Init, PromiseInv, Promises, WaitIsEnough
<1>2. IndInv /\ PromiseInv /\ [Next]_vars => PromiseInv'
  <2> SUFFICES ASSUME IndInv, PromiseInv, [Next]_vars PROVE PromiseInv'
    OBVIOUS
  <2>1. TypeOK
    BY DEF IndInv
  <2>2. ASSUME NEW r \in Requests, Allow(r) PROVE PromiseInv'
    <3> DEFINE i == Spends(req[r].key)
               units == Refilled(i, req[r].now) - req[r].cost * ONE
    <3>1. req[r].key \in Keys /\ req[r].now \in Nat
      BY <2>1, <2>2 DEF TypeOK, Request, Allow
    <3>2. i \in Ids
      BY <3>1, SpendsType
    <3>3. Touch(i, req[r].now, units) /\ promise' = [promise EXCEPT ![i] = {}]
      BY <2>2 DEF Allow
    <3> HIDE DEF i, units
    <3>4. {} \in SUBSET [at : Nat, units : Nat]
      OBVIOUS
    <3>5. \A p \in {} : Refill(units, Elapsed(p.at, req[r].now), Rate[Slug(i)], Capacity(i)) >= p.units
      OBVIOUS
    <3> QED
      BY <2>1, <3>1, <3>2, <3>3, <3>4, <3>5, PromiseOfTheTouched
  <2>3. ASSUME NEW r \in Requests, Refuse(r) PROVE PromiseInv'
    BY <2>1, <2>3, RefusalIsKept
  <2>4. ASSUME NEW r \in Requests, Retain(r) PROVE PromiseInv'
    BY <2>1, <2>4, PromisesLeftAlone DEF Retain, ghosts
  <2>5. ASSUME UNCHANGED vars \/ Tick \/ \E r \in Requests :
                 \/ \E k \in Keys, cost \in Costs : Arrive(r, k, cost)
                 \/ SkipSweep(r) \/ StartSweep(r) \/ Measure(r)
        PROVE  PromiseInv'
    <3>1. UNCHANGED <<held, tokens, last, promise>>
      BY <2>5 DEF vars, buckets, ghosts, Tick, Arrive, SkipSweep, StartSweep, Measure
    <3> QED
      BY <3>1, PromisesLeftAlone
  <2> QED
    BY <2>2, <2>3, <2>4, <2>5 DEF Next
<1>3. PromiseInv => WaitIsEnough
  BY DEF PromiseInv
<1> QED
  BY <1>1, <1>2, <1>3, Inductive, PTL DEF Spec

-----------------------------------------------------------------------------
(***************************************************************************)
(* Creates. For any forms, callers and limits, the creates of a day stay   *)
(* within their part of it, but for a part more for every reservation      *)
(* judged after one of a later day. An entry counts its day's creates      *)
(* exactly unless a later day was judged before (Within), and that a       *)
(* caller's entry is given up only when its day is over keeps it so.       *)
(***************************************************************************)

(* The types, and what every entry keeps to: its day was judged, and it           *)
(* counts no more than its part of a day.                                    *)
Create(day) == [at : {"idle", "read", "refused", "sent", "made", "kept", "released", "doubted"},
                form : Forms \cup {NoOne}, sender : Senders \cup {NoOne}, day : 0..day]

CreatesTypes ==
    /\ today \in 1..Days /\ latest \in 0..today /\ overtook \in Nat
    /\ create \in [Creates -> Create(today)]
    /\ \A c \in Creates : create[c].at # "idle" => create[c].form \in Forms
                                               /\ create[c].sender \in Senders
    /\ counts \in [Forms -> [day : 0..latest, n : Nat]]
    /\ callers \in [Forms \X Senders -> [day : 0..latest, n : Nat]]

EntriesKept ==
    /\ IsFiniteSet(Entries(callers))
    /\ Cardinality(Entries(callers)) <= MAX_CALLERS

OfForm(d, f) == {c \in Taken(d) : create[c].form = f}
OfCaller(d, f, s) == {c \in Taken(d) : Key(c) = <<f, s>>}

(* The creates of a day, against what its entry counts: exact for a day no        *)
(* later one was judged before, and but for the reservations that overtook.  *)
Within(taken, kept_count, d, part, overs, until) ==
    /\ taken <= (1 + overs) * part
    /\ d >= until => taken <= overs * part + On(kept_count, d)

(* A create that holds its slot; one that went to the broker and was not refused. *)
SlotHeld == {"sent", "made", "kept"}

WentOut == {"sent", "made", "kept", "doubted"}

Counted ==
    /\ IsFiniteSet({c \in Creates : create[c].at \in WentOut})
    /\ \A d \in 1..Days, f \in Forms :
         /\ Within(Cardinality(OfForm(d, f)), counts[f], d, PerDay[f], overtook, latest)
         /\ \A s \in Senders :
              Within(Cardinality(OfCaller(d, f, s)), callers[<<f, s>>], d, share(PerDay[f]),
                     overtook, latest)

CreatesInv == CreatesTypes /\ EntriesKept /\ Counted

LEMMA ShareIsPositive ==
    ASSUME NEW f \in Forms
    PROVE  PerDay[f] \in Nat \ {0} /\ share(PerDay[f]) \in Nat \ {0}
<1>1. PerDay[f] \in Nat \ {0}
  BY CreatesAssumption
<1> QED BY <1>1 DEF share

(* One slot taken in a day, or none, by a reservation that is judged.        *)
LEMMA JudgedWithin ==
    ASSUME CreatesTypes, NEW c \in Creates, Judged(c),
           NEW taken \in Nat, NEW more \in {0, 1}, NEW d \in 1..Days,
           NEW part \in Nat \ {0},
           NEW kept_count \in [day : 0..latest, n : Nat], NEW next,
           Within(taken, kept_count, d, part, overtook, latest),
           \/ more = 0 /\ next = kept_count
           \/ more = 0 /\ next = NoCount /\ kept_count.day # create[c].day
           \/ /\ next = [day |-> create[c].day, n |-> On(kept_count, create[c].day) + 1]
              /\ On(kept_count, create[c].day) < part
              /\ more = IF d = create[c].day THEN 1 ELSE 0
    PROVE  Within(taken + more, next, d, part, overtook', latest')
<1>1. /\ overtook * part \in Nat /\ (1 + overtook) * part = overtook * part + part
      /\ (1 + (overtook + 1)) * part = overtook * part + part + part
      /\ (overtook + 1) * part = overtook * part + part
  BY DEF CreatesTypes, Create
<1> DEFINE q == overtook * part
<1>2. /\ create[c].day \in Nat /\ latest \in Nat /\ overtook \in Nat /\ d \in Nat
      /\ kept_count.day \in Nat /\ kept_count.n \in Nat /\ kept_count.day <= latest
  BY DEF CreatesTypes, Create
<1> HIDE DEF q
<1>3. CASE latest > create[c].day
  <2>1. overtook' = overtook + 1 /\ latest' = latest
    BY <1>3 DEF Judged
  <2>2. taken <= q + part
    BY <1>1 DEF Within, q
  <2>3. taken + more <= q + part + part
    BY <2>2, <1>1 DEF q
  <2>4. d >= latest => more = 0
    BY <1>2, <1>3
  <2>5. On(next, d)' = On(next, d) /\ (d >= latest => On(next, d) \in Nat)
    BY <1>2, <1>3 DEF On, NoCount
  <2> QED BY <1>1, <2>1, <2>2, <2>3, <2>4, <2>5, <1>2 DEF Within, q
<1>4. CASE ~(latest > create[c].day)
  <2>1. overtook' = overtook /\ latest' = create[c].day
    BY <1>4 DEF Judged
  <2>2. taken <= q + part /\ (d >= latest => taken <= q + On(kept_count, d))
    BY <1>1 DEF Within, q
  <2>3. d >= create[c].day => taken <= q + On(kept_count, d)
    BY <1>2, <1>4, <2>2
  <2>4. d >= create[c].day => taken + more <= q + On(next, d)
    BY <1>1, <1>2, <1>4, <2>3 DEF On, NoCount, q
  <2>5. taken + more <= q + part
    BY <1>1, <1>2, <2>2, <2>3 DEF On, q
  <2> QED BY <1>1, <2>1, <2>4, <2>5 DEF Within, On, q
<1> QED BY <1>3, <1>4

LEMMA TakenAreFinite ==
    ASSUME Counted
    PROVE  \A d, f : /\ IsFiniteSet(OfForm(d, f)) /\ Cardinality(OfForm(d, f)) \in Nat
                     /\ \A s : /\ IsFiniteSet(OfCaller(d, f, s))
                               /\ Cardinality(OfCaller(d, f, s)) \in Nat
<1> DEFINE sent == {c \in Creates : create[c].at \in WentOut}
<1>1. IsFiniteSet(sent)
  BY DEF Counted
<1>2. \A d, f, s : OfForm(d, f) \subseteq sent /\ OfCaller(d, f, s) \subseteq sent
  BY DEF OfForm, OfCaller, Taken, WentOut
<1> QED BY <1>1, <1>2, FS_Subset, FS_CardinalityType

(* A map whose entries are all entries of another one has room as that does. *)
LEMMA EntriesShrink ==
    ASSUME EntriesKept, NEW m, Entries(m) \subseteq Entries(callers)
    PROVE  IsFiniteSet(Entries(m)) /\ Cardinality(Entries(m)) <= MAX_CALLERS
<1>1. /\ IsFiniteSet(Entries(m)) /\ Cardinality(Entries(m)) <= Cardinality(Entries(callers))
      /\ Cardinality(Entries(m)) \in Nat /\ Cardinality(Entries(callers)) \in Nat
  BY FS_Subset, FS_CardinalityType DEF EntriesKept
<1> QED BY <1>1, CreatesAssumption DEF EntriesKept

LEMMA SweptKept ==
    ASSUME CreatesTypes, NEW day
    PROVE  /\ Swept(day) \in [Forms \X Senders -> [day : 0..latest, n : Nat]]
           /\ Entries(Swept(day)) \subseteq Entries(callers)
           /\ \A k \in Forms \X Senders :
                \/ Swept(day)[k] = callers[k]
                \/ Swept(day)[k] = NoCount /\ callers[k].day # day
<1>1. latest \in Nat /\ 0 \in 0..latest
  BY DEF CreatesTypes, Create
<1>2. NoCount \in [day : 0..latest, n : Nat]
  BY <1>1 DEF NoCount
<1> QED BY <1>2 DEF CreatesTypes, Create, Swept, Entries

LEMMA CreatesStart == CreatesInit => CreatesInv
<1> SUFFICES ASSUME CreatesInit PROVE CreatesInv
  OBVIOUS
<1>1. CreatesTypes
  BY CreatesAssumption DEF CreatesInit, CreatesTypes, Create, NoCount
<1>2. EntriesKept
  <2>1. Entries(callers) = {}
    BY DEF CreatesInit, Entries
  <2> QED BY <2>1, FS_EmptySet, CreatesAssumption DEF EntriesKept
<1>3. Counted
  <2>1. \A d, f, s : OfForm(d, f) = {} /\ OfCaller(d, f, s) = {}
    BY DEF CreatesInit, OfForm, OfCaller, Taken
  <2>2. {c \in Creates : create[c].at \in WentOut} = {}
    BY DEF CreatesInit, WentOut
  <2>3. Cardinality({}) = 0 /\ IsFiniteSet({})
    BY FS_EmptySet
  <2>4. \A f \in Forms, d \in 1..Days : Within(0, counts[f], d, PerDay[f], overtook, latest)
    BY ShareIsPositive, CreatesAssumption DEF Within, CreatesInit, On, NoCount
  <2>5. \A f \in Forms, s \in Senders, d \in 1..Days :
          Within(0, callers[<<f, s>>], d, share(PerDay[f]), overtook, latest)
    <3> TAKE f \in Forms, s \in Senders, d \in 1..Days
    <3>1. share(PerDay[f]) \in Nat /\ callers[<<f, s>>] = NoCount /\ overtook = 0
      BY ShareIsPositive DEF CreatesInit
    <3> HIDE DEF share
    <3> QED BY <3>1, CreatesAssumption DEF Within, On, NoCount
  <2> QED BY <2>1, <2>2, <2>3, <2>4, <2>5 DEF Counted
<1> QED BY <1>1, <1>2, <1>3 DEF CreatesInv

(* A reservation that is judged, refused or not.                             *)
LEMMA JudgedKeeps ==
    ASSUME CreatesInv, NEW c \in Creates, RefuseForm(c) \/ Reserve(c)
    PROVE  CreatesInv'
<1> DEFINE f == create[c].form  s == create[c].sender  day == create[c].day  m == Swept(day)
<1>1. /\ create[c].at = "read" /\ WithinShare(c) /\ Judged(c) /\ today' = today
      /\ \/ /\ Moves(c, "refused") /\ counts' = counts /\ callers' = m
         \/ /\ Moves(c, "sent") /\ HasRoom(m, Key(c)) /\ On(counts[f], day) < PerDay[f]
            /\ counts' = [counts EXCEPT ![f] = [day |-> day, n |-> On(@, day) + 1]]
            /\ callers' = [m EXCEPT ![Key(c)] = [day |-> day, n |-> On(@, day) + 1]]
  BY DEF RefuseForm, Reserve
<1>2. f \in Forms /\ s \in Senders /\ day \in 0..today /\ Key(c) = <<f, s>> /\ Key(c) \in Forms \X Senders
  BY <1>1 DEF CreatesInv, CreatesTypes, Create, Key
<1>3. /\ m \in [Forms \X Senders -> [day : 0..latest, n : Nat]]
      /\ Entries(m) \subseteq Entries(callers)
      /\ \A k \in Forms \X Senders : m[k] = callers[k] \/ (m[k] = NoCount /\ callers[k].day # day)
  BY SweptKept DEF CreatesInv
<1>4. CreatesTypes'
  <2>1. /\ latest' \in 0..today /\ overtook' \in Nat /\ day <= latest' /\ latest <= latest'
        /\ today \in Nat /\ latest \in Nat /\ day \in Nat
    BY <1>1, <1>2 DEF Judged, CreatesInv, CreatesTypes, Create
  <2>2. /\ \A e \in [day : 0..latest, n : Nat] :
             [day |-> day, n |-> On(e, day) + 1] \in [day : 0..latest', n : Nat]
        /\ [day : 0..latest, n : Nat] \subseteq [day : 0..latest', n : Nat]
    BY <2>1 DEF On
  <2>3. /\ counts' \in [Forms -> [day : 0..latest', n : Nat]]
        /\ callers' \in [Forms \X Senders -> [day : 0..latest', n : Nat]]
    <3>1. /\ counts[f] \in [day : 0..latest, n : Nat] /\ m[Key(c)] \in [day : 0..latest, n : Nat]
          /\ counts \in [Forms -> [day : 0..latest', n : Nat]]
          /\ m \in [Forms \X Senders -> [day : 0..latest', n : Nat]]
      BY <1>2, <1>3, <2>2 DEF CreatesInv, CreatesTypes, Create
    <3> DEFINE e1 == [day |-> day, n |-> On(counts[f], day) + 1]
               e2 == [day |-> day, n |-> On(m[Key(c)], day) + 1]
               E == [day : 0..latest', n : Nat]
    <3>2. e1 \in E /\ e2 \in E
      BY <2>2, <3>1
    <3>3. \/ counts' = counts /\ callers' = m
          \/ counts' = [counts EXCEPT ![f] = e1] /\ callers' = [m EXCEPT ![Key(c)] = e2]
      BY <1>1
    <3> HIDE DEF e1, e2, E, m
    <3>4. counts \in [Forms -> E] /\ m \in [Forms \X Senders -> E]
      BY <3>1 DEF E
    <3>5. counts' \in [Forms -> E] /\ callers' \in [Forms \X Senders -> E]
      BY <3>2, <3>3, <3>4
    <3> QED BY <3>5 DEF E
  <2>4. \A at \in {"refused", "sent"} : Moves(c, at) =>
          /\ create' \in [Creates -> Create(today)]
          /\ \A b \in Creates : create'[b].at # "idle" => create'[b].form \in Forms
                                               /\ create'[b].sender \in Senders
    BY <1>1 DEF Moves, CreatesInv, CreatesTypes, Create
  <2> QED BY <1>1, <2>1, <2>3, <2>4 DEF CreatesInv, CreatesTypes, Create
<1>5. EntriesKept'
  <2> HIDE DEF m
  <2>1. IsFiniteSet(Entries(m)) /\ Cardinality(Entries(m)) <= MAX_CALLERS
    BY <1>3, EntriesShrink DEF CreatesInv
  <2>2. CASE callers' = m
    BY <2>1, <2>2 DEF EntriesKept, Entries
  <2>3. CASE /\ HasRoom(m, Key(c))
             /\ callers' = [m EXCEPT ![Key(c)] = [day |-> day, n |-> On(@, day) + 1]]
    <3>1. Entries(callers') \subseteq Entries(m) \cup {Key(c)}
      BY <2>3, <1>3 DEF Entries
    <3>2. /\ IsFiniteSet(Entries(m) \cup {Key(c)})
          /\ Cardinality(Entries(m) \cup {Key(c)}) =
               IF Key(c) \in Entries(m) THEN Cardinality(Entries(m)) ELSE Cardinality(Entries(m)) + 1
          /\ Cardinality(Entries(m)) \in Nat
      BY <2>1, FS_AddElement, FS_CardinalityType
    <3>3. Cardinality(Entries(m) \cup {Key(c)}) <= MAX_CALLERS
      BY <3>2, <2>1, <2>3, CreatesAssumption DEF HasRoom
    <3>4. /\ IsFiniteSet(Entries(callers'))
          /\ Cardinality(Entries(callers')) <= Cardinality(Entries(m) \cup {Key(c)})
          /\ Cardinality(Entries(callers')) \in Nat /\ Cardinality(Entries(m) \cup {Key(c)}) \in Nat
      BY <3>1, <3>2, FS_Subset, FS_CardinalityType
    <3> QED BY <3>3, <3>4, CreatesAssumption DEF EntriesKept, Entries
  <2> QED BY <1>1, <2>2, <2>3
<1>6. Counted'
  <2> DEFINE sent == {b \in Creates : create[b].at \in WentOut}
  <2>1. \/ sent' = sent \/ sent' = sent \cup {c}
    BY <1>1 DEF Moves, CreatesInv, CreatesTypes, Create, WentOut
  <2>2. IsFiniteSet(sent')
    BY <2>1, FS_AddElement DEF CreatesInv, Counted, WentOut
  <2>3. \A b \in Creates : /\ create'[b].day = create[b].day /\ create'[b].form = create[b].form
                           /\ create'[b].sender = create[b].sender
                           /\ b # c => create'[b].at = create[b].at
    BY <1>1 DEF Moves, CreatesInv, CreatesTypes, Create
  <2>4. ASSUME NEW d \in 1..Days, NEW g \in Forms
        PROVE  Within(Cardinality(OfForm(d, g)'), counts'[g], d, PerDay[g], overtook', latest')
    <3> DEFINE n == Cardinality(OfForm(d, g))
    <3>1. /\ n \in Nat /\ PerDay[g] \in Nat \ {0} /\ counts[g] \in [day : 0..latest, n : Nat]
          /\ Within(n, counts[g], d, PerDay[g], overtook, latest)
      BY TakenAreFinite, ShareIsPositive DEF CreatesInv, Counted, CreatesTypes, Create
    <3>2. CASE counts' = counts /\ Moves(c, "refused")
      <4>1. OfForm(d, g)' = OfForm(d, g)
        BY <1>1, <2>3, <3>2 DEF OfForm, Taken, Moves, CreatesInv, CreatesTypes, Create
      <4>2. Within(n + 0, counts'[g], d, PerDay[g], overtook', latest')
        BY <3>1, <1>1, <3>2, JudgedWithin DEF CreatesInv
      <4> QED BY <3>1, <4>1, <4>2
    <3>3. CASE Moves(c, "sent") /\ (d # day \/ g # f)
      <4>1. OfForm(d, g)' = OfForm(d, g)
        BY <1>1, <2>3, <3>3 DEF OfForm, Taken, Moves, CreatesInv, CreatesTypes, Create
      <4>2. Within(n + 0, counts'[g], d, PerDay[g], overtook', latest')
        <5>1. CASE g # f
          BY <3>1, <1>1, <3>3, <5>1, JudgedWithin DEF Moves, CreatesInv, CreatesTypes, Create
        <5>2. CASE g = f /\ d # day
          BY <3>1, <1>1, <3>3, <5>2, JudgedWithin DEF Moves, CreatesInv, CreatesTypes, Create
        <5> QED BY <3>3, <5>1, <5>2
      <4> QED BY <3>1, <4>1, <4>2
    <3>4. CASE Moves(c, "sent") /\ d = day /\ g = f
      <4>1. OfForm(d, g)' = OfForm(d, g) \cup {c} /\ c \notin OfForm(d, g)
        BY <1>1, <2>3, <3>4 DEF OfForm, Taken, Moves, CreatesInv, CreatesTypes, Create
      <4>2. Within(n + 1, counts'[g], d, PerDay[g], overtook', latest')
        BY <3>1, <1>1, <3>4, JudgedWithin DEF Moves, CreatesInv, CreatesTypes, Create
      <4>3. Cardinality(OfForm(d, g)') = n + 1
        BY <4>1, TakenAreFinite, FS_AddElement DEF CreatesInv
      <4> QED BY <4>2, <4>3
    <3> QED BY <1>1, <3>2, <3>3, <3>4
  <2>5. ASSUME NEW d \in 1..Days, NEW g \in Forms, NEW r \in Senders
        PROVE  Within(Cardinality(OfCaller(d, g, r)'), callers'[<<g, r>>], d,
                      share(PerDay[g]), overtook', latest')
    <3> DEFINE n == Cardinality(OfCaller(d, g, r))  k == <<g, r>>
    <3>1. /\ n \in Nat /\ share(PerDay[g]) \in Nat \ {0}
          /\ callers[k] \in [day : 0..latest, n : Nat]
          /\ Within(n, callers[k], d, share(PerDay[g]), overtook, latest)
          /\ k \in Forms \X Senders
      BY TakenAreFinite, ShareIsPositive DEF CreatesInv, Counted, CreatesTypes, Create
    <3> HIDE DEF m, n, share
    <3>2. \/ m[k] = callers[k] \/ (m[k] = NoCount /\ callers[k].day # day)
      BY <1>3, <3>1
    <3>3. ASSUME callers'[k] = m[k],
                 Moves(c, "refused") \/ (Moves(c, "sent") /\ (d # day \/ k # Key(c)))
          PROVE  Within(Cardinality(OfCaller(d, g, r)'), callers'[<<g, r>>], d,
                        share(PerDay[g]), overtook', latest')
      <4>1. OfCaller(d, g, r)' = OfCaller(d, g, r)
        <5>1. c \notin OfCaller(d, g, r)
          BY <1>1 DEF OfCaller, Taken
        <5>2. create'[c].at \notin {"sent", "made", "kept"} \/ d # day \/ Key(c) # k
          BY <3>3 DEF Moves, CreatesInv, CreatesTypes, Create
        <5>3. Key(c)' = Key(c)
          BY <2>3 DEF Key
        <5>4. c \notin OfCaller(d, g, r)'
          BY <2>3, <5>2, <5>3 DEF OfCaller, Taken
        <5>5. \A b \in Creates \ {c} : b \in OfCaller(d, g, r)' <=> b \in OfCaller(d, g, r)
          BY <2>3 DEF OfCaller, Taken, Key
        <5> QED BY <5>1, <5>4, <5>5 DEF OfCaller, Taken
      <4>2. Within(n + 0, callers'[k], d, share(PerDay[g]), overtook', latest')
        BY <3>1, <3>2, <1>1, <3>3, JudgedWithin DEF CreatesInv
      <4> QED BY <3>1, <4>1, <4>2 DEF n
    <3>4. ASSUME Moves(c, "sent"), k = Key(c),
                 callers' = [m EXCEPT ![Key(c)] = [day |-> day, n |-> On(@, day) + 1]]
          PROVE  Within(Cardinality(OfCaller(d, g, r)'), callers'[<<g, r>>], d,
                        share(PerDay[g]), overtook', latest')
      <4>1. On(m[k], day) = On(callers[k], day) /\ On(callers[k], day) < share(PerDay[g])
        <5>1. On(callers[k], day) < share(PerDay[g])
          BY <1>1, <1>2, <3>4 DEF WithinShare
        <5>2. CASE m[k] = callers[k]
          BY <5>1, <5>2
        <5>3. CASE m[k] = NoCount /\ callers[k].day # day
          BY <5>1, <5>3 DEF On, NoCount
        <5> QED BY <3>2, <5>2, <5>3
      <4>2. callers'[k] = [day |-> day, n |-> On(callers[k], day) + 1]
        BY <1>3, <3>1, <3>4, <4>1
      <4>3. CASE d # day
        <5>1. OfCaller(d, g, r)' = OfCaller(d, g, r)
          BY <1>1, <2>3, <3>4, <4>3 DEF OfCaller, Taken, Key, Moves, CreatesInv, CreatesTypes, Create
        <5>2. Within(n + 0, callers'[k], d, share(PerDay[g]), overtook', latest')
          BY <3>1, <1>1, <4>1, <4>2, <4>3, JudgedWithin DEF CreatesInv
        <5> QED BY <3>1, <5>1, <5>2 DEF n
      <4>4. CASE d = day
        <5>1. OfCaller(d, g, r)' = OfCaller(d, g, r) \cup {c} /\ c \notin OfCaller(d, g, r)
          BY <1>1, <2>3, <3>4, <4>4 DEF OfCaller, Taken, Key, Moves, CreatesInv, CreatesTypes, Create
        <5>2. Within(n + 1, callers'[k], d, share(PerDay[g]), overtook', latest')
          BY <3>1, <1>1, <4>1, <4>2, <4>4, JudgedWithin DEF CreatesInv
        <5>3. Cardinality(OfCaller(d, g, r)') = n + 1
          BY <5>1, TakenAreFinite, FS_AddElement DEF CreatesInv, n
        <5> QED BY <5>2, <5>3
      <4> QED BY <4>3, <4>4
    <3>5. CASE Moves(c, "refused") /\ callers' = m
      <4>1. callers'[k] = m[k]
        BY <3>5
      <4> QED BY <3>3, <3>5, <4>1
    <3>6. CASE /\ Moves(c, "sent")
               /\ callers' = [m EXCEPT ![Key(c)] = [day |-> day, n |-> On(@, day) + 1]]
      <4>1. CASE k = Key(c)
        BY <3>4, <3>6, <4>1
      <4>2. CASE k # Key(c)
        <5>1. callers'[k] = m[k]
          BY <1>3, <3>1, <3>6, <4>2
        <5> QED BY <3>3, <3>6, <4>2, <5>1
      <4> QED BY <4>1, <4>2
    <3> QED BY <1>1, <3>5, <3>6
  <2> QED BY <2>2, <2>4, <2>5 DEF Counted
<1> QED BY <1>4, <1>5, <1>6 DEF CreatesInv

(* A create that keeps its slot, or gives it back to the entry of its day.        *)
LEMMA AnswerKeeps ==
    ASSUME CreatesInv, NEW c \in Creates, Makes(c) \/ Keeps(c) \/ Release(c)
    PROVE  CreatesInv'
<1> DEFINE f == create[c].form  s == create[c].sender  day == create[c].day
<1>0. PICK at \in {"made", "kept", "released", "doubted"} :
        /\ Moves(c, at)
        /\ \/ at \in SlotHeld /\ counts' = counts /\ callers' = callers
           \/ /\ at \notin SlotHeld
              /\ counts' = [counts EXCEPT ![f] = Less(@, day)]
              /\ callers' = [callers EXCEPT ![Key(c)] = Less(@, day)]
  BY DEF Makes, Keeps, Release, reserved, SlotHeld
<1>1. /\ create[c].at \in SlotHeld /\ create[c].at # "idle" /\ today' = today /\ latest' = latest /\ overtook' = overtook
  BY DEF Makes, Keeps, Release, reserved, SlotHeld
<1>2. f \in Forms /\ s \in Senders /\ Key(c) = <<f, s>> /\ Key(c) \in Forms \X Senders
  BY <1>1 DEF CreatesInv, CreatesTypes, Create, Key
<1>3. \A e \in [day : 0..latest, n : Nat] :
        /\ Less(e, day) \in [day : 0..latest, n : Nat]
        /\ Less(e, day).day = e.day
        /\ Less(e, day).n = IF e.day = day /\ e.n > 0 THEN e.n - 1 ELSE e.n
        /\ Less(e, day) # NoCount => e # NoCount
  <2>1. NoCount \in [day : {0}, n : Nat] /\ NoCount.n = 0
    BY DEF NoCount
  <2> QED BY <2>1 DEF Less
<1>4. /\ create' \in [Creates -> Create(today)]
      /\ \A b \in Creates : /\ create'[b].day = create[b].day /\ create'[b].form = create[b].form
                            /\ create'[b].sender = create[b].sender
                            /\ b # c => create'[b].at = create[b].at
      /\ create'[c].at = at
      /\ \/ create'[c].at \in SlotHeld /\ counts' = counts /\ callers' = callers
         \/ /\ create'[c].at \notin SlotHeld
            /\ counts' = [counts EXCEPT ![f] = Less(counts[f], day)]
            /\ callers' = [callers EXCEPT ![Key(c)] = Less(callers[Key(c)], day)]
  <2>1. create'[c].at = at /\ create' \in [Creates -> Create(today)]
    BY <1>0 DEF Moves, CreatesInv, CreatesTypes, Create
  <2>2. \A b \in Creates : /\ create'[b].day = create[b].day /\ create'[b].form = create[b].form
                           /\ create'[b].sender = create[b].sender
                           /\ b # c => create'[b].at = create[b].at
    BY <1>0 DEF Moves, CreatesInv, CreatesTypes, Create
  <2>3. \/ create'[c].at \in SlotHeld /\ counts' = counts /\ callers' = callers
        \/ /\ create'[c].at \notin SlotHeld
           /\ counts' = [counts EXCEPT ![f] = Less(counts[f], day)]
           /\ callers' = [callers EXCEPT ![Key(c)] = Less(callers[Key(c)], day)]
    <3>1. CASE at \in SlotHeld
      BY <1>0, <2>1, <3>1
    <3>2. CASE at \notin SlotHeld
      BY <1>0, <2>1, <3>2
    <3> QED BY <3>1, <3>2
  <2>4. create' \in [Creates -> Create(today)] /\ create'[c].at = at
    BY <2>1
  <2> HIDE DEF f, day
  <2> QED BY <2>2, <2>3, <2>4
<1> HIDE DEF f, s, day
<1>5. CreatesTypes'
  <2> DEFINE E == [day : 0..latest, n : Nat]
  <2>0. /\ counts[f] \in E /\ Less(counts[f], day) \in E
        /\ callers[Key(c)] \in E /\ Less(callers[Key(c)], day) \in E
        /\ counts \in [Forms -> E] /\ callers \in [Forms \X Senders -> E]
    BY <1>2, <1>3 DEF CreatesInv, CreatesTypes
  <2> HIDE DEF E
  <2>1. counts' \in [Forms -> E]
    BY <1>2, <1>4, <2>0
  <2>2. callers' \in [Forms \X Senders -> E]
    BY <1>2, <1>4, <2>0
  <2>3. \A b \in Creates : create'[b].at # "idle" => create'[b].form \in Forms
                                               /\ create'[b].sender \in Senders
    BY <1>1, <1>2, <1>4 DEF CreatesInv, CreatesTypes, Create
  <2> QED BY <1>1, <1>4, <2>1, <2>2, <2>3 DEF E, CreatesInv, CreatesTypes, Create
<1>6. EntriesKept'
  <2>1. Entries(callers') \subseteq Entries(callers)
    <3>1. CASE callers' = callers
      BY <3>1
    <3>2. CASE callers' = [callers EXCEPT ![Key(c)] = Less(callers[Key(c)], day)]
      <4>1. callers[Key(c)] \in [day : 0..latest, n : Nat]
        BY <1>2 DEF CreatesInv, CreatesTypes
      <4>2. Less(callers[Key(c)], day) # NoCount => callers[Key(c)] # NoCount
        BY <1>3, <4>1
      <4> QED BY <1>2, <3>2, <4>2 DEF Entries
    <3> QED BY <1>4, <3>1, <3>2
  <2>2. EntriesKept
    BY DEF CreatesInv
  <2>3. IsFiniteSet(Entries(callers')) /\ Cardinality(Entries(callers')) <= MAX_CALLERS
    BY <2>1, <2>2, EntriesShrink
  <2> QED BY <2>3 DEF EntriesKept, Entries
<1>7. Counted'
  <2> DEFINE sent == {b \in Creates : create[b].at \in WentOut}
  <2>1. IsFiniteSet(sent) /\ sent' \subseteq sent
    BY <1>0, <1>1, <1>4 DEF CreatesInv, Counted, WentOut, SlotHeld
  <2>2. IsFiniteSet(sent')
    BY <2>1, FS_Subset
  <2>3. ASSUME NEW n \in Nat, NEW d \in 1..Days, NEW part \in Nat \ {0}, NEW less \in {0, 1},
               n >= less,
               NEW e \in [day : 0..latest, n : Nat], NEW next,
               Within(n, e, d, part, overtook, latest),
               next = e \/ (less = 1 /\ next = Less(e, day)) \/ (d # day /\ next = Less(e, day))
        PROVE  Within(n - less, next, d, part, overtook, latest)
    <3>1. overtook * part \in Nat /\ (1 + overtook) * part = overtook * part + part
      BY DEF CreatesInv, CreatesTypes, Create
    <3>2. /\ next.day = e.day /\ next.n \in Nat
          /\ next.n = e.n \/ (e.day # d /\ next.n = IF e.n > 0 THEN e.n - 1 ELSE e.n)
                          \/ (less = 1 /\ next.n = IF e.n > 0 THEN e.n - 1 ELSE e.n)
      BY <2>3, <1>3
    <3> DEFINE q == overtook * part
    <3>3. n <= q + part /\ (d >= latest => n <= q + On(e, d))
      BY <2>3, <3>1 DEF Within
    <3> HIDE DEF q
    <3>4. q \in Nat /\ e.n \in Nat
      BY <3>1 DEF q
    <3>5. n - less <= q + part /\ (d >= latest => n - less <= q + On(next, d))
      BY <3>2, <3>3, <3>4 DEF On
    <3> QED BY <3>1, <3>5 DEF Within, q
  <2>4. ASSUME NEW d \in 1..Days, NEW g \in Forms
        PROVE  Within(Cardinality(OfForm(d, g)'), counts'[g], d, PerDay[g], overtook, latest)
    <3> DEFINE n == Cardinality(OfForm(d, g))
    <3>1. /\ n \in Nat /\ PerDay[g] \in Nat \ {0} /\ counts[g] \in [day : 0..latest, n : Nat]
          /\ Within(n, counts[g], d, PerDay[g], overtook, latest)
          /\ IsFiniteSet(OfForm(d, g))
      BY TakenAreFinite, ShareIsPositive DEF CreatesInv, Counted, CreatesTypes, Create
    <3>2. CASE create'[c].at \notin SlotHeld /\ c \in OfForm(d, g)
      <4>1. OfForm(d, g)' = OfForm(d, g) \ {c} /\ g = f /\ d = day
        BY <1>1, <1>4, <3>2 DEF OfForm, Taken, SlotHeld, f, day
      <4>2. Cardinality(OfForm(d, g)') = n - 1 /\ n >= 1
        <5>1. /\ Cardinality(OfForm(d, g) \ {c}) = n - 1
              /\ Cardinality(OfForm(d, g) \ {c}) \in Nat
          BY <3>1, <3>2, FS_RemoveElement, FS_CardinalityType
        <5> QED BY <3>1, <4>1, <5>1
      <4>3. counts'[g] = Less(counts[g], day)
        BY <1>2, <1>4, <3>2, <4>1 DEF CreatesInv, CreatesTypes, Create
      <4> HIDE DEF n
      <4> QED BY <2>3, <3>1, <4>2, <4>3
    <3>3. CASE create'[c].at \in SlotHeld \/ c \notin OfForm(d, g)
      <4>1. OfForm(d, g)' = OfForm(d, g)
        BY <1>1, <1>4, <3>3 DEF OfForm, Taken, SlotHeld
      <4>2. counts'[g] = counts[g] \/ (d # day /\ counts'[g] = Less(counts[g], day))
        <5>1. CASE create'[c].at \in SlotHeld
          BY <1>4, <5>1
        <5>2. CASE create'[c].at \notin SlotHeld /\ g # f
          BY <1>4, <5>2 DEF CreatesInv, CreatesTypes, Create
        <5>3. CASE create'[c].at \notin SlotHeld /\ g = f
          BY <1>1, <1>2, <1>4, <3>3, <5>3 DEF CreatesInv, CreatesTypes, Create, OfForm, Taken, SlotHeld, f, day
        <5> QED BY <5>1, <5>2, <5>3
      <4>3. Within(n - 0, counts'[g], d, PerDay[g], overtook, latest)
        BY <2>3, <3>1, <4>2
      <4> QED BY <3>1, <4>1, <4>3
    <3> QED BY <3>2, <3>3
  <2>5. ASSUME NEW d \in 1..Days, NEW g \in Forms, NEW r \in Senders
        PROVE  Within(Cardinality(OfCaller(d, g, r)'), callers'[<<g, r>>], d,
                      share(PerDay[g]), overtook, latest)
    <3> DEFINE n == Cardinality(OfCaller(d, g, r))  k == <<g, r>>
    <3>1. /\ n \in Nat /\ share(PerDay[g]) \in Nat \ {0}
          /\ callers[k] \in [day : 0..latest, n : Nat]
          /\ Within(n, callers[k], d, share(PerDay[g]), overtook, latest)
          /\ IsFiniteSet(OfCaller(d, g, r)) /\ k \in Forms \X Senders
      BY TakenAreFinite, ShareIsPositive DEF CreatesInv, Counted, CreatesTypes, Create
    <3> HIDE DEF share
    <3>2. CASE create'[c].at \notin SlotHeld /\ c \in OfCaller(d, g, r)
      <4>1. OfCaller(d, g, r)' = OfCaller(d, g, r) \ {c} /\ k = Key(c) /\ d = day
        BY <1>1, <1>4, <3>2 DEF OfCaller, Taken, SlotHeld, Key, day
      <4>2. Cardinality(OfCaller(d, g, r)') = n - 1 /\ n >= 1
        <5>1. /\ Cardinality(OfCaller(d, g, r) \ {c}) = n - 1
              /\ Cardinality(OfCaller(d, g, r) \ {c}) \in Nat
          BY <3>1, <3>2, FS_RemoveElement, FS_CardinalityType
        <5> QED BY <3>1, <4>1, <5>1
      <4>3. callers'[k] = Less(callers[k], day)
        BY <1>2, <1>4, <3>2, <4>1 DEF CreatesInv, CreatesTypes, Create
      <4> HIDE DEF n
      <4> QED BY <2>3, <3>1, <4>2, <4>3
    <3>3. CASE create'[c].at \in SlotHeld \/ c \notin OfCaller(d, g, r)
      <4>1. OfCaller(d, g, r)' = OfCaller(d, g, r)
        BY <1>1, <1>4, <3>3 DEF OfCaller, Taken, SlotHeld, Key
      <4>2. callers'[k] = callers[k] \/ (d # day /\ callers'[k] = Less(callers[k], day))
        <5>1. CASE create'[c].at \in SlotHeld
          BY <1>4, <5>1
        <5>2. CASE create'[c].at \notin SlotHeld /\ k # Key(c)
          BY <1>4, <3>1, <5>2 DEF CreatesInv, CreatesTypes, Create
        <5>3. CASE create'[c].at \notin SlotHeld /\ k = Key(c)
          <6>1. d # day
            BY <1>1, <3>3, <5>3 DEF OfCaller, Taken, SlotHeld, day
          <6> QED BY <1>2, <1>4, <5>3, <6>1 DEF CreatesInv, CreatesTypes, Create
        <5> QED BY <5>1, <5>2, <5>3
      <4>3. Within(n - 0, callers'[k], d, share(PerDay[g]), overtook, latest)
        BY <2>3, <3>1, <4>2
      <4> QED BY <3>1, <4>1, <4>3
    <3> QED BY <3>2, <3>3
  <2> QED BY <1>1, <2>2, <2>4, <2>5 DEF Counted
<1> QED BY <1>5, <1>6, <1>7 DEF CreatesInv

LEMMA CreatesStep == CreatesInv /\ [CreatesNext]_createsVars => CreatesInv'
<1> SUFFICES ASSUME CreatesInv, [CreatesNext]_createsVars
             PROVE  CreatesInv'
  OBVIOUS
<1>1. CASE Midnight \/ UNCHANGED createsVars
  <2>1. /\ UNCHANGED <<create, counts, callers, latest, overtook>>
        /\ today' \in 1..Days /\ today <= today'
    BY <1>1, CreatesAssumption DEF Midnight, createsVars, reserved, CreatesInv, CreatesTypes, Create
  <2>2. CreatesTypes'
    <3>1. Create(today) \subseteq Create(today')
      BY <2>1 DEF Create, CreatesInv, CreatesTypes, Create
    <3> QED BY <2>1, <3>1 DEF CreatesInv, CreatesTypes, Create
  <2>3. \A d, f, s : /\ OfForm(d, f)' = OfForm(d, f) /\ OfCaller(d, f, s)' = OfCaller(d, f, s)
    BY <2>1 DEF OfForm, OfCaller, Taken, Key
  <2> QED BY <2>1, <2>2, <2>3 DEF CreatesInv, EntriesKept, Counted, Entries
<1>2. ASSUME NEW c \in Creates, ReadClock(c) \/ RefuseCaller(c)
      PROVE  CreatesInv'
  <2>1. /\ today' = today /\ UNCHANGED <<counts, callers, latest, overtook>>
        /\ create[c].at \in {"idle", "read"}
    BY <1>2 DEF ReadClock, RefuseCaller, reserved
  <2>2. PICK new \in Create(today) :
          /\ create' = [create EXCEPT ![c] = new]
          /\ new.at \in {"read", "refused"} /\ new.form \in Forms /\ new.sender \in Senders
    <3>1. CASE ReadClock(c)
      <4>1. PICK f \in Forms, s \in Senders :
              create' = [create EXCEPT ![c] = [at |-> "read", form |-> f, sender |-> s,
                                               day |-> today]]
        BY <3>1 DEF ReadClock
      <4>2. [at |-> "read", form |-> f, sender |-> s, day |-> today] \in Create(today)
        BY DEF Create, CreatesInv, CreatesTypes
      <4> QED BY <4>1, <4>2
    <3>2. CASE RefuseCaller(c)
      <4>1. create[c].at = "read" /\ create' = [create EXCEPT ![c] = [@ EXCEPT !.at = "refused"]]
        BY <3>2 DEF RefuseCaller, Moves
      <4>2. [create[c] EXCEPT !.at = "refused"] \in Create(today)
        BY DEF Create, CreatesInv, CreatesTypes
      <4>3. [create[c] EXCEPT !.at = "refused"].at = "refused"
        BY DEF Create, CreatesInv, CreatesTypes
      <4>4. /\ [create[c] EXCEPT !.at = "refused"].form \in Forms
            /\ [create[c] EXCEPT !.at = "refused"].sender \in Senders
        BY <4>1 DEF Create, CreatesInv, CreatesTypes
      <4>5. create' = [create EXCEPT ![c] = [create[c] EXCEPT !.at = "refused"]]
        BY <4>1
      <4> QED BY <4>2, <4>3, <4>4, <4>5
    <3> QED BY <1>2, <3>1, <3>2
  <2>3. create' \in [Creates -> Create(today)] /\ \A b \in Creates \ {c} : create'[b] = create[b]
    BY <2>2 DEF CreatesInv, CreatesTypes, Create
  <2>4. create'[c] = new
    BY <2>2 DEF CreatesInv, CreatesTypes, Create
  <2>5. CreatesTypes'
    BY <2>1, <2>2, <2>3, <2>4 DEF CreatesInv, CreatesTypes, Create
  <2>6. \A d, f, s : /\ OfForm(d, f)' = OfForm(d, f) /\ OfCaller(d, f, s)' = OfCaller(d, f, s)
    BY <2>1, <2>2, <2>3, <2>4 DEF OfForm, OfCaller, Taken, Key
  <2>7. {b \in Creates : create[b].at \in WentOut}' =
          {b \in Creates : create[b].at \in WentOut}
    BY <2>1, <2>2, <2>3, <2>4 DEF WentOut
  <2> QED BY <2>1, <2>5, <2>6, <2>7 DEF CreatesInv, EntriesKept, Counted, Entries
<1> QED BY <1>1, <1>2, JudgedKeeps, AnswerKeeps DEF CreatesNext, CreateStep

(* creates.rs, DailyCreates::reserve and release: a form makes no more than   *)
(* its `perDay` on a day, and no caller more than a tenth of it, but for a    *)
(* `perDay` more for every reservation judged after one of a later day, and   *)
(* one for every create that was made and not answered with success.          *)
THEOREM DaysAreCapped == CreatesSpec => []DayIsCapped
<1>1. ASSUME CreatesInv PROVE DayIsCapped
  <2> DEFINE doubtful == {c \in Creates : create[c].at \in WentOut}
  <2>1. IsFiniteSet(doubtful)
    BY <1>1 DEF CreatesInv, Counted
  <2>2. ASSUME NEW S \in SUBSET doubtful, NEW T \in SUBSET doubtful, NEW U \in SUBSET doubtful,
               NEW n \in Nat, Cardinality(S) <= n, U = S \cup T
        PROVE  Cardinality(U) <= n + Cardinality(T)
    <3>1. IsFiniteSet(S) /\ IsFiniteSet(T) /\ IsFiniteSet(S \cap T)
      BY <2>1, <2>2, FS_Subset
    <3>2. Cardinality(S) \in Nat /\ Cardinality(T) \in Nat /\ Cardinality(S \cap T) \in Nat
      BY <3>1, FS_CardinalityType
    <3>3. Cardinality(U) = Cardinality(S) + Cardinality(T) - Cardinality(S \cap T)
      BY <2>2, <3>1, FS_Union
    <3> QED BY <2>2, <3>2, <3>3
  <2> SUFFICES ASSUME NEW d \in 1..Days, NEW f \in Forms
               PROVE  LET made == Taken(d) \cup Doubted(d)
                      IN /\ Cardinality({c \in made : create[c].form = f})
                               <= (1 + overtook) * PerDay[f] + Cardinality({c \in Doubted(d) : create[c].form = f})
                         /\ \A s \in Senders :
                              Cardinality({c \in made : Key(c) = <<f, s>>})
                                <= (1 + overtook) * share(PerDay[f])
                                     + Cardinality({c \in Doubted(d) : Key(c) = <<f, s>>})
    BY DEF DayIsCapped
  <2> DEFINE made == Taken(d) \cup Doubted(d)
  <2>3. made \in SUBSET doubtful /\ Doubted(d) \in SUBSET doubtful /\ Taken(d) \in SUBSET doubtful
    BY DEF Taken, Doubted, WentOut
  <2>4. /\ (1 + overtook) * PerDay[f] \in Nat /\ (1 + overtook) * share(PerDay[f]) \in Nat
        /\ Cardinality(OfForm(d, f)) <= (1 + overtook) * PerDay[f]
        /\ \A s \in Senders : Cardinality(OfCaller(d, f, s)) <= (1 + overtook) * share(PerDay[f])
    <3>1. overtook \in Nat /\ PerDay[f] \in Nat /\ share(PerDay[f]) \in Nat
      BY <1>1, ShareIsPositive DEF CreatesInv, CreatesTypes
    <3>2. (1 + overtook) * PerDay[f] \in Nat /\ (1 + overtook) * share(PerDay[f]) \in Nat
      BY <3>1
    <3>3. Cardinality(OfForm(d, f)) <= (1 + overtook) * PerDay[f]
      BY <1>1 DEF CreatesInv, Counted, Within
    <3>4. \A s \in Senders : Cardinality(OfCaller(d, f, s)) <= (1 + overtook) * share(PerDay[f])
      BY <1>1 DEF CreatesInv, Counted, Within
    <3> QED BY <3>2, <3>3, <3>4
  <2> HIDE DEF doubtful
  <2>5. Cardinality({c \in made : create[c].form = f})
          <= (1 + overtook) * PerDay[f] + Cardinality({c \in Doubted(d) : create[c].form = f})
    <3>1. {c \in made : create[c].form = f} = OfForm(d, f) \cup {c \in Doubted(d) : create[c].form = f}
      BY DEF OfForm
    <3>2. /\ OfForm(d, f) \in SUBSET doubtful /\ {c \in Doubted(d) : create[c].form = f} \in SUBSET doubtful
          /\ {c \in made : create[c].form = f} \in SUBSET doubtful
      BY <2>3 DEF OfForm
    <3> QED BY <2>2, <2>4, <3>1, <3>2
  <2>6. ASSUME NEW s \in Senders
        PROVE  Cardinality({c \in made : Key(c) = <<f, s>>})
                 <= (1 + overtook) * share(PerDay[f]) + Cardinality({c \in Doubted(d) : Key(c) = <<f, s>>})
    <3>1. {c \in made : Key(c) = <<f, s>>} = OfCaller(d, f, s) \cup {c \in Doubted(d) : Key(c) = <<f, s>>}
      BY DEF OfCaller
    <3>2. /\ OfCaller(d, f, s) \in SUBSET doubtful /\ {c \in Doubted(d) : Key(c) = <<f, s>>} \in SUBSET doubtful
          /\ {c \in made : Key(c) = <<f, s>>} \in SUBSET doubtful
      BY <2>3 DEF OfCaller
    <3> QED BY <2>2, <2>4, <3>1, <3>2
  <2> QED BY <2>5, <2>6
<1> QED BY <1>1, CreatesStart, CreatesStep, PTL DEF CreatesSpec

(* creates.rs:110 "the map stays bounded however many addresses ask within    *)
(* one day": no entry is of a day to come, and there are at most MAX_CALLERS. *)
THEOREM CallersAreBounded == CreatesSpec => []CreatesTypeOK
<1>1. CreatesInv => CreatesTypeOK
  BY CreatesAssumption DEF CreatesInv, CreatesTypes, Create, EntriesKept, CreatesTypeOK
<1> QED BY <1>1, CreatesStart, CreatesStep, PTL DEF CreatesSpec

-----------------------------------------------------------------------------
(***************************************************************************)
(* Downloads. For any callers, tables and times, an answer that is served  *)
(* is fresh, of a table it may be of, and built once. The invariant ties a *)
(* caller to the entry it asks for (Keyed), the entry's answer to the      *)
(* caller that built it (AnswersKept), and the callers of a key that may   *)
(* build to one entry (OneEntry).                                          *)
(***************************************************************************)

Answer == [at : Nat, table : Nat, big : BOOLEAN]

DownEntry == [born : Int, builder : Callers \cup {NoCaller}, built : Answer \cup {Nothing}]

Down == [at : {"idle", "admitted", "waiting", "building", "made", "served", "failed", "gone"},
         table : Nat, key : Nat, entry : Callers \cup {NoCaller}, asked : Nat,
         got : Answer \cup {Nothing}]

(* A caller that has an entry, and one that had its answer or an error.      *)
Over(c) == down[c].at \in {"made", "served", "failed"}
Asks(c) == down[c].at \in {"waiting", "building"} \/ Over(c)

DownloadsTypes ==
    /\ instant \in 0..LastTick /\ table \in 1..Tables /\ excused \subseteq 1..Tables
    /\ kept \in [1..Tables -> Callers \cup {NoCaller}]
    /\ Cardinality(Held(kept)) <= MAX_HELD
    /\ entry \in [Callers -> DownEntry] /\ down \in [Callers -> Down]

(* An entry is one that was added, of one key, and under that key if kept.   *)
Keyed ==
    /\ \A c \in Callers : down[c].at \in {"idle", "admitted"} =>
           entry[c] = Absent /\ down[c].got = Nothing
    /\ \A c \in Callers : Asks(c) =>
           /\ down[c].entry \in Callers /\ entry[down[c].entry].born # -1
           /\ down[c].key \in 1..table
           /\ \A d \in Callers : Asks(d) /\ down[d].entry = down[c].entry =>
                  down[d].key = down[c].key
           /\ \A t \in 1..Tables : kept[t] = down[c].entry => t = down[c].key
    /\ \A t \in 1..Tables : kept[t] # NoCaller =>
           /\ entry[kept[t]].born # -1
           /\ \A u \in 1..Tables : kept[u] = kept[t] => u = t

(* What an entry's callers have is what its builder built, once, under the   *)
(* table it was admitted on, and not long before they asked.                 *)
AnswersKept ==
    /\ \A c \in Callers : down[c].at = "building" =>
           entry[down[c].entry].builder = c /\ entry[down[c].entry].built = Nothing
    /\ \A e \in Callers : entry[e].built # Nothing =>
           \E b \in Callers : Over(b) /\ down[b].entry = e /\ entry[e].built.table = down[b].table
    /\ \A c \in Callers : Asks(c) /\ entry[down[c].entry].built # Nothing =>
           down[c].asked - entry[down[c].entry].built.at < FRESH_FOR
    /\ \A c \in Callers : Asks(c) => down[c].asked <= instant
    /\ \A c \in Callers : down[c].got # Nothing =>
           Over(c) /\ down[c].got = entry[down[c].entry].built
    /\ \A c \in Callers : down[c].at = "served" => down[c].got # Nothing

(* Who may build for a key shares one entry, which is the one kept as long   *)
(* as the key is asked for.                                                  *)
MayBuild(c) ==
    /\ down[c].at \in {"waiting", "building"}
    /\ entry[down[c].entry].built = Nothing

OneEntry ==
    \A c \in Callers : MayBuild(c) /\ down[c].key \notin excused =>
        /\ \A d \in Callers : MayBuild(d) /\ down[d].key = down[c].key =>
               down[d].entry = down[c].entry
        /\ down[c].key = table => kept[table] = down[c].entry

DownloadsInv == DownloadsTypes /\ Keyed /\ AnswersKept /\ OneEntry

LEMMA DownloadsStart == DownloadsInit => DownloadsInv
<1> SUFFICES ASSUME DownloadsInit PROVE DownloadsInv
  OBVIOUS
<1>1. Held(kept) = {} /\ Cardinality({}) = 0
  BY FS_EmptySet DEF DownloadsInit, Held
<1>2. /\ \A c \in Callers : down[c] = Unasked /\ entry[c] = Absent
      /\ Unasked.at = "idle" /\ Unasked.got = Nothing /\ Absent.built = Nothing
  BY DEF DownloadsInit, Unasked, Absent
<1>3. DownloadsTypes
  <2>1. Unasked \in Down /\ Absent \in DownEntry
    BY DEF Unasked, Absent, DownEntry, Down
  <2>2. entry \in [Callers -> DownEntry] /\ down \in [Callers -> Down]
    BY <2>1 DEF DownloadsInit
  <2>3. kept \in [1..Tables -> Callers \cup {NoCaller}]
    BY DEF DownloadsInit
  <2>4. /\ instant \in 0..LastTick /\ table \in 1..Tables /\ excused \subseteq 1..Tables
        /\ Cardinality(Held(kept)) <= MAX_HELD
    BY <1>1, DownloadsAssumption, SMTT(20) DEF DownloadsInit
  <2> QED BY <2>2, <2>3, <2>4 DEF DownloadsTypes
<1>4. Keyed /\ AnswersKept /\ OneEntry
  BY <1>2 DEF DownloadsInit, Keyed, AnswersKept, OneEntry, Asks, Over, MayBuild
<1> QED BY <1>3, <1>4 DEF DownloadsInv

LEMMA ClockStep ==
    ASSUME DownloadsInv, TimePasses \/ Replaced \/ UNCHANGED downloadsVars
    PROVE  DownloadsInv'
<1>1. /\ UNCHANGED <<kept, entry, down, excused>>
      /\ instant' \in 0..LastTick /\ table' \in 1..Tables /\ instant <= instant'
      /\ instant \in Nat /\ instant' \in Nat /\ table \in Nat /\ table' \in Nat
      /\ table' = table \/ table' = table + 1
  BY DownloadsAssumption DEF TimePasses, Replaced, downloadsVars, DownloadsInv, DownloadsTypes
<1>2. DownloadsTypes'
  BY <1>1 DEF DownloadsInv, DownloadsTypes, Held
<1>3. Keyed'
  BY <1>1 DEF DownloadsInv, Keyed, Asks, Over
<1>4. AnswersKept'
  <2>1. \A c \in Callers : down[c].asked \in Nat
    BY DEF DownloadsInv, DownloadsTypes, Down
  <2> QED BY <1>1, <2>1 DEF DownloadsInv, AnswersKept, Asks, Over
<1>5. OneEntry'
  <2>1. ASSUME NEW c \in Callers, MayBuild(c)
        PROVE  down[c].key \in 1..table
    BY <2>1 DEF DownloadsInv, Keyed, Asks, Over, MayBuild
  <2> QED BY <1>1, <2>1 DEF DownloadsInv, OneEntry, MayBuild
<1> QED BY <1>2, <1>3, <1>4, <1>5 DEF DownloadsInv

LEMMA AdmitStep ==
    ASSUME DownloadsInv, NEW c \in Callers, Admit(c)
    PROVE  DownloadsInv'
<1>1. /\ UNCHANGED <<instant, table, kept, entry, excused>>
      /\ down[c].at = "idle" /\ down'[c].at = "admitted" /\ down'[c].got = down[c].got
      /\ down' \in [Callers -> Down]
      /\ \A d \in Callers \ {c} : down'[d] = down[d]
  <2>1. table \in Nat /\ down \in [Callers -> Down]
    BY DEF DownloadsInv, DownloadsTypes
  <2>2. down' = [down EXCEPT ![c] = [@ EXCEPT !.at = "admitted", !.table = table]]
    BY DEF Admit
  <2>3. [down[c] EXCEPT !.at = "admitted", !.table = table] \in Down
    BY <2>1 DEF Down
  <2>4. /\ [down[c] EXCEPT !.at = "admitted", !.table = table].at = "admitted"
        /\ [down[c] EXCEPT !.at = "admitted", !.table = table].got = down[c].got
    BY <2>1 DEF Down
  <2> QED BY <2>1, <2>2, <2>3, <2>4 DEF Admit
<1>2. \A d \in Callers : /\ Asks(d)' <=> Asks(d)
                         /\ Over(d)' <=> Over(d)
                         /\ MayBuild(d)' <=> MayBuild(d)
                         /\ Asks(d) => d # c
                         /\ Over(d) => d # c
                         /\ MayBuild(d) => d # c
  BY <1>1 DEF Asks, Over, MayBuild
<1>3. DownloadsTypes'
  BY <1>1 DEF DownloadsInv, DownloadsTypes, Held
<1>4. Keyed'
  BY <1>1, <1>2 DEF DownloadsInv, Keyed
<1>5. AnswersKept'
  <2>1. down[c].got = Nothing
    BY <1>1 DEF DownloadsInv, Keyed
  <2> QED BY <1>1, <1>2, <2>1 DEF DownloadsInv, AnswersKept
<1>6. OneEntry'
  BY <1>1, <1>2 DEF DownloadsInv, OneEntry
<1> QED BY <1>3, <1>4, <1>5, <1>6 DEF DownloadsInv

(* An entry that is built or not: only its builder sets it.                  *)
LEMMA BuildStep ==
    ASSUME DownloadsInv, NEW c \in Callers, Build(c) \/ BuildFails(c) \/ GoesAway(c)
    PROVE  DownloadsInv'
<1> DEFINE e == down[c].entry
<1>1. /\ UNCHANGED <<instant, table, kept, excused>>
      /\ down[c].at \in {"waiting", "building"} /\ Asks(c) /\ ~Over(c)
  BY DEF Build, BuildFails, GoesAway, Asks, Over
<1>2. /\ e \in Callers /\ down[c].got = Nothing
      /\ \A a \in Callers : down[a].at = "building" =>
             entry[down[a].entry].builder = a /\ entry[down[a].entry].built = Nothing
  BY <1>1 DEF DownloadsInv, Keyed, AnswersKept
<1>3. /\ entry' \in [Callers -> DownEntry]
      /\ \A a \in Callers : /\ entry'[a].born = entry[a].born /\ entry'[a].built = entry[a].built
                            /\ a # e => entry'[a] = entry[a]
      /\ \/ entry' = entry
         \/ entry[e].builder \in {c, NoCaller}
      /\ Build(c) => entry'[e].builder = c /\ entry[e].built = Nothing
  <2>1. CASE Build(c)
    BY <1>2, <2>1 DEF Build, DownloadsInv, DownloadsTypes, DownEntry
  <2>2. CASE BuildFails(c)
    BY <1>2, <2>2 DEF Build, BuildFails, DownloadsInv, DownloadsTypes, DownEntry
  <2>3. CASE GoesAway(c)
    <3>1. Build(c) => down'[c].at = "building"
      BY DEF Build, DownloadsInv, DownloadsTypes, Down
    <3>2. down'[c].at = "gone"
      BY <2>3 DEF GoesAway, Unasked, DownloadsInv, DownloadsTypes
    <3> QED BY <1>2, <2>3, <3>1, <3>2 DEF GoesAway, DownloadsInv, DownloadsTypes, DownEntry
  <2> QED BY <2>1, <2>2, <2>3
<1>4. /\ down' \in [Callers -> Down] /\ \A a \in Callers \ {c} : down'[a] = down[a]
      /\ down'[c].got = Nothing
      /\ \/ down'[c].at = "gone" /\ GoesAway(c)
         \/ /\ down'[c].at \in {"building", "made"} /\ down'[c].key = down[c].key
            /\ down'[c].entry = e /\ down'[c].asked = down[c].asked
            /\ down'[c].at = "building" <=> Build(c)
  <2>1. CASE Build(c)
    BY <1>2, <2>1, SMTT(20) DEF Build, GoesAway, DownloadsInv, DownloadsTypes, Down
  <2>2. CASE BuildFails(c)
    BY <1>2, <2>2, SMTT(20) DEF Build, BuildFails, DownloadsInv, DownloadsTypes, Down
  <2>3. CASE GoesAway(c)
    BY <1>2, <2>3 DEF GoesAway, DownloadsInv, DownloadsTypes, Down, Unasked
  <2> QED BY <2>1, <2>2, <2>3
<1>5. /\ \A a \in Callers \ {c} : /\ Asks(a)' <=> Asks(a)
                                  /\ Over(a)' <=> Over(a)
                                  /\ MayBuild(a)' <=> MayBuild(a)
      /\ Asks(c)' => down'[c].key = down[c].key /\ down'[c].entry = e
                       /\ down'[c].asked = down[c].asked
      /\ MayBuild(c)' => MayBuild(c) /\ down'[c].key = down[c].key /\ down'[c].entry = e
  <2>1. \A a \in Callers \ {c} : down[a].at \in {"waiting", "building"} => down[a].entry \in Callers
    BY DEF DownloadsInv, Keyed, Asks
  <2>2. \A a \in Callers \ {c} : MayBuild(a)' <=> MayBuild(a)
    BY <1>3, <1>4, <2>1 DEF MayBuild
  <2> QED BY <1>1, <1>2, <1>3, <1>4, <2>2 DEF Asks, Over, MayBuild
<1> HIDE DEF e
<1>6. DownloadsTypes'
  BY <1>1, <1>3, <1>4 DEF DownloadsInv, DownloadsTypes, Held
<1>7. Keyed'
  <2>1. \A a \in Callers : down'[a].at \in {"idle", "admitted"} => entry'[a] = Absent
    <3>1. entry[e].born # -1
      BY <1>1 DEF DownloadsInv, Keyed, e
    <3>2. ASSUME NEW a \in Callers, down'[a].at \in {"idle", "admitted"}
          PROVE  entry'[a] = Absent
      <4>1. a # c /\ entry[a] = Absent
        BY <1>4, <3>2 DEF DownloadsInv, Keyed
      <4>2. a # e
        BY <3>1, <4>1 DEF Absent
      <4> QED BY <1>3, <4>1, <4>2
    <3> QED BY <3>2
  <2>2. \A a \in Callers : down'[a].at \in {"idle", "admitted"} => down'[a].got = Nothing
    BY <1>4 DEF DownloadsInv, Keyed
  <2>3. \A a \in Callers : Asks(a)' =>
          Asks(a) /\ down'[a].entry = down[a].entry /\ down'[a].key = down[a].key
    BY <1>1, <1>4, <1>5 DEF e
  <2>4. \A t \in 1..Tables : kept[t] # NoCaller => entry'[kept[t]].born # -1
    BY <1>3 DEF DownloadsInv, DownloadsTypes, Keyed
  <2>5. \A a \in Callers : Asks(a) => /\ down[a].entry \in Callers
                                      /\ entry'[down[a].entry].born # -1
    BY <1>3 DEF DownloadsInv, Keyed
  <2> QED BY <1>1, <2>1, <2>2, <2>3, <2>4, <2>5 DEF DownloadsInv, Keyed
<1>8. AnswersKept'
  <2>1. ASSUME NEW a \in Callers, down'[a].at = "building"
        PROVE  entry'[down'[a].entry].builder = a /\ entry'[down'[a].entry].built = Nothing
    <3>1. CASE a = c
      <4>1. Build(c) /\ down'[c].entry = e
        BY <1>4, <2>1, <3>1
      <4> QED BY <1>2, <1>3, <3>1, <4>1
    <3>2. CASE a # c
      <4>1. /\ down'[a] = down[a] /\ down[a].at = "building" /\ down[a].entry \in Callers
            /\ entry[down[a].entry].builder = a /\ entry[down[a].entry].built = Nothing
        BY <1>2, <1>4, <2>1, <3>2 DEF DownloadsInv, Keyed, Asks
      <4>2. down[a].entry = e => entry' = entry
        BY <1>3, <4>1, <3>2, DownloadsAssumption
      <4> QED BY <1>3, <4>1, <4>2
    <3> QED BY <3>1, <3>2
  <2>2. \A a \in Callers : Asks(a)' =>
          /\ Asks(a) /\ down'[a].entry = down[a].entry /\ down'[a].asked = down[a].asked
          /\ down[a].entry \in Callers
    BY <1>1, <1>4, <1>5 DEF DownloadsInv, Keyed, e
  <2>3. \A a \in Callers : Over(a) => a # c /\ Over(a)' /\ down'[a] = down[a]
    BY <1>1, <1>4, <1>5
  <2>4. ASSUME NEW a \in Callers, entry'[a].built # Nothing
        PROVE  \E b \in Callers : Over(b)' /\ down'[b].entry = a
                                           /\ entry'[a].built.table = down'[b].table
    <3>1. PICK b \in Callers : Over(b) /\ down[b].entry = a /\ entry[a].built.table = down[b].table
      BY <1>3, <2>4 DEF DownloadsInv, AnswersKept
    <3> QED BY <1>3, <2>3, <3>1
  <2>5. ASSUME NEW a \in Callers, down'[a].got # Nothing
        PROVE  Over(a)' /\ down'[a].got = entry'[down'[a].entry].built
    <3>1. a # c /\ down'[a] = down[a] /\ Over(a) /\ down[a].got = entry[down[a].entry].built
      BY <1>4, <2>5 DEF DownloadsInv, AnswersKept
    <3>2. down[a].entry \in Callers
      BY <3>1 DEF DownloadsInv, Keyed, Asks
    <3> QED BY <1>3, <2>3, <3>1, <3>2
  <2>6. \A a \in Callers : down'[a].at = "served" => down'[a].got # Nothing
    BY <1>4 DEF DownloadsInv, AnswersKept
  <2>7. \A a \in Callers : Asks(a)' => down'[a].asked <= instant'
    BY <1>1, <2>2 DEF DownloadsInv, AnswersKept
  <2>8. \A a \in Callers : Asks(a)' /\ entry'[down'[a].entry].built # Nothing =>
           down'[a].asked - entry'[down'[a].entry].built.at < FRESH_FOR
    BY <1>3, <2>2 DEF DownloadsInv, AnswersKept
  <2> QED BY <2>1, <2>4, <2>5, <2>6, <2>7, <2>8 DEF AnswersKept
<1>9. OneEntry'
  <2>1. \A a \in Callers : MayBuild(a)' =>
          MayBuild(a) /\ down'[a].entry = down[a].entry /\ down'[a].key = down[a].key
    BY <1>4, <1>5 DEF e
  <2> QED BY <1>1, <2>1 DEF DownloadsInv, OneEntry
<1> QED BY <1>6, <1>7, <1>8, <1>9 DEF DownloadsInv

(* The answer of a build, which is the entry's from now on.                  *)
LEMMA BuiltStep ==
    ASSUME DownloadsInv, NEW c \in Callers, Built(c)
    PROVE  DownloadsInv'
<1> DEFINE e == down[c].entry
<1>1. /\ UNCHANGED <<instant, table, kept, excused>>
      /\ down[c].at = "building" /\ Asks(c) /\ ~Over(c)
  BY DEF Built, Asks, Over
<1>2. /\ e \in Callers /\ entry[e].builder = c /\ entry[e].built = Nothing
      /\ instant \in Nat /\ down[c].asked \in Nat /\ down[c].asked <= instant
      /\ entry[e].born # -1
  BY <1>1 DEF DownloadsInv, DownloadsTypes, Down, Keyed, AnswersKept
<1>3. PICK answer \in Answer :
        /\ entry' = [entry EXCEPT ![e].builder = NoCaller, ![e].built = answer]
        /\ down' = [down EXCEPT ![c].at = "made", ![c].got = answer]
        /\ answer.at = instant /\ answer.table = down[c].table
  <2>1. PICK big \in BOOLEAN :
          LET answer == [at |-> instant, table |-> down[c].table, big |-> big]
          IN /\ entry' = [entry EXCEPT ![e].builder = NoCaller, ![e].built = answer]
             /\ down' = [down EXCEPT ![c].at = "made", ![c].got = answer]
    BY DEF Built
  <2>2. [at |-> instant, table |-> down[c].table, big |-> big] \in Answer
    BY <1>2 DEF DownloadsInv, DownloadsTypes, Down, Answer
  <2> QED BY <2>1, <2>2
<1>4. answer # Nothing
  BY DEF Answer, Nothing
<1>5. /\ entry' \in [Callers -> DownEntry]
      /\ \A a \in Callers : /\ entry'[a].born = entry[a].born
                            /\ a # e => entry'[a] = entry[a]
      /\ entry'[e].built = answer
  BY <1>2, <1>3 DEF DownloadsInv, DownloadsTypes, DownEntry
<1>6. /\ down' \in [Callers -> Down] /\ \A a \in Callers \ {c} : down'[a] = down[a]
      /\ down'[c].at = "made" /\ down'[c].got = answer /\ down'[c].entry = e
      /\ down'[c].key = down[c].key /\ down'[c].asked = down[c].asked
      /\ down'[c].table = down[c].table
  BY <1>3 DEF DownloadsInv, DownloadsTypes, Down
<1>7. \A a \in Callers : /\ Asks(a)' <=> Asks(a)
                         /\ Over(a)' <=> Over(a) \/ a = c
                         /\ down'[a].entry = down[a].entry /\ down'[a].key = down[a].key
                         /\ down'[a].asked = down[a].asked /\ down'[a].table = down[a].table
  BY <1>1, <1>6 DEF Asks, Over
<1>8. \A a \in Callers : MayBuild(a)' => MayBuild(a)
  <2>1. \A a \in Callers : down[a].at \in {"waiting", "building"} => down[a].entry \in Callers
    BY DEF DownloadsInv, Keyed, Asks
  <2> QED BY <1>2, <1>4, <1>5, <1>6, <2>1 DEF MayBuild
<1> HIDE DEF e
<1>9. DownloadsTypes'
  BY <1>1, <1>5, <1>6 DEF DownloadsInv, DownloadsTypes, Held
<1>10. Keyed'
  <2>1. \A a \in Callers : down'[a].at \in {"idle", "admitted"} =>
          entry'[a] = Absent /\ down'[a].got = Nothing
    <3>1. ASSUME NEW a \in Callers, down'[a].at \in {"idle", "admitted"}
          PROVE  entry'[a] = Absent /\ down'[a].got = Nothing
      <4>1. a # c /\ entry[a] = Absent /\ down[a].got = Nothing /\ down'[a] = down[a]
        BY <1>6, <3>1 DEF DownloadsInv, Keyed
      <4>2. a # e
        BY <1>2, <4>1 DEF Absent
      <4> QED BY <1>5, <4>1, <4>2
    <3> QED BY <3>1
  <2>2. \A t \in 1..Tables : kept[t] # NoCaller => entry'[kept[t]].born # -1
    BY <1>5 DEF DownloadsInv, DownloadsTypes, Keyed
  <2>3. \A a \in Callers : Asks(a) => /\ down[a].entry \in Callers
                                      /\ entry'[down[a].entry].born # -1
    BY <1>5 DEF DownloadsInv, Keyed
  <2> QED BY <1>1, <1>7, <2>1, <2>2, <2>3 DEF DownloadsInv, Keyed
<1>11. AnswersKept'
  <2>1. ASSUME NEW a \in Callers, down'[a].at = "building"
        PROVE  entry'[down'[a].entry].builder = a /\ entry'[down'[a].entry].built = Nothing
    <3>1. /\ a # c /\ down'[a] = down[a] /\ down[a].entry \in Callers
          /\ entry[down[a].entry].builder = a /\ entry[down[a].entry].built = Nothing
      BY <1>6, <2>1 DEF DownloadsInv, Keyed, Asks, AnswersKept
    <3>2. down[a].entry # e
      BY <1>2, <3>1
    <3> QED BY <1>5, <3>1, <3>2
  <2>2. ASSUME NEW a \in Callers, entry'[a].built # Nothing
        PROVE  \E b \in Callers : Over(b)' /\ down'[b].entry = a
                                           /\ entry'[a].built.table = down'[b].table
    <3>1. CASE a = e
      BY <1>3, <1>5, <1>6, <1>7, <3>1
    <3>2. CASE a # e
      <4>1. entry'[a] = entry[a]
        BY <1>5, <3>2
      <4>2. PICK b \in Callers : Over(b) /\ down[b].entry = a /\ entry[a].built.table = down[b].table
        BY <2>2, <4>1 DEF DownloadsInv, AnswersKept
      <4> QED BY <1>7, <4>1, <4>2
    <3> QED BY <3>1, <3>2
  <2>3. ASSUME NEW a \in Callers, down'[a].got # Nothing
        PROVE  Over(a)' /\ down'[a].got = entry'[down'[a].entry].built
    <3>1. CASE a = c
      BY <1>5, <1>6, <1>7, <3>1
    <3>2. CASE a # c
      <4>1. down'[a] = down[a] /\ Over(a) /\ down[a].got = entry[down[a].entry].built
        BY <1>6, <2>3, <3>2 DEF DownloadsInv, AnswersKept
      <4>2. down[a].entry \in Callers /\ down[a].entry # e
        BY <1>2, <2>3, <4>1 DEF DownloadsInv, Keyed, Asks
      <4> QED BY <1>5, <1>7, <4>1, <4>2
    <3> QED BY <3>1, <3>2
  <2>4. \A a \in Callers : down'[a].at = "served" => down'[a].got # Nothing
    BY <1>6 DEF DownloadsInv, AnswersKept
  <2>5. \A a \in Callers : Asks(a)' => down'[a].asked <= instant'
    BY <1>1, <1>7 DEF DownloadsInv, AnswersKept
  <2>6. ASSUME NEW a \in Callers, Asks(a)', entry'[down'[a].entry].built # Nothing
        PROVE  down'[a].asked - entry'[down'[a].entry].built.at < FRESH_FOR
    <3>1. down[a].entry \in Callers /\ Asks(a) /\ down[a].asked <= instant /\ down[a].asked \in Nat
      BY <1>7, <2>6 DEF DownloadsInv, DownloadsTypes, Down, Keyed, AnswersKept
    <3>2. CASE down[a].entry = e
      <4>1. entry'[down'[a].entry].built.at = instant /\ down'[a].asked = down[a].asked
        BY <1>3, <1>5, <1>7, <3>2
      <4> QED BY <1>2, <3>1, <4>1, DownloadsAssumption
    <3>3. CASE down[a].entry # e
      BY <1>5, <1>7, <2>6, <3>1, <3>3 DEF DownloadsInv, AnswersKept
    <3> QED BY <3>2, <3>3
  <2> QED BY <2>1, <2>2, <2>3, <2>4, <2>5, <2>6 DEF AnswersKept
<1>12. OneEntry'
  BY <1>1, <1>7, <1>8 DEF DownloadsInv, OneEntry
<1> QED BY <1>9, <1>10, <1>11, <1>12 DEF DownloadsInv

(* A caller takes the answer of its entry, or is answered; what is forgotten *)
(* excuses its key.                                                          *)
LEMMA TakeStep ==
    ASSUME DownloadsInv, NEW c \in Callers, Take(c) \/ Answered(c)
    PROVE  DownloadsInv'
<1>1. /\ UNCHANGED <<instant, table, entry>>
      /\ Asks(c) /\ down[c].at \in {"waiting", "made"}
  BY DEF Take, Answered, Asks, Over
<1>2. /\ down[c].entry \in Callers /\ down[c].key \in 1..table /\ down[c].key \in 1..Tables
      /\ table \in 1..Tables
  BY <1>1, DownloadsAssumption DEF DownloadsInv, DownloadsTypes, Keyed
<1>3. /\ down' \in [Callers -> Down] /\ \A a \in Callers \ {c} : down'[a] = down[a]
      /\ down'[c].at \in {"made", "served", "failed"}
      /\ down'[c].entry = down[c].entry /\ down'[c].key = down[c].key
      /\ down'[c].asked = down[c].asked /\ down'[c].table = down[c].table
      /\ \/ down'[c].got = entry[down[c].entry].built
         \/ down'[c].got = down[c].got /\ Over(c)
      /\ down'[c].at = "served" => down'[c].got # Nothing
  <2>1. CASE Take(c)
    BY <1>2, <2>1 DEF Take, DownloadsInv, DownloadsTypes, Down, DownEntry
  <2>2. CASE Answered(c)
    BY <2>2 DEF Answered, Over, DownloadsInv, DownloadsTypes, Down
  <2> QED BY <2>1, <2>2
<1>4. \/ UNCHANGED <<kept, excused>>
      \/ /\ excused' = excused \cup {down[c].key} /\ kept' \in [1..Tables -> Callers \cup {NoCaller}]
         /\ \A t \in 1..Tables : kept'[t] = kept[t] \/ (kept'[t] = NoCaller /\ t = down[c].key)
  BY <1>2 DEF Take, Answered, Forgotten, DownloadsInv, DownloadsTypes
<1>5. \A a \in Callers : /\ Asks(a)' <=> Asks(a)
                         /\ Over(a)' <=> Over(a) \/ a = c
                         /\ down'[a].entry = down[a].entry /\ down'[a].key = down[a].key
                         /\ down'[a].asked = down[a].asked /\ down'[a].table = down[a].table
                         /\ MayBuild(a)' => MayBuild(a)
  BY <1>1, <1>3 DEF Asks, Over, MayBuild
<1>6. /\ kept' \in [1..Tables -> Callers \cup {NoCaller}] /\ excused' \subseteq 1..Tables
      /\ \A t \in 1..Tables : kept'[t] # NoCaller => kept'[t] = kept[t]
      /\ excused \subseteq excused'
  BY <1>2, <1>4 DEF DownloadsInv, DownloadsTypes
<1>7. DownloadsTypes'
  <2>1. Held(kept') \subseteq Held(kept) /\ IsFiniteSet(Held(kept))
    <3>1. IsFiniteSet(1..Tables) /\ Held(kept) \subseteq 1..Tables
      BY FS_Interval, DownloadsAssumption DEF Held
    <3> QED BY <1>6, <3>1, FS_Subset DEF Held
  <2>2. Cardinality(Held(kept')) <= MAX_HELD
    BY <2>1, FS_Subset, FS_CardinalityType, DownloadsAssumption DEF DownloadsInv, DownloadsTypes
  <2> QED BY <1>1, <1>3, <1>6, <2>2 DEF DownloadsInv, DownloadsTypes, Held
<1>8. Keyed'
  <2>1. \A a \in Callers : down'[a].at \in {"idle", "admitted"} =>
          a # c /\ down'[a] = down[a]
    BY <1>3
  <2>2. \A a \in Callers : Asks(a)' =>
          /\ down'[a].entry \in Callers /\ entry'[down'[a].entry].born # -1
          /\ down'[a].key \in 1..table'
          /\ \A d \in Callers : Asks(d)' /\ down'[d].entry = down'[a].entry =>
                  down'[d].key = down'[a].key
    BY <1>1, <1>5 DEF DownloadsInv, Keyed
  <2>3. \A a \in Callers : Asks(a)' =>
          \A t \in 1..Tables : kept'[t] = down'[a].entry => t = down'[a].key
    <3>1. ASSUME NEW a \in Callers, Asks(a)', NEW t \in 1..Tables, kept'[t] = down'[a].entry
          PROVE  t = down'[a].key
      <4>1. Asks(a) /\ down[a].entry \in Callers /\ kept'[t] = down[a].entry
        BY <1>5, <3>1 DEF DownloadsInv, Keyed
      <4>2. kept[t] = down[a].entry
        BY <1>6, <4>1, DownloadsAssumption
      <4> QED BY <1>5, <4>1, <4>2 DEF DownloadsInv, Keyed
    <3> QED BY <3>1
  <2>4. \A t \in 1..Tables : kept'[t] # NoCaller =>
          /\ entry'[kept'[t]].born # -1
          /\ \A u \in 1..Tables : kept'[u] = kept'[t] => u = t
    BY <1>1, <1>6 DEF DownloadsInv, Keyed
  <2>5. \A a \in Callers : down'[a].at \in {"idle", "admitted"} =>
          entry'[a] = Absent /\ down'[a].got = Nothing
    BY <1>1, <2>1 DEF DownloadsInv, Keyed
  <2> QED BY <2>2, <2>3, <2>4, <2>5 DEF Keyed
<1>9. AnswersKept'
  <2>1. \A a \in Callers : down'[a].at = "building" => a # c /\ down'[a] = down[a]
    BY <1>3
  <2>2. \A a \in Callers : down'[a].got # Nothing =>
           Over(a)' /\ down'[a].got = entry'[down'[a].entry].built
    BY <1>1, <1>3, <1>5 DEF DownloadsInv, AnswersKept
  <2>3. \A a \in Callers : down'[a].at = "served" => down'[a].got # Nothing
    BY <1>3 DEF DownloadsInv, AnswersKept
  <2> QED BY <1>1, <1>5, <2>1, <2>2, <2>3 DEF DownloadsInv, AnswersKept
<1>10. OneEntry'
  BY <1>1, <1>2, <1>4, <1>5 DEF DownloadsInv, OneEntry, MayBuild, Keyed, Asks
<1> QED BY <1>7, <1>8, <1>9, <1>10 DEF DownloadsInv

LEMMA RetainedKept ==
    ASSUME DownloadsInv
    PROVE  /\ Retained \in [1..Tables -> Callers \cup {NoCaller}]
           /\ \A t \in 1..Tables : /\ Retained[t] # NoCaller => Retained[t] = kept[t] /\ Fresh(kept[t])
                                   /\ kept[t] # NoCaller /\ Fresh(kept[t]) => Retained[t] = kept[t]
           /\ IsFiniteSet(Held(Retained)) /\ Cardinality(Held(Retained)) \in Nat
           /\ Cardinality(Held(Retained)) <= MAX_HELD
<1>1. /\ Retained \in [1..Tables -> Callers \cup {NoCaller}]
      /\ \A t \in 1..Tables : /\ Retained[t] # NoCaller => Retained[t] = kept[t] /\ Fresh(kept[t])
                              /\ kept[t] # NoCaller /\ Fresh(kept[t]) => Retained[t] = kept[t]
  BY DEF Retained, DownloadsInv, DownloadsTypes
<1>2. Held(Retained) \subseteq Held(kept)
  BY <1>1 DEF Held
<1>3. IsFiniteSet(1..Tables) /\ Held(kept) \subseteq 1..Tables
  BY FS_Interval, DownloadsAssumption DEF Held
<1>4. IsFiniteSet(Held(kept)) /\ IsFiniteSet(Held(Retained))
  BY <1>2, <1>3, FS_Subset
<1>5. Cardinality(Held(Retained)) <= Cardinality(Held(kept))
  BY <1>2, <1>4, FS_Subset
<1> QED BY <1>1, <1>4, <1>5, FS_CardinalityType, DownloadsAssumption
        DEF DownloadsInv, DownloadsTypes

(* A key's entry is found, or added; what the caller was to share with those *)
(* who build for the key already is lost only where that is excused.         *)
LEMMA AskStep ==
    ASSUME DownloadsInv, NEW c \in Callers, Ask(c)
    PROVE  DownloadsInv'
<1> DEFINE found == Retained[table]
           e     == IF found # NoCaller THEN found ELSE c
           room  == Cardinality(Held(Retained)) < MAX_HELD
<1>1. /\ down[c].at = "admitted" /\ UNCHANGED <<instant, table>>
      /\ down' = [down EXCEPT ![c] =
              [@ EXCEPT !.at = "waiting", !.key = table, !.entry = e, !.asked = instant]]
      /\ \/ found # NoCaller /\ entry' = entry /\ kept' = Retained
         \/ /\ found = NoCaller /\ entry' = [entry EXCEPT ![c].born = instant]
            /\ \/ room /\ kept' = [Retained EXCEPT ![table] = c]
               \/ ~room /\ kept' = Retained
      /\ excused' \in {excused, excused \cup {table}}
      /\ table \notin excused' =>
           /\ found # NoCaller \/ room
           /\ ~(/\ kept[table] # NoCaller /\ entry[kept[table]].built = Nothing
                /\ instant - entry[kept[table]].born >= ABANDONED_AFTER)
  BY DEF Ask
<1>2. /\ table \in 1..Tables /\ instant \in Nat /\ c # NoCaller
      /\ entry[c] = Absent /\ down[c].got = Nothing
      /\ found \in Callers \cup {NoCaller} /\ e \in Callers
  BY <1>1, RetainedKept, DownloadsAssumption DEF DownloadsInv, DownloadsTypes, Keyed
<1>3. /\ found # NoCaller => found = kept[table] /\ Fresh(found) /\ e = found /\ entry[e].born # -1
      /\ found = NoCaller => e = c
  BY <1>2, RetainedKept DEF DownloadsInv, Keyed
<1>4. /\ down' \in [Callers -> Down] /\ \A a \in Callers \ {c} : down'[a] = down[a]
      /\ down'[c].at = "waiting" /\ down'[c].key = table /\ down'[c].entry = e
      /\ down'[c].asked = instant /\ down'[c].got = Nothing
  <2> DEFINE asked == [down[c] EXCEPT !.at = "waiting", !.key = table, !.entry = e,
                                      !.asked = instant]
  <2>1. down \in [Callers -> Down] /\ table \in Nat
    BY DEF DownloadsInv, DownloadsTypes
  <2> HIDE DEF e
  <2>2. /\ asked \in Down /\ asked.at = "waiting" /\ asked.key = table /\ asked.entry = e
        /\ asked.asked = instant /\ asked.got = Nothing
    BY <1>2, <2>1 DEF Down
  <2>3. down' = [down EXCEPT ![c] = asked]
    BY <1>1
  <2> HIDE DEF asked
  <2> QED BY <2>1, <2>2, <2>3
<1>5. /\ entry' \in [Callers -> DownEntry]
      /\ \A a \in Callers \ {c} : entry'[a] = entry[a]
      /\ entry'[c].builder = NoCaller /\ entry'[c].built = Nothing
      /\ found # NoCaller => entry' = entry
      /\ found = NoCaller => entry'[c].born = instant
  <2>1. entry[c].builder = NoCaller /\ entry[c].built = Nothing
    BY <1>2 DEF Absent
  <2> QED BY <1>1, <1>2, <2>1 DEF DownloadsInv, DownloadsTypes, DownEntry
<1>6. /\ kept' \in [1..Tables -> Callers \cup {NoCaller}]
      /\ \A t \in 1..Tables : t # table => kept'[t] = NoCaller \/ kept'[t] = kept[t]
      /\ found # NoCaller => kept'[table] = found
      /\ found = NoCaller => kept'[table] \in {c, NoCaller} /\ (room => kept'[table] = c)
  BY <1>1, <1>2, RetainedKept
<1>7. \A a \in Callers : /\ Asks(a)' <=> Asks(a) \/ a = c
                         /\ Over(a)' <=> Over(a)
                         /\ Asks(a) => a # c
                         /\ Over(a) => a # c
                         /\ a # c => (MayBuild(a)' => MayBuild(a))
  <2>1. \A a \in Callers : down[a].at \in {"waiting", "building"} =>
          down[a].entry \in Callers /\ down[a].entry # c
    <3>1. ASSUME NEW a \in Callers, down[a].at \in {"waiting", "building"}
          PROVE  down[a].entry \in Callers /\ down[a].entry # c
      <4>1. down[a].entry \in Callers /\ entry[down[a].entry].born # -1
        BY <3>1 DEF DownloadsInv, Keyed, Asks
      <4> QED BY <1>2, <4>1 DEF Absent
    <3> QED BY <3>1
  <2> QED BY <1>1, <1>4, <1>5, <2>1 DEF Asks, Over, MayBuild
<1>8. \A a \in Callers : Asks(a) => /\ down[a].entry \in Callers /\ down[a].entry # c
                                    /\ entry'[down[a].entry] = entry[down[a].entry]
  <2>1. ASSUME NEW a \in Callers, Asks(a)
        PROVE  down[a].entry \in Callers /\ down[a].entry # c
    <3>1. down[a].entry \in Callers /\ entry[down[a].entry].born # -1
      BY <2>1 DEF DownloadsInv, Keyed
    <3> QED BY <1>2, <3>1 DEF Absent
  <2> QED BY <1>5, <2>1
<1>9. \A t \in 1..Tables : kept[t] # NoCaller => kept[t] \in Callers /\ kept[t] # c
  <2>1. ASSUME NEW t \in 1..Tables, kept[t] # NoCaller
        PROVE  kept[t] \in Callers /\ kept[t] # c
    <3>1. kept[t] \in Callers /\ entry[kept[t]].born # -1
      BY <2>1 DEF DownloadsInv, DownloadsTypes, Keyed
    <3> QED BY <1>2, <3>1 DEF Absent
  <2> QED BY <2>1
<1> HIDE DEF found, room, e
<1>10. DownloadsTypes'
  <2>1. Cardinality(Held(kept')) <= MAX_HELD
    <3>1. CASE kept' = Retained
      BY <3>1, RetainedKept
    <3>2. CASE room /\ kept' = [Retained EXCEPT ![table] = c]
      <4>1. Held(kept') = Held(Retained) \cup {table}
        BY <1>2, <3>2, RetainedKept DEF Held
      <4>2. Cardinality(Held(Retained) \cup {table}) <= Cardinality(Held(Retained)) + 1
        <5>1. Cardinality(Held(Retained) \cup {table}) =
                IF table \in Held(Retained) THEN Cardinality(Held(Retained))
                ELSE Cardinality(Held(Retained)) + 1
          BY RetainedKept, FS_AddElement
        <5> QED BY <5>1, RetainedKept
      <4>3. Cardinality(Held(Retained)) < MAX_HELD /\ Cardinality(Held(Retained)) \in Nat
        BY <3>2, RetainedKept DEF room
      <4>4. Cardinality(Held(Retained) \cup {table}) \in Nat
        BY RetainedKept, FS_AddElement, FS_CardinalityType
      <4> QED BY <4>1, <4>2, <4>3, <4>4, DownloadsAssumption
    <3> QED BY <1>1, <3>1, <3>2
  <2> QED BY <1>1, <1>2, <1>4, <1>5, <1>6, <2>1 DEF DownloadsInv, DownloadsTypes, Held
<1>11. Keyed'
  <2>1. \A a \in Callers : down'[a].at \in {"idle", "admitted"} =>
          entry'[a] = Absent /\ down'[a].got = Nothing
    BY <1>4, <1>5 DEF DownloadsInv, Keyed
  <2>2. \A t \in 1..Tables : kept'[t] # NoCaller =>
          /\ entry'[kept'[t]].born # -1
          /\ \A u \in 1..Tables : kept'[u] = kept'[t] => u = t
    <3>1. ASSUME NEW t \in 1..Tables, kept'[t] # NoCaller, kept'[t] # c
          PROVE  kept'[t] = kept[t] /\ entry'[kept'[t]].born # -1
      <4>1. kept'[t] = kept[t]
        BY <1>3, <1>6, <3>1
      <4>2. kept[t] \in Callers /\ entry[kept[t]].born # -1
        BY <1>9, <3>1, <4>1 DEF DownloadsInv, Keyed
      <4> QED BY <1>5, <3>1, <4>1, <4>2
    <3>2. \A t \in 1..Tables : kept'[t] = c => t = table /\ found = NoCaller
      BY <1>2, <1>3, <1>6, <1>9
    <3>3. found = NoCaller => entry'[c].born # -1
      BY <1>2, <1>5
    <3>4. \A t \in 1..Tables : kept'[t] # NoCaller => entry'[kept'[t]].born # -1
      BY <3>1, <3>2, <3>3
    <3>5. \A t, u \in 1..Tables : kept'[t] # NoCaller /\ kept'[u] = kept'[t] => u = t
      BY <3>1, <3>2 DEF DownloadsInv, Keyed
    <3> QED BY <3>4, <3>5
  <2>3. ASSUME NEW a \in Callers, Asks(a)
        PROVE  /\ down'[a].entry \in Callers /\ entry'[down'[a].entry].born # -1
               /\ down'[a].key \in 1..table'
               /\ \A t \in 1..Tables : kept'[t] = down'[a].entry => t = down'[a].key
    <3>1. down'[a] = down[a] /\ down[a].entry # c /\ down[a].entry \in Callers
      BY <1>4, <1>7, <1>8, <2>3
    <3>2. \A t \in 1..Tables : kept'[t] = down[a].entry => kept[t] = down[a].entry
      BY <1>2, <1>3, <1>6, <3>1, DownloadsAssumption
    <3>3. /\ entry[down[a].entry].born # -1 /\ down[a].key \in 1..table
          /\ \A t \in 1..Tables : kept[t] = down[a].entry => t = down[a].key
      BY <2>3 DEF DownloadsInv, Keyed
    <3> QED BY <1>1, <1>8, <2>3, <3>1, <3>2, <3>3
  <2>4. /\ down'[c].entry \in Callers /\ entry'[down'[c].entry].born # -1
        /\ down'[c].key \in 1..table'
        /\ \A t \in 1..Tables : kept'[t] = down'[c].entry => t = down'[c].key
    <3>1. e \in Callers /\ entry'[e].born # -1
      BY <1>2, <1>3, <1>5 DEF e
    <3>2. \A t \in 1..Tables : kept'[t] = e => t = table
      BY <1>2, <1>3, <1>6, <1>9 DEF DownloadsInv, Keyed
    <3> QED BY <1>1, <1>2, <1>4, <3>1, <3>2
  <2>5. \A a \in Callers : Asks(a) /\ down[a].entry = e => down[a].key = table
    BY <1>2, <1>3, <1>8 DEF DownloadsInv, Keyed
  <2>6. \A a, d \in Callers : Asks(a)' /\ Asks(d)' /\ down'[d].entry = down'[a].entry =>
                  down'[d].key = down'[a].key
    BY <1>4, <1>7, <2>5 DEF DownloadsInv, Keyed
  <2> QED BY <1>7, <2>1, <2>2, <2>3, <2>4, <2>6 DEF Keyed
<1>12. AnswersKept'
  <2>1. \A a \in Callers : down'[a].at = "building" =>
          entry'[down'[a].entry].builder = a /\ entry'[down'[a].entry].built = Nothing
    <3>1. ASSUME NEW a \in Callers, down'[a].at = "building"
          PROVE  a # c /\ down'[a] = down[a] /\ Asks(a)
      BY <1>4, <3>1 DEF Asks
    <3> QED BY <1>8, <3>1 DEF DownloadsInv, AnswersKept
  <2>2. \A a \in Callers : entry'[a].built # Nothing =>
          \E b \in Callers : Over(b)' /\ down'[b].entry = a /\ entry'[a].built.table = down'[b].table
    <3>1. ASSUME NEW a \in Callers, entry'[a].built # Nothing
          PROVE  a # c /\ entry'[a] = entry[a]
      BY <1>5, <3>1
    <3> QED BY <1>4, <1>7, <3>1 DEF DownloadsInv, AnswersKept
  <2>3. ASSUME NEW a \in Callers, Asks(a)
        PROVE  /\ down'[a].asked <= instant'
               /\ entry'[down'[a].entry].built # Nothing =>
                      down'[a].asked - entry'[down'[a].entry].built.at < FRESH_FOR
    BY <1>1, <1>4, <1>7, <1>8, <2>3 DEF DownloadsInv, AnswersKept
  <2>4. /\ down'[c].asked <= instant'
        /\ entry'[down'[c].entry].built # Nothing =>
               down'[c].asked - entry'[down'[c].entry].built.at < FRESH_FOR
    <3>1. CASE found # NoCaller
      BY <1>1, <1>2, <1>3, <1>4, <1>5, <3>1 DEF Fresh
    <3>2. CASE found = NoCaller
      BY <1>1, <1>2, <1>3, <1>4, <1>5, <3>2
    <3> QED BY <3>1, <3>2
  <2>5. ASSUME NEW a \in Callers, down'[a].got # Nothing
        PROVE  Over(a)' /\ down'[a].got = entry'[down'[a].entry].built
    <3>1. a # c /\ down'[a] = down[a] /\ Over(a) /\ Asks(a)
      BY <1>4, <2>5 DEF DownloadsInv, AnswersKept, Asks
    <3> QED BY <1>7, <1>8, <2>5, <3>1 DEF DownloadsInv, AnswersKept
  <2>6. \A a \in Callers : down'[a].at = "served" => down'[a].got # Nothing
    BY <1>4 DEF DownloadsInv, AnswersKept
  <2> QED BY <1>7, <2>1, <2>2, <2>3, <2>4, <2>5, <2>6 DEF AnswersKept
<1>13. OneEntry'
  <2>1. \A a \in Callers \ {c} : MayBuild(a)' =>
          /\ MayBuild(a) /\ down'[a] = down[a] /\ Asks(a) /\ down[a].entry \in Callers
    BY <1>4, <1>7, <1>8 DEF MayBuild, Asks
  <2>2. ASSUME NEW a \in Callers \ {c}, MayBuild(a), down[a].key = table, table \notin excused'
        PROVE  found # NoCaller /\ found = down[a].entry
    <3>1. table \notin excused /\ kept[table] = down[a].entry /\ entry[down[a].entry].built = Nothing
          /\ down[a].entry \in Callers
      BY <1>1, <1>8, <2>2 DEF DownloadsInv, OneEntry, MayBuild, Asks
    <3>2. Fresh(kept[table])
      <4>1. instant \in Nat /\ entry[kept[table]].born \in Int
        BY <1>2, <3>1 DEF DownloadsInv, DownloadsTypes, DownEntry
      <4> QED BY <1>1, <2>2, <3>1, <4>1, DownloadsAssumption DEF Fresh
    <3> QED BY <1>2, <1>3, <3>1, <3>2, RetainedKept, DownloadsAssumption DEF found
  <2>3. table \notin excused' => kept'[table] = e
    BY <1>1, <1>3, <1>6
  <2>4. ASSUME NEW a \in Callers, MayBuild(a)', down'[a].key \notin excused'
        PROVE  /\ \A d \in Callers : MayBuild(d)' /\ down'[d].key = down'[a].key =>
                      down'[d].entry = down'[a].entry
               /\ down'[a].key = table' => kept'[table'] = down'[a].entry
    <3>1. \A d \in Callers : MayBuild(d)' /\ down'[d].key = table /\ table \notin excused' =>
            down'[d].entry = e
      BY <1>3, <1>4, <2>1, <2>2
    <3>2. CASE down'[a].key = table
      BY <1>1, <2>3, <2>4, <3>1, <3>2
    <3>3. CASE down'[a].key # table
      BY <1>1, <1>4, <2>1, <2>4, <3>3 DEF DownloadsInv, OneEntry
    <3> QED BY <3>2, <3>3
  <2> QED BY <2>4 DEF OneEntry
<1> QED BY <1>10, <1>11, <1>12, <1>13 DEF DownloadsInv

LEMMA DownloadsStep == DownloadsInv /\ [DownloadsNext]_downloadsVars => DownloadsInv'
  BY ClockStep, AdmitStep, AskStep, BuildStep, BuiltStep, TakeStep DEF DownloadsNext, Download

(* download_cache.rs, FRESH_FOR, and files.rs, file_csv: what is served was   *)
(* finished at most FRESH_FOR before it was asked for, under the table of     *)
(* the admission but for the key that slipped; and is built once.             *)
THEOREM OneAnswerIsServed == DownloadsSpec => []OneFreshAnswer
<1>1. DownloadsInv => ServedIsFresh
  <2> SUFFICES ASSUME DownloadsInv, NEW c \in Callers, down[c].at = "served"
               PROVE  /\ down[c].asked - down[c].got.at < FRESH_FOR
                      /\ \/ down[c].got.table = down[c].table
                         \/ \E b \in Callers : Slipped(b) /\ down[b].key = down[c].key
    BY DEF ServedIsFresh
  <2>1. /\ down[c].got # Nothing /\ Asks(c) /\ down[c].got = entry[down[c].entry].built
        /\ down[c].entry \in Callers
    BY DEF DownloadsInv, AnswersKept, Keyed, Asks, Over
  <2>2. PICK b \in Callers : /\ Over(b) /\ down[b].entry = down[c].entry
                             /\ down[c].got.table = down[b].table
    BY <2>1 DEF DownloadsInv, AnswersKept
  <2>3. down[b].key = down[c].key
    BY <2>1, <2>2 DEF DownloadsInv, Keyed, Asks
  <2> QED BY <2>1, <2>2, <2>3 DEF DownloadsInv, AnswersKept, Slipped
<1>2. DownloadsInv => BuiltOnce
  <2> SUFFICES ASSUME DownloadsInv, NEW t \in (1..Tables) \ excused
               PROVE  Cardinality({c \in Callers : down[c].at = "building" /\ down[c].key = t}) <= 1
    BY DEF BuiltOnce
  <2> DEFINE B == {c \in Callers : down[c].at = "building" /\ down[c].key = t}
  <2>1. \A c, d \in B : c = d
    <3>1. ASSUME NEW c \in B, NEW d \in B
          PROVE  c = d
      <4>1. MayBuild(c) /\ MayBuild(d) /\ down[c].key = t /\ down[d].key = t
        BY <3>1 DEF DownloadsInv, AnswersKept, MayBuild
      <4>2. down[c].entry = down[d].entry
        BY <4>1 DEF DownloadsInv, OneEntry
      <4> QED BY <3>1, <4>2 DEF DownloadsInv, AnswersKept
    <3> QED BY <3>1
  <2>2. CASE B = {}
    BY <2>2, FS_EmptySet
  <2>3. CASE B # {}
    <3>1. PICK c : B = {c}
      BY <2>1, <2>3
    <3>2. Cardinality({c}) = 1
      BY FS_Singleton
    <3> QED BY <3>1, <3>2
  <2> QED BY <2>2, <2>3
<1> QED BY <1>1, <1>2, DownloadsStart, DownloadsStep, PTL DEF DownloadsSpec, OneFreshAnswer

(* download_cache.rs, MAX_HELD: the cache keeps no more answers than that,    *)
(* and every one of them under a table it was added for.                      *)
THEOREM HeldIsBounded == DownloadsSpec => []DownloadsTypeOK
<1>1. DownloadsInv => DownloadsTypeOK
  BY DEF DownloadsInv, DownloadsTypes, Keyed, DownloadsTypeOK, Held
<1> QED BY <1>1, DownloadsStart, DownloadsStep, PTL DEF DownloadsSpec

-----------------------------------------------------------------------------
(***************************************************************************)
(* Reload. Whatever writes, half-written trees and moved links come        *)
(* between two ticks, a preview that is quiet serves what is there. A      *)
(* fingerprint is of what was there when it was taken, and no later write  *)
(* makes the same one again (WriteNo, OfThen).                             *)
(***************************************************************************)

(* The writes of the repository are in order: a tree that is whole again, or *)
(* a link that moved, is of a later write than what was there before.        *)
WriteNo(r) == 2 * r.moves + IF r.state = "whole" THEN 1 ELSE 0

Repository == [linked : BOOLEAN, version : Nat, state : {"whole", "half", "away"}, moves : Nat]
Directory == [content : Contents \cup {NoPreview, Torn}, stamp : Nat]

(* A fingerprint is of what was there then, which no later write made again. *)
OfThen(there) ==
    /\ there \in [repository : Repository, directory : Directory]
    /\ WriteNo(there.repository) <= WriteNo(repository)
    /\ there.directory.stamp <= directory.stamp

Loading == {"repository", "previews", "readers", "others"}

ReloadTypes ==
    /\ listed \in Listings
    /\ repository \in Repository /\ directory \in Directory
    /\ mirror \in [at : {"idle", "apply"}, list : Listings, etag : Listings \cup {NoTag},
                   seen : Listings]
    /\ reaper.at \in {"load", "first", "idle"} \cup Loading
    /\ DOMAIN reaper = {"at", "seen", "current", "loaded"}
    /\ reaper.loaded = [of |-> reaper.loaded.of, preview |-> reaper.loaded.preview]
    /\ tables = [readers |-> tables.readers, others |-> tables.others]
    /\ reaper.at \in {"idle"} \cup Loading => OfThen(reaper.seen)
    /\ reaper.at \in Loading => OfThen(reaper.current)

(* What the stages of a load have read is there still, unless a later write  *)
(* than the fingerprint's came in between.                                   *)
LoadedSince ==
    /\ reaper.at \in {"previews", "readers", "others"} /\ reaper.current.repository = repository =>
           reaper.loaded.of = Tree
    /\ reaper.at \in {"readers", "others"} /\ reaper.current.directory = directory =>
           reaper.loaded.preview = directory.content
    /\ reaper.at = "others" => tables.readers = reaper.loaded.preview
    /\ reaper.at \in {"load", "first", "idle", "repository", "previews", "readers"} =>
           tables.readers = tables.others.preview
    /\ reaper.at \in {"idle", "repository"} /\ reaper.seen = There /\ ~overlooked =>
           tables = Served

(* What the mirror knows of the directory.                                   *)
Mirrored ==
    /\ directory.content \in Contents /\ mirror.seen # NoPreview =>
           directory.content = mirror.seen
    /\ mirror.at = "apply" => mirror.etag = NoTag
    /\ directory.content \in Contents /\ mirror.etag # NoTag => directory.content = mirror.etag

ReloadInv == ReloadTypes /\ LoadedSince /\ Mirrored

LEMMA ReloadStart == ReloadInit => ReloadInv
  BY ReloadAssumption
  DEF ReloadInit, ReloadInv, ReloadTypes, LoadedSince, Mirrored, Listings, NewMirror, NewReaper,
      NothingLoaded, Repository, Directory, Loading

(* A write comes after all that was read before it: what was read of what it *)
(* changes is not there any more.                                            *)
LEMMA WrittenLater ==
    ASSUME NEW there, OfThen(there),
           repository \in Repository, repository' \in Repository,
           directory \in Directory, directory' \in Directory,
           repository' = repository \/ WriteNo(repository') > WriteNo(repository),
           directory' = directory \/ directory'.stamp > directory.stamp
    PROVE  /\ OfThen(there)'
           /\ repository' # repository => there.repository # repository'
           /\ directory' # directory => there.directory # directory'
           /\ there = There' => there = There
<1>1. /\ \A r \in Repository : WriteNo(r) \in Nat
      /\ \A d \in Directory : d.stamp \in Nat
  BY DEF Repository, Directory, WriteNo
<1>2. /\ there \in [repository : Repository, directory : Directory]
      /\ WriteNo(there.repository) <= WriteNo(repository)
      /\ there.directory.stamp <= directory.stamp
  BY DEF OfThen
<1>3. WriteNo(there.repository) <= WriteNo(repository')
  BY <1>1, <1>2
<1>4. there.directory.stamp <= directory'.stamp
  BY <1>1, <1>2
<1>5. repository' # repository => there.repository # repository'
  BY <1>1, <1>2
<1>6. directory' # directory => there.directory # directory'
  BY <1>1, <1>2
<1>7. OfThen(there)'
  BY <1>2, <1>3, <1>4 DEF OfThen
<1>8. there = There' => there = There
  BY <1>5, <1>6 DEF There
<1> QED BY <1>5, <1>6, <1>7, <1>8

(* What a write, and whatever the mirror does, leaves of the reaper's part.  *)
LEMMA ReaperKept ==
    ASSUME ReloadInv, UNCHANGED <<reaper, tables, overlooked>>,
           repository' \in Repository, directory' \in Directory, listed' \in Listings,
           repository' = repository \/ WriteNo(repository') > WriteNo(repository),
           directory' = directory \/ directory'.stamp > directory.stamp,
           mirror' \in [at : {"idle", "apply"}, list : Listings, etag : Listings \cup {NoTag},
                        seen : Listings]
    PROVE  ReloadTypes' /\ LoadedSince'
<1>1. /\ repository \in Repository /\ directory \in Directory
      /\ reaper.at \in {"idle"} \cup Loading => OfThen(reaper.seen)
      /\ reaper.at \in Loading => OfThen(reaper.current)
  BY DEF ReloadInv, ReloadTypes
<1>2. reaper.at \in {"idle"} \cup Loading =>
        OfThen(reaper.seen)' /\ (reaper.seen = There' => reaper.seen = There)
  BY <1>1, WrittenLater
<1>3. reaper.at \in Loading =>
        /\ OfThen(reaper.current)'
        /\ repository' # repository => reaper.current.repository # repository'
        /\ directory' # directory => reaper.current.directory # directory'
  BY <1>1, WrittenLater
<1>4. ReloadTypes'
  BY <1>2, <1>3 DEF ReloadInv, ReloadTypes
<1>5. There' = There => Served' = Served /\ Tree' = Tree
  BY DEF There, Served, Tree
<1>6. repository' = repository => Tree' = Tree
  BY DEF Tree
<1>7. LoadedSince'
  <2>1. reaper'.at \in {"previews", "readers", "others"} /\ reaper'.current.repository = repository' =>
           reaper'.loaded.of = Tree'
    BY <1>3, <1>6 DEF ReloadInv, LoadedSince, Loading
  <2>2. reaper'.at \in {"readers", "others"} /\ reaper'.current.directory = directory' =>
           reaper'.loaded.preview = directory'.content
    BY <1>3 DEF ReloadInv, LoadedSince, Loading
  <2>3. reaper'.at \in {"idle", "repository"} /\ reaper'.seen = There' /\ ~overlooked' =>
           tables' = Served'
    BY <1>2, <1>5 DEF ReloadInv, LoadedSince, Loading
  <2> QED BY <2>1, <2>2, <2>3 DEF ReloadInv, LoadedSince
<1> QED BY <1>4, <1>7

LEMMA HoldsLater ==
    ASSUME NEW content \in Contents \cup {NoPreview, Torn}, Holds(content),
           directory \in Directory
    PROVE  /\ directory' \in Directory /\ directory'.stamp > directory.stamp
           /\ directory'.content = content
  BY DEF Holds, Directory

LEMMA WorldStep ==
    ASSUME ReloadInv, Relisted \/ RepositoryWritten \/ Cleaned
    PROVE  ReloadInv'
<1>1. /\ UNCHANGED <<reaper, tables, overlooked, mirror>>
      /\ listed' \in Listings
  BY DEF Relisted, RepositoryWritten, Cleaned, ReloadInv, ReloadTypes
<1>2. repository' \in Repository /\ (repository' = repository \/ WriteNo(repository') > WriteNo(repository))
  <2>1. CASE RepositoryWritten
    <3>1. /\ repository \in Repository /\ repository.moves \in Nat /\ repository.version \in Nat
          /\ repository.linked \in BOOLEAN
      BY DEF ReloadInv, ReloadTypes, Repository
    <3>2. /\ repository' \in Repository
          /\ \/ /\ repository.state = "whole"
                /\ repository'.moves = repository.moves + 1
             \/ /\ repository.state # "whole" /\ repository'.state = "whole"
                /\ repository'.moves = repository.moves
      <4>1. CASE /\ repository.state = "whole"
                 /\ \E version \in 1..2 \ {repository.version} :
                      repository' = [repository EXCEPT !.version = version, !.moves = @ + 1]
        <5>1. PICK v \in 1..2 : repository' = [repository EXCEPT !.version = v, !.moves = @ + 1]
          BY <4>1
        <5>2. repository' = [linked |-> repository.linked, version |-> v, state |-> "whole",
                             moves |-> repository.moves + 1]
          BY <3>1, <4>1, <5>1 DEF Repository
        <5> QED BY <3>1, <4>1, <5>2 DEF Repository
      <4>2. CASE /\ repository.state = "whole"
                 /\ \E state \in {"half", "away"} :
                      repository' = [repository EXCEPT !.version = @ + 1, !.state = state,
                                                       !.moves = @ + 1]
        <5>1. PICK state \in {"half", "away"} :
                repository' = [repository EXCEPT !.version = @ + 1, !.state = state, !.moves = @ + 1]
          BY <4>2
        <5>2. repository' = [linked |-> repository.linked, version |-> repository.version + 1,
                             state |-> state, moves |-> repository.moves + 1]
          BY <3>1, <5>1 DEF Repository
        <5> QED BY <3>1, <4>2, <5>2 DEF Repository
      <4>3. CASE repository.state # "whole" /\ repository' = [repository EXCEPT !.state = "whole"]
        BY <3>1, <4>3 DEF Repository
      <4> QED BY <2>1, <4>1, <4>2, <4>3 DEF RepositoryWritten
    <3> QED BY <3>1, <3>2 DEF WriteNo
  <2>2. CASE UNCHANGED repository
    BY <2>2 DEF ReloadInv, ReloadTypes
  <2> QED BY <2>1, <2>2 DEF Relisted, Cleaned
<1>3. /\ directory' \in Directory
      /\ directory' = directory \/ (directory'.stamp > directory.stamp /\ directory'.content = NoPreview)
  BY HoldsLater DEF Relisted, RepositoryWritten, Cleaned, ReloadInv, ReloadTypes
<1>4. ReloadTypes' /\ LoadedSince'
  BY <1>1, <1>2, <1>3, ReaperKept DEF ReloadInv, ReloadTypes
<1>5. Mirrored'
  BY <1>1, <1>3, ReloadAssumption DEF Mirrored, ReloadInv
<1> QED BY <1>4, <1>5 DEF ReloadInv

LEMMA MirrorStep ==
    ASSUME ReloadInv, Mirroring
    PROVE  ReloadInv'
<1> DEFINE M == [at : {"idle", "apply"}, list : Listings, etag : Listings \cup {NoTag},
                 seen : Listings]
<1>1. /\ listed \in Listings /\ repository \in Repository /\ directory \in Directory /\ mirror \in M
      /\ Mirrored /\ NoPreview \in Listings /\ Contents \subseteq Listings
      /\ directory.content \in Contents \cup {NoPreview, Torn}
  BY DEF ReloadInv, ReloadTypes, Listings, Directory
<1>2. UNCHANGED <<reaper, tables, overlooked, listed, repository>>
  BY DEF Mirroring, PreviewsUnchanged, PreviewsListed, Applied, Removing, Removed, Renamed,
         ApplyFails, world
<1>3. /\ mirror' \in M /\ directory' \in Directory
      /\ directory' = directory \/ directory'.stamp > directory.stamp
      /\ Mirrored'
  <2>1. CASE PreviewsUnchanged
    BY <1>1, <2>1 DEF PreviewsUnchanged, Mirrors, world, Mirrored
  <2>2. CASE PreviewsListed
    BY <1>1, <2>2 DEF PreviewsListed, Mirrors, world, Mirrored
  <2>3. CASE Applied
    BY <1>1, <2>3, ReloadAssumption DEF Applied, Written, Mirrors, world, Mirrored
  <2>4. CASE Removing
    <3>1. /\ directory' \in Directory /\ directory'.stamp > directory.stamp
          /\ directory'.content = Torn /\ mirror' = mirror
      BY <1>1, <2>4, HoldsLater DEF Removing
    <3> QED BY <1>1, <3>1, ReloadAssumption DEF Mirrored
  <2>5. CASE Removed
    <3>1. /\ directory' \in Directory /\ directory'.stamp > directory.stamp
          /\ directory'.content = NoPreview
      BY <1>1, <2>5, HoldsLater DEF Removed
    <3>2. mirror' \in M /\ mirror'.at = "apply" /\ mirror'.etag = mirror.etag /\ mirror.at = "apply"
      BY <1>1, <2>5 DEF Removed, Mirrors
    <3> QED BY <1>1, <3>1, <3>2, ReloadAssumption DEF Mirrored
  <2>6. CASE Renamed
    <3>1. /\ directory' \in Directory /\ directory'.stamp > directory.stamp
          /\ directory'.content = mirror.list
      BY <1>1, <2>6, HoldsLater DEF Renamed, Listings
    <3>2. /\ mirror' \in M /\ mirror'.at = "apply" /\ mirror'.etag = mirror.etag /\ mirror.at = "apply"
          /\ mirror'.seen = mirror.list
      BY <1>1, <2>6 DEF Renamed, Mirrors
    <3> QED BY <1>1, <3>1, <3>2, ReloadAssumption DEF Mirrored
  <2>7. CASE ApplyFails
    BY <1>1, <2>7 DEF ApplyFails, Mirrors, world, Mirrored
  <2> QED BY <2>1, <2>2, <2>3, <2>4, <2>5, <2>6, <2>7 DEF Mirroring
<1>4. ReloadTypes' /\ LoadedSince'
  BY <1>1, <1>2, <1>3, ReaperKept
<1> QED BY <1>3, <1>4 DEF ReloadInv

(* A fingerprint taken now is of now.                                        *)
LEMMA ThenIsNow == ReloadInv => OfThen(There)
  BY DEF OfThen, There, ReloadInv, ReloadTypes, Repository, Directory, WriteNo

LEMMA ReaperStep ==
    ASSUME ReloadInv, Reaping
    PROVE  ReloadInv'
<1> USE DEF ReloadInv
<1>1. CASE Restarts
  <2>1. /\ reaper' = NewReaper /\ mirror' = NewMirror /\ UNCHANGED <<listed, repository>>
        /\ tables' = [readers |-> NoPreview, others |-> NothingLoaded]
        /\ directory' \in Directory
    BY <1>1, HoldsLater DEF Restarts, ReloadTypes
  <2>2. ReloadTypes'
    BY <2>1 DEF ReloadTypes, NewReaper, NewMirror, NothingLoaded, Loading, Listings
  <2>3. LoadedSince' /\ Mirrored'
    BY <2>1 DEF LoadedSince, Mirrored, NewReaper, NewMirror, NothingLoaded
  <2> QED BY <2>2, <2>3
<1>2. CASE UNCHANGED <<world, mirror>>
  <2>1. /\ UNCHANGED <<listed, repository, directory, mirror>> /\ There' = There
        /\ Served' = Served /\ Tree' = Tree /\ Mirrored'
        /\ \A there : OfThen(there)' = OfThen(there)
    BY <1>2 DEF world, There, Served, Tree, Mirrored, OfThen
  <2>3. CASE LoadAtStart
    BY <2>1, <2>3 DEF LoadAtStart, ReloadTypes, LoadedSince, Loading
  <2>4. CASE FirstFingerprint
    BY <2>1, <2>4, ThenIsNow DEF FirstFingerprint, ReloadTypes, LoadedSince, Loading
  <2>5. CASE ReaperTick
    BY <2>1, <2>5, ThenIsNow DEF ReaperTick, ReloadTypes, LoadedSince, Loading
  <2>6. CASE LoadRepository
    BY <2>1, <2>6 DEF LoadRepository, ReloadTypes, LoadedSince, Loading
  <2>7. CASE LoadFails
    BY <2>1, <2>7 DEF LoadFails, ReloadTypes, LoadedSince, Loading
  <2>8. CASE LoadPreviews
    BY <2>1, <2>8 DEF LoadPreviews, ReloadTypes, LoadedSince, Loading
  <2>9. CASE SwapReaders
    BY <2>1, <2>9 DEF SwapReaders, ReloadTypes, LoadedSince, Loading
  <2>10. CASE SwapOthers
    <3>1. /\ reaper.at = "others" /\ reaper'.at = "idle" /\ reaper'.seen = reaper.current
          /\ DOMAIN reaper' = {"at", "seen", "current", "loaded"} /\ reaper'.loaded = reaper.loaded
          /\ tables' = [readers |-> tables.readers, others |-> reaper.loaded]
          /\ OfThen(reaper.current)
      BY <2>10 DEF SwapOthers, ReloadTypes, Loading
    <3>2. ReloadTypes'
      BY <2>1, <3>1 DEF ReloadTypes, Loading
    <3>3. reaper.current = There => tables' = Served
      BY <3>1 DEF There, Served, LoadedSince, ReloadTypes
    <3>4. LoadedSince'
      BY <2>1, <3>1, <3>3 DEF LoadedSince
    <3> QED BY <2>1, <3>2, <3>4
  <2> QED BY <1>1, <2>3, <2>4, <2>5, <2>6, <2>7, <2>8, <2>9, <2>10 DEF Reaping
<1> QED BY <1>1, <1>2
        DEF Reaping, LoadAtStart, FirstFingerprint, ReaperTick, LoadRepository, LoadFails,
            LoadPreviews, SwapReaders, SwapOthers

LEMMA ReloadStep == ReloadInv /\ [ReloadNext]_reloadVars => ReloadInv'
<1> SUFFICES ASSUME ReloadInv, [ReloadNext]_reloadVars
             PROVE  ReloadInv'
  OBVIOUS
<1>1. CASE UNCHANGED reloadVars
  BY <1>1 DEF reloadVars, world, ReloadInv, ReloadTypes, LoadedSince, Mirrored, OfThen, There,
              Served, Tree
<1> QED BY <1>1, WorldStep, MirrorStep, ReaperStep DEF ReloadNext

(* reaper.rs:1 "the running gateway follows the repository": a tick that      *)
(* finds nothing new serves what is there; previews.rs: a preview the Portal  *)
(* answers unchanged is the one in the directory.                             *)
THEOREM QuietServesWhatIsThere == ReloadSpec => []QuietIsServed
<1>1. ReloadInv => QuietIsServed
  BY ReloadAssumption DEF ReloadInv, ReloadTypes, LoadedSince, Mirrored, QuietIsServed, Listings
<1> QED BY <1>1, ReloadStart, ReloadStep, PTL DEF ReloadSpec

(* previews.rs, apply: a tree that is being written has no tag, so an answer  *)
(* "unchanged" cannot vouch for a torn one; and reaper.rs swaps the readers'  *)
(* table and the others' right after one another.                             *)
THEOREM ReloadTyped == ReloadSpec => []ReloadTypeOK
<1>1. ReloadInv => ReloadTypeOK
  <2> SUFFICES ASSUME ReloadInv PROVE ReloadTypeOK
    OBVIOUS
  <2>1. reaper.at \in {"load", "first", "idle", "repository", "previews", "readers"} \/ reaper.at = "others"
    BY DEF ReloadInv, ReloadTypes, Loading
  <2> QED BY <2>1 DEF ReloadInv, ReloadTypes, LoadedSince, Mirrored, Directory, ReloadTypeOK
<1> QED BY <1>1, ReloadStart, ReloadStep, PTL DEF ReloadSpec

-----------------------------------------------------------------------------
(***************************************************************************)
(* For any rows and calls, and any size of the tally: a count arrives at   *)
(* most once, and is lost only where the code gives it up.                 *)
(*                                                                         *)
(* A row's counts are in three places; every step moves them between these *)
(* without making any (Split, Merged), and drops them only when it says so *)
(* (`lost`) or doubles them when an answer is lost (`doubted`).            *)
(***************************************************************************)

CountsTypes ==
    /\ tally_of \in {"usage", "activity"}
    /\ tally \in [Rows -> Nat] /\ posting \in [Rows -> Nat]
    /\ received \in [Rows -> Nat] /\ called \in [Rows -> Nat]

CountsInv == CountsTypes /\ CountsAddUp

(* Taking splits each row's count into what stays and what is posted. *)
LEMMA Split ==
    ASSUME CountsTypes, TakeCounts
    PROVE  /\ tally' \in [Rows -> Nat] /\ posting' \in [Rows -> Nat]
           /\ \A r \in Rows : posting[r] = 0 /\ posting'[r] + tally'[r] = tally[r]
<1>1. tally' = Leaves /\ posting' = [r \in Rows |-> tally[r] - Leaves[r]] /\ posting = NoCounts
  BY DEF TakeCounts
<1>2. Leaves = NoCounts \/ Leaves = [NoCounts EXCEPT ![ANONYMOUS] = tally[ANONYMOUS]]
  BY DEF Leaves
<1>3. /\ Leaves \in [Rows -> Nat]
      /\ \A r \in Rows : Leaves[r] = 0 \/ Leaves[r] = tally[r]
  BY <1>2, CountsAssumption DEF NoCounts, CountsTypes
<1> HIDE DEF Leaves
<1> QED BY <1>1, <1>3 DEF CountsTypes, NoCounts

(* What is put back is held again, or lost. *)
LEMMA Merged ==
    ASSUME CountsTypes, Restore
    PROVE  /\ tally' \in [Rows -> Nat]
           /\ lost => lost'
           /\ \A r \in Rows : /\ tally'[r] <= tally[r] + posting[r]
                              /\ ~lost' => tally'[r] = tally[r] + posting[r]
<1>1. PICK kept_rows \in SUBSET (Entered(posting) \ Entered(tally)) :
        /\ tally' = Restored(kept_rows)
        /\ lost' = (lost \/ kept_rows \cup Entered(tally) # Entered(posting) \cup Entered(tally))
  BY DEF Restore
<1>2. \A r \in Rows : tally'[r] = tally[r] + IF r \in kept_rows \cup Entered(tally)
                                             THEN posting[r] ELSE 0
  BY <1>1 DEF Restored
<1>3. tally' \in [Rows -> Nat] /\ \A r \in Rows : tally'[r] <= tally[r] + posting[r]
  BY <1>1, <1>2 DEF CountsTypes, Restored
<1>4. ASSUME ~lost', NEW r \in Rows
      PROVE  tally'[r] = tally[r] + posting[r]
  <2>1. kept_rows \cup Entered(tally) = Entered(posting) \cup Entered(tally)
    BY <1>1, <1>4
  <2>2. CASE r \in Entered(posting)
    BY <1>2, <2>1, <2>2
  <2>3. CASE r \notin Entered(posting)
    <3>1. posting[r] = 0
      BY <2>3 DEF Entered, CountsTypes
    <3> QED BY <1>2, <3>1 DEF CountsTypes
  <2> QED BY <2>2, <2>3
<1> QED BY <1>1, <1>3, <1>4 DEF CountsTypes

LEMMA CountsStart == CountsInit => CountsInv
  BY DEF CountsInit, CountsInv, CountsTypes, CountsAddUp, NoCounts

LEMMA CountsStep == CountsInv /\ [CountsNext]_countsVars => CountsInv'
<1> SUFFICES ASSUME CountsInv, [CountsNext]_countsVars
             PROVE  CountsInv'
  OBVIOUS
<1> USE DEF CountsInv
<1>1. CASE TakeCounts
  <2>1. UNCHANGED <<tally_of, received, called, doubted, lost>>
    BY <1>1 DEF TakeCounts
  <2> QED BY <1>1, <2>1, Split DEF CountsTypes, CountsAddUp
<1>2. CASE Delivered
  BY <1>2 DEF Delivered, Plus, NoCounts, CountsTypes, CountsAddUp
<1>3. CASE NotDelivered
  <2>1. /\ posting' = NoCounts /\ UNCHANGED <<tally_of, called>>
        /\ \/ UNCHANGED <<received, doubted>>
           \/ received' = Plus(received, posting) /\ doubted'
    BY <1>3 DEF NotDelivered
  <2>2. /\ posting' \in [Rows -> Nat] /\ \A r \in Rows : posting'[r] = 0
        /\ received' \in [Rows -> Nat]
        /\ \A r \in Rows : \/ received'[r] = received[r] /\ doubted' = doubted
                           \/ received'[r] = received[r] + posting[r] /\ doubted'
    BY <2>1 DEF NoCounts, Plus, CountsTypes
  <2>3. CASE tally_of = "usage" /\ Restore
    BY <2>1, <2>2, <2>3, Merged DEF CountsTypes, CountsAddUp
  <2>4. CASE tally_of = "activity" /\ lost' = TRUE /\ UNCHANGED tally
    BY <2>1, <2>2, <2>4 DEF CountsTypes, CountsAddUp
  <2> QED BY <1>3, <2>3, <2>4 DEF NotDelivered
<1>4. CASE CountsRestart
  BY <1>4 DEF CountsRestart, NoCounts, CountsTypes, CountsAddUp
<1>5. ASSUME NEW r \in Rows, CountCall(r)
      PROVE  CountsInv'
  <2>1. /\ called' = [called EXCEPT ![r] = @ + 1]
        /\ UNCHANGED <<tally_of, posting, post_no, received, doubted>>
        /\ \/ tally' = [tally EXCEPT ![r] = @ + 1] /\ (lost <=> lost')
           \/ tally' = tally /\ lost'
    BY <1>5 DEF CountCall
  <2> QED BY <2>1 DEF CountsTypes, CountsAddUp
<1>6. CASE UNCHANGED countsVars
  BY <1>6 DEF countsVars, CountsTypes, CountsAddUp
<1> QED BY <1>1, <1>2, <1>3, <1>4, <1>5, <1>6 DEF CountsNext

(* usage.rs:6 "so any number of replicas add up to the right total": a count  *)
(* arrives once, unless a post of usage was taken but not answered, and is    *)
(* lost only with a full tally, a gateway that stops or a post activity drops.*)
THEOREM CountsAreConserved == CountsSpec => []CountsAddUp
<1>1. CountsInv => CountsAddUp
  BY DEF CountsInv
<1> QED BY <1>1, CountsStart, CountsStep, PTL DEF CountsSpec

CountsBounds == CountsInv /\ CountsTypeOK

(* A row more is entered while there is room. *)
LEMMA TallyStaysSmall ==
    ASSUME CountsTypes, CountsTypes', Cardinality(Entered(tally)) <= MAX_KEYS,
           NEW r \in Rows, CountCall(r)
    PROVE  Cardinality(Entered(tally)') <= MAX_KEYS
<1>1. IsFiniteSet(Entered(tally))
  BY CountsAssumption, FS_Subset DEF Entered
<1>2. CASE tally[r] > 0
  <2>1. Entered(tally)' = Entered(tally)
    BY <1>2 DEF CountCall, Entered, CountsTypes
  <2> QED BY <2>1
<1>3. CASE ~(tally[r] > 0) /\ Cardinality(Entered(tally)) < MAX_KEYS
  <2>1. Entered(tally)' = Entered(tally) \cup {r}
    BY <1>3 DEF CountCall, Entered, CountsTypes
  <2>2. r \notin Entered(tally)
    BY <1>3 DEF Entered
  <2>3. Cardinality(Entered(tally) \cup {r}) = Cardinality(Entered(tally)) + 1
    BY <1>1, <2>2, FS_AddElement
  <2>4. Cardinality(Entered(tally)) \in Nat
    BY <1>1, FS_CardinalityType
  <2> QED BY <1>3, <2>1, <2>3, <2>4, CountsAssumption
<1>4. CASE ~(tally[r] > 0 \/ Cardinality(Entered(tally)) < MAX_KEYS)
  BY <1>4 DEF CountCall, Entered
<1> QED BY <1>2, <1>3, <1>4

(* What is put back is entered while there is room. *)
LEMMA RestoredTallyIsSmall ==
    ASSUME CountsTypes, CountsTypes', Restore
    PROVE  Cardinality(Entered(tally)') <= MAX_KEYS
<1>1. PICK kept_rows \in SUBSET (Entered(posting) \ Entered(tally)) :
        /\ Cardinality(kept_rows \cup Entered(tally)) <= MAX_KEYS
        /\ tally' = Restored(kept_rows)
  BY DEF Restore
<1>2. Entered(tally)' = kept_rows \cup Entered(tally)
  <2>1. \A r \in Rows : tally'[r] = tally[r] + IF r \in kept_rows \cup Entered(tally)
                                               THEN posting[r] ELSE 0
    BY <1>1 DEF Restored
  <2>2. \A r \in Rows : tally[r] \in Nat /\ posting[r] \in Nat /\ tally'[r] \in Nat
    BY DEF CountsTypes
  <2>3. \A r \in kept_rows : r \in Rows /\ posting[r] > 0
    BY <1>1 DEF Entered
  <2> QED BY <2>1, <2>2, <2>3 DEF Entered
<1> QED BY <1>1, <1>2

LEMMA NothingEntered == Cardinality(Entered(NoCounts)) = 0
<1>1. Entered(NoCounts) = {}
  BY DEF Entered, NoCounts
<1> QED BY <1>1, FS_EmptySet

LEMMA CountsBoundsStep == CountsBounds /\ [CountsNext]_countsVars => CountsBounds'
<1> SUFFICES ASSUME CountsBounds, [CountsNext]_countsVars
             PROVE  CountsTypeOK'
  BY CountsStep DEF CountsBounds
<1> /\ CountsInv /\ CountsInv' /\ CountsTypes /\ CountsTypes' /\ CountsTypeOK
    /\ Cardinality(Entered(tally)) <= MAX_KEYS
  BY CountsStep DEF CountsBounds, CountsInv, CountsTypeOK
<1>1. CASE TakeCounts
  <2>1. post_no' = (IF tally_of = "activity" THEN (post_no + 1) % ANONYMOUS_EVERY ELSE post_no)
        /\ tally_of' = tally_of
    BY <1>1 DEF TakeCounts
  <2>2. post_no' \in 0..(ANONYMOUS_EVERY - 1)
    BY <2>1, CountsAssumption DEF CountsTypeOK
  <2>3. Entered(tally)' \subseteq Entered(tally)
    BY <1>1, Split DEF Entered, CountsTypes
  <2>4. Cardinality(Entered(tally)') <= MAX_KEYS
    <3>1. IsFiniteSet(Entered(tally))
      BY CountsAssumption, FS_Subset DEF Entered
    <3> QED BY <2>3, <3>1, FS_Subset, FS_CardinalityType, CountsAssumption
  <2>5. ASSUME post_no' # 0, tally_of = "activity" PROVE posting'[ANONYMOUS] = 0
    <3>1. tally' = [NoCounts EXCEPT ![ANONYMOUS] = tally[ANONYMOUS]]
      BY <1>1, <2>5 DEF TakeCounts, Leaves
    <3>2. tally'[ANONYMOUS] = tally[ANONYMOUS]
      BY <3>1, CountsAssumption DEF NoCounts
    <3>3. posting'[ANONYMOUS] + tally'[ANONYMOUS] = tally[ANONYMOUS]
      BY <1>1, Split, CountsAssumption
    <3> QED BY <3>2, <3>3, CountsAssumption DEF CountsTypes
  <2>6. tally_of = "activity" \/ tally_of = "usage"
    BY DEF CountsTypes
  <2> QED BY <2>1, <2>2, <2>4, <2>5, <2>6 DEF CountsTypeOK
<1>2. CASE Delivered
  <2>1. posting'[ANONYMOUS] = 0
    BY <1>2, CountsAssumption DEF Delivered, NoCounts
  <2> QED BY <1>2, <2>1 DEF Delivered, CountsTypeOK, Entered
<1>3. CASE NotDelivered
  <2>1. posting'[ANONYMOUS] = 0 /\ UNCHANGED post_no
    BY <1>3, CountsAssumption DEF NotDelivered, NoCounts
  <2>2. Cardinality(Entered(tally)') <= MAX_KEYS
    BY <1>3, RestoredTallyIsSmall DEF NotDelivered, Entered
  <2> QED BY <2>1, <2>2 DEF CountsTypeOK
<1>4. CASE CountsRestart
  <2>1. post_no' = 0 /\ tally' = NoCounts
    BY <1>4 DEF CountsRestart
  <2>2. Entered(tally)' = Entered(NoCounts)
    BY <2>1 DEF Entered
  <2> QED BY <2>1, <2>2, NothingEntered, CountsAssumption DEF CountsTypeOK
<1>5. ASSUME NEW r \in Rows, CountCall(r) PROVE CountsTypeOK'
  <2>1. UNCHANGED <<tally_of, posting, post_no>>
    BY <1>5 DEF CountCall
  <2> QED BY <1>5, <2>1, TallyStaysSmall DEF CountsTypeOK
<1>6. CASE UNCHANGED countsVars
  BY <1>6 DEF countsVars, CountsTypeOK, Entered
<1> QED BY <1>1, <1>2, <1>3, <1>4, <1>5, <1>6 DEF CountsNext

(* activity.rs and usage.rs MAX_KEYS: a tally never holds more rows, whatever *)
(* is put back into it; and every post of an activity that is not the         *)
(* ANONYMOUS_EVERYth leaves the anonymous row out.                            *)
THEOREM CountsTyped == CountsSpec => []CountsTypeOK
<1>1. CountsInit => CountsBounds
  <2> SUFFICES ASSUME CountsInit PROVE CountsTypeOK
    BY CountsStart DEF CountsBounds
  <2>1. tally = NoCounts /\ post_no = 0
    BY DEF CountsInit
  <2> QED BY <2>1, NothingEntered, CountsAssumption DEF CountsTypeOK
<1> QED BY <1>1, CountsBoundsStep, PTL DEF CountsSpec, CountsBounds

-----------------------------------------------------------------------------
(***************************************************************************)
(* Whatever lists there are and however long, the list that decides is the *)
(* Portal's last answer, and no write goes on for longer than MAX_AGE and  *)
(* TIMEOUT after the domain stopped being verified.                        *)
(*                                                                         *)
(* PortalIsFollowed speaks of the list that is held; it is not inductive   *)
(* without what a poll under way carries: the tag of the list held, an     *)
(* answer the Portal gave no earlier than the poll was sent, and a time    *)
(* that ends with TIMEOUT.                                                 *)
(***************************************************************************)

(* The times: nothing is of the future, and a poll ends in time. *)
InTime ==
    /\ now \in Nat /\ held_at \in Nat /\ verified_at \in Nat /\ poll.sent \in Nat
    /\ held_at <= now /\ verified_at <= now
    /\ poll.at # "idle" => poll.sent <= now /\ now <= poll.sent + TIMEOUT

(* The tags: a 304 is about the list that is held. *)
Tagged ==
    /\ poll \in [at : {"idle", "sent", "unchanged", "listed"}, sent : Nat,
                tag : Lists \cup {NoList}, list : Lists \cup {NoList}]
    /\ portal \in Lists
    /\ holding \in Lists \cup {NoList} /\ holding = confirmed
    /\ etag \in {NoList, holding}
    /\ poll.at # "idle" => poll.tag \in {NoList, holding}
    /\ poll.at = "unchanged" => poll.list = poll.tag /\ poll.list \in Lists
    /\ poll.at = "listed" => poll.list \in Lists

(* What is known of the domain was so within TIMEOUT of when it was learnt. *)
LearntInTime ==
    portal # Verified =>
        /\ holding = Verified /\ poller = "gate" => held_at <= verified_at + TIMEOUT
        /\ poll.at \in {"unchanged", "listed"} /\ poll.list = Verified =>
               poll.sent <= verified_at

PollersInv == InTime /\ Tagged /\ LearntInTime

LEMMA PollersStart == PollersInit => PollersInv
  BY PollersAssumption DEF PollersInit, PollersInv, InTime, Tagged, LearntInTime, NoPoll

LEMMA PollersStep == PollersInv /\ [PollersNext]_pollersVars => PollersInv'
<1> SUFFICES ASSUME PollersInv, [PollersNext]_pollersVars
             PROVE  PollersInv'
  OBVIOUS
<1> USE PollersAssumption DEF PollersInv, InTime, Tagged, LearntInTime, NoPoll
<1>1. CASE ListChanges
  BY <1>1 DEF ListChanges
<1>2. CASE NowPasses
  BY <1>2 DEF NowPasses
<1>3. CASE PortalAnswers
  <2>1. /\ poll'.at = IF poll.tag = portal THEN "unchanged" ELSE "listed"
        /\ poll'.list = portal /\ poll'.sent = poll.sent /\ poll'.tag = poll.tag
    BY <1>3 DEF PortalAnswers
  <2> QED BY <1>3, <2>1 DEF PortalAnswers
<1>4. CASE SendPoll
  BY <1>4 DEF SendPoll
<1>5. CASE PollUnchanged
  BY <1>5 DEF PollUnchanged
<1>6. CASE PollListed
  BY <1>6 DEF PollListed, Replace
<1>7. CASE PollUnreadable
  BY <1>7 DEF PollUnreadable
<1>8. CASE PollFails
  BY <1>8 DEF PollFails
<1>9. CASE UNCHANGED pollersVars
  BY <1>9 DEF pollersVars
<1> QED BY <1>1, <1>2, <1>3, <1>4, <1>5, <1>6, <1>7, <1>8, <1>9 DEF PollersNext

(* revocations.rs:12, domain_gate.rs:8: the list that decides is the last     *)
(* one the Portal answered with, and a write goes on no longer than MAX_AGE   *)
(* and TIMEOUT after the domain was verified.                                 *)
THEOREM PollersFollowPortal == PollersSpec => []PortalIsFollowed
<1>1. PollersInv => PortalIsFollowed
  BY PollersAssumption DEF PollersInv, InTime, Tagged, LearntInTime, PortalIsFollowed, Allowed
<1> QED BY <1>1, PollersStart, PollersStep, PTL DEF PollersSpec

(* A list is as old as the time it was received at, and a poll ends in time. *)
THEOREM PollersTyped == PollersSpec => []PollersTypeOK
<1>1. PollersInv => PollersTypeOK
  BY PollersAssumption DEF PollersInv, InTime, Tagged, PollersTypeOK
<1> QED BY <1>1, PollersStart, PollersStep, PTL DEF PollersSpec

-----------------------------------------------------------------------------
(***************************************************************************)
(* Whatever policies, requests and Endpoints there are, the sets of a      *)
(* rewrite keep to what the grants give type by type and attribute by      *)
(* attribute, and the reads of the grants serve exactly what single grants *)
(* give of what was asked (KeepsToGrants).                                 *)
(*                                                                         *)
(* The argument follows the sets through the decision.  NarrowMeans says   *)
(* what an intersection means when the empty set is "everything"; AfterHide *)
(* that after the policies were applied the types and attributes mean      *)
(* "granted and asked" unless the verdict is empty; AfterProject and       *)
(* AfterDrop carry that through the projection and the filter rule; and    *)
(* ReadsServe that the reads pair what one view gives.                     *)
(***************************************************************************)

Everything(S, x) == S = {} \/ x \in S

(* An intersection that is not emptied means both its sides. *)
LEMMA NarrowMeans ==
    ASSUME NEW R, NEW G, NEW x,
           ~(R # {} /\ G # {} /\ narrow(R, G) = {})
    PROVE  Everything(narrow(R, G), x) <=> Everything(R, x) /\ Everything(G, x)
  BY DEF narrow, Everything

(* An intersection with identities is never emptied. *)
LEMMA IdentityMeans ==
    ASSUME NEW R, NEW G, G # {}, NEW x, x # Identity
    PROVE  /\ narrow_to_identity(R, G) # {}
           /\ x \in narrow_to_identity(R, G) <=> Everything(R, x) /\ x \in G
  BY DEF narrow_to_identity, narrow, Everything

(* What the grants give together, some grant gives. *)
LEMMA GrantsGive ==
    ASSUME NEW ps, Grants(ps) # {}, NEW x
    PROVE  /\ Everything(TypesGranted(ps), x)
                => \E g \in Grants(ps) : Everything(granted_types(g), x)
           /\ Everything(AttrsGranted(ps), x)
                <=> \E g \in Grants(ps) : Everything(granted_attrs(g), x)
<1>1. Everything(TypesGranted(ps), x) => \E g \in Grants(ps) : Everything(granted_types(g), x)
  BY DEF TypesGranted, Everything
<1>2. Everything(AttrsGranted(ps), x)
        <=> \E g \in Grants(ps) : Everything(granted_attrs(g), x)
  BY DEF AttrsGranted, Everything
<1> QED BY <1>1, <1>2

(* An attribute that is not withheld is not forbidden of any type that was    *)
(* asked, when the request is not refused.                                    *)
Forbidden(ps, t, a) ==
    \E p \in ps : /\ p.prohibits
                  /\ \/ p.entries = {}
                     \/ \E e \in p.entries : Everything(e.types, t) /\ Everything(e.attrs, a)

LEMMA NotForbidden ==
    ASSUME NEW ps, NEW q, ~Refused(ps, q), NEW t, NEW a \in Attrs,
           Everything(q.types, t), a \notin Withheld(ps, q)
    PROVE  ~Forbidden(ps, t, a)
<1> SUFFICES ASSUME NEW p \in ps, p.prohibits, p.entries # {},
                    NEW e \in p.entries, Everything(e.types, t), Everything(e.attrs, a)
             PROVE FALSE
  BY DEF Forbidden, Refused
<1>1. Speaks(e, q)
  BY DEF Speaks, Everything
<1>2. e.attrs # {}
  BY <1>1 DEF Refused
<1>3. a \in Withheld(ps, q)
  BY <1>1, <1>2 DEF Withheld, Everything
<1> QED BY <1>3

(* A slot of the type, or for a write of some type that was asked for, is     *)
(* granted and projected.                                                     *)
InSlots(ps, q, ep, t, a) ==
    ep.classes # {} =>
      /\ t \in ep.classes
      /\ \E u \in ep.classes : /\ a \in ep.slots[u] /\ Everything(q.types, u)
                               /\ \E g \in Grants(ps) : Everything(granted_types(g), u)
                               /\ u = t \/ q.write

LEMMA ViewNames ==
    ASSUME NEW g, NEW t
    PROVE  NamesType(GrantView(g), t) <=> Everything(granted_types(g), t)
  BY DEF NamesType, GrantView, Everything

(* The references, in the terms of the lemmas. *)
LEMMA PermitsMeans ==
    ASSUME NEW ps, NEW q, NEW ep, NEW t, NEW a
    PROVE  Permits(ps, q, ep, t, a) <=>
             /\ Everything(q.types, t) /\ ~Forbidden(ps, t, a) /\ a \notin ep.hidden
             /\ InSlots(ps, q, ep, t, a)
<1>1. Prohibited(ps, t, a) <=> Forbidden(ps, t, a)
  BY DEF Prohibited, Forbidden, Everything
<1>2. ASSUME NEW u
      PROVE  (\E g \in Grants(ps) : NamesType(GrantView(g), u))
               <=> \E g \in Grants(ps) : Everything(granted_types(g), u)
  BY ViewNames
<1>3. SlotOf(ps, q, ep, t, a)
        <=> \E u \in ep.classes : /\ a \in ep.slots[u] /\ Everything(q.types, u)
                                  /\ \E g \in Grants(ps) : Everything(granted_types(g), u)
                                  /\ u = t \/ q.write
  BY <1>2 DEF SlotOf, Everything
<1> QED BY <1>1, <1>3 DEF Permits, InSlots, Everything

LEMMA MayMeans ==
    ASSUME NEW ps, NEW q, NEW ep, NEW t, NEW a
    PROVE  /\ MayApart(ps, q, ep, t, a) <=>
                /\ Permits(ps, q, ep, t, a)
                /\ \E g \in Grants(ps) : Everything(granted_types(g), t)
                /\ \E g \in Grants(ps) : Everything(granted_attrs(g), a)
           /\ May(ps, q, ep, t, a) <=>
                /\ Permits(ps, q, ep, t, a)
                /\ \E g \in Grants(ps) : Everything(granted_types(g), t)
                                         /\ Everything(granted_attrs(g), a)
  BY ViewNames DEF MayApart, May, Everything

-----------------------------------------------------------------------------
(* The policies applied. *)

Hidden(ps, q, ep) == Hide(Withhold(Intersect(ps, q), q, Withheld(ps, q)), ep)

(* What the request's attributes and the grants' leave, before prohibitions. *)
Base(ps, q) == IF q.write THEN AttrsGranted(ps) ELSE narrow(q.attrs, AttrsGranted(ps))

(* The fields of the constraints once the policies were applied. *)
LEMMA HideFields ==
    ASSUME NEW ps, NEW q, NEW ep
    PROVE  LET h == Hidden(ps, q, ep)  W == Withheld(ps, q)  A == AttrsGranted(ps)
               T == TypesGranted(ps)
           IN /\ h.types = narrow(q.types, T)
              /\ h.attrs = Base(ps, q) \ W
              /\ h.served = A \ W
              /\ h.hidden = W \cup ep.hidden
              /\ h.by_type = NoMap
              /\ h.empty <=> \/ q.types # {} /\ T # {} /\ narrow(q.types, T) = {}
                             \/ q.attrs # {} /\ A # {} /\ Base(ps, q) = {}
                             \/ W # {} /\ ~q.write /\ q.attrs # {} /\ Base(ps, q) \subseteq W
              /\ ~h.restricted => /\ q.types \subseteq narrow(q.types, T)
                                  /\ q.attrs \subseteq Base(ps, q)
                                  /\ A = {} /\ W = {} /\ ep.hidden = {}
<1> DEFINE c1 == Intersect(ps, q)
           c2 == Withhold(c1, q, Withheld(ps, q))
<1>1. /\ c1.types = narrow(q.types, TypesGranted(ps))
      /\ c1.attrs = Base(ps, q) /\ c1.served = AttrsGranted(ps)
      /\ c1.hidden = {} /\ c1.by_type = NoMap
      /\ c1.empty = (\/ q.types # {} /\ TypesGranted(ps) # {} /\ narrow(q.types, TypesGranted(ps)) = {}
                     \/ q.attrs # {} /\ AttrsGranted(ps) # {} /\ Base(ps, q) = {})
      /\ c1.restricted = (\/ ~(q.types \subseteq narrow(q.types, TypesGranted(ps)))
                          \/ ~(q.attrs \subseteq Base(ps, q)) \/ AttrsGranted(ps) # {})
      /\ DOMAIN c1 = DOMAIN NoConstraints
  BY DEF Intersect, NoConstraints, Base
<1>2. CASE Withheld(ps, q) = {}
  <2>1. c2 = c1
    BY <1>2 DEF Withhold
  <2>2. CASE ep.hidden = {}
    BY <1>1, <1>2, <2>1, <2>2 DEF Hidden, Hide
  <2>3. CASE ep.hidden # {}
    BY <1>1, <1>2, <2>1, <2>3 DEF Hidden, Hide, NoConstraints
  <2> QED BY <2>2, <2>3
<1>3. CASE Withheld(ps, q) # {}
  <2> DEFINE W == Withheld(ps, q)
  <2>1. /\ c2.types = c1.types /\ c2.attrs = c1.attrs \ W /\ c2.served = c1.served \ W
        /\ c2.hidden = W /\ c2.by_type = c1.by_type
        /\ c2.empty = (c1.empty \/ (~q.write /\ q.attrs # {} /\ c1.attrs \subseteq W))
        /\ c2.restricted = TRUE
        /\ DOMAIN c2 = DOMAIN NoConstraints
    BY <1>1, <1>3 DEF Withhold, NoConstraints, Intersect
  <2>2. CASE ep.hidden = {}
    BY <1>1, <1>3, <2>1, <2>2 DEF Hidden, Hide
  <2>3. CASE ep.hidden # {}
    BY <1>1, <1>3, <2>1, <2>3 DEF Hidden, Hide, NoConstraints
  <2> QED BY <2>2, <2>3
<1> QED BY <1>2, <1>3

(* Unless the verdict is empty, the types mean "granted and asked", and the   *)
(* attributes, of those no prohibition withholds, the same; what is served    *)
(* and not withheld is what was granted.                                      *)
LEMMA AfterHide ==
    ASSUME NEW ps, NEW q, NEW ep, ~Denies(ps, q, ep), ~Hidden(ps, q, ep).empty
    PROVE  LET h == Hidden(ps, q, ep)
           IN /\ \A t : Everything(h.types, t)
                          <=> Everything(q.types, t) /\ Everything(TypesGranted(ps), t)
              /\ \A a \in Attrs \ Withheld(ps, q) :
                   Everything(h.attrs, a) <=> Asked(q, a) /\ Everything(AttrsGranted(ps), a)
              /\ \A a \in Attrs \ Withheld(ps, q) :
                   Everything(h.served, a) <=> Everything(AttrsGranted(ps), a)
<1> DEFINE h == Hidden(ps, q, ep)
           A == AttrsGranted(ps)
           W == Withheld(ps, q)
<1>1. \A t : Everything(h.types, t) <=> Everything(q.types, t) /\ Everything(TypesGranted(ps), t)
  BY HideFields, NarrowMeans
<1>2. A # {} => ~(A \subseteq W)
  BY DEF Denies, Exhausted, Intersect, NoConstraints
<1>3. \A a \in Attrs \ W : Everything(h.served, a) <=> Everything(A, a)
  BY <1>2, HideFields DEF Everything
<1>4. ASSUME NEW a \in Attrs \ W
      PROVE  Everything(h.attrs, a) <=> Asked(q, a) /\ Everything(A, a)
  <2>1. h.attrs = Base(ps, q) \ W
    BY HideFields
  <2>2. CASE q.write \/ q.attrs = {}
    <3>1. Base(ps, q) = A
      BY <2>2 DEF Base, narrow
    <3>2. Everything(A \ W, a) <=> Everything(A, a)
      BY <1>2 DEF Everything
    <3> QED BY <2>1, <2>2, <3>1, <3>2 DEF Asked
  <2>3. CASE ~q.write /\ q.attrs # {}
    <3>1. Base(ps, q) = narrow(q.attrs, A) /\ ~(A # {} /\ Base(ps, q) = {})
      BY <2>3, HideFields DEF Base
    <3>2. Everything(Base(ps, q), a) <=> Everything(q.attrs, a) /\ Everything(A, a)
      BY <3>1, NarrowMeans
    <3>3. Base(ps, q) # {}
      BY <2>3, <3>1 DEF narrow
    <3>4. W # {} => ~(Base(ps, q) \subseteq W)
      BY <2>3, HideFields
    <3>5. Everything(Base(ps, q) \ W, a) <=> Everything(Base(ps, q), a)
      BY <3>3, <3>4 DEF Everything
    <3> QED BY <2>1, <2>3, <3>2, <3>5 DEF Asked, Everything
  <2> QED BY <2>2, <2>3
<1> QED BY <1>1, <1>3, <1>4

-----------------------------------------------------------------------------
(* The projection. *)

Projected(ps, q, ep) == Project(Hidden(ps, q, ep), ep)

(* A projection leaves the types it exposes, at least one; of each, the       *)
(* attributes that were left and are slots of it, and its identity.           *)
LEMMA AfterProject ==
    ASSUME NEW ps, NEW q, NEW ep, ~Denies(ps, q, ep)
    PROVE  LET h == Hidden(ps, q, ep)  p == Projected(ps, q, ep)
           IN /\ p.empty = h.empty /\ p.hidden = h.hidden /\ p.served = h.served
              /\ ep.classes = {} => p = h
              /\ ep.classes # {} =>
                   /\ p.types # {} /\ DOMAIN p.by_type = p.types /\ p.restricted
                   /\ \A t : t \in p.types <=> Everything(h.types, t) /\ t \in ep.classes
                   /\ \A t \in p.types :
                        /\ p.by_type[t] # {}
                        /\ \A a \in Attrs :
                             a \in p.by_type[t] <=> Everything(h.attrs, a) /\ a \in ep.slots[t]
                   /\ p.attrs # {}
                   /\ \A a \in Attrs : a \in p.attrs <=>
                        Everything(h.attrs, a) /\ \E t \in p.types : a \in ep.slots[t]
<1> DEFINE h == Hidden(ps, q, ep)
           p == Projected(ps, q, ep)
           types == narrow(h.types, ep.classes)
<1>0. DOMAIN h = DOMAIN NoConstraints
  BY DEF Hidden, Hide, Withhold, Intersect, NoConstraints
<1>1. CASE ep.classes = {}
  BY <1>1 DEF Projected, Project
<1>2. CASE ep.classes # {}
  <2>1. /\ p.empty = h.empty /\ p.hidden = h.hidden /\ p.served = h.served /\ p.restricted = TRUE
        /\ p.types = types
        /\ p.attrs = narrow_to_identity(h.attrs, UNION {attributes_of(ep, t) : t \in types})
        /\ p.by_type = [t \in types |-> narrow_to_identity(h.attrs, attributes_of(ep, t))]
    BY <1>0, <1>2 DEF Projected, Project, NoConstraints
  <2>2. types # {}
    <3>1. h.types = Intersect(ps, q).types
      BY HideFields DEF Intersect, NoConstraints
    <3> QED BY <1>2, <3>1 DEF Denies, Unprojected
  <2>3. \A t : t \in types <=> Everything(h.types, t) /\ t \in ep.classes
    BY <1>2, <2>2 DEF narrow, Everything
  <2>4. ASSUME NEW t \in types
        PROVE  /\ p.by_type[t] # {}
               /\ \A a \in Attrs :
                    a \in p.by_type[t] <=> Everything(h.attrs, a) /\ a \in ep.slots[t]
    <3>1. attributes_of(ep, t) # {} /\ \A a \in Attrs : a \in attributes_of(ep, t) <=> a \in ep.slots[t]
      BY DecisionAssumption DEF attributes_of
    <3>2. p.by_type[t] = narrow_to_identity(h.attrs, attributes_of(ep, t))
      BY <2>1
    <3>3. \A a \in Attrs : a # Identity
      BY DecisionAssumption
    <3>4. p.by_type[t] # {}
      BY <3>1, <3>2 DEF narrow_to_identity, narrow
    <3>5. \A a \in Attrs :
             a \in p.by_type[t] <=> Everything(h.attrs, a) /\ a \in attributes_of(ep, t)
      BY <3>1, <3>2, <3>3, IdentityMeans
    <3> QED BY <3>1, <3>4, <3>5
  <2>5. /\ p.attrs # {}
        /\ \A a \in Attrs : a \in p.attrs <=>
             Everything(h.attrs, a) /\ \E t \in types : a \in ep.slots[t]
    <3> DEFINE slots == UNION {attributes_of(ep, t) : t \in types}
    <3>1. slots # {} /\ \A a \in Attrs : a \in slots <=> \E t \in types : a \in ep.slots[t]
      BY <2>2, DecisionAssumption DEF attributes_of
    <3>2. \A a \in Attrs : a # Identity
      BY DecisionAssumption
    <3>3. p.attrs = narrow_to_identity(h.attrs, slots)
      BY <2>1
    <3> HIDE DEF slots
    <3>4. p.attrs # {}
      BY <3>1, <3>3 DEF narrow_to_identity, narrow
    <3>5. \A a \in Attrs : a \in p.attrs <=> Everything(h.attrs, a) /\ a \in slots
      BY <3>1, <3>2, <3>3, IdentityMeans
    <3> QED BY <3>1, <3>4, <3>5
  <2>6. DOMAIN p.by_type = types
    BY <2>1
  <2>7. p.types = types
    BY <2>1
  <2>8. /\ \A t : t \in p.types <=> Everything(h.types, t) /\ t \in ep.classes
        /\ \A t \in p.types :
             /\ p.by_type[t] # {}
             /\ \A a \in Attrs :
                  a \in p.by_type[t] <=> Everything(h.attrs, a) /\ a \in ep.slots[t]
        /\ \A a \in Attrs : a \in p.attrs <=>
             Everything(h.attrs, a) /\ \E t \in p.types : a \in ep.slots[t]
    <3> HIDE DEF types, p, h
    <3> QED BY <2>3, <2>4, <2>5, <2>7
  <2> HIDE DEF types
  <2> QED BY ONLY <1>2, <2>1, <2>2, <2>5, <2>6, <2>7, <2>8
<1> QED BY <1>1, <1>2

-----------------------------------------------------------------------------
(* The filter rule. *)

(* A rewrite that is not empty selects on nothing hidden; without a           *)
(* projection on what is served alone, and with one it considers the types    *)
(* that have all it selects on.                                               *)
LEMMA AfterDrop ==
    ASSUME NEW ps, NEW q, NEW ep, ~Denies(ps, q, ep), ~Rewrites(ps, q, ep).empty
    PROVE  LET p == Projected(ps, q, ep)  d == Rewrites(ps, q, ep)
           IN /\ ~p.empty /\ d.hidden = p.hidden /\ d.attrs = p.attrs
              /\ q.referenced \cap p.hidden = {}
              /\ ep.classes = {} => /\ d = p /\ DOMAIN d.by_type = {}
                                    /\ \A r \in q.referenced : Everything(p.served, r)
              /\ ep.classes # {} =>
                   /\ d.types # {} /\ d.types \subseteq p.types /\ DOMAIN d.by_type = d.types
                   /\ \A t \in d.types : /\ d.by_type[t] = p.by_type[t]
                                         /\ q.referenced \subseteq p.by_type[t]
<1> DEFINE p == Projected(ps, q, ep)
           d == Rewrites(ps, q, ep)
           all == DOMAIN p.by_type
           kept_types == Filterable(p, q)
<1>1. d = DropTypes(p, q)
  BY DEF Rewrites, Projected, Hidden
<1>2. DOMAIN p = DOMAIN NoConstraints
  BY DEF Projected, Project, Hidden, Hide, Withhold, Intersect, NoConstraints
<1>3. all = IF ep.classes = {} THEN {} ELSE p.types
  <2>1. CASE ep.classes = {}
    <3>1. p = Hidden(ps, q, ep)
      BY <2>1 DEF Projected, Project
    <3>2. Hidden(ps, q, ep).by_type = NoMap
      BY HideFields
    <3> QED BY <2>1, <3>1, <3>2 DEF NoMap
  <2>2. CASE ep.classes # {}
    BY <2>2, AfterProject
  <2> QED BY <2>1, <2>2
<1>4. ep.classes # {} => p.types # {}
  BY AfterProject
<1> HIDE DEF p, d
<1>5. ~d.empty
  BY DEF d
<1>6. /\ ~p.empty /\ d.hidden = p.hidden /\ d.attrs = p.attrs
      /\ q.referenced \cap p.hidden = {}
      /\ all = {} => d = p /\ \A r \in q.referenced : Everything(p.served, r)
      /\ all # {} => /\ d.types # {} /\ d.types \subseteq p.types /\ DOMAIN d.by_type = d.types
                     /\ \A t \in d.types : /\ d.by_type[t] = p.by_type[t]
                                           /\ q.referenced \subseteq p.by_type[t]
  <2>1. CASE q.referenced = {}
    <3>1. d = p
      BY <1>1, <2>1 DEF DropTypes
    <3>2. all # {} => all = p.types
      BY <1>3
    <3> QED BY <1>5, <2>1, <3>1, <3>2
  <2>2. CASE q.referenced # {}
    <3>1. q.referenced \cap p.hidden = {}
      BY <1>1, <1>2, <1>5, <2>2 DEF DropTypes, NoConstraints
    <3>2. all = {} => p.served = {} \/ q.referenced \subseteq p.served
      BY <1>1, <1>2, <1>5, <2>2 DEF DropTypes, NoConstraints
    <3>3. CASE all = {}
      <4>1. d = p
        BY <1>1, <2>2, <3>1, <3>2, <3>3 DEF DropTypes
      <4> QED BY <1>5, <3>1, <3>2, <3>3, <4>1 DEF Everything
    <3>4. CASE all # {}
      <4>1. kept_types # {}
        BY <1>1, <1>2, <1>5, <2>2, <3>1, <3>4 DEF DropTypes, NoConstraints
      <4>2. /\ d.types = kept_types /\ d.by_type = [t \in kept_types |-> p.by_type[t]]
            /\ d.empty = p.empty /\ d.hidden = p.hidden /\ d.attrs = p.attrs
        BY <1>1, <1>2, <2>2, <3>1, <3>4, <4>1 DEF DropTypes, NoConstraints
      <4>3. kept_types \subseteq all /\ \A t \in kept_types : q.referenced \subseteq p.by_type[t]
        BY DEF Filterable
      <4>4. all = p.types
        BY <1>3, <3>4
      <4> HIDE DEF kept_types, all
      <4> QED BY <1>5, <3>1, <3>4, <4>1, <4>2, <4>3, <4>4
    <3> QED BY <3>3, <3>4
  <2> QED BY <2>1, <2>2
<1>7. /\ ep.classes = {} => all = {} /\ DOMAIN p.by_type = {}
      /\ ep.classes # {} => all # {}
  BY <1>3, <1>4 DEF p
<1> HIDE DEF all
<1> QED BY <1>6, <1>7 DEF p, d

-----------------------------------------------------------------------------
(* The whole decision. *)

(* Of a type a rewrite considers: who asked for it, granted it and projects   *)
(* to it.                                                                     *)
LEMMA TypesConsidered ==
    ASSUME NEW ps, NEW q, NEW ep,
           ~Denies(ps, q, ep), NEW t, Considers(Rewrites(ps, q, ep), t)
    PROVE  /\ Everything(q.types, t) /\ Everything(TypesGranted(ps), t)
           /\ ep.classes # {} => t \in ep.classes /\ t \in Projected(ps, q, ep).types
                                 /\ t \in Rewrites(ps, q, ep).types
           /\ ~Hidden(ps, q, ep).empty
<1> DEFINE h == Hidden(ps, q, ep)
           p == Projected(ps, q, ep)
           d == Rewrites(ps, q, ep)
<1>1. ~d.empty /\ Everything(d.types, t)
  BY DEF Considers, Everything
<1>2. ~p.empty /\ p.empty = h.empty
  BY <1>1, AfterDrop, AfterProject
<1>3. Everything(h.types, t) <=> Everything(q.types, t) /\ Everything(TypesGranted(ps), t)
  BY <1>2, AfterHide
<1>4. CASE ep.classes = {}
  <2>1. d = p /\ p = h
    BY <1>1, <1>4, AfterDrop, AfterProject
  <2> QED BY <1>1, <1>2, <1>3, <1>4, <2>1
<1>5. CASE ep.classes # {}
  <2>1. t \in d.types /\ t \in p.types
    BY <1>1, <1>5, AfterDrop DEF Everything
  <2>2. Everything(h.types, t) /\ t \in ep.classes
    BY <1>5, <2>1, AfterProject
  <2> QED BY <1>2, <1>3, <2>1, <2>2
<1> QED BY <1>4, <1>5

(* Of an attribute no prohibition withholds and the Endpoint does not hide:   *)
(* a considered type shows it if it was asked for, granted and, with a        *)
(* projection, a slot of the type (for a write, of a type it may be of).      *)
LEMMA AttributesShown ==
    ASSUME NEW ps, NEW q, NEW ep,
           ~Denies(ps, q, ep), NEW t, Considers(Rewrites(ps, q, ep), t),
           NEW a \in Attrs \ Withheld(ps, q)
    PROVE  /\ Everything(Shown(Rewrites(ps, q, ep), q, t), a) =>
                /\ Asked(q, a) /\ Everything(AttrsGranted(ps), a)
                /\ InSlots(ps, q, ep, t, a)
           /\ /\ Asked(q, a) /\ Everything(AttrsGranted(ps), a)
              /\ ep.classes # {} => a \in ep.slots[t]
              => Everything(Shown(Rewrites(ps, q, ep), q, t), a)
<1> DEFINE h == Hidden(ps, q, ep)
           p == Projected(ps, q, ep)
           d == Rewrites(ps, q, ep)
           granted == Asked(q, a) /\ Everything(AttrsGranted(ps), a)
<1>1. ~d.empty
  BY DEF Considers
<1>2. Everything(h.attrs, a) <=> granted
  BY TypesConsidered, AfterHide
<1>3. CASE ep.classes = {}
  <2>1. d = p /\ p = h /\ DOMAIN d.by_type = {}
    BY <1>1, <1>3, AfterDrop, AfterProject
  <2>2. Shown(d, q, t) = h.attrs
    BY <2>1 DEF Shown
  <2> QED BY <1>2, <1>3, <2>2 DEF InSlots
<1>4. CASE ep.classes # {}
  <2>1. t \in d.types /\ t \in p.types /\ t \in ep.classes
    BY <1>4, TypesConsidered
  <2>2. /\ d.attrs = p.attrs /\ d.by_type[t] = p.by_type[t]
        /\ DOMAIN d.by_type # {}
    BY <1>1, <1>4, <2>1, AfterDrop
  <2>3. /\ p.attrs # {} /\ p.by_type[t] # {}
        /\ a \in p.by_type[t] <=> Everything(h.attrs, a) /\ a \in ep.slots[t]
        /\ a \in p.attrs <=> Everything(h.attrs, a) /\ \E u \in p.types : a \in ep.slots[u]
    BY <1>4, <2>1, AfterProject
  <2>6. \A u \in p.types : /\ u \in ep.classes /\ Everything(q.types, u)
                           /\ \E g \in Grants(ps) : Everything(granted_types(g), u)
    <3> SUFFICES ASSUME NEW u \in p.types
                 PROVE  /\ u \in ep.classes /\ Everything(q.types, u)
                        /\ \E g \in Grants(ps) : Everything(granted_types(g), u)
      OBVIOUS
    <3>1. Everything(h.types, u) /\ u \in ep.classes
      BY <1>4, AfterProject
    <3>2. Everything(q.types, u) /\ Everything(TypesGranted(ps), u)
      BY <3>1, TypesConsidered, AfterHide
    <3>3. Grants(ps) # {}
      BY DEF Denies
    <3> QED BY <3>1, <3>2, <3>3, GrantsGive
  <2>4. CASE q.write
    <3>1. Shown(d, q, t) = p.attrs
      BY <2>2, <2>4 DEF Shown
    <3>2. a \in p.attrs => InSlots(ps, q, ep, t, a)
      BY <2>1, <2>3, <2>4, <2>6 DEF InSlots
    <3> QED BY <1>2, <1>4, <2>1, <2>3, <2>4, <3>1, <3>2 DEF Everything
  <2>5. CASE ~q.write
    <3>1. Shown(d, q, t) = p.by_type[t]
      BY <2>2, <2>5 DEF Shown
    <3>2. a \in p.by_type[t] => InSlots(ps, q, ep, t, a)
      BY <2>1, <2>3, <2>6 DEF InSlots
    <3> QED BY <1>2, <1>4, <2>3, <2>5, <3>1, <3>2 DEF Everything
  <2> QED BY <2>4, <2>5
<1> QED BY <1>3, <1>4

-----------------------------------------------------------------------------
(* The three parts of KeepsToGrants, for a rewrite of any request. *)

(* What holds of a decided state. *)
Decided ==
    verdict.is = "rewrite" => /\ policies \in SUBSET Policy
                              /\ request \in Question
                              /\ endpoint \in Publication
                              /\ ~Denies(policies, request, endpoint)
                              /\ verdict.c = Rewrites(policies, request, endpoint)

LEMMA Granted ==
    ASSUME Decided, verdict.is = "rewrite"
    PROVE  NothingUngranted
<1> DEFINE c == Rewrites(policies, request, endpoint)
           p == Projected(policies, request, endpoint)
           h == Hidden(policies, request, endpoint)
           W == Withheld(policies, request)
           filter == [request EXCEPT !.write = FALSE]
<1>1. ~Denies(policies, request, endpoint) /\ verdict.c = c /\ request \in Question
  BY DEF Decided
<1>2. ~Refused(policies, request) /\ Grants(policies) # {}
  BY <1>1 DEF Denies
<1>3. filter.types = request.types /\ ~filter.write
  BY <1>1 DEF Question
<1> SUFFICES ASSUME NEW t \in Types, Considers(c, t)
             PROVE  /\ \A a \in Attrs : LetsThrough(c, request, t, a) =>
                         MayApart(policies, request, endpoint, t, a) /\ Asked(request, a)
                    /\ \A a \in request.referenced : MayApart(policies, filter, endpoint, t, a)
  BY <1>1 DEF NothingUngranted, LetsThrough
<1>4. ~c.empty
  BY DEF Considers
<1>5. /\ Everything(request.types, t) /\ Everything(TypesGranted(policies), t)
      /\ endpoint.classes # {} => t \in endpoint.classes /\ t \in p.types /\ t \in c.types
      /\ ~h.empty
  BY <1>1, TypesConsidered
<1>6. c.hidden = p.hidden /\ p.hidden = h.hidden /\ h.hidden = W \cup endpoint.hidden
  BY <1>1, <1>4, AfterDrop, AfterProject, HideFields
<1>7. ASSUME NEW a \in Attrs, a \notin W, a \notin endpoint.hidden,
             Everything(AttrsGranted(policies), a)
      PROVE  /\ \E g \in Grants(policies) : Everything(granted_types(g), t)
             /\ \E g \in Grants(policies) : Everything(granted_attrs(g), a)
             /\ ~Forbidden(policies, t, a)
  <2>1. ~Forbidden(policies, t, a)
    BY <1>2, <1>5, <1>7, NotForbidden
  <2> QED BY <1>2, <1>5, <1>7, <2>1, GrantsGive
<1>8. ASSUME NEW a \in Attrs, LetsThrough(c, request, t, a)
      PROVE  MayApart(policies, request, endpoint, t, a) /\ Asked(request, a)
  <2>1. a \notin W /\ a \notin endpoint.hidden /\ Everything(Shown(c, request, t), a)
    BY <1>6, <1>8 DEF LetsThrough, Everything
  <2>2. /\ Asked(request, a) /\ Everything(AttrsGranted(policies), a)
        /\ InSlots(policies, request, endpoint, t, a)
    BY <1>1, <2>1, AttributesShown
  <2> QED BY <1>5, <1>7, <2>1, <2>2, MayMeans, PermitsMeans
<1>9. ASSUME NEW a \in request.referenced
      PROVE  MayApart(policies, filter, endpoint, t, a)
  <2>1. a \in Attrs
    BY <1>1 DEF Question
  <2>2. a \notin W /\ a \notin endpoint.hidden
    BY <1>1, <1>4, <1>6, AfterDrop
  <2>3. /\ Everything(AttrsGranted(policies), a)
        /\ endpoint.classes # {} => a \in endpoint.slots[t]
    <3>1. CASE endpoint.classes = {}
      <4>1. Everything(p.served, a) /\ p.served = h.served
        BY <1>1, <1>4, <3>1, AfterDrop, AfterProject
      <4> QED BY <1>1, <1>5, <2>1, <2>2, <3>1, <4>1, AfterHide
    <3>2. CASE endpoint.classes # {}
      <4>1. a \in p.by_type[t]
        BY <1>1, <1>4, <1>5, <3>2, AfterDrop
      <4>2. Everything(h.attrs, a) /\ a \in endpoint.slots[t]
        BY <1>1, <1>5, <2>1, <3>2, <4>1, AfterProject
      <4> QED BY <1>1, <1>5, <2>1, <2>2, <4>2, AfterHide
    <3> QED BY <3>1, <3>2
  <2> HIDE DEF filter
  <2>4. \E g \in Grants(policies) : Everything(granted_types(g), t)
    BY <1>7, <2>1, <2>2, <2>3
  <2>5. InSlots(policies, filter, endpoint, t, a)
    BY <1>3, <1>5, <2>3, <2>4 DEF InSlots
  <2> QED BY <1>3, <1>5, <1>7, <2>1, <2>2, <2>3, <2>5, MayMeans, PermitsMeans
<1> QED BY <1>8, <1>9

LEMMA Reasoned ==
    ASSUME Decided, verdict.is = "rewrite"
    PROVE  NothingWithoutReason
<1> DEFINE c == Rewrites(policies, request, endpoint)
           p == Projected(policies, request, endpoint)
           h == Hidden(policies, request, endpoint)
           W == Withheld(policies, request)
           filter == [request EXCEPT !.write = FALSE]
<1>1. ~Denies(policies, request, endpoint) /\ verdict.c = c /\ request \in Question
  BY DEF Decided
<1>2. Grants(policies) # {}
  BY <1>1 DEF Denies
<1>3. filter.types = request.types /\ ~filter.write
  BY <1>1 DEF Question
<1>4. ASSUME NEW t \in Types, NEW a \in Attrs \ W, Considers(c, t), Asked(request, a),
             MayApart(policies, filter, endpoint, t, a)
      PROVE  LetsThrough(c, request, t, a)
  <2>1. /\ \E g \in Grants(policies) : Everything(granted_attrs(g), a)
        /\ a \notin endpoint.hidden
        /\ endpoint.classes # {} => a \in endpoint.slots[t]
    <3> HIDE DEF filter
    <3> QED BY <1>3, <1>4, MayMeans, PermitsMeans DEF InSlots
  <2>2. Everything(AttrsGranted(policies), a)
    BY <1>2, <2>1, GrantsGive
  <2>3. Everything(Shown(c, request, t), a)
    BY <1>1, <1>4, <2>1, <2>2, AttributesShown
  <2>4. ~c.empty
    BY <1>4 DEF Considers
  <2>5. c.hidden = W \cup endpoint.hidden
    BY <1>1, <2>4, AfterDrop, AfterProject, HideFields
  <2> QED BY <1>4, <2>1, <2>3, <2>5 DEF LetsThrough, Everything
<1>5. ASSUME ~c.restricted
      PROVE  /\ \A t \in request.types : Considers(c, t)
             /\ \A t \in Types, a \in Attrs :
                  Considers(c, t) /\ Asked(request, a) => LetsThrough(c, request, t, a)
  <2>1. c = h /\ endpoint.classes = {}
    <3>1. c = DropTypes(p, request)
      BY DEF Rewrites, Projected, Hidden
    <3>2. DOMAIN p = DOMAIN NoConstraints
      BY DEF Projected, Project, Hidden, Hide, Withhold, Intersect, NoConstraints
    <3>3. endpoint.classes # {} => p.restricted /\ DOMAIN p.by_type # {}
      BY <1>1, AfterProject
    <3> HIDE DEF p, c
    <3>4. ~p.restricted
      BY <1>5, <3>1, <3>2 DEF DropTypes, NoConstraints
    <3>5. endpoint.classes = {}
      BY <3>3, <3>4
    <3>6. p = h
      BY <1>1, <3>5, AfterProject DEF p
    <3>7. DOMAIN p.by_type = {}
      BY <3>6, HideFields DEF NoMap
    <3>8. c = p
      BY <1>5, <3>1, <3>2, <3>7 DEF DropTypes, NoConstraints
    <3> QED BY <3>5, <3>6, <3>8
  <2>2. /\ request.types \subseteq narrow(request.types, TypesGranted(policies))
        /\ request.attrs \subseteq Base(policies, request)
        /\ AttrsGranted(policies) = {} /\ W = {} /\ endpoint.hidden = {}
    BY <1>5, <2>1, HideFields
  <2>3. ~h.empty
    BY <2>2, HideFields
  <2>4. \A t \in request.types : Considers(c, t)
    BY <2>1, <2>2, <2>3, HideFields DEF Considers
  <2>5. ASSUME NEW t \in Types, NEW a \in Attrs, Considers(c, t), Asked(request, a)
        PROVE  LetsThrough(c, request, t, a)
    <3>1. Everything(Shown(c, request, t), a)
      BY <1>1, <2>1, <2>2, <2>5, AttributesShown DEF Everything
    <3>2. c.hidden = {}
      BY <2>1, <2>2, HideFields
    <3> QED BY <2>5, <3>1, <3>2 DEF LetsThrough, Everything
  <2> QED BY <2>4, <2>5
<1> QED BY <1>1, <1>4, <1>5 DEF NothingWithoutReason

(* A rewrite carries the view of every grant. *)
LEMMA ViewsCarried ==
    ASSUME NEW ps, NEW q, NEW ep
    PROVE  /\ DOMAIN Rewrites(ps, q, ep) = DOMAIN NoConstraints
           /\ Rewrites(ps, q, ep).grants = {GrantView(g) : g \in Grants(ps)}
<1> DEFINE views == {GrantView(g) : g \in Grants(ps)}
           c1 == Intersect(ps, q)
           c2 == Withhold(c1, q, Withheld(ps, q))
           c3 == Hide(c2, ep)
           c4 == Project(c3, ep)
           c5 == DropTypes(c4, q)
<1>1. DOMAIN c1 = DOMAIN NoConstraints /\ c1.grants = views
  BY DEF Intersect, NoConstraints
<1> HIDE DEF views, c1
<1>2. DOMAIN c2 = DOMAIN NoConstraints /\ c2.grants = views
  BY <1>1 DEF Withhold, NoConstraints
<1> HIDE DEF c2
<1>3. DOMAIN c3 = DOMAIN NoConstraints /\ c3.grants = views
  BY <1>2 DEF Hide, NoConstraints
<1> HIDE DEF c3
<1>4. DOMAIN c4 = DOMAIN NoConstraints /\ c4.grants = views
  BY <1>3 DEF Project, NoConstraints
<1> HIDE DEF c4
<1>5. DOMAIN c5 = DOMAIN NoConstraints /\ c5.grants = views
  BY <1>4 DEF DropTypes, NoConstraints
<1>6. c5 = Rewrites(ps, q, ep)
  BY DEF c4, c3, c2, c1, Rewrites
<1> QED BY <1>5, <1>6 DEF views

(* The read of a view names the types that the constraints and the view name. *)
LEMMA ReadsSplit ==
    ASSUME NEW c, NEW v, NEW t
    PROVE  HasRead(c, v) /\ Everything(TypesOfRead(c, v), t)
             <=> Everything(c.types, t) /\ Everything(v.types, t)
  BY DEF HasRead, TypesOfRead, Everything

ReadOf(c, v) == [c EXCEPT !.types = TypesOfRead(c, v), !.grants = {v}]

LEMMA ReadFields ==
    ASSUME NEW c, DOMAIN c = DOMAIN NoConstraints, NEW v
    PROVE  LET one == ReadOf(c, v)
           IN /\ one.types = TypesOfRead(c, v) /\ one.grants = {v} /\ one.empty = c.empty
              /\ one.attrs = c.attrs /\ one.by_type = c.by_type /\ one.hidden = c.hidden
  BY DEF ReadOf, NoConstraints

(* The read of a view considers the types that both consider. *)
LEMMA ReadConsiders ==
    ASSUME NEW c, DOMAIN c = DOMAIN NoConstraints, NEW v, NEW t
    PROVE  HasRead(c, v) /\ Considers(ReadOf(c, v), t) <=> Considers(c, t) /\ NamesType(v, t)
<1>1. Considers(ReadOf(c, v), t) <=> ~c.empty /\ Everything(TypesOfRead(c, v), t)
  BY ReadFields DEF Considers, Everything
<1>2. Considers(c, t) <=> ~c.empty /\ Everything(c.types, t)
  BY DEF Considers, Everything
<1>3. NamesType(v, t) <=> Everything(v.types, t)
  BY DEF NamesType, Everything
<1> QED BY <1>1, <1>2, <1>3, ReadsSplit

LEMMA PerGrant ==
    ASSUME NEW c
    PROVE  per_grant(c) = {ReadOf(c, v) : v \in {w \in c.grants : HasRead(c, w)}}
  BY DEF per_grant, ReadOf

(* One read for each view, which finds what the view names. *)
LEMMA ReadsFind ==
    ASSUME NEW c, DOMAIN c = DOMAIN NoConstraints, NEW v \in c.grants, NEW t
    PROVE  (\E one \in per_grant(c) : one.grants = {v} /\ Considers(one, t))
             <=> Considers(c, t) /\ NamesType(v, t)
<1>1. ASSUME NEW one \in per_grant(c), one.grants = {v}, Considers(one, t)
      PROVE  Considers(c, t) /\ NamesType(v, t)
  <2>1. PICK w \in c.grants : HasRead(c, w) /\ one = ReadOf(c, w)
    BY PerGrant
  <2>2. w = v
    BY <1>1, <2>1, ReadFields
  <2> QED BY <1>1, <2>1, <2>2, ReadConsiders
<1>2. ASSUME Considers(c, t), NamesType(v, t)
      PROVE  \E one \in per_grant(c) : one.grants = {v} /\ Considers(one, t)
  <2>1. HasRead(c, v) /\ Considers(ReadOf(c, v), t)
    BY <1>2, ReadConsiders
  <2>2. ReadOf(c, v) \in per_grant(c) /\ ReadOf(c, v).grants = {v}
    BY <2>1, PerGrant, ReadFields
  <2> QED BY <2>1, <2>2
<1> QED BY <1>1, <1>2

ViewGives(v, t, a) == NamesType(v, t) /\ (v.attrs = {} \/ a \in v.attrs)

(* The reads together serve what the constraints let through and one view gives. *)
LEMMA ReadsServe ==
    ASSUME NEW c, DOMAIN c = DOMAIN NoConstraints, NEW q, NEW t, NEW a
    PROVE  (\E one \in per_grant(c) : MayServe(one, q, t, a))
             <=> LetsThrough(c, q, t, a) /\ \E v \in c.grants : ViewGives(v, t, a)
<1>1. ASSUME NEW v
      PROVE  HasRead(c, v) /\ MayServe(ReadOf(c, v), q, t, a)
               <=> LetsThrough(c, q, t, a) /\ ViewGives(v, t, a)
  <2> DEFINE one == ReadOf(c, v)
  <2>1. Shown(one, q, t) = Shown(c, q, t) /\ one.hidden = c.hidden /\ one.grants = {v}
    BY ReadFields DEF Shown
  <2> HIDE DEF one
  <2>2. MayServe(one, q, t, a) <=> /\ Considers(one, t) /\ a \notin c.hidden
                                   /\ Everything(Shown(c, q, t), a) /\ ViewGives(v, t, a)
    BY <2>1 DEF MayServe, LetsThrough, ViewGives, Everything
  <2>3. LetsThrough(c, q, t, a) <=> /\ Considers(c, t) /\ a \notin c.hidden
                                    /\ Everything(Shown(c, q, t), a)
    BY DEF LetsThrough, Everything
  <2>4. ViewGives(v, t, a) => NamesType(v, t)
    BY DEF ViewGives
  <2> QED BY <2>2, <2>3, <2>4, ReadConsiders DEF one
<1>2. (\E one \in per_grant(c) : MayServe(one, q, t, a))
        <=> \E v \in c.grants : HasRead(c, v) /\ MayServe(ReadOf(c, v), q, t, a)
  BY PerGrant
<1> QED BY <1>1, <1>2

LEMMA ReadsKept ==
    ASSUME Decided, verdict.is = "rewrite"
    PROVE  ReadsAreTheGrants
<1> DEFINE c == verdict.c
           W == Withheld(policies, request)
<1>1. /\ DOMAIN c = DOMAIN NoConstraints
      /\ c.grants = {GrantView(g) : g \in Grants(policies)}
      /\ request \in Question
  BY ViewsCarried DEF Decided
<1> HIDE DEF c
<1> SUFFICES ASSUME ~request.write, NEW t \in Types
             PROVE  /\ \A view \in c.grants :
                         (\E one \in per_grant(c) : one.grants = {view} /\ Considers(one, t))
                           <=> Considers(c, t) /\ NamesType(view, t)
                    /\ \A a \in Attrs :
                         (\E one \in per_grant(c) : MayServe(one, request, t, a))
                           => May(policies, request, endpoint, t, a) /\ Asked(request, a)
                    /\ \A a \in Attrs \ W :
                         Considers(c, t) /\ Asked(request, a)
                           /\ May(policies, request, endpoint, t, a)
                           => \E one \in per_grant(c) : MayServe(one, request, t, a)
  BY DEF ReadsAreTheGrants, c
<1>2. \A view \in c.grants :
         (\E one \in per_grant(c) : one.grants = {view} /\ Considers(one, t))
           <=> Considers(c, t) /\ NamesType(view, t)
  BY <1>1, ReadsFind
<1>3. ASSUME NEW a
      PROVE  (\E v \in c.grants : ViewGives(v, t, a))
               <=> \E g \in Grants(policies) : /\ Everything(granted_types(g), t)
                                               /\ Everything(granted_attrs(g), a)
  <2>1. \A g : ViewGives(GrantView(g), t, a)
                 <=> Everything(granted_types(g), t) /\ Everything(granted_attrs(g), a)
    BY DEF ViewGives, NamesType, GrantView, Everything
  <2> QED BY <1>1, <2>1
<1>4. ASSUME NEW a \in Attrs, \E one \in per_grant(c) : MayServe(one, request, t, a)
      PROVE  May(policies, request, endpoint, t, a) /\ Asked(request, a)
  <2>1. LetsThrough(c, request, t, a) /\ \E v \in c.grants : ViewGives(v, t, a)
    BY <1>1, <1>4, ReadsServe
  <2>2. MayApart(policies, request, endpoint, t, a) /\ Asked(request, a)
    BY <2>1, Granted DEF NothingUngranted, c
  <2> QED BY <1>3, <2>1, <2>2, MayMeans
<1>5. ASSUME NEW a \in Attrs \ W, Considers(c, t), Asked(request, a),
             May(policies, request, endpoint, t, a)
      PROVE  \E one \in per_grant(c) : MayServe(one, request, t, a)
  <2>1. [request EXCEPT !.write = FALSE] = request
    BY <1>1 DEF Question
  <2>2. MayApart(policies, request, endpoint, t, a)
    BY <1>5, MayMeans
  <2>3. LetsThrough(c, request, t, a)
    BY <1>5, <2>1, <2>2, Reasoned DEF NothingWithoutReason, c
  <2>4. \E v \in c.grants : ViewGives(v, t, a)
    BY <1>3, <1>5, MayMeans
  <2> QED BY <1>1, <2>3, <2>4, ReadsServe
<1> QED BY <1>2, <1>4, <1>5

LEMMA DecisionDecided == DecisionSpec => []Decided
<1>1. DecisionInit => Decided
  BY DEF DecisionInit, Decided
<1>2. Decided /\ [DecisionNext]_decisionVars => Decided'
  BY DecisionAssumption DEF Decided, DecisionNext, Decide, decisionVars
<1> QED BY <1>1, <1>2, PTL DEF DecisionSpec

(* PolicyPdp::decide, per_grant: for all sets of policies, requests and       *)
(* Endpoints, the sets of a rewrite keep to what the grants give type by type *)
(* and attribute by attribute, and the reads of the grants serve exactly what *)
(* single grants give of what was asked.                                      *)
THEOREM DecisionKeepsToGrants == DecisionSpec => []KeepsToGrants
<1>1. Decided => KeepsToGrants
  BY Granted, Reasoned, ReadsKept DEF KeepsToGrants
<1> QED BY <1>1, DecisionDecided, PTL

(* What a rewrite holds is of the types and attributes there are. *)

LEMMA NarrowTyped ==
    ASSUME NEW U, NEW R \in SUBSET U, NEW G \in SUBSET U
    PROVE  narrow(R, G) \subseteq U
  BY DEF narrow

LEMMA GrantedTyped ==
    ASSUME NEW ps \in SUBSET Policy
    PROVE  TypesGranted(ps) \subseteq Types /\ AttrsGranted(ps) \subseteq Attrs
<1>1. \A g \in ps : \A e \in g.entries : e.types \subseteq Types /\ e.attrs \subseteq Attrs
  <2> SUFFICES ASSUME NEW g \in ps, NEW e \in g.entries
               PROVE  e.types \subseteq Types /\ e.attrs \subseteq Attrs
    OBVIOUS
  <2>1. e \in Entry
    BY DEF Policy
  <2> QED BY <2>1 DEF Entry
<1>2. \A g \in ps : granted_types(g) \subseteq Types /\ granted_attrs(g) \subseteq Attrs
  BY <1>1 DEF granted_types, granted_attrs
<1> QED BY <1>2 DEF TypesGranted, AttrsGranted, Grants

LEMMA ProjectedTyped ==
    ASSUME NEW ps \in SUBSET Policy, NEW q \in Question, NEW ep \in Publication,
           ~Denies(ps, q, ep)
    PROVE  /\ Projected(ps, q, ep).types \subseteq Types
           /\ Projected(ps, q, ep).attrs \subseteq Attrs \cup {Identity}
           /\ DOMAIN Projected(ps, q, ep).by_type
                = IF ep.classes = {} THEN {} ELSE Projected(ps, q, ep).types
<1> DEFINE h == Hidden(ps, q, ep)
           p == Projected(ps, q, ep)
           types == narrow(h.types, ep.classes)
           slots == UNION {attributes_of(ep, t) : t \in types}
<1>1. q.types \subseteq Types /\ q.attrs \subseteq Attrs
  BY DEF Question
<1>2. h.types \subseteq Types
  <2>1. h.types = narrow(q.types, TypesGranted(ps))
    BY HideFields
  <2> QED BY <1>1, <2>1, GrantedTyped, NarrowTyped
<1>3. h.attrs \subseteq Attrs
  <2>1. h.attrs = Base(ps, q) \ Withheld(ps, q)
    BY HideFields
  <2>2. Base(ps, q) \subseteq Attrs
    BY <1>1, GrantedTyped, NarrowTyped DEF Base
  <2> QED BY <2>1, <2>2
<1>4. CASE ep.classes = {}
  <2>1. p = h
    BY <1>4, AfterProject
  <2>2. h.by_type = NoMap
    BY HideFields
  <2> QED BY <1>2, <1>3, <1>4, <2>1, <2>2 DEF NoMap
<1>5. CASE ep.classes # {}
  <2>1. DOMAIN h = DOMAIN NoConstraints
    BY DEF Hidden, Hide, Withhold, Intersect, NoConstraints
  <2>2. /\ p.types = types /\ p.attrs = narrow_to_identity(h.attrs, slots)
        /\ DOMAIN p.by_type = types
    BY <1>5, <2>1 DEF Projected, Project, NoConstraints
  <2>3. types \subseteq Types
    BY <1>2, NarrowTyped DEF Publication
  <2>4. \A t \in types : attributes_of(ep, t) \subseteq Attrs \cup {Identity}
    BY <2>3 DEF attributes_of, Publication
  <2>5. slots \subseteq Attrs \cup {Identity}
    BY <2>4
  <2> HIDE DEF slots, types, h, p
  <2>6. narrow_to_identity(h.attrs, slots) \subseteq Attrs \cup {Identity}
    BY <1>3, <2>5 DEF narrow_to_identity, narrow
  <2> QED BY <1>5, <2>2, <2>3, <2>6 DEF p
<1> QED BY <1>4, <1>5

LEMMA RewriteTyped ==
    ASSUME NEW ps \in SUBSET Policy, NEW q \in Question, NEW ep \in Publication,
           ~Denies(ps, q, ep)
    PROVE  /\ Rewrites(ps, q, ep).types \subseteq Types
           /\ Rewrites(ps, q, ep).attrs \subseteq Attrs \cup {Identity}
           /\ DOMAIN Rewrites(ps, q, ep).by_type
                = IF ep.classes = {} THEN {} ELSE Rewrites(ps, q, ep).types
<1> DEFINE p == Projected(ps, q, ep)
           d == Rewrites(ps, q, ep)
           kept_types == Filterable(p, q)
<1>1. d = DropTypes(p, q)
  BY DEF Rewrites, Projected, Hidden
<1>2. DOMAIN p = DOMAIN NoConstraints
  BY DEF Projected, Project, Hidden, Hide, Withhold, Intersect, NoConstraints
<1>3. /\ p.types \subseteq Types /\ p.attrs \subseteq Attrs \cup {Identity}
      /\ DOMAIN p.by_type = IF ep.classes = {} THEN {} ELSE p.types
  BY ProjectedTyped
<1>4. kept_types \subseteq DOMAIN p.by_type
  BY DEF Filterable
<1>5. ASSUME kept_types # {} PROVE ep.classes # {} /\ kept_types \subseteq Types
  BY <1>3, <1>4, <1>5
<1> HIDE DEF p, d
<1>6. \/ d.types = p.types /\ d.by_type = p.by_type
      \/ /\ kept_types # {} /\ d.types = kept_types
         /\ d.by_type = [t \in kept_types |-> p.by_type[t]]
  BY <1>1, <1>2 DEF DropTypes, NoConstraints
<1>7. d.attrs = p.attrs
  BY <1>1, <1>2 DEF DropTypes, NoConstraints
<1>8. CASE d.types = p.types /\ d.by_type = p.by_type
  BY <1>3, <1>7, <1>8 DEF d
<1>9. CASE /\ kept_types # {} /\ d.types = kept_types
           /\ d.by_type = [t \in kept_types |-> p.by_type[t]]
  <2> HIDE DEF kept_types
  <2>1. DOMAIN d.by_type = d.types
    BY <1>9
  <2> QED BY <1>3, <1>5, <1>7, <1>9, <2>1 DEF d
<1> QED BY <1>6, <1>8, <1>9

(* mod.rs, project_constraints: the types and the attributes of a rewrite are *)
(* of those there are, an attribute beyond them is an identity, and the types *)
(* have an entry in `by_type` exactly when the Endpoint has a projection.     *)
THEOREM DecisionTyped == DecisionSpec => []DecisionTypeOK
<1>1. Decided => DecisionTypeOK
  <2> SUFFICES ASSUME Decided, verdict.is = "rewrite"
               PROVE  /\ verdict.c.types \subseteq Types
                      /\ verdict.c.attrs \subseteq Attrs \cup {Identity}
                      /\ DOMAIN verdict.c.by_type
                           = IF endpoint.classes = {} THEN {} ELSE verdict.c.types
    BY DEF DecisionTypeOK
  <2> QED BY RewriteTyped DEF Decided
<1> QED BY <1>1, DecisionDecided, PTL

-----------------------------------------------------------------------------
(***************************************************************************)
(* For any filters, documents and edge of a cell, the index names every    *)
(* filter that matches.                                                    *)
(*                                                                         *)
(* A match shows in an entry of each key the filter may have: in one of    *)
(* its terms, in a cell its area and a location share, in a type.  The     *)
(* index holds the entries of the filters' keys and no other (Indexed), so *)
(* that entry leads to the filter.                                         *)
(***************************************************************************)

(* The cells of a number grow with it. *)
LEMMA CellsGrow ==
    ASSUME NEW a \in Int, NEW b \in Int, a <= b
    PROVE  a \div CELL \in Int /\ b \div CELL \in Int /\ a \div CELL <= b \div CELL
<1> DEFINE p == a \div CELL
           q == b \div CELL
<1>1. CELL \in Int /\ CELL > 0
  BY FiltersAssumption
<1>2. p \in Int /\ q \in Int
  BY <1>1
<1>3. CELL * p <= a /\ b < CELL * (q + 1)
  BY <1>1
<1>4. ASSUME q < p
      PROVE  FALSE
  <2>1. CELL * (q + 1) <= CELL * p
    BY <1>1, <1>2, <1>4
  <2> QED BY <1>1, <1>2, <1>3, <2>1
<1> QED BY <1>2, <1>4

(* Two intervals that overlap have a step of the grid in common. *)
LEMMA StepShared ==
    ASSUME NEW i \in Interval, NEW j \in Interval, i.lo <= i.hi, j.lo <= j.hi, Overlap(i, j)
    PROVE  \E y \in Steps(i) : y \in Steps(j)
<1>1. i.lo \in Int /\ i.hi \in Int /\ j.lo \in Int /\ j.hi \in Int
  BY DEF Interval
<1>2. /\ i.lo \div CELL \in Int /\ i.hi \div CELL \in Int
      /\ j.lo \div CELL \in Int /\ j.hi \div CELL \in Int
      /\ i.lo \div CELL <= i.hi \div CELL /\ j.lo \div CELL <= j.hi \div CELL
      /\ i.lo \div CELL <= j.hi \div CELL /\ j.lo \div CELL <= i.hi \div CELL
  BY <1>1, CellsGrow DEF Overlap
<1>3. CASE i.lo \div CELL <= j.lo \div CELL
  BY <1>2, <1>3 DEF Steps
<1>4. CASE j.lo \div CELL <= i.lo \div CELL
  BY <1>2, <1>4 DEF Steps
<1> QED BY <1>2, <1>3, <1>4

(* A location near an area has a cell of it. *)
LEMMA CellShared ==
    ASSUME NEW x \in Extent, IsExtent(x), NEW s \in Subscriptions, s.area # NoArea,
           Near(x, s)
    PROVE  \E y \in cells(x) : y \in cells(Reached(s))
<1> DEFINE r == Reached(s)
<1>1. s.area \in Extent /\ IsExtent(s.area) /\ s.dlon \in Nat /\ s.dlat \in Nat
  BY FiltersAssumption DEF Subscription
<1>2. ASSUME NEW i \in Interval, i.lo <= i.hi, NEW by \in Nat
      PROVE  Widened(i, by) \in Interval /\ Widened(i, by).lo <= Widened(i, by).hi
  BY <1>2 DEF Interval, Widened
<1>3. r.lon \in Interval /\ r.lat \in Interval /\ r.lon.lo <= r.lon.hi /\ r.lat.lo <= r.lat.hi
  BY <1>1, <1>2 DEF Extent, IsExtent, Reached
<1>4. x.lon \in Interval /\ x.lat \in Interval /\ x.lon.lo <= x.lon.hi /\ x.lat.lo <= x.lat.hi
  BY DEF Extent, IsExtent
<1> HIDE DEF r
<1>5. PICK lon \in Steps(x.lon) : lon \in Steps(r.lon)
  BY <1>3, <1>4, StepShared DEF Near, Reached, r
<1>6. PICK lat \in Steps(x.lat) : lat \in Steps(r.lat)
  BY <1>3, <1>4, StepShared DEF Near, Reached, r
<1>7. <<lon, lat>> \in cells(x) /\ <<lon, lat>> \in cells(r)
  BY <1>5, <1>6 DEF cells
<1> QED BY <1>7 DEF r

-----------------------------------------------------------------------------

(* A match is found under every key its filter may have been given. *)
LEMMA MatchIsProbed ==
    ASSUME NEW s \in Subscriptions, NEW doc \in Documents, Matches(s, doc),
           NEW key \in KeysOf(s)
    PROVE  \E e \in key : Probed(doc, e)
<1> USE FiltersAssumption DEF Subscription, Document
<1>1. CASE Equalities(s) # {}
  <2>1. PICK t \in Equalities(s) : key = {EqEntry(t)}
    BY <1>1 DEF KeysOf
  <2>2. t \in s.terms /\ ~s.coerced /\ t.op = "=="
    BY <2>1 DEF Equalities
  <2>3. t.value \in doc.has[t.attr]
    BY <2>2 DEF Matches, Satisfies
  <2> QED BY <2>1, <2>3 DEF EqEntry, Probed
<1>2. CASE Equalities(s) = {} /\ Bounds(s) # {}
  <2>1. PICK t \in Bounds(s) : key = {BoundEntry(t)}
    BY <1>2 DEF KeysOf
  <2>2. t \in Term /\ t \in s.terms /\ ~s.coerced /\ t.op # "==" /\ t.value.number
    BY <2>1 DEF Bounds
  <2>3. PICK v \in doc.has[t.attr] :
          /\ v.number
          /\ \/ t.op = ">" /\ v.n > t.value.n
             \/ t.op = ">=" /\ v.n >= t.value.n
             \/ t.op = "<" /\ v.n < t.value.n
             \/ t.op = "<=" /\ v.n <= t.value.n
    BY <2>2 DEF Matches, Satisfies
  <2>4. t.attr \in Names /\ v.n \in Int /\ t.value.n \in Int
    BY <2>2, <2>3 DEF Term, Scalar
  <2>5. CASE t.op \in {">", ">="}
    <3>1. t.value.n <= v.n
      BY <2>3, <2>4, <2>5
    <3> QED BY <2>1, <2>3, <2>5, <3>1 DEF BoundEntry, Probed
  <2>6. CASE t.op \notin {">", ">="}
    <3>1. v.n <= t.value.n
      BY <2>3, <2>4, <2>6
    <3> QED BY <2>1, <2>3, <2>6, <3>1 DEF BoundEntry, Probed
  <2> QED BY <2>5, <2>6
<1>3. CASE Equalities(s) = {} /\ Bounds(s) = {} /\ OfGeo(s)
  <2>1. key = {CellEntry(y) : y \in cells(Reached(s))} \cup {OnGrid}
    BY <1>3 DEF KeysOf
  <2>2. PICK x \in doc.where : Near(x, s)
    BY <1>3 DEF Matches, OfGeo
  <2>3. CASE OffGrid(doc)
    <3>1. OnGrid \in key
      BY <2>1
    <3>2. Probed(doc, OnGrid)
      BY <2>3 DEF OnGrid, Probed
    <3> QED BY <3>1, <3>2
  <2>4. CASE ~OffGrid(doc)
    <3>1. PICK y \in cells(x) : y \in cells(Reached(s))
      BY <1>3, <2>2, CellShared DEF OfGeo
    <3>2. CellEntry(y) \in key
      BY <2>1, <3>1
    <3>3. Probed(doc, CellEntry(y))
      BY <2>2, <2>4, <3>1 DEF CellEntry, Probed
    <3> QED BY <3>2, <3>3
  <2> QED BY <2>3, <2>4
<1>4. CASE Equalities(s) = {} /\ Bounds(s) = {} /\ ~OfGeo(s) /\ s.types # {}
  <2>1. key = {TypeEntry(type) : type \in s.types}
    BY <1>4 DEF KeysOf
  <2>2. PICK type \in s.types : type \in doc.types
    <3>1. s.types \cap doc.types # {}
      BY <1>4 DEF Matches
    <3> QED BY <3>1
  <2>3. TypeEntry(type) \in key
    BY <2>1
  <2>4. Probed(doc, TypeEntry(type))
    BY <2>2 DEF TypeEntry, Probed
  <2> QED BY <2>3, <2>4
<1>5. CASE Equalities(s) = {} /\ Bounds(s) = {} /\ ~OfGeo(s) /\ s.types = {}
  <2>1. key = {AnyEntry}
    BY <1>5 DEF KeysOf
  <2>2. Probed(doc, AnyEntry)
    BY DEF AnyEntry, Probed
  <2> QED BY <2>1, <2>2
<1> QED BY <1>1, <1>2, <1>3, <1>4, <1>5

-----------------------------------------------------------------------------

(* The index holds the entries of the filters' keys, and the keys are those  *)
(* that compile() gives the filters.                                         *)
Indexed ==
    /\ subs \in [FilterIds -> Subscriptions \cup {NoSubscription}]
    /\ keys = [id \in FilterIds |-> keys[id]]
    /\ index = UNION {keys[id] \X {id} : id \in FilterIds}
    /\ \A id \in FilterIds :
         IF subs[id] = NoSubscription THEN keys[id] = {} ELSE keys[id] \in KeysOf(subs[id])

(* What one filter's change leaves of the index. *)
LEMMA OneReplaced ==
    ASSUME Indexed, NEW id \in FilterIds, NEW key, keys' = [keys EXCEPT ![id] = key],
           index' = IndexWithout(id) \cup (key \X {id})
    PROVE  index' = UNION {keys'[other] \X {other} : other \in FilterIds}
<1>1. \A other \in FilterIds : keys'[other] = IF other = id THEN key ELSE keys[other]
  BY DEF Indexed
<1>2. IndexWithout(id) = UNION {keys[other] \X {other} : other \in FilterIds \ {id}}
  BY DEF IndexWithout, Indexed
<1> QED BY <1>1, <1>2

LEMMA IndexedStart == FiltersInit => Indexed
  BY DEF FiltersInit, Indexed

LEMMA IndexedStep == Indexed /\ [FiltersNext]_filtersVars => Indexed'
<1> SUFFICES ASSUME Indexed, [FiltersNext]_filtersVars
             PROVE  Indexed'
  OBVIOUS
<1>1. ASSUME NEW id \in FilterIds, Insert(id)
      PROVE  Indexed'
  <2>1. PICK s \in Subscriptions : \E key \in KeysOf(s) :
          /\ index' = IndexWithout(id) \cup (key \X {id})
          /\ subs' = [subs EXCEPT ![id] = s] /\ keys' = [keys EXCEPT ![id] = key]
    BY <1>1 DEF Insert
  <2>2. PICK key \in KeysOf(s) :
          /\ index' = IndexWithout(id) \cup (key \X {id})
          /\ subs' = [subs EXCEPT ![id] = s] /\ keys' = [keys EXCEPT ![id] = key]
    BY <2>1
  <2>3. index' = UNION {keys'[other] \X {other} : other \in FilterIds}
    BY <2>2, OneReplaced
  <2> QED BY <2>2, <2>3, FiltersAssumption DEF Indexed
<1>2. ASSUME NEW id \in FilterIds, Remove(id)
      PROVE  Indexed'
  <2>1. index' = IndexWithout(id) \cup ({} \X {id}) /\ keys' = [keys EXCEPT ![id] = {}]
    BY <1>2 DEF Remove
  <2>2. index' = UNION {keys'[other] \X {other} : other \in FilterIds}
    BY <2>1, OneReplaced
  <2> QED BY <1>2, <2>1, <2>2 DEF Indexed, Remove
<1>3. CASE UNCHANGED filtersVars
  BY <1>3 DEF filtersVars, Indexed
<1> QED BY <1>1, <1>2, <1>3 DEF FiltersNext

(* fanout.rs, Index::candidates: for any filters and documents, "every        *)
(* filter that could match is among them", and a removed one has no entry.    *)
THEOREM IndexNamesEveryMatch == FiltersSpec => []IndexIsAFullScan
<1>1. Indexed => IndexIsAFullScan
  <2> SUFFICES ASSUME Indexed
               PROVE  IndexIsAFullScan
    OBVIOUS
  <2>1. ASSUME NEW doc \in Documents, NEW id \in FilterIds, subs[id] # NoSubscription,
               Matches(subs[id], doc)
        PROVE  id \in Candidates(doc)
    <3>1. PICK e \in keys[id] : Probed(doc, e)
      BY <2>1, MatchIsProbed DEF Indexed
    <3>2. <<e, id>> \in index
      BY <3>1 DEF Indexed
    <3> QED BY <3>1, <3>2 DEF Candidates
  <2>2. ASSUME NEW p \in index
        PROVE  subs[p[2]] # NoSubscription
    <3>1. PICK id \in FilterIds : p \in keys[id] \X {id}
      BY DEF Indexed
    <3> QED BY <3>1 DEF Indexed
  <2> QED BY <2>1, <2>2 DEF IndexIsAFullScan
<1> QED BY <1>1, IndexedStart, IndexedStep, PTL DEF FiltersSpec

(* An index is of the filters that are held, and of no other.                 *)
THEOREM FiltersTyped == FiltersSpec => []FiltersTypeOK
<1>1. Indexed => FiltersTypeOK
  BY DEF Indexed, FiltersTypeOK
<1> QED BY <1>1, IndexedStart, IndexedStep, PTL DEF FiltersSpec
=============================================================================
