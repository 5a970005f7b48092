---------------------------- MODULE SocketsProofs ---------------------------
(***************************************************************************)
(* What is proved of the sockets of the fan-out: of a client's chain of    *)
(* connections (Session), and of the hubs that the sockets of all callers  *)
(* are on (Registry).  The two share no state.                             *)
(***************************************************************************)
EXTENDS Session, Registry, OrdersProofs, FiniteSetTheorems

-----------------------------------------------------------------------------
(***************************************************************************)
(* Session.  For any number of connections, changes and entities, any      *)
(* memory and any queue: what was sent to a client that resumed is heard,  *)
(* or a gap tells of it; nothing is told twice or out of order; and the    *)
(* numbers go on by one.                                                   *)
(*                                                                         *)
(* The argument follows the connection that has the client's place, or     *)
(* will have it when the client reads the answer on its wire (Carrier).    *)
(* Another connection the client is on never had a subscription (Fresh).   *)
(* The wire is gaps, at most one answer, and numbers that go on from what  *)
(* the client has seen (WireInv).  All that a connection numbered and is   *)
(* still kept, on the wire or queued is in the order of the changes        *)
(* (ConnsInOrder), and later than what was heard (HeardInv).  What is owed *)
(* is kept, or older than all that is, so that a resume starts with a gap; *)
(* and it is on the wire, or a gap or a 404 comes before the next          *)
(* notification (OwedInv).                                                 *)
(***************************************************************************)

ItemType == [kind : {"notification", "gap", "closing", "refused"},
             entity : Entities \cup {NoEntity}, change : 0..MaxChanges]

ConnType == [st : {"unused", "open", "ending", "closed", "gone"}, sub : BOOLEAN,
             items : Seq(ItemType), overflowed : BOOLEAN, seq : Nat, sent : Seq(Frame),
             first : BOOLEAN]

SessionTypes ==
    /\ conn \in [Conns -> ConnType] /\ wire \in [Conns -> Seq(Frame)]
    /\ refused \in BOOLEAN /\ change \in 0..MaxChanges /\ used \subseteq Events
    /\ client \in [on : Conns \cup {0}, place : Conns \cup {0}, at : Nat]
    /\ heard \in [Entities -> 0..MaxChanges] /\ owed \subseteq Frame

(* The notifications among the members of a sequence of frames or of items. *)
Notes(s) == {f \in Members(s) : IsNotification(f)}

(* A later number of an entity tells a later change. *)
Later(f, g) == f.seq < g.seq /\ f.entity = g.entity => f.change < g.change

(* What connection q has numbered and is still somewhere, and what it will,  *)
(* when t changes were told.                                                 *)
InOrder(q, w, t) ==
    /\ \A f \in Members(q.sent) \cup Notes(w) :
         /\ IsNotification(f) /\ f.entity \in Entities /\ f.to = f.seq /\ f.change <= t
         /\ q.st = "open" => f.seq <= q.seq
    /\ \A f, g \in Members(q.sent) \cup Notes(w) : Later(f, g)
    /\ \A x \in Notes(q.items) : x.entity \in Entities /\ x.change <= t
    /\ \A f \in Members(q.sent) \cup Notes(w), x \in Notes(q.items) :
         f.entity = x.entity => f.change < x.change

Ascends(s) == \A i, k \in 1..Len(s) : i < k => s[i].seq < s[k].seq

(* A queue has one notification of an entity; what ended has none.           *)
Tidy(q) ==
    /\ \A i, k \in 1..Len(q.items) :
         /\ IsNotification(q.items[i]) /\ IsNotification(q.items[k])
         /\ q.items[i].entity = q.items[k].entity
         => i = k
    /\ Ascends(q.sent) /\ Len(q.sent) <= KEPT
    /\ q.st # "open" => q.items = <<>> /\ ~q.overflowed
    /\ q.st = "unused" => q = Unused
    /\ q.st = "gone" => q = [Unused EXCEPT !.st = "gone"]

ConnsInOrder == \A c \in Conns : Tidy(conn[c]) /\ InOrder(conn[c], wire[c], change)

(* The connection that has the client's place, or will when it hears so. *)
Moved(w) == Result(200) \in Members(w)

Carrier == IF client.on # 0 /\ Moved(wire[client.on]) THEN client.on ELSE client.place

(* The k-th frame of the wire is the answer to a resume; none is for 0.      *)
Answered(w, k) ==
    /\ k \in 0..Len(w)
    /\ k # 0 => w[k] \in {Result(200), Result(404)}
    /\ \A i \in 1..Len(w) : i < k => w[i].kind = "gap"
    /\ \A i \in 1..Len(w) : i > k => w[i].kind \in {"notification", "gap"}

(* The frames after the k-th go on from x-seq `from`.                        *)
GoesOn(w, k, from, q) ==
    /\ \A i \in 1..Len(w) : i > k =>
         from < w[i].seq /\ w[i].seq <= w[i].to /\ (q.st = "open" => w[i].to <= q.seq)
    /\ \A i, j \in 1..Len(w) : k < i /\ i < j => w[i].to < w[j].seq
    /\ q.st = "open" => from <= q.seq

(* Where the client reads on. *)
From(on, w, place, at) == IF place \in {0, on} \/ Moved(w) THEN at ELSE 0

(* A connection that never had a subscription. *)
Fresh(q, w) == ~q.sub /\ q.sent = <<>> /\ Notes(q.items) = {} /\ Notes(w) = {}

OnWire(on, w, q, place, at) ==
    \E k \in 0..Len(w) :
        /\ Answered(w, k) /\ GoesOn(w, k, From(on, w, place, at), q)
        /\ k # 0 => place \notin {0, on} /\ (q.st = "open" => ~q.first)

WireInv ==
    /\ \A c \in Conns : c # client.on => wire[c] = <<>>
    /\ client.on # 0 =>
         /\ conn[client.on].st # "unused"
         /\ OnWire(client.on, wire[client.on], conn[client.on], client.place, client.at)
         /\ Moved(wire[client.on]) => conn[client.place].st = "gone"
         /\ client.on # Carrier => Fresh(conn[client.on], wire[client.on])
    /\ client.place # 0 => conn[client.place].st # "unused"
    /\ Carrier # 0 /\ conn[Carrier].st = "open" => client.at <= conn[Carrier].seq

(* What the client has not heard is later than what it has.                  *)
Unheard(q, w, at, h) ==
    /\ \A f \in Members(q.sent) : at < f.seq => h[f.entity] < f.change
    /\ \A f \in Notes(w) \cup Notes(q.items) : h[f.entity] < f.change

HeardInv ==
    /\ \A e \in Entities : heard[e] <= change
    /\ Carrier # 0 => Unheard(conn[Carrier], wire[Carrier], client.at, heard)

(* Kept for a resume, or older than all that is. *)
Remembered(f, s) == f \in Members(s) \/ (s # <<>> /\ \A g \in Members(s) : f.seq < g.seq)

(* The client will read its view again before it counts another notification. *)
Clears(w) ==
    \E i \in 1..Len(w) :
        /\ w[i].kind = "gap" \/ w[i] = Result(404)
        /\ \A k \in 1..Len(w) : k < i => ~IsNotification(w[k])

OwedInv ==
    \A f \in owed :
        /\ IsNotification(f) /\ Carrier # 0 /\ client.at < f.seq
        /\ conn[Carrier].st = "gone" \/ Remembered(f, conn[Carrier].sent)
        /\ Carrier = client.on => f \in Members(wire[Carrier]) \/ Clears(wire[Carrier])

MovesInv ==
    /\ refused => "refusal" \in used
    /\ used \cap {"reload", "refusal"} = {} /\ Carrier # 0 /\ conn[Carrier].st # "gone" =>
           conn[Carrier].sub

SessionInv ==
    SessionTypes /\ ConnsInOrder /\ WireInv /\ HeardInv /\ OwedInv /\ MovesInv

(* Without a gap of the upstream, the numbers go on by one.                  *)
ByOne(w, k, from, q) ==
    /\ \A i \in 1..Len(w) : i > k =>
         w[i].seq = 1 + IF i = k + 1 THEN from ELSE w[i - 1].to
    /\ q.st = "open" => q.seq = IF k = Len(w) THEN from ELSE w[Len(w)].to

Consecutive(s) == \A i \in 1..Len(s) : i < Len(s) => s[i + 1].seq = s[i].seq + 1

KeptByOne(q) ==
    /\ \A x \in Members(q.items) : x.kind # "gap"
    /\ Consecutive(q.sent)
    /\ q.st = "open" /\ q.sent # <<>> => q.sent[Len(q.sent)].seq = q.seq

(* The numbers on the wire go on; before its first message a connection can  *)
(* only be told the gap of an overflow, which ends it.                       *)
Steady(on, w, q, place, at) ==
    \E k \in 0..Len(w) :
        /\ Answered(w, k) /\ ByOne(w, k, From(on, w, place, at), q)
        /\ place \notin {0, on} /\ k = 0 /\ w # <<>> => Len(w) = 1 /\ q.st # "open"

NumbersInv ==
    "gap" \notin used =>
        /\ \A c \in Conns : KeptByOne(conn[c])
        /\ client.on # 0 =>
             Steady(client.on, wire[client.on], conn[client.on], client.place, client.at)

-----------------------------------------------------------------------------
(* Sequences of frames. *)

LEMMA MembersOf ==
    ASSUME NEW T, NEW s \in Seq(T)
    PROVE  /\ Members(s) \subseteq T
           /\ \A x : x \in Members(s) <=> \E i \in 1..Len(s) : s[i] = x
           /\ Members(s) = {} <=> s = <<>>
           /\ s = <<>> <=> Len(s) = 0
<1>1. Len(s) \in Nat /\ DOMAIN s = 1..Len(s) /\ \A i \in 1..Len(s) : s[i] \in T
  BY LenProperties, ElementOfSeq
<1>2. \A x : x \in Members(s) <=> \E i \in 1..Len(s) : s[i] = x
  BY DEF Members
<1>3. s # <<>> => Len(s) \in Nat \ {0}
  BY EmptySeq
<1>4. Len(s) # 0 => s[1] \in Members(s)
  BY <1>1, <1>2
<1>5. Len(<<>>) = 0 /\ 1..0 = {}
  BY EmptySeq
<1> QED BY <1>1, <1>2, <1>3, <1>4, <1>5

(* One sequence after another. *)
LEMMA Joined ==
    ASSUME NEW T, NEW s \in Seq(T), NEW u \in Seq(T)
    PROVE  /\ s \o u \in Seq(T) /\ Len(s \o u) = Len(s) + Len(u)
           /\ Len(s) \in Nat /\ Len(u) \in Nat
           /\ \A i \in 1..Len(s) : i \in 1..Len(s \o u) /\ (s \o u)[i] = s[i]
           /\ \A i \in 1..Len(u) : Len(s) + i \in 1..Len(s \o u) /\ (s \o u)[Len(s) + i] = u[i]
           /\ \A i \in 1..Len(s \o u) : \/ i \in 1..Len(s)
                                       \/ (i - Len(s) \in 1..Len(u) /\ i = Len(s) + (i - Len(s)))
           /\ Members(s \o u) = Members(s) \cup Members(u)
<1> DEFINE v == s \o u
           m == Len(s)
           n == Len(u)
<1>1. /\ m \in Nat /\ n \in Nat /\ v \in Seq(T) /\ Len(v) = m + n
      /\ \A i \in 1..(m + n) : v[i] = IF i <= m THEN s[i] ELSE u[i - m]
  BY LenProperties, ConcatProperties
<1>2. \A x : x \in Members(v) <=> \E i \in 1..Len(v) : v[i] = x
  BY DEF Members
<1>3. \A x : x \in Members(s) <=> \E i \in 1..m : s[i] = x
  BY DEF Members
<1>4. \A x : x \in Members(u) <=> \E i \in 1..n : u[i] = x
  BY DEF Members
<1> HIDE DEF v, m, n
<1>5. \A i \in 1..m : i \in 1..Len(v) /\ v[i] = s[i]
  BY <1>1
<1>6. ASSUME NEW i \in 1..n PROVE m + i \in 1..Len(v) /\ v[m + i] = u[i]
  <2>1. m + i \in 1..(m + n) /\ ~(m + i <= m) /\ (m + i) - m = i
    BY <1>1
  <2> QED BY <1>1, <2>1
<1>7. \A i \in 1..Len(v) : i \in 1..m \/ (i - m \in 1..n /\ i = m + (i - m))
  BY <1>1
<1>8. ASSUME NEW x PROVE x \in Members(v) <=> x \in Members(s) \/ x \in Members(u)
  <2>1. ASSUME NEW i \in 1..Len(v), v[i] = x PROVE x \in Members(s) \/ x \in Members(u)
    <3>1. CASE i \in 1..m
      BY <1>3, <1>5, <2>1, <3>1
    <3>2. CASE i - m \in 1..n /\ i = m + (i - m)
      <4>1. v[m + (i - m)] = u[i - m]
        BY <1>6, <3>2
      <4> QED BY <1>4, <2>1, <3>2, <4>1
    <3> QED BY <1>7, <3>1, <3>2
  <2> QED BY <1>2, <1>3, <1>4, <1>5, <1>6, <2>1
<1>9. Members(v) = Members(s) \cup Members(u)
  BY <1>8
<1> QED BY <1>1, <1>5, <1>6, <1>7, <1>9 DEF v, m, n

(* A sequence after its first member. *)
LEMMA Rest ==
    ASSUME NEW T, NEW s \in Seq(T), s # <<>>
    PROVE  /\ Len(s) \in Nat \ {0} /\ Head(s) = s[1] /\ s[1] \in T
           /\ Tail(s) \in Seq(T) /\ Len(Tail(s)) = Len(s) - 1
           /\ \A i \in 1..Len(Tail(s)) : i + 1 \in 1..Len(s) /\ Tail(s)[i] = s[i + 1]
           /\ Members(s) = {s[1]} \cup Members(Tail(s))
<1> DEFINE v == Tail(s)
           n == Len(s)
<1>1. /\ n \in Nat \ {0} /\ Head(s) = s[1] /\ s[1] \in T
      /\ v \in Seq(T) /\ Len(v) = n - 1 /\ \A i \in 1..Len(v) : v[i] = s[i + 1]
  <2>1. n \in Nat \ {0}
    BY EmptySeq
  <2>2. Head(s) = s[1]
    OBVIOUS
  <2>3. 1 \in 1..n
    BY <2>1
  <2>4. s[1] \in T
    BY <2>3, ElementOfSeq
  <2> QED BY <2>1, <2>2, <2>4, HeadTailProperties
<1>2. \A x : x \in Members(s) <=> \E i \in 1..n : s[i] = x
  BY DEF Members
<1>3. \A x : x \in Members(v) <=> \E i \in 1..Len(v) : v[i] = x
  BY DEF Members
<1> HIDE DEF v, n
<1>4. \A i \in 1..Len(v) : i + 1 \in 1..n
  BY <1>1
<1>5. ASSUME NEW i \in 1..n PROVE i = 1 \/ (i - 1 \in 1..Len(v) /\ v[i - 1] = s[i])
  <2>1. i # 1 => i - 1 \in 1..Len(v) /\ (i - 1) + 1 = i
    BY <1>1
  <2> QED BY <1>1, <2>1
<1>6. 1 \in 1..n
  BY <1>1
<1>7. \A x : x \in Members(s) <=> x = s[1] \/ x \in Members(v)
  BY <1>1, <1>2, <1>3, <1>4, <1>5, <1>6
<1>8. Members(s) = {s[1]} \cup Members(v)
  BY <1>7
<1> QED BY <1>1, <1>4, <1>8 DEF v, n

-----------------------------------------------------------------------------
(* What a connection keeps and sends again. *)

LEMMA FrameFields ==
    ASSUME NEW f \in Frame
    PROVE  /\ f.kind \in {"notification", "gap", "result"} /\ f.seq \in Nat /\ f.to \in Nat
           /\ f.entity \in Entities \cup {NoEntity} /\ f.change \in 0..MaxChanges /\ f.change \in Nat
BY LimitAssumption DEF Frame

(* What is picked of s are the members of s at those places. *)
LEMMA PickedMembers ==
    ASSUME NEW T, NEW s \in Seq(T), NEW I
    PROVE  /\ Picked(s, I) \in Seq(T) /\ Len(Picked(s, I)) <= Len(s)
           /\ \A x : x \in Members(Picked(s, I)) <=> \E i \in 1..Len(s) : i \in I /\ s[i] = x
<1> DEFINE w == Picked(s, I)
<1>1. w \in Seq(T) /\ \E g : PickedUpTo(w, s, I, Len(s), g)
  BY PickedOrder
<1> HIDE DEF w
<1>2. PICK g : PickedUpTo(w, s, I, Len(s), g)
  BY <1>1
<1>3. \A i \in 1..Len(w) : g[i] \in 1..Len(s) /\ g[i] \in I /\ w[i] = s[g[i]]
  BY <1>2 DEF PickedUpTo
<1>4. \A k \in 1..Len(s) : k \in I => \E i \in 1..Len(w) : g[i] = k
  BY <1>2 DEF PickedUpTo
<1>5. \A x : x \in Members(w) <=> \E i \in 1..Len(w) : w[i] = x
  BY DEF Members
<1>6. \A x : x \in Members(w) <=> \E i \in 1..Len(s) : i \in I /\ s[i] = x
  BY <1>3, <1>4, <1>5
<1>7. Len(w) <= Len(s)
  BY <1>2 DEF PickedUpTo
<1> QED BY <1>1, <1>6, <1>7 DEF w

LEMMA PickedAscends ==
    ASSUME NEW s \in Seq(Frame), NEW I, Ascends(s)
    PROVE  Ascends(Picked(s, I))
<1> DEFINE w == Picked(s, I)
<1>1. \E g : PickedUpTo(w, s, I, Len(s), g)
  BY PickedOrder
<1> HIDE DEF w
<1>2. PICK g : PickedUpTo(w, s, I, Len(s), g)
  BY <1>1
<1>3. \A i \in 1..Len(w) : g[i] \in 1..Len(s) /\ w[i] = s[g[i]]
  BY <1>2 DEF PickedUpTo
<1>4. \A i, j \in 1..Len(w) : i < j => g[i] < g[j]
  BY <1>2 DEF PickedUpTo
<1>5. Ascends(w)
  BY <1>3, <1>4 DEF Ascends
<1> QED BY <1>5 DEF w

(* With a place every later one is picked: numbers that go on by one do so   *)
(* still, up to the last.                                                    *)
LEMMA PickedFrom ==
    ASSUME NEW s \in Seq(Frame), NEW I, Consecutive(s),
           \A i, k \in 1..Len(s) : i < k /\ i \in I => k \in I
    PROVE  /\ Consecutive(Picked(s, I))
           /\ Picked(s, I) # <<>> => Picked(s, I)[Len(Picked(s, I))] = s[Len(s)]
           /\ 1 \in I /\ s # <<>> => Picked(s, I) # <<>> /\ Picked(s, I)[1] = s[1]
<1> DEFINE w == Picked(s, I)
           m == Len(w)
           n == Len(s)
<1>1. w \in Seq(Frame) /\ \E g : PickedUpTo(w, s, I, n, g)
  BY PickedOrder
<1>2. m \in Nat /\ n \in Nat /\ (w # <<>> => m # 0) /\ (s # <<>> => n # 0)
  BY <1>1, LenProperties, MembersOf
<1>0. \A i \in 1..n : i < n => s[i + 1].seq = s[i].seq + 1
  BY DEF Consecutive
<1> HIDE DEF w, m, n
<1>3. PICK g : PickedUpTo(w, s, I, n, g)
  BY <1>1
<1>4. \A i \in 1..m : g[i] \in 1..n /\ g[i] \in I /\ w[i] = s[g[i]]
  BY <1>3 DEF PickedUpTo, m
<1>5. \A i, j \in 1..m : i < j => g[i] < g[j]
  BY <1>3 DEF PickedUpTo, m
<1>6. \A k \in 1..n : k \in I => \E i \in 1..m : g[i] = k
  BY <1>3 DEF PickedUpTo, m
<1>7. ASSUME NEW i \in 1..m, i < m PROVE g[i + 1] = g[i] + 1 /\ g[i] < n
  <2>1. i + 1 \in 1..m /\ i < i + 1
    BY <1>2, <1>7
  <2>2. g[i] < g[i + 1] /\ g[i] \in 1..n /\ g[i + 1] \in 1..n
    BY <1>4, <1>5, <2>1
  <2>3. g[i] + 1 \in 1..n /\ g[i] < g[i] + 1
    BY <1>2, <2>2
  <2>4. g[i] + 1 \in I
    BY <1>4, <2>2, <2>3 DEF n
  <2>5. PICK j \in 1..m : g[j] = g[i] + 1
    BY <1>6, <2>3, <2>4
  <2>6. ~(j < i) /\ j # i
    BY <1>4, <1>5, <2>2, <2>3, <2>5
  <2>7. ~(i + 1 < j)
    <3>1. ~(g[i + 1] < g[i] + 1)
      BY <2>2
    <3> QED BY <1>5, <2>1, <2>5, <3>1
  <2>8. j = i + 1
    BY <1>2, <2>1, <2>6, <2>7
  <2> QED BY <1>2, <2>2, <2>5, <2>8
<1>8. Consecutive(w)
  <2>1. ASSUME NEW i \in 1..m, i < m PROVE w[i + 1].seq = w[i].seq + 1
    <3>1. i + 1 \in 1..m
      BY <1>2, <2>1
    <3>2. g[i] \in 1..n /\ g[i] < n /\ w[i] = s[g[i]] /\ w[i + 1] = s[g[i] + 1]
      BY <1>4, <1>7, <2>1, <3>1
    <3> QED BY <1>0, <3>2
  <2> QED BY <2>1 DEF Consecutive, m
<1>9. ASSUME w # <<>> PROVE w[m] = s[n]
  <2>1. m \in 1..m /\ g[m] \in 1..n /\ w[m] = s[g[m]]
    BY <1>2, <1>4, <1>9
  <2>2. ASSUME g[m] < n PROVE FALSE
    <3>1. n \in 1..n /\ n \in I
      BY <1>2, <1>4, <2>1, <2>2 DEF n
    <3>2. PICK j \in 1..m : g[j] = n
      BY <1>6, <3>1
    <3>3. j < m
      BY <1>2, <2>1, <2>2, <3>2
    <3> QED BY <1>2, <1>5, <2>1, <2>2, <3>2, <3>3
  <2>3. g[m] = n
    BY <1>2, <2>1, <2>2
  <2> QED BY <2>1, <2>3
<1>10. ASSUME 1 \in I, s # <<>> PROVE w # <<>> /\ w[1] = s[1]
  <2>1. 1 \in 1..n
    BY <1>2, <1>10
  <2>2. PICK j \in 1..m : g[j] = 1
    BY <1>6, <1>10, <2>1
  <2>3. 1 \in 1..m /\ g[1] \in 1..n
    BY <1>2, <1>4, <2>2
  <2>4. ~(1 < j)
    BY <1>2, <1>5, <2>2, <2>3
  <2>5. j = 1
    BY <1>2, <2>4
  <2>6. w[1] = s[1]
    BY <1>4, <2>2, <2>3, <2>5
  <2>7. w # <<>>
    BY <2>3, EmptySeq DEF m
  <2> QED BY <2>6, <2>7
<1> QED BY <1>8, <1>9, <1>10 DEF w, m, n

(* The frames with a number over n. *)
Over(s, n) == Picked(s, {i \in DOMAIN s : s[i].seq > n})

LEMMA OverFacts ==
    ASSUME NEW s \in Seq(Frame), Ascends(s), NEW n \in Nat
    PROVE  /\ Over(s, n) \in Seq(Frame) /\ Len(Over(s, n)) <= Len(s) /\ Ascends(Over(s, n))
           /\ \A f : f \in Members(Over(s, n)) <=> f \in Members(s) /\ n < f.seq
           /\ Consecutive(s) => Consecutive(Over(s, n))
           /\ Over(s, n) # <<>> => Over(s, n)[Len(Over(s, n))] = s[Len(s)]
<1> DEFINE I == {i \in DOMAIN s : s[i].seq > n}
<1>1. Len(s) \in Nat /\ DOMAIN s = 1..Len(s) /\ \A i \in 1..Len(s) : s[i] \in Frame
  BY LenProperties, ElementOfSeq
<1>2. \A i \in 1..Len(s) : s[i].seq \in Nat
  BY <1>1, FrameFields
<1>3. \A i \in 1..Len(s) : i \in I <=> n < s[i].seq
  BY <1>1, <1>2
<1>4. \A i, k \in 1..Len(s) : i < k /\ i \in I => k \in I
  BY <1>2, <1>3 DEF Ascends
<1>5. Over(s, n) = Picked(s, I)
  BY DEF Over
<1> HIDE DEF I
<1>6. \A f : f \in Members(Picked(s, I)) <=> f \in Members(s) /\ n < f.seq
  <2>1. \A f : f \in Members(Picked(s, I)) <=> \E i \in 1..Len(s) : i \in I /\ s[i] = f
    BY PickedMembers
  <2>2. \A f : f \in Members(s) <=> \E i \in 1..Len(s) : s[i] = f
    BY MembersOf
  <2> QED BY <1>3, <2>1, <2>2
<1>7. Picked(s, I) \in Seq(Frame) /\ Len(Picked(s, I)) <= Len(s)
  BY PickedMembers
<1>8. Ascends(Picked(s, I))
  BY PickedAscends
<1>9. Consecutive(s) => Consecutive(Picked(s, I))
  BY <1>4, PickedFrom
<1>10. ASSUME Picked(s, I) # <<>> PROVE Picked(s, I)[Len(Picked(s, I))] = s[Len(s)]
  <2> DEFINE w == Picked(s, I)
             m == Len(w)
  <2>1. w \in Seq(Frame) /\ \E g : PickedUpTo(w, s, I, Len(s), g)
    BY PickedOrder
  <2>2. m \in Nat \ {0}
    BY <1>10, <2>1, EmptySeq
  <2> HIDE DEF w, m
  <2>3. PICK g : PickedUpTo(w, s, I, Len(s), g)
    BY <2>1
  <2>4. m \in 1..m /\ g[m] \in 1..Len(s) /\ g[m] \in I /\ w[m] = s[g[m]]
    BY <2>2, <2>3 DEF PickedUpTo, m
  <2>5. ASSUME g[m] < Len(s) PROVE FALSE
    <3>1. Len(s) \in 1..Len(s) /\ Len(s) \in I
      BY <1>1, <1>4, <2>4, <2>5
    <3>2. PICK j \in 1..m : g[j] = Len(s)
      BY <2>3, <3>1 DEF PickedUpTo, m
    <3>3. j < m
      BY <2>2, <2>4, <2>5, <3>2
    <3> QED BY <1>1, <2>3, <2>4, <2>5, <3>2, <3>3 DEF PickedUpTo, m
  <2>6. g[m] = Len(s)
    BY <1>1, <2>4, <2>5
  <2> QED BY <2>4, <2>6 DEF w, m
<1> QED BY <1>5, <1>6, <1>7, <1>8, <1>9, <1>10

(* The last KEPT of a sequence: what it forgets is older than all it keeps. *)
LEMMA KeptFacts ==
    ASSUME NEW s \in Seq(Frame), Ascends(s)
    PROVE  /\ LastKept(s) \in Seq(Frame) /\ Len(LastKept(s)) <= KEPT /\ Ascends(LastKept(s))
           /\ Members(LastKept(s)) \subseteq Members(s)
           /\ \A f \in Members(s) : Remembered(f, LastKept(s))
           /\ Consecutive(s) => Consecutive(LastKept(s))
           /\ s # <<>> => LastKept(s) # <<>> /\ LastKept(s)[Len(LastKept(s))] = s[Len(s)]
<1> DEFINE n == Len(s)
           m == IF n > KEPT THEN n - KEPT + 1 ELSE 1
           w == LastKept(s)
<1>1. n \in Nat /\ KEPT \in Nat \ {0} /\ \A i \in 1..n : s[i] \in Frame
  BY LimitAssumption, LenProperties, ElementOfSeq
<1>2. w = SubSeq(s, m, n)
  BY DEF LastKept
<1>3. m \in Int /\ n \in Int /\ 1 <= m /\ (n # 0 => m <= n) /\ (n = 0 => m = 1) /\ n - m + 1 <= KEPT
      /\ n - m + 1 \in Nat
  BY <1>1
<1>4. \A i \in 1..n : s[i].seq \in Nat
  BY <1>1, FrameFields
<1> HIDE DEF w, m, n
<1>5. \A i \in m..n : i \in 1..n /\ s[i] \in Frame
  BY <1>1, <1>3
<1>6. /\ w \in Seq(Frame) /\ Len(w) = n - m + 1
      /\ \A i \in 1..(n - m + 1) : w[i] = s[m + i - 1]
  <2>1. /\ SubSeq(s, m, n) \in Seq(Frame) /\ Len(SubSeq(s, m, n)) = IF m <= n THEN n - m + 1 ELSE 0
        /\ \A i \in 1..(n - m + 1) : SubSeq(s, m, n)[i] = s[m + i - 1]
    BY <1>3, <1>5, SubSeqProperties
  <2>2. (IF m <= n THEN n - m + 1 ELSE 0) = n - m + 1
    BY <1>1, <1>3
  <2> QED BY <1>2, <2>1, <2>2
<1>7. \A i \in 1..Len(w) : m + i - 1 \in 1..n /\ w[i] = s[m + i - 1]
  BY <1>1, <1>3, <1>6
<1>8. \A k \in m..n : k - m + 1 \in 1..Len(w) /\ w[k - m + 1] = s[k]
  <2> TAKE k \in m..n
  <2>1. k - m + 1 \in 1..(n - m + 1) /\ m + (k - m + 1) - 1 = k
    BY <1>3
  <2> QED BY <1>6, <2>1
<1>9. Ascends(w)
  <2>1. \A i, k \in 1..Len(w) : i < k => m + i - 1 < m + k - 1
    BY <1>3, <1>6
  <2>2. \A i, k \in 1..n : i < k => s[i].seq < s[k].seq
    BY DEF Ascends, n
  <2> QED BY <1>7, <2>1, <2>2 DEF Ascends
<1>10. Members(w) \subseteq Members(s)
  BY <1>7 DEF Members, n
<1>11. ASSUME NEW f \in Members(s) PROVE Remembered(f, w)
  <2>1. PICK k \in 1..n : s[k] = f
    BY <1>11 DEF Members, n
  <2>2. CASE m <= k
    <3>1. k \in m..n
      BY <1>1, <1>3, <2>2
    <3> QED BY <1>8, <2>1, <3>1 DEF Remembered, Members
  <2>3. CASE k < m
    <3>1. \A i \in 1..Len(w) : k < m + i - 1
      BY <1>1, <1>3, <1>6, <2>3
    <3>2. \A g \in Members(w) : f.seq < g.seq
      BY <1>7, <2>1, <3>1 DEF Members, Ascends, n
    <3>3. n \in m..n
      BY <1>1, <1>3, <2>1
    <3>4. w # <<>>
      BY <1>6, <1>8, <3>3, EmptySeq
    <3> QED BY <3>2, <3>4 DEF Remembered
  <2> QED BY <1>1, <1>3, <2>2, <2>3
<1>12. Consecutive(s) => Consecutive(w)
  <2>1. \A i \in 1..Len(w) : i < Len(w) => /\ i + 1 \in 1..Len(w) /\ m + i - 1 < n
                                          /\ m + (i + 1) - 1 = (m + i - 1) + 1
    BY <1>1, <1>3, <1>6
  <2>2. ASSUME Consecutive(s), NEW i \in 1..Len(w), i < Len(w) PROVE w[i + 1].seq = w[i].seq + 1
    <3> DEFINE k == m + i - 1
    <3>1. w[i] = s[k] /\ k \in 1..n /\ k < n
      BY <1>7, <2>1, <2>2
    <3>2. w[i + 1] = s[m + (i + 1) - 1] /\ m + (i + 1) - 1 = k + 1
      BY <1>7, <2>1, <2>2
    <3> HIDE DEF k
    <3>3. w[i + 1] = s[k + 1]
      BY <3>2
    <3>4. s[k + 1].seq = s[k].seq + 1
      BY <2>2, <3>1 DEF Consecutive, n
    <3> QED BY <3>1, <3>3, <3>4
  <2> QED BY <2>2 DEF Consecutive
<1>13. ASSUME s # <<>> PROVE w # <<>> /\ w[Len(w)] = s[n]
  <2>1. n # 0
    BY <1>13, MembersOf DEF n
  <2>2. n \in m..n /\ n - m + 1 = Len(w)
    BY <1>1, <1>3, <1>6, <2>1
  <2>3. Len(w) \in 1..Len(w) /\ w[Len(w)] = s[n]
    BY <1>8, <2>2
  <2> QED BY <2>3, EmptySeq
<1> QED BY <1>3, <1>6, <1>9, <1>10, <1>11, <1>12, <1>13 DEF w, n

-----------------------------------------------------------------------------
(* What a session writes when it takes its queue. *)

LEMMA ConnFields ==
    ASSUME NEW q \in ConnType
    PROVE  /\ q.st \in {"unused", "open", "ending", "closed", "gone"} /\ q.sub \in BOOLEAN
           /\ q.items \in Seq(ItemType) /\ q.overflowed \in BOOLEAN /\ q.seq \in Nat
           /\ q.sent \in Seq(Frame) /\ q.first \in BOOLEAN
BY DEF ConnType

LEMMA ItemFields ==
    ASSUME NEW x \in ItemType
    PROVE  /\ x.kind \in {"notification", "gap", "closing", "refused"}
           /\ x.entity \in Entities \cup {NoEntity} /\ x.change \in 0..MaxChanges
BY DEF ItemType

(* The frames go on after the number n, and tell what is queued, an entity   *)
(* once.                                                                     *)
Numbered(F, n, items) ==
    /\ \A i \in 1..Len(F) : /\ F[i].seq = n + i /\ F[i].to = n + i
                            /\ F[i].kind \in {"notification", "gap"}
                            /\ IsNotification(F[i]) =>
                                 \E x \in Notes(items) : x.entity = F[i].entity /\ x.change = F[i].change
    /\ \A i, j \in 1..Len(F) :
         IsNotification(F[i]) /\ IsNotification(F[j]) /\ F[i].entity = F[j].entity => i = j

LEMMA FramesFacts ==
    ASSUME NEW q \in ConnType, Tidy(q)
    PROVE  /\ Frames(q) \in Seq(Frame) /\ Len(Frames(q)) = Len(Told(q)) /\ Len(Told(q)) \in Nat
           /\ Numbered(Frames(q), q.seq, q.items)
           /\ (\A x \in Members(q.items) : x.kind # "gap") =>
                \A i \in 1..Len(Frames(q)) : IsNotification(Frames(q)[i])
           /\ (\A x \in Members(q.items) : x.kind # "gap") /\ Notes(q.items) = {} => Frames(q) = <<>>
<1> DEFINE I == {i \in DOMAIN q.items : /\ q.items[i].kind # "refused"
                                        /\ \A j \in 1..i : q.items[j].kind # "closing"}
           told == Told(q)
           L == Len(q.items)
           m == Len(told)
           F == Frames(q)
<1>1. /\ q.items \in Seq(ItemType) /\ q.seq \in Nat /\ L \in Nat /\ DOMAIN q.items = 1..L
      /\ \A i \in 1..L : q.items[i] \in ItemType
  BY ConnFields, LenProperties, ElementOfSeq
<1>2. told = Picked(q.items, I)
  BY DEF Told
<1>3. told \in Seq(ItemType) /\ \E g : PickedUpTo(told, q.items, I, L, g)
  BY <1>1, <1>2, PickedOrder
<1>4. ASSUME NEW i \in 1..L, i \in I PROVE q.items[i].kind \in {"notification", "gap"}
  <2>1. q.items[i].kind # "refused" /\ i \in 1..i
    BY <1>1, <1>4
  <2>2. q.items[i].kind # "closing"
    BY <1>1, <1>4
  <2> QED BY <1>1, <2>1, <2>2, ItemFields
<1>5. F = [i \in 1..m |-> IF told[i].kind = "gap" THEN gap(q.seq + i, q.seq + i)
                          ELSE Notification(q.seq + i, told[i].entity, told[i].change)]
  BY DEF Frames
<1>6. m \in Nat
  BY <1>3, LenProperties
<1> HIDE DEF I, told, L, m, F
<1>7. PICK g : PickedUpTo(told, q.items, I, L, g)
  BY <1>3
<1>8. ASSUME NEW i \in 1..m
      PROVE  /\ g[i] \in 1..L /\ told[i] = q.items[g[i]] /\ told[i] \in ItemType
             /\ told[i].kind \in {"notification", "gap"} /\ told[i] \in Members(q.items)
  <2>1. g[i] \in 1..L /\ g[i] \in I /\ told[i] = q.items[g[i]]
    BY <1>7 DEF PickedUpTo, m
  <2> QED BY <1>1, <1>4, <2>1 DEF Members, L
<1>9. ASSUME NEW i \in 1..m PROVE q.seq + i \in Nat
  BY <1>1, <1>6
<1>10. ASSUME NEW i \in 1..m
       PROVE  F[i] = IF told[i].kind = "gap" THEN gap(q.seq + i, q.seq + i)
                     ELSE Notification(q.seq + i, told[i].entity, told[i].change)
  BY <1>5
<1>11. ASSUME NEW i \in 1..m
       PROVE  /\ F[i] \in Frame /\ F[i].seq = q.seq + i /\ F[i].to = q.seq + i
              /\ F[i].kind = told[i].kind
              /\ F[i].kind = "notification" => F[i].entity = told[i].entity /\ F[i].change = told[i].change
  <2>1. CASE told[i].kind = "gap"
    <3>1. F[i] = gap(q.seq + i, q.seq + i) /\ 0 \in 0..MaxChanges
      BY <1>10, <2>1, LimitAssumption
    <3> QED BY <1>9, <2>1, <3>1 DEF gap, Frame
  <2>2. CASE told[i].kind = "notification"
    <3>1. F[i] = Notification(q.seq + i, told[i].entity, told[i].change)
      BY <1>10, <2>2
    <3>2. told[i].entity \in Entities \cup {NoEntity} /\ told[i].change \in 0..MaxChanges
      BY <1>8, ItemFields
    <3> QED BY <1>9, <2>2, <3>1, <3>2 DEF Notification, Frame
  <2> QED BY <1>8, <2>1, <2>2
<1>12. F \in Seq(Frame) /\ Len(F) = m
  <2>1. F \in [1..m -> Frame]
    BY <1>5, <1>11
  <2>2. F \in Seq(Frame)
    BY <1>6, <2>1, SeqDef
  <2>3. DOMAIN F = 1..m /\ DOMAIN F = 1..Len(F) /\ Len(F) \in Nat
    BY <2>1, <2>2, LenProperties
  <2> QED BY <1>6, <2>2, <2>3
<1>13. Numbered(F, q.seq, q.items)
  <2>1. ASSUME NEW i \in 1..m, IsNotification(F[i])
        PROVE  \E x \in Notes(q.items) : x.entity = F[i].entity /\ x.change = F[i].change
    <3>1. told[i].kind = "notification" /\ told[i] \in Members(q.items)
      BY <1>8, <1>11, <2>1 DEF IsNotification
    <3> QED BY <1>11, <2>1, <3>1 DEF Notes, IsNotification
  <2>2. ASSUME NEW i \in 1..m, NEW j \in 1..m, IsNotification(F[i]), IsNotification(F[j]),
               F[i].entity = F[j].entity
        PROVE  i = j
    <3>1. IsNotification(told[i]) /\ IsNotification(told[j]) /\ told[i].entity = told[j].entity
      BY <1>11, <2>2 DEF IsNotification
    <3>2. g[i] = g[j]
      BY <1>8, <3>1 DEF Tidy, L
    <3>3. \A a, b \in 1..m : a < b => g[a] < g[b]
      BY <1>7 DEF PickedUpTo, m
    <3>4. g[i] \in Nat /\ g[j] \in Nat
      BY <1>1, <1>8
    <3>5. ~(i < j) /\ ~(j < i)
      BY <3>2, <3>3, <3>4
    <3> QED BY <1>6, <3>5
  <2> QED BY <1>8, <1>11, <1>12, <2>1, <2>2 DEF Numbered
<1>14. (\A x \in Members(q.items) : x.kind # "gap") => \A i \in 1..m : IsNotification(F[i])
  BY <1>8, <1>11 DEF IsNotification
<1>15. (\A x \in Members(q.items) : x.kind # "gap") /\ Notes(q.items) = {} => F = <<>>
  <2>1. SUFFICES ASSUME \A x \in Members(q.items) : x.kind # "gap", Notes(q.items) = {}, m # 0
                 PROVE  FALSE
    BY <1>6, <1>12, MembersOf
  <2>2. 1 \in 1..m
    BY <1>6, <2>1
  <2>3. told[1] \in Notes(q.items)
    BY <1>8, <2>1, <2>2 DEF Notes, IsNotification
  <2> QED BY <2>1, <2>3
<1> QED BY <1>6, <1>12, <1>13, <1>14, <1>15 DEF told, m, F

Written(q) == Frames(q) \o OverflowGap(q)

KeptOn(q) == LastKept(q.sent \o Picked(Frames(q), Notifications(Frames(q))))

LEMMA OneFrame ==
    ASSUME NEW f \in Frame
    PROVE  /\ <<f>> \in Seq(Frame) /\ Len(<<f>>) = 1 /\ <<f>>[1] = f /\ Members(<<f>>) = {f}
<1>1. <<f>> \in Seq(Frame) /\ Len(<<f>>) = 1 /\ <<f>>[1] = f
  OBVIOUS
<1> DEFINE s == <<f>>
<1>2. s \in Seq(Frame) /\ Len(s) = 1 /\ s[1] = f
  BY <1>1
<1> HIDE DEF s
<1>3. Members(s) = {f}
  BY <1>2 DEF Members
<1> QED BY <1>1, <1>3 DEF s

LEMMA JoinedFrame ==
    ASSUME NEW s \in Seq(Frame), NEW f \in Frame
    PROVE  /\ s \o <<f>> \in Seq(Frame) /\ Len(s \o <<f>>) = Len(s) + 1
           /\ (s \o <<f>>)[Len(s) + 1] = f
           /\ \A i \in 1..Len(s) : (s \o <<f>>)[i] = s[i]
           /\ Members(s \o <<f>>) = Members(s) \cup {f}
<1>1. PICK u \in Seq(Frame) : u = <<f>> /\ Len(u) = 1 /\ u[1] = f /\ Members(u) = {f}
  BY OneFrame
<1>2. 1 \in 1..Len(u)
  BY <1>1
<1>3. /\ s \o u \in Seq(Frame) /\ Len(s \o u) = Len(s) + Len(u)
      /\ \A i \in 1..Len(s) : (s \o u)[i] = s[i]
      /\ \A i \in 1..Len(u) : (s \o u)[Len(s) + i] = u[i]
      /\ Members(s \o u) = Members(s) \cup Members(u)
  BY Joined
<1>4. (s \o u)[Len(s) + 1] = f
  BY <1>1, <1>2, <1>3
<1>5. Len(s \o u) = Len(s) + 1 /\ Members(s \o u) = Members(s) \cup {f}
  BY <1>1, <1>3
<1> QED BY <1>1, <1>3, <1>4, <1>5

LEMMA NoFrame == <<>> \in Seq(Frame) /\ Len(<<>>) = 0 /\ Members(<<>>) = {}
BY EmptySeq, MembersOf

LEMMA GapIsFrame ==
    ASSUME NEW n \in Nat, NEW k \in Nat
    PROVE  /\ gap(n, k) \in Frame /\ gap(n, k).kind = "gap" /\ gap(n, k).seq = n /\ gap(n, k).to = k
           /\ ~IsNotification(gap(n, k)) /\ gap(n, k) # Result(200) /\ gap(n, k) # Result(404)
<1>1. 0 \in 0..MaxChanges
  BY LimitAssumption
<1>2. gap(n, k).kind = "gap" /\ gap(n, k).seq = n /\ gap(n, k).to = k
  BY DEF gap
<1>3. gap(n, k) \in Frame
  BY <1>1 DEF gap, Frame
<1>4. Result(200).kind = "result" /\ Result(404).kind = "result"
  BY DEF Result
<1> QED BY <1>2, <1>3, <1>4 DEF IsNotification

LEMMA ResultIsFrame ==
    /\ Result(200) \in Frame /\ Result(404) \in Frame /\ Result(200) # Result(404)
    /\ Result(200).kind = "result" /\ Result(404).kind = "result"
    /\ ~IsNotification(Result(200)) /\ ~IsNotification(Result(404))
<1>1. 0 \in 0..MaxChanges
  BY LimitAssumption
<1>2. Result(200).kind = "result" /\ Result(404).kind = "result" /\ Result(200).seq = 200
      /\ Result(404).seq = 404
  BY DEF Result
<1>3. Result(200) \in Frame /\ Result(404) \in Frame
  BY <1>1 DEF Result, Frame
<1> QED BY <1>2, <1>3 DEF IsNotification

(* The x-gap of an overflow is one frame more. *)
LEMMA WrittenFacts ==
    ASSUME NEW q \in ConnType, Tidy(q)
    PROVE  /\ Written(q) \in Seq(Frame) /\ Len(Written(q)) \in Nat
           /\ Numbered(Written(q), q.seq, q.items)
           /\ Notes(Written(q)) = Notes(Frames(q))
           /\ ~q.overflowed => Written(q) = Frames(q)
           /\ Len(Frames(q)) <= Len(Written(q)) /\ Len(Written(q)) <= Len(Frames(q)) + 1
<1> DEFINE F == Frames(q)
           G == OverflowGap(q)
           m == Len(F)
           n == q.seq + m + 1
<1>1. F \in Seq(Frame) /\ m \in Nat /\ m = Len(Told(q)) /\ Numbered(F, q.seq, q.items)
  BY FramesFacts
<1>2. q.seq \in Nat /\ n \in Nat
  BY <1>1, ConnFields
<1>3. CASE ~q.overflowed
  <2>1. G = <<>>
    BY <1>3 DEF OverflowGap
  <2>2. Written(q) = F
    BY <1>1, <2>1, ConcatEmptySeq DEF Written
  <2> QED BY <1>1, <1>3, <2>2
<1>4. CASE q.overflowed
  <2> DEFINE f == gap(n, n)
  <2>1. G = <<f>>
    BY <1>1, <1>4 DEF OverflowGap
  <2>2. f \in Frame /\ f.kind = "gap" /\ f.seq = n /\ f.to = n /\ ~IsNotification(f)
    BY <1>2, GapIsFrame
  <2> HIDE DEF f
  <2>3. /\ F \o <<f>> \in Seq(Frame) /\ Len(F \o <<f>>) = m + 1 /\ (F \o <<f>>)[m + 1] = f
        /\ \A i \in 1..m : (F \o <<f>>)[i] = F[i]
        /\ Members(F \o <<f>>) = Members(F) \cup {f}
    BY <1>1, <2>2, JoinedFrame
  <2> DEFINE v == F \o <<f>>
  <2>4. /\ v \in Seq(Frame) /\ Len(v) = m + 1 /\ v[m + 1] = f /\ \A i \in 1..m : v[i] = F[i]
        /\ Members(v) = Members(F) \cup {f}
    BY <2>3
  <2>5. Written(q) = v
    BY <2>1 DEF Written
  <2>6. n = q.seq + m + 1 /\ m \in Nat /\ q.seq \in Nat
    BY <1>1, <1>2
  <2> HIDE DEF v, n, m
  <2>8. \A i \in 1..Len(v) : (i \in 1..m /\ v[i] = F[i]) \/ (i = m + 1 /\ v[i] = f)
    BY <1>1, <2>4
  <2>9. Numbered(v, q.seq, q.items)
    <3>1. ASSUME NEW i \in 1..Len(v)
          PROVE  /\ v[i].seq = q.seq + i /\ v[i].to = q.seq + i /\ v[i].kind \in {"notification", "gap"}
                 /\ IsNotification(v[i]) =>
                      \E x \in Notes(q.items) : x.entity = v[i].entity /\ x.change = v[i].change
      <4>1. CASE i \in 1..m /\ v[i] = F[i]
        BY <1>1, <4>1 DEF Numbered, m
      <4>2. CASE i = m + 1 /\ v[i] = f
        <5>1. n = q.seq + i
          BY <2>6, <4>2
        <5> QED BY <2>2, <4>2, <5>1
      <4> QED BY <2>8, <4>1, <4>2
    <3>2. ASSUME NEW i \in 1..Len(v), NEW j \in 1..Len(v), IsNotification(v[i]), IsNotification(v[j]),
                 v[i].entity = v[j].entity
          PROVE  i = j
      <4>1. i \in 1..m /\ v[i] = F[i] /\ j \in 1..m /\ v[j] = F[j]
        BY <2>2, <2>8, <3>2
      <4> QED BY <1>1, <3>2, <4>1 DEF Numbered, m
    <3> QED BY <3>1, <3>2 DEF Numbered
  <2>10. Notes(v) = Notes(F)
    BY <2>2, <2>4 DEF Notes
  <2> QED BY <1>1, <1>4, <2>4, <2>5, <2>9, <2>10 DEF m
<1> QED BY <1>3, <1>4

LEMMA KeptOnFacts ==
    ASSUME NEW q \in ConnType, Tidy(q), \A f \in Members(q.sent) : f.seq <= q.seq
    PROVE  /\ KeptOn(q) \in Seq(Frame) /\ Len(KeptOn(q)) <= KEPT /\ Ascends(KeptOn(q))
           /\ Members(KeptOn(q)) \subseteq Members(q.sent) \cup Notes(Frames(q))
           /\ \A f \in Notes(Frames(q)) : Remembered(f, KeptOn(q))
           /\ \A f \in Frame : Remembered(f, q.sent) => Remembered(f, KeptOn(q))
           /\ KeptByOne(q) /\ q.st = "open" =>
                /\ Consecutive(KeptOn(q))
                /\ KeptOn(q) # <<>> => KeptOn(q)[Len(KeptOn(q))].seq = q.seq + Len(Frames(q))
<1> DEFINE F == Frames(q)
           I == Notifications(F)
           N == Picked(F, I)
           s == q.sent
           u == s \o N
           m == Len(s)
<1>1. /\ F \in Seq(Frame) /\ Numbered(F, q.seq, q.items) /\ q.seq \in Nat
      /\ (\A x \in Members(q.items) : x.kind # "gap") => \A i \in 1..Len(F) : IsNotification(F[i])
  BY ConnFields, FramesFacts
<1>2. s \in Seq(Frame) /\ Ascends(s) /\ m \in Nat
  BY ConnFields, LenProperties DEF Tidy
<1>3. KeptOn(q) = LastKept(u)
  BY DEF KeptOn
<1> HIDE DEF F
<1>4. Len(F) \in Nat /\ DOMAIN F = 1..Len(F) /\ \A i \in 1..Len(F) : F[i].seq = q.seq + i /\ F[i] \in Frame
  BY <1>1, LenProperties, ElementOfSeq DEF Numbered
<1>5. Ascends(F)
  BY <1>1, <1>4 DEF Ascends
<1>6. \A i : i \in I <=> i \in 1..Len(F) /\ IsNotification(F[i])
  BY <1>4 DEF Notifications
<1> HIDE DEF I
<1>7. N \in Seq(Frame) /\ Ascends(N) /\ \A x : x \in Members(N) <=> \E i \in 1..Len(F) : i \in I /\ F[i] = x
  BY <1>1, <1>5, PickedMembers, PickedAscends
<1>8. Members(N) = Notes(F)
  <2>1. \A x : x \in Members(F) <=> \E i \in 1..Len(F) : F[i] = x
    BY DEF Members
  <2>2. \A x : x \in Members(N) <=> x \in Notes(F)
    BY <1>6, <1>7, <2>1 DEF Notes
  <2> QED BY <2>2
<1>9. \A f \in Notes(F) : q.seq < f.seq /\ f.seq \in Nat
  BY <1>1, <1>4 DEF Notes, Members
<1>10. /\ u \in Seq(Frame) /\ Len(u) = m + Len(N) /\ Len(N) \in Nat
       /\ \A i \in 1..m : i \in 1..Len(u) /\ u[i] = s[i]
       /\ \A i \in 1..Len(N) : m + i \in 1..Len(u) /\ u[m + i] = N[i]
       /\ \A i \in 1..Len(u) : \/ i \in 1..m
                               \/ (i - m \in 1..Len(N) /\ i = m + (i - m))
       /\ Members(u) = Members(s) \cup Members(N)
  BY <1>2, <1>7, Joined
<1> HIDE DEF N, u, s, m
<1>11. \A i \in 1..m : s[i] \in Members(s) /\ s[i].seq <= q.seq /\ s[i].seq \in Nat
  <2>1. \A i \in 1..m : s[i] \in Members(s) /\ s[i] \in Frame
    BY <1>2, ElementOfSeq DEF Members, m
  <2> QED BY <2>1, FrameFields DEF s
<1>12. \A i \in 1..Len(N) : q.seq < N[i].seq /\ N[i].seq \in Nat
  BY <1>8, <1>9 DEF Members
<1>13. Ascends(u)
  <2>1. ASSUME NEW i \in 1..Len(u), NEW k \in 1..Len(u), i < k PROVE u[i].seq < u[k].seq
    <3>1. CASE i \in 1..m /\ k \in 1..m
      BY <1>2, <1>10, <2>1, <3>1 DEF Ascends, m
    <3>2. CASE i \in 1..m /\ k - m \in 1..Len(N) /\ k = m + (k - m)
      <4>1. u[i] = s[i] /\ u[k] = N[k - m]
        BY <1>10, <3>2
      <4> QED BY <1>1, <1>11, <1>12, <3>2, <4>1
    <3>3. CASE i - m \in 1..Len(N) /\ i = m + (i - m) /\ k - m \in 1..Len(N) /\ k = m + (k - m)
      <4> DEFINE a == i - m
                 b == k - m
      <4>1. a \in 1..Len(N) /\ b \in 1..Len(N) /\ i = m + a /\ k = m + b /\ a < b
        BY <1>2, <1>10, <2>1, <3>3
      <4> HIDE DEF a, b
      <4>2. u[i] = N[a] /\ u[k] = N[b]
        BY <1>10, <4>1
      <4> QED BY <1>7, <4>1, <4>2 DEF Ascends
    <3>4. ~(i - m \in 1..Len(N) /\ k \in 1..m)
      BY <1>2, <1>10, <2>1
    <3> QED BY <1>10, <3>1, <3>2, <3>3, <3>4
  <2> QED BY <2>1 DEF Ascends
<1>14. /\ LastKept(u) \in Seq(Frame) /\ Len(LastKept(u)) <= KEPT /\ Ascends(LastKept(u))
       /\ Members(LastKept(u)) \subseteq Members(u)
       /\ \A f \in Members(u) : Remembered(f, LastKept(u))
       /\ Consecutive(u) => Consecutive(LastKept(u))
       /\ u # <<>> => LastKept(u) # <<>> /\ LastKept(u)[Len(LastKept(u))] = u[Len(u)]
  BY <1>10, <1>13, KeptFacts
<1>15. ASSUME NEW f \in Frame, Remembered(f, s), f \notin Members(s) PROVE Remembered(f, LastKept(u))
  <2>1. s # <<>> /\ \A g \in Members(s) : f.seq < g.seq
    BY <1>15 DEF Remembered
  <2>2. m # 0
    BY <1>2, <2>1, MembersOf DEF m
  <2>3. 1 \in 1..m /\ 1 \in 1..Len(u)
    BY <1>2, <1>10, <2>2
  <2>4. u # <<>>
    BY <1>10, <2>3, EmptySeq
  <2>5. f.seq \in Nat /\ f.seq < s[1].seq /\ s[1].seq <= q.seq /\ s[1].seq \in Nat
    BY <1>11, <2>1, <2>3, FrameFields
  <2>6. \A g \in Members(u) : f.seq < g.seq
    BY <1>1, <1>8, <1>9, <1>10, <2>1, <2>5
  <2> QED BY <1>14, <2>4, <2>6 DEF Remembered
<1>16. ASSUME KeptByOne(q), q.st = "open"
       PROVE  Consecutive(u) /\ (u # <<>> => u[Len(u)].seq = q.seq + Len(F))
  <2>1. Consecutive(s) /\ (s # <<>> => s[m].seq = q.seq) /\ \A i \in 1..Len(F) : IsNotification(F[i])
    BY <1>1, <1>16 DEF KeptByOne, s, m
  <2>2. Consecutive(F)
    <3>1. ASSUME NEW i \in 1..Len(F), i < Len(F) PROVE F[i + 1].seq = F[i].seq + 1
      <4>1. i + 1 \in 1..Len(F)
        BY <1>4, <3>1
      <4>2. F[i].seq = q.seq + i /\ F[i + 1].seq = q.seq + (i + 1)
        BY <1>4, <4>1
      <4> QED BY <1>1, <4>2
    <3> QED BY <3>1 DEF Consecutive
  <2>3. \A i, k \in 1..Len(F) : i < k /\ i \in I => k \in I
    BY <1>6, <2>1
  <2>4. /\ Consecutive(N) /\ (N # <<>> => N[Len(N)] = F[Len(F)])
        /\ 1 \in I /\ F # <<>> => N # <<>> /\ N[1] = F[1]
    BY <1>1, <2>2, <2>3, PickedFrom DEF N
  <2>5. F # <<>> => 1 \in 1..Len(F) /\ Len(F) \in 1..Len(F)
    <3>1. F # <<>> => Len(F) # 0
      BY <1>1, MembersOf
    <3> QED BY <1>4, <3>1
  <2>6. F # <<>> => /\ N # <<>> /\ N[1].seq = q.seq + 1 /\ N[Len(N)].seq = q.seq + Len(F)
    BY <1>4, <1>6, <2>1, <2>4, <2>5
  <2>7. F = <<>> => N = <<>>
    <3>1. F = <<>> => Members(F) = {}
      BY <1>1, MembersOf
    <3>2. Members(N) = {} => N = <<>>
      BY <1>7, MembersOf
    <3> QED BY <1>8, <3>1, <3>2 DEF Notes
  <2>8. CASE F = <<>>
    <3>1. u = s
      BY <1>2, <2>7, <2>8, ConcatEmptySeq DEF u
    <3>2. Len(F) = 0
      BY <2>8, EmptySeq
    <3> QED BY <1>1, <2>1, <3>1, <3>2 DEF m
  <2>9. CASE F # <<>>
    <3>1. Len(N) \in 1..Len(N) /\ 1 \in 1..Len(N)
      <4>1. Len(N) # 0
        BY <1>7, <2>6, <2>9, MembersOf
      <4> QED BY <1>10, <4>1
    <3>2. u[Len(u)] = N[Len(N)]
      BY <1>10, <3>1
    <3>3. ASSUME NEW i \in 1..Len(u), i < Len(u) PROVE u[i + 1].seq = u[i].seq + 1
      <4>1. CASE i \in 1..m /\ i < m
        <5>1. i + 1 \in 1..m
          BY <1>2, <4>1
        <5>2. u[i] = s[i] /\ u[i + 1] = s[i + 1]
          BY <1>10, <4>1, <5>1
        <5> QED BY <2>1, <4>1, <5>2 DEF Consecutive, m
      <4>2. CASE i = m /\ i \in 1..m
        <5>1. u[i] = s[m] /\ u[i + 1] = N[1]
          BY <1>10, <3>1, <4>2
        <5>2. s # <<>>
          BY <4>2, EmptySeq DEF m
        <5> QED BY <2>1, <2>6, <2>9, <5>1, <5>2
      <4>3. CASE i - m \in 1..Len(N) /\ i = m + (i - m)
        <5> DEFINE k == i - m
        <5>1. k \in 1..Len(N) /\ k < Len(N) /\ k + 1 \in 1..Len(N) /\ i = m + k /\ i + 1 = m + (k + 1)
          BY <1>2, <1>10, <3>3, <4>3
        <5> HIDE DEF k
        <5>2. u[i] = N[k] /\ u[i + 1] = N[k + 1]
          BY <1>10, <5>1
        <5> QED BY <2>4, <5>1, <5>2 DEF Consecutive
      <4> QED BY <1>2, <1>10, <3>3, <4>1, <4>2, <4>3
    <3>4. Consecutive(u)
      BY <3>3 DEF Consecutive
    <3> QED BY <2>6, <2>9, <3>2, <3>4
  <2> QED BY <2>8, <2>9
<1>17. ASSUME KeptByOne(q), q.st = "open"
       PROVE  /\ Consecutive(LastKept(u))
              /\ LastKept(u) # <<>> => LastKept(u)[Len(LastKept(u))].seq = q.seq + Len(F)
  <2>1. u = <<>> => LastKept(u) = <<>>
    <3>1. u = <<>> => Members(u) = {}
      BY <1>10, MembersOf
    <3>2. Members(LastKept(u)) = {} => LastKept(u) = <<>>
      BY <1>14, MembersOf
    <3> QED BY <1>14, <3>1, <3>2
  <2> QED BY <1>14, <1>16, <1>17, <2>1
<1> QED BY <1>3, <1>8, <1>10, <1>14, <1>15, <1>17 DEF F, s

-----------------------------------------------------------------------------
(* What the hub queues for a connection. *)

(* Connection r is q with `out` queued, or as it was. *)
Pushed(q, r, out) ==
    /\ r \in ConnType /\ Tidy(r)
    /\ r.st = q.st /\ r.seq = q.seq /\ r.sent = q.sent /\ r.first = q.first
    /\ r.sub \in {q.sub, FALSE}
    /\ \A x \in Members(r.items) : x \in Members(q.items) \/ x = out

LEMMA PushedNot ==
    ASSUME NEW q \in ConnType, Tidy(q), NEW out
    PROVE  Pushed(q, q, out)
BY DEF Pushed

(* One notification of an entity stays one. *)
LEMMA PushFacts ==
    ASSUME NEW q \in ConnType, Tidy(q), q.st = "open", NEW out \in ItemType
    PROVE  Pushed(q, Push(q, out), out) /\ Push(q, out).sub = q.sub
<1> DEFINE L == Len(q.items)
           same == {i \in DOMAIN q.items :
                      /\ out.kind = "notification" /\ q.items[i].kind = "notification"
                      /\ q.items[i].entity = out.entity}
           r == Push(q, out)
<1>1. /\ q.items \in Seq(ItemType) /\ L \in Nat /\ DOMAIN q.items = 1..L
      /\ \A i \in 1..L : q.items[i] \in ItemType
  BY ConnFields, LenProperties, ElementOfSeq
<1>2. r =
        IF same # {} THEN [q EXCEPT !.items = [i \in DOMAIN q.items |-> IF i \in same THEN out ELSE q.items[i]]]
        ELSE IF L >= MAX_QUEUED THEN [q EXCEPT !.overflowed = TRUE]
        ELSE [q EXCEPT !.items = Append(q.items, out)]
  BY DEF Push, ConnType
<1>3. \A i : i \in same <=> /\ i \in 1..L /\ IsNotification(out) /\ IsNotification(q.items[i])
                            /\ q.items[i].entity = out.entity
  BY <1>1 DEF IsNotification
<1> HIDE DEF same, L, r
<1> SUFFICES Pushed(q, r, out) /\ r.sub = q.sub
  BY DEF r
<1>4. \A i, k \in 1..L : /\ IsNotification(q.items[i]) /\ IsNotification(q.items[k])
                         /\ q.items[i].entity = q.items[k].entity
                         => i = k
  BY DEF Tidy, L
<1>5. ASSUME NEW v \in Seq(ItemType), NEW o \in BOOLEAN,
             \A i, k \in 1..Len(v) : /\ IsNotification(v[i]) /\ IsNotification(v[k])
                                     /\ v[i].entity = v[k].entity
                                     => i = k,
             \A i \in 1..Len(v) : v[i] \in Members(q.items) \/ v[i] = out,
             r = [q EXCEPT !.items = v, !.overflowed = o]
      PROVE  Pushed(q, r, out) /\ r.sub = q.sub
  <2>1. /\ r \in ConnType /\ r.st = q.st /\ r.seq = q.seq /\ r.sent = q.sent /\ r.first = q.first
        /\ r.sub = q.sub /\ r.items = v
    BY <1>5 DEF ConnType
  <2>2. Ascends(r.sent) /\ Len(r.sent) <= KEPT /\ r.st = "open"
    BY <2>1 DEF Tidy
  <2>3. Tidy(r)
    BY <1>5, <2>1, <2>2 DEF Tidy
  <2>4. \A x \in Members(v) : x \in Members(q.items) \/ x = out
    BY <1>5 DEF Members
  <2> QED BY <2>1, <2>3, <2>4 DEF Pushed
<1>6. \A i \in 1..L : q.items[i] \in Members(q.items)
  BY DEF Members, L
<1>7. CASE same # {}
  <2> DEFINE v == [i \in 1..L |-> IF i \in same THEN out ELSE q.items[i]]
  <2>1. v \in [1..L -> ItemType] /\ \A i \in 1..L : v[i] = IF i \in same THEN out ELSE q.items[i]
    BY <1>1
  <2>2. r = [q EXCEPT !.items = v]
    BY <1>1, <1>2, <1>7
  <2> HIDE DEF v
  <2>3. v \in Seq(ItemType)
    BY <1>1, <2>1, SeqDef
  <2>4. DOMAIN v = 1..L /\ DOMAIN v = 1..Len(v) /\ Len(v) \in Nat
    BY <2>1, <2>3, LenProperties
  <2>5. Len(v) = L
    BY <1>1, <2>4
  <2>6. IsNotification(out)
    BY <1>3, <1>7
  <2>7. \A i \in 1..L : IsNotification(v[i]) => /\ IsNotification(q.items[i])
                                               /\ v[i].entity = q.items[i].entity
    BY <1>3, <2>1
  <2>8. \A i, k \in 1..Len(v) : /\ IsNotification(v[i]) /\ IsNotification(v[k])
                                /\ v[i].entity = v[k].entity
                                => i = k
    BY <1>4, <2>5, <2>7
  <2>9. \A i \in 1..Len(v) : v[i] \in Members(q.items) \/ v[i] = out
    BY <1>6, <2>1, <2>5
  <2>10. q.overflowed \in BOOLEAN /\ [q EXCEPT !.items = v] = [q EXCEPT !.items = v, !.overflowed = q.overflowed]
    BY DEF ConnType
  <2>11. r = [q EXCEPT !.items = v, !.overflowed = q.overflowed]
    BY <2>2, <2>10
  <2> QED BY <1>5, <2>3, <2>8, <2>9, <2>10, <2>11
<1>8. CASE same = {} /\ L >= MAX_QUEUED
  <2>1. r = [q EXCEPT !.items = q.items, !.overflowed = TRUE]
    BY <1>2, <1>8 DEF ConnType
  <2> QED BY <1>1, <1>4, <1>5, <1>6, <2>1 DEF L
<1>9. CASE same = {} /\ ~(L >= MAX_QUEUED)
  <2> DEFINE v == Append(q.items, out)
  <2>1. /\ v \in Seq(ItemType) /\ Len(v) = L + 1 /\ v[L + 1] = out
        /\ \A i \in 1..L : v[i] = q.items[i]
    BY <1>1, AppendProperties DEF L
  <2>2. r = [q EXCEPT !.items = v]
    BY <1>2, <1>9
  <2> HIDE DEF v
  <2>3. \A i \in 1..Len(v) : i = L + 1 \/ i \in 1..L
    BY <1>1, <2>1
  <2>4. ASSUME NEW i \in 1..L, IsNotification(out), IsNotification(q.items[i]),
               q.items[i].entity = out.entity
        PROVE  FALSE
    BY <1>3, <1>9, <2>4
  <2>5. \A i, k \in 1..Len(v) : /\ IsNotification(v[i]) /\ IsNotification(v[k])
                                /\ v[i].entity = v[k].entity
                                => i = k
    BY <1>4, <2>1, <2>3, <2>4
  <2>6. \A i \in 1..Len(v) : v[i] \in Members(q.items) \/ v[i] = out
    BY <1>6, <2>1, <2>3
  <2>7. q.overflowed \in BOOLEAN /\ [q EXCEPT !.items = v] = [q EXCEPT !.items = v, !.overflowed = q.overflowed]
    BY DEF ConnType
  <2>8. r = [q EXCEPT !.items = v, !.overflowed = q.overflowed]
    BY <2>2, <2>7
  <2> QED BY <1>5, <2>1, <2>5, <2>6, <2>7, <2>8
<1> QED BY <1>7, <1>8, <1>9

LEMMA PushedUnsubscribed ==
    ASSUME NEW q \in ConnType, NEW out, NEW r, Pushed(q, r, out), q.st \in {"open", "ending"}
    PROVE  Pushed(q, [r EXCEPT !.sub = FALSE], out)
<1> DEFINE u == [r EXCEPT !.sub = FALSE]
<1>1. r \in ConnType /\ r.st = q.st /\ Tidy(r)
  BY DEF Pushed
<1>2. /\ u \in ConnType /\ u.st = r.st /\ u.seq = r.seq /\ u.sent = r.sent /\ u.first = r.first
      /\ u.sub = FALSE /\ u.items = r.items /\ u.overflowed = r.overflowed
  BY <1>1 DEF ConnType
<1> HIDE DEF u
<1>3. Tidy(u)
  BY <1>1, <1>2 DEF Tidy
<1>4. Pushed(q, u, out)
  BY <1>2, <1>3 DEF Pushed
<1> QED BY <1>4 DEF u

(* The change told next is later than all that are somewhere. *)
LEMMA PushedInOrder ==
    ASSUME NEW q \in ConnType, NEW r, NEW w, NEW out, NEW t \in Nat, NEW k \in Nat,
           InOrder(q, w, t), Pushed(q, r, out), t <= k,
           \A f \in Members(q.sent) \cup Notes(w) : f.change \in Nat,
           \A x \in Notes(q.items) : x.change \in Nat,
           IsNotification(out) => out.entity \in Entities /\ out.change = t + 1 /\ k = t + 1
    PROVE  InOrder(r, w, k)
<1> DEFINE S == Members(q.sent) \cup Notes(w)
<1>1. \A x \in Notes(r.items) : x \in Notes(q.items) \/ (x = out /\ IsNotification(out))
  BY DEF Pushed, Notes
<1>2. r.st = q.st /\ r.seq = q.seq /\ r.sent = q.sent
  BY DEF Pushed
<1>3. /\ \A f \in S : /\ IsNotification(f) /\ f.entity \in Entities /\ f.to = f.seq /\ f.change <= t
                      /\ q.st = "open" => f.seq <= q.seq
      /\ \A f, g \in S : Later(f, g)
  BY DEF InOrder
<1>4. \A x \in Notes(q.items) : x.entity \in Entities /\ x.change <= t
  BY DEF InOrder
<1>5. \A f \in S, x \in Notes(q.items) : f.entity = x.entity => f.change < x.change
  BY DEF InOrder
<1> HIDE DEF S
<1>6. \A f \in S : f.change \in Nat
  BY DEF S
<1>7. \A f \in S : f.change <= k
  BY <1>3, <1>6
<1>8. \A x \in Notes(r.items) : x.entity \in Entities /\ x.change <= k
  BY <1>1, <1>4
<1>9. \A f \in S, x \in Notes(r.items) : f.entity = x.entity => f.change < x.change
  <2> TAKE f \in S, x \in Notes(r.items)
  <2>1. CASE x \in Notes(q.items)
    BY <1>5, <2>1
  <2>2. CASE x = out /\ IsNotification(out)
    BY <1>3, <1>6, <2>2
  <2> QED BY <1>1, <2>1, <2>2
<1> QED BY <1>2, <1>3, <1>7, <1>8, <1>9 DEF InOrder, S

-----------------------------------------------------------------------------
(* What each step does to the connections. *)

(* The hub queues `out` for some connections. *)
QueuesMove(out) ==
    /\ conn' \in [Conns -> ConnType] /\ \A c \in Conns : Pushed(conn[c], conn'[c], out)
    /\ wire' = wire /\ client' = client /\ heard' = heard /\ owed' = owed
    /\ change' \in 0..MaxChanges /\ used' \subseteq Events /\ refused' \in BOOLEAN /\ used \subseteq used'
    /\ IF IsNotification(out)
       THEN /\ out.entity \in Entities /\ out.change = change + 1 /\ change' = change + 1
            /\ \A c \in Conns : ~conn[c].sub => conn'[c] = conn[c]
       ELSE change' = change
    /\ out.kind = "gap" => "gap" \in used'
    /\ (\A c \in Conns : conn'[c].sub = conn[c].sub) \/ "reload" \in used'
    /\ refused' => refused \/ "refusal" \in used'

LEMMA ItemIsItem ==
    ASSUME NEW e \in Entities, NEW k \in 0..MaxChanges
    PROVE  /\ Item(e, k) \in ItemType /\ IsNotification(Item(e, k)) /\ Item(e, k).kind # "gap"
           /\ Item(e, k).entity = e /\ Item(e, k).change = k
BY DEF Item, ItemType, IsNotification

LEMMA SignalIsItem ==
    ASSUME NEW k \in {"gap", "closing", "refused"}
    PROVE  SignalItem(k) \in ItemType /\ ~IsNotification(SignalItem(k)) /\ SignalItem(k).kind = k
BY LimitAssumption DEF SignalItem, ItemType, IsNotification

LEMMA PushToFacts ==
    ASSUME SessionTypes, ConnsInOrder, NEW C, NEW out \in ItemType, NEW c \in Conns
    PROVE  /\ Pushed(conn[c], PushTo(C, out)[c], out) /\ PushTo(C, out)[c].sub = conn[c].sub
           /\ c \notin C => PushTo(C, out)[c] = conn[c]
<1>1. conn[c] \in ConnType /\ Tidy(conn[c])
  BY DEF SessionTypes, ConnsInOrder
<1>2. PushTo(C, out)[c] = IF c \in C /\ conn[c].st = "open" THEN Push(conn[c], out) ELSE conn[c]
  BY DEF PushTo
<1>3. CASE c \in C /\ conn[c].st = "open"
  BY <1>1, <1>2, <1>3, PushFacts
<1>4. CASE ~(c \in C /\ conn[c].st = "open")
  BY <1>1, <1>2, <1>4, PushedNot
<1> QED BY <1>3, <1>4

LEMMA PushToTypes ==
    ASSUME SessionTypes, ConnsInOrder, NEW C, NEW out \in ItemType
    PROVE  PushTo(C, out) \in [Conns -> ConnType]
<1>1. \A c \in Conns : PushTo(C, out)[c] \in ConnType
  BY PushToFacts DEF Pushed
<1>2. PushTo(C, out) = [c \in Conns |-> PushTo(C, out)[c]]
  BY DEF PushTo
<1> QED BY <1>1, <1>2

LEMMA ChangeMoves ==
    ASSUME SessionTypes, ConnsInOrder, NEW e \in Entities, Change(e)
    PROVE  QueuesMove(Item(e, change + 1))
<1> DEFINE C == {c \in Held : conn[c].sub}
           out == Item(e, change + 1)
<1>1. /\ change < MaxChanges /\ change' = change + 1 /\ conn' = PushTo(C, out)
      /\ wire' = wire /\ client' = client /\ heard' = heard /\ owed' = owed
      /\ refused' = refused /\ used' = used
  BY DEF Change, clientVars
<1>2. change \in 0..MaxChanges /\ MaxChanges \in Nat /\ used \subseteq Events /\ refused \in BOOLEAN
  BY LimitAssumption DEF SessionTypes
<1>3. change + 1 \in 0..MaxChanges
  BY <1>1, <1>2
<1>4. out \in ItemType /\ IsNotification(out) /\ out.kind # "gap" /\ out.entity = e /\ out.change = change + 1
  BY <1>3, ItemIsItem
<1>5. \A c \in Conns : ~conn[c].sub => c \notin C
  OBVIOUS
<1> HIDE DEF C, out
<1>6. \A c \in Conns : /\ Pushed(conn[c], PushTo(C, out)[c], out)
                       /\ PushTo(C, out)[c].sub = conn[c].sub
                       /\ c \notin C => PushTo(C, out)[c] = conn[c]
  BY <1>4, PushToFacts
<1>7. PushTo(C, out) \in [Conns -> ConnType]
  BY <1>4, PushToTypes
<1>8. QueuesMove(out)
  BY <1>1, <1>2, <1>3, <1>4, <1>5, <1>6, <1>7 DEF QueuesMove
<1> QED BY <1>8 DEF out

LEMMA HubGapMoves ==
    ASSUME SessionTypes, ConnsInOrder, HubGap
    PROVE  QueuesMove(SignalItem("gap"))
<1> DEFINE out == SignalItem("gap")
<1>1. /\ used' = used \cup {"gap"} /\ "gap" \in Events /\ conn' = PushTo(Held, out)
      /\ wire' = wire /\ client' = client /\ heard' = heard /\ owed' = owed
      /\ refused' = refused /\ change' = change
  BY DEF HubGap, Happens, clientVars
<1>2. change \in 0..MaxChanges /\ used \subseteq Events /\ refused \in BOOLEAN
  BY DEF SessionTypes
<1>3. out \in ItemType /\ ~IsNotification(out) /\ out.kind = "gap"
  BY SignalIsItem
<1> HIDE DEF out
<1>4. \A c \in Conns : /\ Pushed(conn[c], PushTo(Held, out)[c], out)
                       /\ PushTo(Held, out)[c].sub = conn[c].sub
  BY <1>3, PushToFacts
<1>5. PushTo(Held, out) \in [Conns -> ConnType]
  BY <1>3, PushToTypes
<1>6. QueuesMove(out)
  BY <1>1, <1>2, <1>3, <1>4, <1>5 DEF QueuesMove
<1> QED BY <1>6 DEF out

LEMMA RefuseMoves ==
    ASSUME SessionTypes, ConnsInOrder, Refuse
    PROVE  QueuesMove(SignalItem("refused"))
<1> DEFINE out == SignalItem("refused")
<1>1. /\ used' = used \cup {"refusal"} /\ "refusal" \in Events /\ conn' = PushTo(Held, out)
      /\ wire' = wire /\ client' = client /\ heard' = heard /\ owed' = owed
      /\ refused' = TRUE /\ change' = change
  BY DEF Refuse, Happens, clientVars
<1>2. change \in 0..MaxChanges /\ used \subseteq Events
  BY DEF SessionTypes
<1>3. out \in ItemType /\ ~IsNotification(out) /\ out.kind = "refused"
  BY SignalIsItem
<1> HIDE DEF out
<1>4. \A c \in Conns : /\ Pushed(conn[c], PushTo(Held, out)[c], out)
                       /\ PushTo(Held, out)[c].sub = conn[c].sub
  BY <1>3, PushToFacts
<1>5. PushTo(Held, out) \in [Conns -> ConnType]
  BY <1>3, PushToTypes
<1>6. QueuesMove(out)
  BY <1>1, <1>2, <1>3, <1>4, <1>5 DEF QueuesMove
<1> QED BY <1>6 DEF out

LEMMA RecheckMoves ==
    ASSUME SessionTypes, ConnsInOrder, Recheck
    PROVE  QueuesMove(SignalItem("closing"))
<1> DEFINE out == SignalItem("closing")
           P == PushTo(Held, out)
<1>1. /\ used' = used \cup {"reload"} /\ "reload" \in Events
      /\ conn' = [c \in Conns |-> IF c \in Held THEN [P[c] EXCEPT !.sub = FALSE] ELSE conn[c]]
      /\ wire' = wire /\ client' = client /\ heard' = heard /\ owed' = owed
      /\ refused' = refused /\ change' = change
  BY DEF Recheck, Happens, clientVars
<1>2. /\ change \in 0..MaxChanges /\ used \subseteq Events /\ refused \in BOOLEAN
      /\ \A c \in Conns : conn[c] \in ConnType /\ Tidy(conn[c])
  BY DEF SessionTypes, ConnsInOrder
<1>3. out \in ItemType /\ ~IsNotification(out) /\ out.kind = "closing"
  BY SignalIsItem
<1> HIDE DEF out
<1>4. \A c \in Conns : Pushed(conn[c], P[c], out)
  BY <1>3, PushToFacts
<1> HIDE DEF P
<1>5. ASSUME NEW c \in Conns PROVE Pushed(conn[c], conn'[c], out)
  <2>1. CASE c \in Held
    <3>1. conn'[c] = [P[c] EXCEPT !.sub = FALSE] /\ conn[c].st \in {"open", "ending"}
      BY <1>1, <2>1 DEF Held
    <3> QED BY <1>2, <1>4, <3>1, PushedUnsubscribed
  <2>2. CASE c \notin Held
    BY <1>1, <1>2, <2>2, PushedNot
  <2> QED BY <2>1, <2>2
<1>6. conn' \in [Conns -> ConnType]
  <2>1. \A c \in Conns : conn'[c] \in ConnType
    BY <1>5 DEF Pushed
  <2> QED BY <1>1, <2>1
<1>7. QueuesMove(out)
  BY <1>1, <1>2, <1>3, <1>5, <1>6 DEF QueuesMove
<1> QED BY <1>7 DEF out

Gone == [Unused EXCEPT !.st = "gone"]

LEMMA UnusedFields ==
    /\ Unused \in ConnType /\ Gone \in ConnType
    /\ Unused.st = "unused" /\ Gone.st = "gone" /\ ~Unused.sub /\ ~Gone.sub
    /\ Unused.items = <<>> /\ Gone.items = <<>> /\ ~Unused.overflowed /\ ~Gone.overflowed
    /\ Unused.seq = 0 /\ Gone.seq = 0 /\ Unused.sent = <<>> /\ Gone.sent = <<>>
    /\ Unused.first
<1>1. <<>> \in Seq(ItemType) /\ <<>> \in Seq(Frame)
  BY EmptySeq
<1> QED BY <1>1 DEF Unused, Gone, ConnType

(* Only connection c changes. *)
OnlyConn(c) == conn' \in [Conns -> ConnType] /\ \A d \in Conns : d # c => conn'[d] = conn[d]

(* Connection c ends, is held by the hub, or is forgotten. *)
ConnEnds(c) ==
    LET q == conn[c]
        r == conn'[c]
    IN /\ OnlyConn(c) /\ r \in ConnType
       /\ q.st \in {"open", "ending", "closed"} /\ r.st \in {"ending", "closed", "gone"}
       /\ r.items = <<>> /\ ~r.overflowed
       /\ IF r.st = "gone" THEN r = Gone ELSE r.sent = q.sent /\ r.sub = q.sub
       /\ wire' = wire /\ client' = client /\ heard' = heard /\ owed' = owed
       /\ change' = change /\ used' = used /\ refused' = refused

LEMMA EndsFacts ==
    ASSUME SessionTypes, ConnsInOrder, NEW c \in Conns, SessionEnds(c) \/ Close(c) \/ Forget(c)
    PROVE  ConnEnds(c)
<1> DEFINE q == conn[c]
<1>1. q \in ConnType /\ Tidy(q) /\ conn \in [Conns -> ConnType]
  BY DEF SessionTypes, ConnsInOrder
<1>2. <<>> \in Seq(ItemType) /\ 0 \in Nat
  BY EmptySeq
<1>3. CASE SessionEnds(c)
  <2>1. q.st = "open" /\ conn' = [conn EXCEPT ![c] = [Drained(q) EXCEPT !.st = "ending", !.seq = 0]]
    BY <1>1, <1>3 DEF SessionEnds
  <2> DEFINE r == [Drained(q) EXCEPT !.st = "ending", !.seq = 0]
  <2>2. /\ r \in ConnType /\ r.st = "ending" /\ r.items = <<>> /\ ~r.overflowed
        /\ r.sent = q.sent /\ r.sub = q.sub
    BY <1>1, <1>2 DEF Drained, ConnType
  <2> HIDE DEF r
  <2>3. conn' \in [Conns -> ConnType] /\ conn'[c] = r /\ \A d \in Conns : d # c => conn'[d] = conn[d]
    BY <1>1, <2>1, <2>2 DEF r
  <2>4. /\ wire' = wire /\ client' = client /\ heard' = heard /\ owed' = owed
        /\ change' = change /\ used' = used /\ refused' = refused
    BY <1>3 DEF SessionEnds, hubVars, clientVars
  <2> QED BY <2>1, <2>2, <2>3, <2>4 DEF ConnEnds, OnlyConn
<1>4. CASE Close(c)
  <2>1. q.st = "ending" /\ conn' = [conn EXCEPT ![c] = [q EXCEPT !.st = "closed"]]
    BY <1>1, <1>4 DEF Close
  <2> DEFINE r == [q EXCEPT !.st = "closed"]
  <2>2. /\ r \in ConnType /\ r.st = "closed" /\ r.items = <<>> /\ ~r.overflowed
        /\ r.sent = q.sent /\ r.sub = q.sub
    BY <1>1, <2>1 DEF Tidy, ConnType
  <2> HIDE DEF r
  <2>3. conn' \in [Conns -> ConnType] /\ conn'[c] = r /\ \A d \in Conns : d # c => conn'[d] = conn[d]
    BY <1>1, <2>1, <2>2 DEF r
  <2>4. /\ wire' = wire /\ client' = client /\ heard' = heard /\ owed' = owed
        /\ change' = change /\ used' = used /\ refused' = refused
    BY <1>4 DEF Close, hubVars, clientVars
  <2> QED BY <2>1, <2>2, <2>3, <2>4 DEF ConnEnds, OnlyConn
<1>5. CASE Forget(c)
  <2>1. q.st = "closed" /\ conn' = [conn EXCEPT ![c] = Gone]
    BY <1>5 DEF Forget, Gone
  <2>2. conn' \in [Conns -> ConnType] /\ conn'[c] = Gone /\ \A d \in Conns : d # c => conn'[d] = conn[d]
    BY <1>1, <2>1, UnusedFields
  <2>3. /\ wire' = wire /\ client' = client /\ heard' = heard /\ owed' = owed
        /\ change' = change /\ used' = used /\ refused' = refused
    BY <1>5 DEF Forget, hubVars, clientVars
  <2> QED BY <2>1, <2>2, <2>3, UnusedFields DEF ConnEnds, OnlyConn
<1> QED BY <1>3, <1>4, <1>5

(* What is written to a connection, and owed then. *)
Writes(c, F) ==
    /\ wire' \in [Conns -> Seq(Frame)]
    /\ \A d \in Conns : wire'[d] = IF d = c /\ c = client.on THEN wire[c] \o F ELSE wire[d]
    /\ owed' = IF c \in {client.on, client.place} THEN owed \cup Notes(F) ELSE owed

LEMMA WriteFacts ==
    ASSUME SessionTypes, NEW c \in Conns, NEW F \in Seq(Frame), Write(c, F)
    PROVE  Writes(c, F) /\ owed' \subseteq Frame
<1>1. wire \in [Conns -> Seq(Frame)] /\ owed \subseteq Frame
  BY DEF SessionTypes
<1>2. wire[c] \o F \in Seq(Frame)
  BY <1>1, Joined
<1>3. wire' = [wire EXCEPT ![c] = IF c = client.on THEN wire[c] \o F ELSE wire[c]]
  BY <1>1 DEF Write
<1>4. wire' \in [Conns -> Seq(Frame)]
  BY <1>1, <1>2, <1>3
<1>5. \A d \in Conns : wire'[d] = IF d = c /\ c = client.on THEN wire[c] \o F ELSE wire[d]
  BY <1>1, <1>3
<1>6. {F[i] : i \in Notifications(F)} = Notes(F)
  <2>1. DOMAIN F = 1..Len(F)
    BY LenProperties
  <2> QED BY <2>1 DEF Notifications, Notes, Members
<1>7. owed' = IF c \in {client.on, client.place} THEN owed \cup Notes(F) ELSE owed
  BY <1>6 DEF Write
<1>8. Notes(F) \subseteq Frame
  BY MembersOf DEF Notes
<1> QED BY <1>1, <1>4, <1>5, <1>7, <1>8 DEF Writes

(* The session takes its queue. *)
Takes(c) ==
    LET q == conn[c]
        r == conn'[c]
    IN /\ OnlyConn(c) /\ r \in ConnType
       /\ q.st = "open" /\ r.st \in {"open", "ending"}
       /\ r.st = "open" => r.seq = q.seq + Len(Written(q)) /\ ~q.overflowed
       /\ r.items = <<>> /\ ~r.overflowed
       /\ r.sent = KeptOn(q) /\ r.sub = q.sub /\ r.first = q.first
       /\ Writes(c, Written(q)) /\ owed' \subseteq Frame
       /\ client' = client /\ heard' = heard
       /\ change' = change /\ used' = used /\ refused' = refused
       /\ q.overflowed => r.st = "ending"

LEMMA TakeFacts ==
    ASSUME SessionTypes, ConnsInOrder, NEW c \in Conns, Take(c)
    PROVE  Takes(c)
<1> DEFINE q == conn[c]
           r == [Drained(q) EXCEPT !.seq = IF Ends(q) THEN 0 ELSE q.seq + Len(Told(q)),
                                   !.sent = KeptOn(q),
                                   !.st = IF Ends(q) THEN "ending" ELSE "open"]
<1>1. q \in ConnType /\ Tidy(q) /\ conn \in [Conns -> ConnType]
  BY DEF SessionTypes, ConnsInOrder
<1>2. conn' = [conn EXCEPT ![c] = r] /\ q.st = "open"
  BY <1>1 DEF Take, Drained, KeptOn, ConnType
<1>3. /\ Written(q) \in Seq(Frame) /\ (~q.overflowed => Written(q) = Frames(q))
      /\ Len(Told(q)) \in Nat /\ Len(Frames(q)) = Len(Told(q))
  BY <1>1, WrittenFacts, FramesFacts
<1>4. KeptOn(q) \in Seq(Frame)
  <2>1. \A f \in Members(q.sent) : f.seq <= q.seq
    BY <1>2 DEF ConnsInOrder, InOrder
  <2> QED BY <1>1, <2>1, KeptOnFacts
<1>5. q.overflowed => Ends(q)
  BY DEF Ends
<1>6. q.seq \in Nat /\ <<>> \in Seq(ItemType)
  BY <1>1, ConnFields, EmptySeq
<1>7. /\ r \in ConnType /\ r.st = (IF Ends(q) THEN "ending" ELSE "open")
      /\ r.seq = (IF Ends(q) THEN 0 ELSE q.seq + Len(Told(q)))
      /\ r.items = <<>> /\ ~r.overflowed /\ r.sent = KeptOn(q) /\ r.sub = q.sub /\ r.first = q.first
  <2>1. (IF Ends(q) THEN 0 ELSE q.seq + Len(Told(q))) \in Nat
    BY <1>3, <1>6
  <2> QED BY <1>1, <1>4, <1>6, <2>1 DEF Drained, ConnType
<1> HIDE DEF r
<1>8. conn' \in [Conns -> ConnType] /\ conn'[c] = r /\ \A d \in Conns : d # c => conn'[d] = conn[d]
  BY <1>1, <1>2, <1>7
<1>9. /\ Write(c, Written(q)) /\ client' = client /\ heard' = heard
      /\ change' = change /\ used' = used /\ refused' = refused
  BY DEF Take, Written, hubVars
<1>10. Writes(c, Written(q)) /\ owed' \subseteq Frame
  BY <1>3, <1>9, WriteFacts
<1>11. r.st = "open" => ~Ends(q) /\ ~q.overflowed /\ r.seq = q.seq + Len(Written(q))
  BY <1>3, <1>5, <1>7
<1> QED BY <1>2, <1>5, <1>7, <1>8, <1>9, <1>10, <1>11 DEF Takes, OnlyConn

-----------------------------------------------------------------------------
(* What a resumed connection sends again. *)

LastOf(s, n) == IF s # <<>> /\ s[Len(s)].seq > n THEN s[Len(s)].seq ELSE n

LeadOf(s, n) ==
    IF Over(s, n) # <<>> /\ Over(s, n)[1].seq > n + 1 THEN <<gap(n + 1, Over(s, n)[1].seq - 1)>>
    ELSE IF Over(s, n) = <<>> /\ LastOf(s, n) > n THEN <<gap(n + 1, LastOf(s, n))>>
    ELSE <<>>

Again(s, n) == LeadOf(s, n) \o Over(s, n)

(* Its frames go on after n, up to the last number. *)
Onwards(v, n, last) ==
    /\ \A i \in 1..Len(v) : /\ n < v[i].seq /\ v[i].seq <= v[i].to /\ v[i].to <= last
                            /\ v[i].kind \in {"notification", "gap"}
    /\ \A i, j \in 1..Len(v) : i < j => v[i].to < v[j].seq

OneByOne(v, n, last) ==
    /\ \A i \in 1..Len(v) : v[i].seq = 1 + IF i = 1 THEN n ELSE v[i - 1].to
    /\ last = IF Len(v) = 0 THEN n ELSE v[Len(v)].to

LEMMA AgainFacts ==
    ASSUME NEW s \in Seq(Frame), Ascends(s), NEW n \in Nat,
           \A f \in Members(s) : IsNotification(f) /\ f.to = f.seq
    PROVE  /\ Again(s, n) \in Seq(Frame) /\ LastOf(s, n) \in Nat /\ n <= LastOf(s, n)
           /\ Onwards(Again(s, n), n, LastOf(s, n))
           /\ Notes(Again(s, n)) = Members(Over(s, n))
           /\ \A f \in Members(Over(s, n)) : f.seq <= LastOf(s, n)
           /\ Over(s, n) # <<>> => Over(s, n)[Len(Over(s, n))].seq = LastOf(s, n)
           /\ Consecutive(s) => OneByOne(Again(s, n), n, LastOf(s, n))
           /\ \A f \in Frame : n < f.seq /\ s # <<>> /\ (\A g \in Members(s) : f.seq < g.seq)
                => Again(s, n) # <<>> /\ Again(s, n)[1].kind = "gap"
<1> DEFINE M == Over(s, n)
           k == Len(M)
           last == LastOf(s, n)
<1>1. /\ M \in Seq(Frame) /\ Ascends(M) /\ k \in Nat
      /\ \A f : f \in Members(M) <=> f \in Members(s) /\ n < f.seq
      /\ Consecutive(s) => Consecutive(M)
      /\ M # <<>> => M[k] = s[Len(s)]
  BY OverFacts, LenProperties
<1>2. ASSUME NEW i \in 1..k
      PROVE  /\ M[i] \in Frame /\ M[i] \in Members(M) /\ IsNotification(M[i]) /\ M[i].seq = M[i].to
             /\ n < M[i].seq /\ M[i].seq \in Nat /\ M[i].kind = "notification"
  <2>1. M[i] \in Frame /\ M[i] \in Members(M)
    BY <1>1, ElementOfSeq DEF Members
  <2> HIDE DEF M
  <2>2. M[i] \in Members(s) /\ n < M[i].seq
    BY <1>1, <2>1
  <2> QED BY <2>1, <2>2, FrameFields DEF IsNotification
<1>3. s # <<>> => Len(s) \in 1..Len(s) /\ s[Len(s)] \in Frame /\ s[Len(s)] \in Members(s)
  <2>1. s # <<>> => Len(s) \in Nat \ {0}
    BY EmptySeq
  <2>2. s # <<>> => Len(s) \in 1..Len(s)
    BY <2>1
  <2> QED BY <2>2, ElementOfSeq DEF Members
<1>4. last = IF s # <<>> /\ s[Len(s)].seq > n THEN s[Len(s)].seq ELSE n
  BY DEF LastOf
<1>5. Again(s, n) = LeadOf(s, n) \o M
  BY DEF Again
<1>6. LeadOf(s, n) = IF M # <<>> /\ M[1].seq > n + 1 THEN <<gap(n + 1, M[1].seq - 1)>>
                     ELSE IF M = <<>> /\ last > n THEN <<gap(n + 1, last)>>
                     ELSE <<>>
  BY DEF LeadOf
<1> DEFINE A == Again(s, n)
<1> HIDE DEF M, last, A
<1> SUFFICES /\ A \in Seq(Frame) /\ last \in Nat /\ n <= last
             /\ Onwards(A, n, last)
             /\ Notes(A) = Members(M)
             /\ \A f \in Members(M) : f.seq <= last
             /\ M # <<>> => M[k].seq = last
             /\ Consecutive(s) => OneByOne(A, n, last)
             /\ \A f \in Frame : n < f.seq /\ s # <<>> /\ (\A g \in Members(s) : f.seq < g.seq)
                  => A # <<>> /\ A[1].kind = "gap"
  BY DEF M, last, A, k
<1>7. CASE M = <<>>
  <2>1. Members(M) = {} /\ k = 0
    BY <1>1, <1>7, MembersOf
  <2>2. s # <<>> => ~(s[Len(s)].seq > n)
    <3>1. s # <<>> => s[Len(s)].seq \in Nat
      BY <1>3, FrameFields
    <3> QED BY <1>1, <1>3, <2>1, <3>1
  <2>3. last = n
    BY <1>4, <2>2
  <2>4. LeadOf(s, n) = <<>>
    BY <1>6, <1>7, <2>3
  <2>5. A = <<>>
    BY <1>5, <1>7, <2>4, NoFrame, ConcatEmptySeq DEF A
  <2>6. ASSUME NEW f \in Frame, n < f.seq, s # <<>>, \A g \in Members(s) : f.seq < g.seq PROVE FALSE
    <3>1. s[Len(s)].seq \in Nat /\ f.seq \in Nat /\ f.seq < s[Len(s)].seq
      BY <1>3, <2>6, FrameFields
    <3> QED BY <2>2, <2>6, <3>1
  <2>7. Onwards(<<>>, n, n) /\ OneByOne(<<>>, n, n) /\ Notes(<<>>) = {}
    BY NoFrame DEF Onwards, OneByOne, Notes
  <2>8. A \in Seq(Frame) /\ Notes(A) = Members(M) /\ \A f \in Members(M) : f.seq <= last
    BY <2>1, <2>5, <2>7, NoFrame
  <2>9. last \in Nat /\ n <= last
    BY <2>3
  <2>10. Onwards(A, n, last) /\ OneByOne(A, n, last)
    BY <2>3, <2>5, <2>7
  <2> QED BY <1>7, <2>6, <2>8, <2>9, <2>10
<1>8. CASE M # <<>>
  <2>1. k \in Nat \ {0} /\ 1 \in 1..k /\ k \in 1..k
    <3>1. k # 0
      BY <1>1, <1>8, MembersOf DEF M
    <3> QED BY <1>1, <3>1
  <2>2. M[1].seq \in Nat /\ n < M[1].seq /\ M[k].seq \in Nat /\ n < M[k].seq
    BY <1>2, <2>1
  <2>3. s # <<>>
    <3>1. M[1] \in Members(s)
      BY <1>1, <1>2, <2>1
    <3> QED BY <3>1, NoFrame
  <2>4. last = M[k].seq /\ last \in Nat /\ n <= last
    BY <1>1, <1>4, <1>8, <2>2, <2>3
  <2>5. \A i \in 1..k : M[i].seq <= M[k].seq
    <3> TAKE i \in 1..k
    <3>1. i = k \/ i < k
      BY <2>1
    <3> QED BY <1>1, <1>2, <2>1, <3>1 DEF Ascends
  <2>6. \A i \in 1..k : i = 1 \/ M[1].seq < M[i].seq
    <3> TAKE i \in 1..k
    <3>1. i = 1 \/ 1 < i
      BY <2>1
    <3> QED BY <1>1, <1>2, <2>1, <3>1 DEF Ascends
  <2>7. \A f \in Members(M) : f.seq <= last
    BY <2>4, <2>5 DEF Members
  <2>8. \A f \in Members(M) : IsNotification(f)
    BY <1>2 DEF Members
  <2>9. Notes(M) = Members(M)
    BY <2>8 DEF Notes
  <2>10. CASE M[1].seq > n + 1
    <3> DEFINE f == gap(n + 1, M[1].seq - 1)
               v == <<f>> \o M
    <3>1. n + 1 \in Nat /\ M[1].seq - 1 \in Nat
      BY <2>2
    <3>2. /\ f \in Frame /\ f.kind = "gap" /\ f.seq = n + 1 /\ f.to = M[1].seq - 1
          /\ ~IsNotification(f)
      BY <3>1, GapIsFrame
    <3>3. A = v
      BY <1>5, <1>6, <1>8, <2>10 DEF A
    <3> HIDE DEF f
    <3>4. PICK u \in Seq(Frame) : u = <<f>> /\ Len(u) = 1 /\ u[1] = f /\ Members(u) = {f}
      BY <3>2, OneFrame
    <3>5. /\ u \o M \in Seq(Frame) /\ Len(u \o M) = Len(u) + k
          /\ \A i \in 1..Len(u) : (u \o M)[i] = u[i]
          /\ \A i \in 1..k : (u \o M)[Len(u) + i] = M[i]
          /\ Members(u \o M) = Members(u) \cup Members(M)
      BY <1>1, Joined
    <3>6. 1 \in 1..Len(u)
      BY <3>4
    <3>7. /\ v \in Seq(Frame) /\ Len(v) = 1 + k /\ v[1] = f /\ \A i \in 1..k : v[1 + i] = M[i]
          /\ Members(v) = {f} \cup Members(M)
      BY <3>4, <3>5, <3>6
    <3> HIDE DEF v, k
    <3>8. ASSUME NEW i \in 1..Len(v)
          PROVE  i = 1 \/ (i - 1 \in 1..k /\ v[i] = M[i - 1] /\ i # 1)
      <4>1. i # 1 => i - 1 \in 1..k /\ i = 1 + (i - 1)
        BY <2>1, <3>7
      <4> QED BY <3>7, <4>1
    <3>9. Onwards(v, n, last)
      <4>1. ASSUME NEW i \in 1..Len(v)
            PROVE  /\ n < v[i].seq /\ v[i].seq <= v[i].to /\ v[i].to <= last
                   /\ v[i].kind \in {"notification", "gap"}
        <5>1. CASE i = 1
          <6>1. v[i].seq = n + 1 /\ v[i].to = M[1].seq - 1 /\ v[i].kind = "gap"
            BY <3>2, <3>7, <5>1
          <6>2. M[1].seq <= last
            BY <2>1, <2>4, <2>5
          <6> QED BY <2>2, <2>4, <2>10, <6>1, <6>2
        <5>2. CASE i - 1 \in 1..k /\ v[i] = M[i - 1]
          BY <1>2, <2>4, <2>5, <5>2
        <5> QED BY <3>8, <5>1, <5>2
      <4>2. ASSUME NEW i \in 1..Len(v), NEW j \in 1..Len(v), i < j PROVE v[i].to < v[j].seq
        <5>1. j # 1
          BY <4>2
        <5> DEFINE b == j - 1
        <5>2. b \in 1..k /\ v[j] = M[b]
          BY <3>8, <5>1
        <5>3. CASE i = 1
          <6>1. v[i].to = M[1].seq - 1 /\ (b = 1 \/ M[1].seq < M[b].seq) /\ M[b].seq \in Nat
            BY <1>2, <2>6, <3>2, <3>7, <5>2, <5>3
          <6> HIDE DEF b
          <6> QED BY <2>2, <5>2, <6>1, SMTT(20)
        <5>4. CASE i - 1 \in 1..k /\ v[i] = M[i - 1]
          <6> DEFINE a == i - 1
          <6>1. a \in 1..k /\ v[i] = M[a] /\ a < b
            BY <4>2, <5>4
          <6> HIDE DEF a, b
          <6> QED BY <1>1, <1>2, <5>2, <6>1 DEF Ascends, k
        <5> QED BY <3>8, <5>3, <5>4
      <4> QED BY <4>1, <4>2 DEF Onwards
    <3>10. Notes(v) = Members(M)
      BY <2>8, <3>2, <3>7 DEF Notes
    <3>11. ASSUME Consecutive(s) PROVE OneByOne(v, n, last)
      <4>1. ASSUME NEW i \in 1..Len(v) PROVE v[i].seq = 1 + IF i = 1 THEN n ELSE v[i - 1].to
        <5>1. CASE i = 1
          BY <3>2, <3>7, <5>1
        <5>2. CASE i - 1 \in 1..k /\ v[i] = M[i - 1] /\ i # 1
          <6> DEFINE a == i - 1
          <6>1. a \in 1..k /\ v[i] = M[a]
            BY <5>2
          <6>2. CASE a = 1
            <7>1. v[i - 1] = f
              BY <3>7, <6>2
            <7> QED BY <2>2, <3>2, <5>2, <6>1, <6>2, <7>1
          <6>3. CASE a # 1
            <7> DEFINE b == a - 1
            <7>1. b \in 1..k /\ b < k /\ b + 1 = a /\ 1 + b = i - 1
              BY <2>1, <6>1, <6>3
            <7> HIDE DEF a, b
            <7>2. v[i - 1] = M[b]
              BY <3>7, <7>1
            <7>3. M[a].seq = M[b].seq + 1
              BY <1>1, <3>11, <7>1 DEF Consecutive, k
            <7> QED BY <1>2, <5>2, <6>1, <7>1, <7>2, <7>3
          <6> QED BY <6>2, <6>3
        <5> QED BY <3>8, <5>1, <5>2
      <4>2. last = IF Len(v) = 0 THEN n ELSE v[Len(v)].to
        <5>1. v[1 + k] = M[k] /\ Len(v) # 0
          BY <2>1, <3>7
        <5> QED BY <1>2, <2>1, <2>4, <3>7, <5>1
      <4> QED BY <4>1, <4>2 DEF OneByOne
    <3>12. v # <<>> /\ v[1].kind = "gap"
      <4>1. Len(v) # 0
        BY <2>1, <3>7
      <4> QED BY <3>2, <3>7, <4>1, MembersOf
    <3> QED BY <2>4, <2>7, <3>3, <3>7, <3>9, <3>10, <3>11, <3>12
  <2>11. CASE ~(M[1].seq > n + 1)
    <3>1. M[1].seq = n + 1
      BY <2>2, <2>11
    <3>2. LeadOf(s, n) = <<>>
      BY <1>6, <1>8, <2>11
    <3>3. A = M
      BY <1>1, <1>5, <3>2, ConcatEmptySeq DEF A
    <3>4. Onwards(M, n, last)
      <4>1. \A i \in 1..k : /\ n < M[i].seq /\ M[i].seq <= M[i].to /\ M[i].to <= last
                            /\ M[i].kind \in {"notification", "gap"}
        BY <1>2, <2>4, <2>5
      <4>2. \A i, j \in 1..k : i < j => M[i].to < M[j].seq
        BY <1>1, <1>2 DEF Ascends
      <4> QED BY <4>1, <4>2 DEF Onwards
    <3>5. ASSUME Consecutive(s) PROVE OneByOne(M, n, last)
      <4>1. ASSUME NEW i \in 1..k PROVE M[i].seq = 1 + IF i = 1 THEN n ELSE M[i - 1].to
        <5>1. CASE i = 1
          BY <3>1, <5>1, <2>2
        <5>2. CASE i # 1
          <6> DEFINE a == i - 1
          <6>1. a \in 1..k /\ a < k /\ a + 1 = i
            BY <2>1, <5>2
          <6> HIDE DEF a
          <6>2. M[a + 1].seq = M[a].seq + 1
            BY <1>1, <3>5, <6>1 DEF Consecutive
          <6> QED BY <1>2, <5>2, <6>1, <6>2 DEF a
        <5> QED BY <5>1, <5>2
      <4>2. last = IF k = 0 THEN n ELSE M[k].to
        BY <1>2, <2>1, <2>4
      <4> QED BY <4>1, <4>2 DEF OneByOne
    <3>6. ASSUME NEW f \in Frame, n < f.seq, \A g \in Members(s) : f.seq < g.seq PROVE FALSE
      <4>1. M[1] \in Members(s) /\ f.seq \in Nat
        BY <1>1, <1>2, <2>1, FrameFields
      <4> QED BY <3>1, <3>6, <4>1
    <3> QED BY <1>1, <2>4, <2>7, <2>9, <3>3, <3>4, <3>5, <3>6
  <2> QED BY <2>10, <2>11
<1> QED BY <1>7, <1>8

(* The place of the client moves to connection c. *)
Resumes(c) ==
    LET p == client.place
        q == conn[c]
        r == conn'[c]
        s == conn[p].sent
    IN /\ client.on = c /\ p \in Conns /\ p # c /\ q.st = "open" /\ q.first /\ conn[p].st = "closed"
       /\ conn' \in [Conns -> ConnType] /\ conn'[p] = Gone
       /\ \A d \in Conns : d \notin {c, p} => conn'[d] = conn[d]
       /\ r.st = "open" /\ ~r.first /\ r.items = q.items /\ r.overflowed = q.overflowed
       /\ r.sub = (conn[p].sub /\ ~refused)
       /\ r.seq = LastOf(s, client.at) /\ r.sent = Over(s, client.at)
       /\ Writes(c, <<Result(200)>> \o Again(s, client.at)) /\ owed' \subseteq Frame
       /\ client' = client /\ heard' = heard
       /\ change' = change /\ used' = used /\ refused' = refused

LEMMA ResumeFacts ==
    ASSUME SessionTypes, ConnsInOrder, NEW c \in Conns, Resume(c)
    PROVE  Resumes(c)
<1> DEFINE p == client.place
           q == conn[c]
           s == conn[p].sent
           n == client.at
           r == [q EXCEPT !.first = FALSE, !.sub = conn[p].sub /\ ~refused,
                          !.seq = LastOf(s, n), !.sent = Over(s, n)]
<1>1. /\ conn \in [Conns -> ConnType] /\ refused \in BOOLEAN
      /\ client \in [on : Conns \cup {0}, place : Conns \cup {0}, at : Nat]
  BY DEF SessionTypes
<1>2. client.on = c /\ p \notin {0, c} /\ q.st = "open" /\ q.first /\ conn[p].st = "closed"
  BY DEF Resume
<1>3. p \in Conns /\ n \in Nat /\ q \in ConnType
  BY <1>1, <1>2
<1>4. conn[p] \in ConnType /\ Tidy(conn[p]) /\ InOrder(conn[p], wire[p], change)
  BY <1>3 DEF SessionTypes, ConnsInOrder
<1>5. s \in Seq(Frame) /\ Ascends(s) /\ \A f \in Members(s) : IsNotification(f) /\ f.to = f.seq
  BY <1>4, ConnFields DEF Tidy, InOrder
<1>6. Missed(p, n) = Over(s, n) /\ LastSeq(p, n) = LastOf(s, n)
  BY DEF Missed, Over, LastSeq, LastOf
<1>7. Lead(p, n) = LeadOf(s, n)
  BY <1>6 DEF Lead, LeadOf
<1>8. Over(s, n) \in Seq(Frame) /\ LastOf(s, n) \in Nat /\ Again(s, n) \in Seq(Frame)
  BY <1>3, <1>5, OverFacts, AgainFacts
<1>9. /\ conn' = [conn EXCEPT ![c] = r, ![p] = Gone]
      /\ Write(c, <<Result(200)>> \o LeadOf(s, n) \o Over(s, n))
      /\ client' = client /\ heard' = heard
      /\ change' = change /\ used' = used /\ refused' = refused
  BY <1>6, <1>7 DEF Resume, Resumed, Gone, hubVars
<1>10. LeadOf(s, n) \in Seq(Frame)
  <2>1. s # <<>> => s[Len(s)] \in Frame
    <3>1. s # <<>> => Len(s) \in 1..Len(s)
      <4>1. s # <<>> => Len(s) \in Nat \ {0}
        BY <1>5, EmptySeq
      <4> QED BY <4>1
    <3> QED BY <1>5, <3>1, ElementOfSeq
  <2>2. CASE Over(s, n) # <<>> /\ Over(s, n)[1].seq > n + 1
    <3>1. Len(Over(s, n)) \in Nat \ {0}
      BY <1>8, <2>2, EmptySeq
    <3>2. 1 \in 1..Len(Over(s, n))
      BY <3>1
    <3>3. Over(s, n)[1].seq \in Nat
      BY <1>8, <3>2, ElementOfSeq, FrameFields
    <3>4. n + 1 \in Nat /\ Over(s, n)[1].seq - 1 \in Nat
      BY <1>3, <2>2, <3>3
    <3>5. LeadOf(s, n) = <<gap(n + 1, Over(s, n)[1].seq - 1)>>
      BY <2>2 DEF LeadOf
    <3> QED BY <3>4, <3>5, GapIsFrame, OneFrame
  <2>3. CASE ~(Over(s, n) # <<>> /\ Over(s, n)[1].seq > n + 1) /\ Over(s, n) = <<>> /\ LastOf(s, n) > n
    <3>1. LeadOf(s, n) = <<gap(n + 1, LastOf(s, n))>> /\ n + 1 \in Nat
      BY <1>3, <2>3 DEF LeadOf
    <3> QED BY <1>8, <3>1, GapIsFrame, OneFrame
  <2>4. CASE /\ ~(Over(s, n) # <<>> /\ Over(s, n)[1].seq > n + 1)
             /\ ~(Over(s, n) = <<>> /\ LastOf(s, n) > n)
    <3>1. LeadOf(s, n) = <<>>
      BY <2>4 DEF LeadOf
    <3> QED BY <3>1, NoFrame
  <2> QED BY <2>2, <2>3, <2>4
<1>11. /\ <<Result(200)>> \in Seq(Frame)
       /\ (<<Result(200)>> \o LeadOf(s, n)) \o Over(s, n) = <<Result(200)>> \o Again(s, n)
       /\ <<Result(200)>> \o Again(s, n) \in Seq(Frame)
  <2>1. <<Result(200)>> \in Seq(Frame)
    BY ResultIsFrame, OneFrame
  <2>2. (<<Result(200)>> \o LeadOf(s, n)) \o Over(s, n) = <<Result(200)>> \o (LeadOf(s, n) \o Over(s, n))
    BY <1>8, <1>10, <2>1, ConcatAssociative
  <2>3. PICK u \in Seq(Frame) : u = <<Result(200)>>
    BY <2>1
  <2>4. u \o Again(s, n) \in Seq(Frame)
    <3>1. \A a, b \in Seq(Frame) : a \o b \in Seq(Frame)
      BY Joined
    <3> QED BY <1>8, <3>1
  <2>5. Again(s, n) = LeadOf(s, n) \o Over(s, n)
    BY DEF Again
  <2> QED BY <2>1, <2>2, <2>3, <2>4, <2>5
<1>12. Writes(c, <<Result(200)>> \o Again(s, n)) /\ owed' \subseteq Frame
  BY <1>9, <1>11, WriteFacts
<1>13. /\ r \in ConnType /\ r.st = "open" /\ ~r.first /\ r.items = q.items
       /\ r.overflowed = q.overflowed /\ r.sub = (conn[p].sub /\ ~refused)
       /\ r.seq = LastOf(s, n) /\ r.sent = Over(s, n)
  <2> DEFINE b == conn[p].sub /\ ~refused
  <2>1. b \in BOOLEAN
    OBVIOUS
  <2> HIDE DEF b
  <2>2. LET x == [q EXCEPT !.first = FALSE, !.sub = b, !.seq = LastOf(s, n), !.sent = Over(s, n)]
        IN /\ x \in ConnType /\ x.st = "open" /\ ~x.first /\ x.items = q.items
           /\ x.overflowed = q.overflowed /\ x.sub = b
           /\ x.seq = LastOf(s, n) /\ x.sent = Over(s, n)
    BY <1>2, <1>3, <1>8, <2>1 DEF ConnType
  <2> QED BY <2>2 DEF b
<1> HIDE DEF r
<1>14. conn' \in [Conns -> ConnType] /\ conn'[p] = Gone /\ conn'[c] = r
  BY <1>1, <1>2, <1>3, <1>9, <1>13, UnusedFields
<1>15. \A d \in Conns : d \notin {c, p} => conn'[d] = conn[d]
  BY <1>1, <1>2, <1>3, <1>9
<1>16. /\ client.on = c /\ p \in Conns /\ p # c /\ q.st = "open" /\ q.first /\ conn[p].st = "closed"
       /\ client' = client /\ heard' = heard
       /\ change' = change /\ used' = used /\ refused' = refused
  BY <1>2, <1>3, <1>9
<1> HIDE DEF p, q, s, n
<1>17. /\ conn'[c].st = "open" /\ ~conn'[c].first /\ conn'[c].items = q.items
       /\ conn'[c].overflowed = q.overflowed /\ conn'[c].sub = (conn[p].sub /\ ~refused)
       /\ conn'[c].seq = LastOf(s, n) /\ conn'[c].sent = Over(s, n)
  BY <1>13, <1>14
<1> QED BY <1>12, <1>14, <1>15, <1>16, <1>17 DEF Resumes, p, q, s, n

(* A refused resume and a first subscribe change one connection, too. *)
Refuses(c) ==
    LET p == client.place
        q == conn[c]
        r == conn'[c]
    IN /\ client.on = c /\ p \in Conns /\ p # c /\ q.st = "open" /\ q.first
       /\ OnlyConn(c) /\ r \in ConnType
       /\ r.st = "open" /\ ~r.first /\ r.items = q.items /\ r.overflowed = q.overflowed
       /\ r.sub = q.sub /\ r.seq = q.seq /\ r.sent = q.sent
       /\ Writes(c, <<Result(404)>>) /\ owed' \subseteq Frame
       /\ client' = client /\ heard' = heard
       /\ change' = change /\ used' = used /\ refused' = refused

LEMMA RefusedFacts ==
    ASSUME SessionTypes, NEW c \in Conns, ResumeRefused(c)
    PROVE  Refuses(c)
<1> DEFINE q == conn[c]
           r == [q EXCEPT !.first = FALSE]
<1>1. /\ conn \in [Conns -> ConnType] /\ q \in ConnType
      /\ client \in [on : Conns \cup {0}, place : Conns \cup {0}, at : Nat]
  BY DEF SessionTypes
<1>7. q.st = "open"
  BY DEF ResumeRefused
<1>2. /\ client.on = c /\ client.place \notin {0, c} /\ q.st = "open" /\ q.first
      /\ conn' = [conn EXCEPT ![c] = r] /\ Write(c, <<Result(404)>>)
      /\ client' = client /\ heard' = heard
      /\ change' = change /\ used' = used /\ refused' = refused
  BY <1>1 DEF ResumeRefused, hubVars
<1>3. /\ r \in ConnType /\ r.st = "open" /\ ~r.first /\ r.items = q.items
      /\ r.overflowed = q.overflowed /\ r.sub = q.sub /\ r.seq = q.seq /\ r.sent = q.sent
  BY <1>1, <1>7 DEF ConnType
<1> HIDE DEF r
<1>4. conn' \in [Conns -> ConnType] /\ conn'[c] = r /\ \A d \in Conns : d # c => conn'[d] = conn[d]
  BY <1>1, <1>2, <1>3
<1>5. Writes(c, <<Result(404)>>) /\ owed' \subseteq Frame
  <2> DEFINE F == <<Result(404)>>
  <2>1. F \in Seq(Frame)
    BY ResultIsFrame, OneFrame
  <2>2. Write(c, F)
    BY <1>2
  <2> HIDE DEF F
  <2>3. Writes(c, F) /\ owed' \subseteq Frame
    BY <2>1, <2>2, WriteFacts
  <2> QED BY <2>3 DEF F
<1>6. client.place \in Conns
  BY <1>1, <1>2
<1> QED BY <1>2, <1>3, <1>4, <1>5, <1>6 DEF Refuses, OnlyConn

Subscribes(c) ==
    LET q == conn[c]
        r == conn'[c]
    IN /\ client.on = c /\ client.place = 0 /\ q.st = "open" /\ ~refused
       /\ OnlyConn(c) /\ r \in ConnType
       /\ r.st = "open" /\ ~r.first /\ r.items = q.items /\ r.overflowed = q.overflowed
       /\ r.sub /\ r.seq = q.seq /\ r.sent = q.sent
       /\ client'.on = c /\ client'.place = c /\ client'.at = client.at
       /\ client' \in [on : Conns \cup {0}, place : Conns \cup {0}, at : Nat]
       /\ wire' = wire /\ owed' = {} /\ heard' = heard
       /\ change' = change /\ used' = used /\ refused' = refused

LEMMA SubscribeFacts ==
    ASSUME SessionTypes, NEW c \in Conns, Subscribe(c)
    PROVE  Subscribes(c)
<1> DEFINE q == conn[c]
           r == [q EXCEPT !.sub = TRUE, !.first = FALSE]
<1>1. /\ conn \in [Conns -> ConnType] /\ q \in ConnType
      /\ client \in [on : Conns \cup {0}, place : Conns \cup {0}, at : Nat]
  BY DEF SessionTypes
<1>2. /\ client.on = c /\ client.place = 0 /\ q.st = "open" /\ ~refused
      /\ conn' = [conn EXCEPT ![c] = r] /\ client' = [client EXCEPT !.place = c]
      /\ wire' = wire /\ owed' = {} /\ heard' = heard
      /\ change' = change /\ used' = used /\ refused' = refused
  BY <1>1 DEF Subscribe, hubVars, ConnType
<1>3. /\ r \in ConnType /\ r.st = "open" /\ ~r.first /\ r.items = q.items
      /\ r.overflowed = q.overflowed /\ r.sub /\ r.seq = q.seq /\ r.sent = q.sent
  BY <1>1, <1>2 DEF ConnType
<1> HIDE DEF r
<1>4. conn' \in [Conns -> ConnType] /\ conn'[c] = r /\ \A d \in Conns : d # c => conn'[d] = conn[d]
  BY <1>1, <1>2, <1>3
<1>5. /\ client'.on = c /\ client'.place = c /\ client'.at = client.at
      /\ client' \in [on : Conns \cup {0}, place : Conns \cup {0}, at : Nat]
  BY <1>1, <1>2
<1> QED BY <1>2, <1>3, <1>4, <1>5 DEF Subscribes, OnlyConn

ClientType == [on : Conns \cup {0}, place : Conns \cup {0}, at : Nat]

(* The client takes the next frame. *)
Reads(c) ==
    /\ client.on = c /\ wire[c] # <<>>
    /\ wire' \in [Conns -> Seq(Frame)] /\ wire'[c] = Tail(wire[c])
    /\ \A d \in Conns : d # c => wire'[d] = wire[d]
    /\ client' \in ClientType /\ client'.on = c
    /\ conn' = conn /\ change' = change /\ used' = used /\ refused' = refused

ReadsPlace(c) ==
    /\ Reads(c) /\ wire[c][1] = Result(200)
    /\ client'.place = c /\ client'.at = client.at
    /\ heard' = heard /\ owed' = owed

ReadsRefusal(c) ==
    /\ Reads(c) /\ wire[c][1] = Result(404)
    /\ client'.place = 0 /\ client'.at = 0
    /\ heard' = heard /\ owed' = {}

ReadsNote(c) ==
    LET f == wire[c][1] IN
    /\ Reads(c) /\ IsNotification(f)
    /\ client'.place = client.place /\ client'.at = f.seq
    /\ heard' \in [Entities -> 0..MaxChanges] /\ owed' = owed \ {f}
    /\ \A e \in Entities : heard'[e] = IF e = f.entity THEN f.change ELSE heard[e]

ReadsGap(c) ==
    LET f == wire[c][1] IN
    /\ Reads(c) /\ f.kind = "gap"
    /\ client'.place = client.place
    /\ client'.at = IF client.place \in {0, c} THEN f.to ELSE client.at
    /\ heard' = heard /\ owed' = {}

LEMMA ReceiveFacts ==
    ASSUME SessionTypes, NEW c \in Conns, Receive(c)
    PROVE  ReadsPlace(c) \/ ReadsRefusal(c) \/ ReadsNote(c) \/ ReadsGap(c)
<1> DEFINE f == wire[c][1]
           at(n) == [client EXCEPT !.at = n]
<1>1. /\ wire \in [Conns -> Seq(Frame)] /\ client \in ClientType
      /\ heard \in [Entities -> 0..MaxChanges]
  BY DEF SessionTypes, ClientType
<1>2. /\ client.on = c /\ wire[c] # <<>> /\ wire' = [wire EXCEPT ![c] = Tail(wire[c])]
      /\ conn' = conn /\ change' = change /\ used' = used /\ refused' = refused
  BY <1>1 DEF Receive, hubVars
<1>3. wire[c] \in Seq(Frame)
  BY <1>1
<1>4. Head(wire[c]) = f /\ f \in Frame /\ Tail(wire[c]) \in Seq(Frame)
  BY <1>2, <1>3, Rest
<1>5. /\ wire' \in [Conns -> Seq(Frame)] /\ wire'[c] = Tail(wire[c])
      /\ \A d \in Conns : d # c => wire'[d] = wire[d]
  BY <1>1, <1>2, <1>4
<1>6. /\ f.kind \in {"notification", "gap", "result"} /\ f.seq \in Nat /\ f.to \in Nat
      /\ f.change \in 0..MaxChanges
  BY <1>4, FrameFields
<1>7. \/ f = Result(200) /\ client' = [client EXCEPT !.place = c] /\ heard' = heard /\ owed' = owed
      \/ f = Result(404) /\ client' = [client EXCEPT !.place = 0, !.at = 0] /\ heard' = heard /\ owed' = {}
      \/ /\ f.kind = "notification" /\ client' = at(f.seq)
         /\ heard' = [heard EXCEPT ![f.entity] = f.change] /\ owed' = owed \ {f}
      \/ /\ f.kind = "gap" /\ heard' = heard /\ owed' = {}
         /\ client' = IF client.place \in {0, c} THEN at(f.to) ELSE client
  BY <1>4 DEF Receive
<1> HIDE DEF f, at
<1>8. \A n \in Nat : at(n) \in ClientType /\ at(n).on = c /\ at(n).place = client.place /\ at(n).at = n
  BY <1>1, <1>2 DEF at, ClientType
<1>9. CASE f = Result(200) /\ client' = [client EXCEPT !.place = c] /\ heard' = heard /\ owed' = owed
  <2>1. client' \in ClientType /\ client'.on = c /\ client'.place = c /\ client'.at = client.at
    BY <1>1, <1>2, <1>9 DEF ClientType
  <2> QED BY <1>2, <1>5, <1>9, <2>1 DEF ReadsPlace, Reads, f
<1>10. CASE f = Result(404) /\ client' = [client EXCEPT !.place = 0, !.at = 0] /\ heard' = heard /\ owed' = {}
  <2>1. client' \in ClientType /\ client'.on = c /\ client'.place = 0 /\ client'.at = 0
    BY <1>1, <1>2, <1>10 DEF ClientType
  <2> QED BY <1>2, <1>5, <1>10, <2>1 DEF ReadsRefusal, Reads, f
<1>11. CASE /\ f.kind = "notification" /\ client' = at(f.seq)
            /\ heard' = [heard EXCEPT ![f.entity] = f.change] /\ owed' = owed \ {f}
  <2>1. heard' \in [Entities -> 0..MaxChanges]
    BY <1>1, <1>6, <1>11
  <2>2. \A e \in Entities : heard'[e] = IF e = f.entity THEN f.change ELSE heard[e]
    BY <1>1, <1>11
  <2>3. client' \in ClientType /\ client'.on = c /\ client'.place = client.place /\ client'.at = f.seq
    BY <1>6, <1>8, <1>11
  <2> QED BY <1>2, <1>5, <1>11, <2>1, <2>2, <2>3 DEF ReadsNote, Reads, IsNotification, f
<1>12. CASE /\ f.kind = "gap" /\ heard' = heard /\ owed' = {}
            /\ client' = IF client.place \in {0, c} THEN at(f.to) ELSE client
  <2>1. /\ client' \in ClientType /\ client'.on = c /\ client'.place = client.place
        /\ client'.at = IF client.place \in {0, c} THEN f.to ELSE client.at
    BY <1>1, <1>2, <1>6, <1>8, <1>12
  <2> QED BY <1>2, <1>5, <1>12, <2>1 DEF ReadsGap, Reads, f
<1> QED BY <1>7, <1>9, <1>10, <1>11, <1>12

(* The client is without a connection; what was on the wire is lost. *)
Leaves(c) ==
    /\ client.on = c
    /\ wire' \in [Conns -> Seq(Frame)] /\ wire'[c] = <<>> /\ \A d \in Conns : d # c => wire'[d] = wire[d]
    /\ client' \in ClientType /\ client'.on = 0 /\ client'.place = client.place /\ client'.at = client.at
    /\ conn' = conn /\ change' = change /\ used' = used /\ refused' = refused
    /\ heard' = heard /\ owed' = owed

LEMMA LeavesFacts ==
    ASSUME SessionTypes, NEW c \in Conns, Break(c) \/ ReadClose(c)
    PROVE  Leaves(c)
<1>1. wire \in [Conns -> Seq(Frame)] /\ client \in ClientType
  BY DEF SessionTypes, ClientType
<1>2. /\ client.on = c /\ client' = [client EXCEPT !.on = 0]
      /\ conn' = conn /\ change' = change /\ used' = used /\ refused' = refused
      /\ heard' = heard /\ owed' = owed
  BY DEF Break, ReadClose, hubVars
<1>3. client' \in ClientType /\ client'.on = 0 /\ client'.place = client.place /\ client'.at = client.at
  BY <1>1, <1>2 DEF ClientType
<1>4. wire' = [wire EXCEPT ![c] = <<>>] \/ (wire' = wire /\ wire[c] = <<>>)
  BY DEF Break, ReadClose
<1>5. wire' \in [Conns -> Seq(Frame)] /\ wire'[c] = <<>> /\ \A d \in Conns : d # c => wire'[d] = wire[d]
  BY <1>1, <1>4, NoFrame
<1> QED BY <1>2, <1>3, <1>5 DEF Leaves

(* The client connects again. *)
Connects(c) ==
    LET r == conn'[c] IN
    /\ client.on = 0 /\ conn[c].st = "unused"
    /\ OnlyConn(c) /\ r \in ConnType
    /\ r.st = "open" /\ ~r.sub /\ r.items = <<>> /\ ~r.overflowed /\ r.seq = 0 /\ r.sent = <<>> /\ r.first
    /\ client' \in ClientType /\ client'.on = c /\ client'.place = client.place
    /\ client'.at = IF client.place = 0 THEN 0 ELSE client.at
    /\ wire' = wire /\ change' = change /\ used' = used /\ refused' = refused
    /\ heard' = heard /\ owed' = owed

LEMMA ConnectFacts ==
    ASSUME SessionTypes, ConnsInOrder, NEW c \in Conns, Connect(c)
    PROVE  Connects(c)
<1> DEFINE r == [Unused EXCEPT !.st = "open"]
           a == IF client.place = 0 THEN 0 ELSE client.at
<1>1. conn \in [Conns -> ConnType] /\ client \in ClientType /\ Tidy(conn[c])
  BY DEF SessionTypes, ConnsInOrder, ClientType
<1>2. /\ client.on = 0 /\ conn[c].st = "unused"
      /\ conn' = [conn EXCEPT ![c] = [conn[c] EXCEPT !.st = "open"]]
      /\ client' = [client EXCEPT !.on = c, !.at = a]
      /\ wire' = wire /\ change' = change /\ used' = used /\ refused' = refused
      /\ heard' = heard /\ owed' = owed
  BY <1>1 DEF Connect, hubVars, ClientType
<1>3. conn[c] = Unused
  BY <1>1, <1>2 DEF Tidy
<1>4. /\ r \in ConnType /\ r.st = "open" /\ ~r.sub /\ r.items = <<>> /\ ~r.overflowed /\ r.seq = 0
      /\ r.sent = <<>> /\ r.first
  <2>1. <<>> \in Seq(ItemType) /\ <<>> \in Seq(Frame)
    BY EmptySeq
  <2> QED BY <2>1 DEF Unused, ConnType
<1>5. a \in Nat
  BY <1>1 DEF ClientType
<1> HIDE DEF r, a
<1>6. /\ client' \in ClientType /\ client'.on = c /\ client'.place = client.place /\ client'.at = a
  BY <1>1, <1>2, <1>5 DEF ClientType
<1>7. conn' = [conn EXCEPT ![c] = r]
  BY <1>2, <1>3 DEF r
<1>8. conn' \in [Conns -> ConnType] /\ conn'[c] = r /\ \A d \in Conns : d # c => conn'[d] = conn[d]
  BY <1>1, <1>4, <1>7
<1> QED BY <1>2, <1>4, <1>6, <1>8 DEF Connects, OnlyConn, a

(* The steps, by what they do. *)
LEMMA StepKinds ==
    ASSUME SessionTypes, ConnsInOrder, [Next]_vars
    PROVE  \/ \E out \in ItemType : QueuesMove(out)
           \/ \E c \in Conns :
                \/ ConnEnds(c) \/ Takes(c) \/ Resumes(c) \/ Refuses(c) \/ Subscribes(c)
                \/ ReadsPlace(c) \/ ReadsRefusal(c) \/ ReadsNote(c) \/ ReadsGap(c)
                \/ Leaves(c) \/ Connects(c)
           \/ (refused' => refused) /\ refused' \in BOOLEAN /\ UNCHANGED <<conn, wire, change, used, clientVars>>
<1>1. CASE \E c \in Conns : Take(c)
  BY <1>1, TakeFacts
<1>2. CASE \E c \in Conns : SessionEnds(c) \/ Close(c) \/ Forget(c)
  BY <1>2, EndsFacts
<1>3. CASE \E c \in Conns : Resume(c)
  BY <1>3, ResumeFacts
<1>4. CASE \E c \in Conns : ResumeRefused(c)
  BY <1>4, RefusedFacts
<1>5. CASE \E c \in Conns : Subscribe(c)
  BY <1>5, SubscribeFacts
<1>6. CASE \E e \in Entities : Change(e)
  <2>1. PICK e \in Entities : Change(e)
    BY <1>6
  <2>2. change < MaxChanges /\ change \in 0..MaxChanges
    BY <2>1 DEF Change, SessionTypes
  <2>3. change + 1 \in 0..MaxChanges
    BY <2>2, LimitAssumption
  <2>4. Item(e, change + 1) \in ItemType
    BY <2>3, ItemIsItem
  <2> QED BY <2>1, <2>4, ChangeMoves
<1>7. CASE HubGap
  BY <1>7, HubGapMoves, SignalIsItem
<1>8. CASE Recheck
  BY <1>8, RecheckMoves, SignalIsItem
<1>9. CASE Refuse
  BY <1>9, RefuseMoves, SignalIsItem
<1>10. CASE Live
  BY <1>10 DEF Live
<1>11. CASE \E c \in Conns : Receive(c)
  BY <1>11, ReceiveFacts
<1>12. CASE \E c \in Conns : Break(c) \/ ReadClose(c)
  BY <1>12, LeavesFacts
<1>13. CASE \E c \in Conns : Connect(c)
  BY <1>13, ConnectFacts
<1>14. CASE UNCHANGED vars
  BY <1>14 DEF vars, hubVars, clientVars, SessionTypes
<1> QED
  BY <1>1, <1>2, <1>3, <1>4, <1>5, <1>6, <1>7, <1>8, <1>9, <1>10, <1>11, <1>12, <1>13, <1>14
  DEF Next, Gateway, Client

LEMMA TypesStep ==
    ASSUME SessionTypes, ConnsInOrder, [Next]_vars
    PROVE  SessionTypes'
<1>1. /\ conn \in [Conns -> ConnType] /\ wire \in [Conns -> Seq(Frame)]
      /\ refused \in BOOLEAN /\ change \in 0..MaxChanges /\ used \subseteq Events
      /\ client \in ClientType
      /\ heard \in [Entities -> 0..MaxChanges] /\ owed \subseteq Frame
  BY DEF SessionTypes, ClientType
<1>2. SUFFICES /\ conn' \in [Conns -> ConnType] /\ wire' \in [Conns -> Seq(Frame)]
               /\ refused' \in BOOLEAN /\ change' \in 0..MaxChanges /\ used' \subseteq Events
               /\ client' \in ClientType
               /\ heard' \in [Entities -> 0..MaxChanges] /\ owed' \subseteq Frame
  BY DEF SessionTypes, ClientType
<1>3. ASSUME NEW out \in ItemType, QueuesMove(out) PROVE <1>2!1
  BY <1>1, <1>3 DEF QueuesMove
<1>4. ASSUME NEW c \in Conns, ConnEnds(c) PROVE <1>2!1
  BY <1>1, <1>4 DEF ConnEnds, OnlyConn
<1>5. ASSUME NEW c \in Conns, Takes(c) PROVE <1>2!1
  BY <1>1, <1>5 DEF Takes, OnlyConn, Writes
<1>6. ASSUME NEW c \in Conns, Resumes(c) PROVE <1>2!1
  BY <1>1, <1>6 DEF Resumes, Writes
<1>7. ASSUME NEW c \in Conns, Refuses(c) PROVE <1>2!1
  BY <1>1, <1>7 DEF Refuses, OnlyConn, Writes
<1>8. ASSUME NEW c \in Conns, Subscribes(c) PROVE <1>2!1
  BY <1>1, <1>8 DEF Subscribes, OnlyConn, ClientType
<1>9. ASSUME NEW c \in Conns, ReadsPlace(c) \/ ReadsRefusal(c) \/ ReadsNote(c) \/ ReadsGap(c)
      PROVE  <1>2!1
  BY <1>1, <1>9 DEF ReadsPlace, ReadsRefusal, ReadsNote, ReadsGap, Reads
<1>10. ASSUME NEW c \in Conns, Leaves(c) PROVE <1>2!1
  BY <1>1, <1>10 DEF Leaves
<1>11. ASSUME NEW c \in Conns, Connects(c) PROVE <1>2!1
  BY <1>1, <1>11 DEF Connects, OnlyConn
<1>12. CASE refused' \in BOOLEAN /\ UNCHANGED <<conn, wire, change, used, clientVars>>
  BY <1>1, <1>12 DEF clientVars
<1> QED BY <1>3, <1>4, <1>5, <1>6, <1>7, <1>8, <1>9, <1>10, <1>11, <1>12, StepKinds

-----------------------------------------------------------------------------
(* What each connection holds stays in order. *)

(* The notifications that connection q numbered and that are kept or on the wire. *)
Known(q, w) == Members(q.sent) \cup Notes(w)

LEMMA FramesOfConn ==
    ASSUME SessionTypes, NEW c \in Conns
    PROVE  /\ conn[c] \in ConnType /\ conn[c].sent \in Seq(Frame) /\ conn[c].items \in Seq(ItemType)
           /\ conn[c].seq \in Nat /\ wire[c] \in Seq(Frame)
           /\ \A f \in Known(conn[c], wire[c]) :
                f \in Frame /\ f.seq \in Nat /\ f.to \in Nat /\ f.change \in Nat
           /\ \A x \in Notes(conn[c].items) : x \in ItemType /\ x.change \in Nat
<1>1. /\ conn[c] \in ConnType /\ conn[c].sent \in Seq(Frame) /\ conn[c].items \in Seq(ItemType)
      /\ conn[c].seq \in Nat /\ wire[c] \in Seq(Frame)
  BY ConnFields DEF SessionTypes
<1>2. Known(conn[c], wire[c]) \subseteq Frame
  BY <1>1, MembersOf DEF Known, Notes
<1>3. Notes(conn[c].items) \subseteq ItemType
  BY <1>1, MembersOf DEF Notes
<1>4. \A x \in Notes(conn[c].items) : x.change \in Nat
  BY <1>3, ItemFields, LimitAssumption
<1> QED BY <1>1, <1>2, <1>3, <1>4, FrameFields

LEMMA InOrderLess ==
    ASSUME NEW q, NEW w, NEW t, NEW r, NEW v, InOrder(q, w, t),
           Known(r, v) \subseteq Known(q, w),
           \A f \in Known(q, w) : f.seq \in Nat,
           q.seq \in Nat, r.seq \in Nat,
           r.st = "open" => q.st = "open" /\ q.seq <= r.seq,
           Notes(r.items) \subseteq Notes(q.items)
    PROVE  InOrder(r, v, t)
<1>1. /\ \A f \in Known(q, w) : /\ IsNotification(f) /\ f.entity \in Entities /\ f.to = f.seq
                               /\ f.change <= t /\ (q.st = "open" => f.seq <= q.seq)
      /\ \A f, g \in Known(q, w) : Later(f, g)
      /\ \A x \in Notes(q.items) : x.entity \in Entities /\ x.change <= t
      /\ \A f \in Known(q, w), x \in Notes(q.items) : f.entity = x.entity => f.change < x.change
  BY DEF InOrder, Known
<1>2. \A f \in Known(r, v) : /\ IsNotification(f) /\ f.entity \in Entities /\ f.to = f.seq
                            /\ f.change <= t /\ (r.st = "open" => f.seq <= r.seq)
  BY <1>1
<1>3. /\ \A f, g \in Known(r, v) : Later(f, g)
      /\ \A x \in Notes(r.items) : x.entity \in Entities /\ x.change <= t
      /\ \A f \in Known(r, v), x \in Notes(r.items) : f.entity = x.entity => f.change < x.change
  BY <1>1
<1> HIDE DEF InOrder
<1> QED BY <1>2, <1>3 DEF InOrder, Known

LEMMA TakenInOrder ==
    ASSUME SessionTypes, ConnsInOrder, NEW c \in Conns, Takes(c)
    PROVE  Tidy(conn'[c]) /\ InOrder(conn'[c], wire'[c], change)
<1> DEFINE q == conn[c]
           w == wire[c]
           r == conn'[c]
           v == wire'[c]
           F == Frames(q)
           W == Written(q)
           old == Known(q, w)
           new == Notes(W)
<1>1. q \in ConnType /\ Tidy(q) /\ InOrder(q, w, change)
  BY DEF SessionTypes, ConnsInOrder
<1>2. /\ q.seq \in Nat /\ w \in Seq(Frame)
      /\ \A f \in old : f.seq \in Nat /\ f.change \in Nat
      /\ \A x \in Notes(q.items) : x.change \in Nat
  BY FramesOfConn
<1>3. /\ W \in Seq(Frame) /\ Len(W) \in Nat /\ Numbered(W, q.seq, q.items) /\ Notes(W) = Notes(F)
  BY <1>1, WrittenFacts
<1>4. /\ q.st = "open" /\ r.st \in {"open", "ending"}
      /\ r.st = "open" => r.seq = q.seq + Len(W)
      /\ r.items = <<>> /\ ~r.overflowed /\ r.sent = KeptOn(q)
      /\ (v = w \o W \/ v = w)
  BY DEF Takes, Writes
<1>5. /\ \A f \in old : /\ IsNotification(f) /\ f.entity \in Entities /\ f.to = f.seq
                        /\ f.change <= change /\ f.seq <= q.seq
      /\ \A f, g \in old : Later(f, g)
      /\ \A x \in Notes(q.items) : x.entity \in Entities /\ x.change <= change
      /\ \A f \in old, x \in Notes(q.items) : f.entity = x.entity => f.change < x.change
  BY <1>1, <1>4 DEF InOrder, Known
<1>6. \A f \in Members(q.sent) : f.seq <= q.seq
  BY <1>5 DEF Known
<1>7. /\ Len(r.sent) <= KEPT /\ Ascends(r.sent) /\ r.sent \in Seq(Frame)
      /\ Members(r.sent) \subseteq Members(q.sent) \cup Notes(W)
  BY <1>1, <1>3, <1>4, <1>6, KeptOnFacts
<1>8. Notes(v) \subseteq Notes(w) \cup Notes(W)
  <2>1. Members(w \o W) = Members(w) \cup Members(W)
    BY <1>2, <1>3, Joined
  <2> QED BY <1>4, <2>1 DEF Notes
<1>9. Known(r, v) \subseteq old \cup new
  BY <1>7, <1>8 DEF Known
<1>10. ASSUME NEW f \in new
       PROVE  \E i \in 1..Len(W) : f = W[i] /\ f.seq = q.seq + i /\ f.to = f.seq
  <2>1. \E i \in 1..Len(W) : f = W[i]
    BY <1>10 DEF Notes, Members
  <2> QED BY <1>3, <2>1 DEF Numbered
<1>11. ASSUME NEW f \in new
       PROVE  /\ IsNotification(f) /\ f.to = f.seq /\ q.seq < f.seq /\ f.seq <= q.seq + Len(W)
              /\ f.seq \in Nat
              /\ \E x \in Notes(q.items) : x.entity = f.entity /\ x.change = f.change
  <2>1. PICK i \in 1..Len(W) : f = W[i] /\ f.seq = q.seq + i /\ f.to = f.seq
    BY <1>10
  <2>2. IsNotification(f)
    BY DEF Notes
  <2>3. \E x \in Notes(q.items) : x.entity = f.entity /\ x.change = f.change
    BY <1>3, <2>1, <2>2 DEF Numbered
  <2>4. q.seq < f.seq /\ f.seq <= q.seq + Len(W) /\ f.seq \in Nat
    BY <1>2, <1>3, <2>1
  <2> QED BY <2>1, <2>2, <2>3, <2>4
<1>12. ASSUME NEW f \in new, NEW g \in new, f.entity = g.entity PROVE f = g
  <2>1. PICK i \in 1..Len(W) : f = W[i]
    BY <1>10
  <2>2. PICK k \in 1..Len(W) : g = W[k]
    BY <1>10
  <2>3. IsNotification(f) /\ IsNotification(g)
    BY DEF Notes
  <2>4. i = k
    BY <1>3, <1>12, <2>1, <2>2, <2>3 DEF Numbered
  <2> QED BY <2>1, <2>2, <2>4
<1> HIDE DEF q, w, r, v, F, W, old, new
<1>13. ASSUME NEW f \in old \cup new
       PROVE  /\ IsNotification(f) /\ f.entity \in Entities /\ f.to = f.seq /\ f.change <= change
              /\ r.st = "open" => f.seq <= r.seq
  <2>1. CASE f \in old
    BY <1>2, <1>3, <1>4, <1>5, <2>1
  <2>2. CASE f \in new
    BY <1>4, <1>5, <1>11, <2>2
  <2> QED BY <2>1, <2>2
<1>14. ASSUME NEW f \in old \cup new, NEW g \in old \cup new PROVE Later(f, g)
  <2>1. CASE f \in old /\ g \in old
    BY <1>5, <2>1
  <2>2. CASE f \in old /\ g \in new
    <3>1. \E x \in Notes(q.items) : x.entity = g.entity /\ x.change = g.change
      BY <1>11, <2>2
    <3> QED BY <1>5, <2>2, <3>1 DEF Later
  <2>3. CASE f \in new /\ g \in old
    <3>1. q.seq < f.seq /\ f.seq \in Nat /\ g.seq <= q.seq /\ g.seq \in Nat
      BY <1>2, <1>5, <1>11, <2>3
    <3>2. ~(f.seq < g.seq)
      BY <1>2, <3>1
    <3> QED BY <3>2 DEF Later
  <2>4. CASE f \in new /\ g \in new
    <3>1. f.entity = g.entity => ~(f.seq < g.seq)
      BY <1>11, <1>12, <2>4
    <3> QED BY <3>1 DEF Later
  <2> QED BY <2>1, <2>2, <2>3, <2>4
<1>15. Notes(r.items) = {}
  BY <1>4, NoFrame DEF Notes
<1>16. InOrder(r, v, change)
  BY <1>9, <1>13, <1>14, <1>15 DEF InOrder, Known
<1>17. Tidy(r)
  <2>1. \A i \in 1..Len(r.items) : FALSE
    BY <1>4, NoFrame
  <2> QED BY <1>4, <1>7, <2>1 DEF Tidy
<1> QED BY <1>16, <1>17 DEF r, v

(* Before the answer the wire of the new connection tells nothing. *)
LEMMA BeforeAnswer ==
    ASSUME SessionTypes, WireInv, NEW c \in Conns, client.on = c, client.place \in Conns,
           client.place # c, conn[c].st = "open", conn[c].first
    PROVE  /\ ~Moved(wire[c]) /\ Carrier = client.place
           /\ Fresh(conn[c], wire[c]) /\ Answered(wire[c], 0)
           /\ \A i \in 1..Len(wire[c]) : wire[c][i].kind = "gap"
<1>1. c # 0 /\ client.place # 0
  BY LimitAssumption DEF Conns
<1>2. OnWire(c, wire[c], conn[c], client.place, client.at)
  BY <1>1 DEF WireInv
<1>3. Answered(wire[c], 0)
  BY <1>2 DEF OnWire
<1>4. ~Moved(wire[c])
  <2>1. \A i \in 1..Len(wire[c]) : wire[c][i].kind \in {"notification", "gap"}
    <3>1. \A i \in 1..Len(wire[c]) : i > 0
      OBVIOUS
    <3> QED BY <1>3, <3>1 DEF Answered
  <2>2. \A i \in 1..Len(wire[c]) : wire[c][i] # Result(200)
    BY <2>1, ResultIsFrame
  <2> QED BY <2>2 DEF Moved, Members
<1>5. Carrier = client.place
  BY <1>1, <1>4 DEF Carrier
<1>6. Fresh(conn[c], wire[c])
  BY <1>1, <1>5 DEF WireInv
<1>7. ASSUME NEW i \in 1..Len(wire[c]) PROVE wire[c][i].kind = "gap"
  <2>1. wire[c][i].kind \in {"notification", "gap"} /\ wire[c][i] \in Members(wire[c])
    <3>1. i > 0
      OBVIOUS
    <3> QED BY <1>3, <3>1 DEF Answered, Members
  <2> QED BY <1>6, <2>1 DEF Fresh, Notes, IsNotification
<1> QED BY <1>3, <1>4, <1>5, <1>6, <1>7

(* What is sent again, and how it is laid on the wire: w was on it, v is now. *)
WroteAgain(s, n, w, v, A) ==
    /\ s \in Seq(Frame) /\ Ascends(s) /\ \A f \in Members(s) : IsNotification(f) /\ f.to = f.seq
    /\ n \in Nat /\ A \in Seq(Frame) /\ w \in Seq(Frame) /\ v \in Seq(Frame)
    /\ Len(w) \in Nat /\ Len(A) \in Nat /\ Len(v) = Len(w) + 1 + Len(A)
    /\ \A i \in 1..Len(w) : v[i] = w[i]
    /\ v[Len(w) + 1] = Result(200)
    /\ \A i \in 1..Len(A) : v[Len(w) + 1 + i] = A[i]
    /\ Members(v) = Members(w) \cup {Result(200)} \cup Members(A)
    /\ Notes(v) = Members(Over(s, n)) /\ Notes(w) = {}

LEMMA ResumedWire ==
    ASSUME SessionTypes, ConnsInOrder, WireInv, NEW c \in Conns, Resumes(c)
    PROVE  /\ WroteAgain(conn[client.place].sent, client.at, wire[c], wire'[c],
                         Again(conn[client.place].sent, client.at))
           /\ \A d \in Conns : d # c => wire'[d] = wire[d]
<1> DEFINE p == client.place
           s == conn[p].sent
           n == client.at
           w == wire[c]
           v == wire'[c]
           A == Again(s, n)
           R == <<Result(200)>>
<1>1. p \in Conns /\ p # c /\ client.on = c /\ conn[c].st = "open" /\ conn[c].first /\ conn[p].st = "closed"
  BY DEF Resumes
<1>2. Tidy(conn[p]) /\ InOrder(conn[p], wire[p], change) /\ s \in Seq(Frame) /\ w \in Seq(Frame) /\ n \in Nat
  BY <1>1, FramesOfConn DEF ConnsInOrder, SessionTypes
<1>3. Ascends(s) /\ \A f \in Members(s) : IsNotification(f) /\ f.to = f.seq
  BY <1>2 DEF Tidy, InOrder
<1>4. A \in Seq(Frame) /\ Notes(A) = Members(Over(s, n))
  BY <1>2, <1>3, AgainFacts
<1>5. v = w \o (R \o A) /\ v \in Seq(Frame) /\ \A d \in Conns : d # c => wire'[d] = wire[d]
  BY <1>1 DEF Resumes, Writes
<1> HIDE DEF p, s, n, w, v, A
<1>6. PICK u \in Seq(Frame) : u = R /\ Len(u) = 1 /\ u[1] = Result(200) /\ Members(u) = {Result(200)}
  <2> DEFINE f == Result(200)
  <2>1. f \in Frame
    BY ResultIsFrame
  <2> HIDE DEF f
  <2>2. <<f>> \in Seq(Frame) /\ Len(<<f>>) = 1 /\ <<f>>[1] = f /\ Members(<<f>>) = {f}
    BY <2>1, OneFrame
  <2> QED BY <2>2 DEF f
<1>7. /\ u \o A \in Seq(Frame) /\ Len(u \o A) = Len(u) + Len(A) /\ Len(A) \in Nat
      /\ \A i \in 1..Len(u) : (u \o A)[i] = u[i]
      /\ \A i \in 1..Len(A) : Len(u) + i \in 1..Len(u \o A) /\ (u \o A)[Len(u) + i] = A[i]
      /\ Members(u \o A) = Members(u) \cup Members(A)
  BY <1>4, Joined
<1>8. 1 \in 1..Len(u)
  BY <1>6
<1> DEFINE z == u \o A
<1>9. /\ z \in Seq(Frame) /\ Len(z) = 1 + Len(A) /\ z[1] = Result(200) /\ 1 \in 1..Len(z)
      /\ \A i \in 1..Len(A) : 1 + i \in 1..Len(z) /\ z[1 + i] = A[i]
      /\ Members(z) = {Result(200)} \cup Members(A)
  BY <1>6, <1>7, <1>8
<1>10. v = w \o z
  BY <1>5, <1>6
<1> HIDE DEF z
<1>11. /\ Len(v) = Len(w) + Len(z) /\ Len(w) \in Nat
       /\ \A i \in 1..Len(w) : v[i] = w[i]
       /\ \A i \in 1..Len(z) : v[Len(w) + i] = z[i]
       /\ Members(v) = Members(w) \cup Members(z)
  <2>1. w \in Seq(Frame) /\ z \in Seq(Frame)
    BY <1>2, <1>9
  <2>2. /\ Len(w \o z) = Len(w) + Len(z) /\ Len(w) \in Nat
        /\ \A i \in 1..Len(w) : (w \o z)[i] = w[i]
        /\ \A i \in 1..Len(z) : (w \o z)[Len(w) + i] = z[i]
        /\ Members(w \o z) = Members(w) \cup Members(z)
    BY <2>1, Joined
  <2> QED BY <1>10, <2>2
<1>12. v[Len(w) + 1] = Result(200) /\ Len(v) = Len(w) + 1 + Len(A)
  BY <1>7, <1>9, <1>11
<1>13. \A i \in 1..Len(A) : v[Len(w) + 1 + i] = A[i]
  <2> TAKE i \in 1..Len(A)
  <2>1. 1 + i \in 1..Len(z) /\ z[1 + i] = A[i]
    BY <1>9
  <2>2. v[Len(w) + (1 + i)] = A[i]
    BY <1>11, <2>1
  <2>3. Len(w) + (1 + i) = Len(w) + 1 + i
    BY <1>11
  <2> QED BY <2>2, <2>3
<1>14. Members(v) = Members(w) \cup {Result(200)} \cup Members(A)
  BY <1>9, <1>11
<1>15. Notes(w) = {}
  BY <1>1, BeforeAnswer DEF Fresh, p, w
<1>16. Notes(v) = Members(Over(s, n))
  BY <1>4, <1>14, <1>15, ResultIsFrame DEF Notes
<1>17. WroteAgain(s, n, w, v, A)
  BY <1>2, <1>3, <1>4, <1>5, <1>7, <1>11, <1>12, <1>13, <1>14, <1>15, <1>16 DEF WroteAgain
<1> QED BY <1>5, <1>17 DEF p, s, n, w, v, A

LEMMA ResumedInOrder ==
    ASSUME SessionTypes, ConnsInOrder, WireInv, NEW c \in Conns, Resumes(c)
    PROVE  \A d \in Conns : Tidy(conn'[d]) /\ InOrder(conn'[d], wire'[d], change)
<1> DEFINE p == client.place
           s == conn[p].sent
           n == client.at
           r == conn'[c]
           v == wire'[c]
<1>1. p \in Conns /\ p # c /\ client.on = c /\ conn[c].st = "open" /\ conn[c].first /\ p # 0 /\ c # 0
  BY LimitAssumption DEF Resumes, Conns
<1>2. /\ s \in Seq(Frame) /\ Ascends(s) /\ n \in Nat
      /\ (\A f \in Members(s) : IsNotification(f) /\ f.to = f.seq)
      /\ Notes(v) = Members(Over(s, n)) /\ \A d \in Conns : d # c => wire'[d] = wire[d]
  <2>1. /\ WroteAgain(s, n, wire[c], v, Again(s, n))
        /\ \A d \in Conns : d # c => wire'[d] = wire[d]
    BY ResumedWire
  <2> HIDE DEF s, n, v
  <2> QED BY <2>1 DEF WroteAgain
<1>3. /\ r.st = "open" /\ r.items = conn[c].items /\ r.overflowed = conn[c].overflowed
      /\ r.seq = LastOf(s, n) /\ r.sent = Over(s, n)
      /\ conn'[p] = Gone /\ \A d \in Conns : d \notin {c, p} => conn'[d] = conn[d]
  BY DEF Resumes
<1>4. \A d \in Conns : Tidy(conn[d]) /\ InOrder(conn[d], wire[d], change)
  BY DEF ConnsInOrder
<1>5. Fresh(conn[c], wire[c]) /\ wire[p] = <<>>
  BY <1>1, BeforeAnswer DEF WireInv
<1>6. /\ Len(r.sent) <= Len(s) /\ Ascends(r.sent)
      /\ \A f : f \in Members(r.sent) <=> f \in Members(s) /\ n < f.seq
      /\ \A f \in Members(r.sent) : f.seq <= r.seq
      /\ Len(r.sent) \in Nat /\ Len(s) \in Nat
  BY <1>2, <1>3, OverFacts, AgainFacts, LenProperties
<1>7. Tidy(r)
  <2>1. Len(s) <= KEPT /\ KEPT \in Nat
    BY <1>1, <1>4, LimitAssumption DEF Tidy
  <2>2. Len(r.sent) <= KEPT
    BY <1>6, <2>1
  <2>3. \A i, k \in 1..Len(r.items) : /\ IsNotification(r.items[i]) /\ IsNotification(r.items[k])
                                      /\ r.items[i].entity = r.items[k].entity
                                      => i = k
    BY <1>3, <1>4 DEF Tidy
  <2> QED BY <1>3, <1>6, <2>2, <2>3 DEF Tidy
<1>8. InOrder(r, v, change)
  <2>1. /\ \A f \in Members(s) : IsNotification(f) /\ f.entity \in Entities /\ f.to = f.seq /\ f.change <= change
        /\ \A f, g \in Members(s) : Later(f, g)
    BY <1>1, <1>4 DEF InOrder
  <2>2. Notes(r.items) = {}
    BY <1>3, <1>5 DEF Fresh
  <2>3. Members(r.sent) \cup Notes(v) = Members(r.sent) /\ Members(r.sent) \subseteq Members(s)
    BY <1>2, <1>3, <1>6
  <2> QED BY <1>6, <2>1, <2>2, <2>3 DEF InOrder
<1>9. Tidy(Gone)
  BY UnusedFields, NoFrame, LimitAssumption DEF Tidy, Ascends, Gone
<1>10. InOrder(Gone, <<>>, change)
  BY UnusedFields, NoFrame DEF InOrder, Notes
<1>11. ASSUME NEW d \in Conns PROVE Tidy(conn'[d]) /\ InOrder(conn'[d], wire'[d], change)
  <2>1. CASE d = c
    BY <1>7, <1>8, <2>1
  <2>2. CASE d = p
    <3>1. conn'[d] = Gone /\ wire'[d] = <<>>
      BY <1>1, <1>2, <1>3, <1>5, <2>2
    <3> QED BY <1>9, <1>10, <3>1
  <2>3. CASE d \notin {c, p}
    BY <1>2, <1>3, <1>4, <2>3
  <2> QED BY <2>1, <2>2, <2>3
<1> QED BY <1>11

LEMMA RefusedWire ==
    ASSUME SessionTypes, NEW c \in Conns, Refuses(c)
    PROVE  LET w == wire[c]
               v == wire'[c]
           IN /\ v \in Seq(Frame) /\ w \in Seq(Frame) /\ Len(w) \in Nat /\ Len(v) = Len(w) + 1
              /\ \A i \in 1..Len(w) : v[i] = w[i]
              /\ v[Len(w) + 1] = Result(404)
              /\ Members(v) = Members(w) \cup {Result(404)} /\ Notes(v) = Notes(w)
              /\ \A d \in Conns : d # c => wire'[d] = wire[d]
<1> DEFINE w == wire[c]
           f == Result(404)
<1>1. f \in Frame /\ ~IsNotification(f)
  BY ResultIsFrame
<1>2. w \in Seq(Frame) /\ Len(w) \in Nat
  BY FramesOfConn, LenProperties
<1>3. wire'[c] = w \o <<f>> /\ \A d \in Conns : d # c => wire'[d] = wire[d]
  BY DEF Refuses, Writes
<1> HIDE DEF w, f
<1>4. /\ w \o <<f>> \in Seq(Frame) /\ Len(w \o <<f>>) = Len(w) + 1
      /\ (w \o <<f>>)[Len(w) + 1] = f
      /\ \A i \in 1..Len(w) : (w \o <<f>>)[i] = w[i]
      /\ Members(w \o <<f>>) = Members(w) \cup {f}
  BY <1>1, <1>2, JoinedFrame
<1>5. Notes(w \o <<f>>) = Notes(w)
  BY <1>1, <1>4 DEF Notes
<1> QED BY <1>2, <1>3, <1>4, <1>5 DEF w, f

LEMMA ReadWire ==
    ASSUME SessionTypes, NEW c \in Conns, Reads(c)
    PROVE  LET w == wire[c]
               v == wire'[c]
           IN /\ w \in Seq(Frame) /\ v \in Seq(Frame) /\ Len(w) \in Nat \ {0} /\ Len(v) = Len(w) - 1
              /\ w[1] \in Frame
              /\ \A i \in 1..Len(v) : i + 1 \in 1..Len(w) /\ v[i] = w[i + 1]
              /\ Members(w) = {w[1]} \cup Members(v) /\ Notes(v) \subseteq Notes(w)
<1>1. wire[c] \in Seq(Frame) /\ wire[c] # <<>> /\ wire'[c] = Tail(wire[c])
  BY FramesOfConn DEF Reads
<1>2. /\ Len(wire[c]) \in Nat \ {0} /\ wire[c][1] \in Frame
      /\ Tail(wire[c]) \in Seq(Frame) /\ Len(Tail(wire[c])) = Len(wire[c]) - 1
      /\ \A i \in 1..Len(Tail(wire[c])) : i + 1 \in 1..Len(wire[c]) /\ Tail(wire[c])[i] = wire[c][i + 1]
      /\ Members(wire[c]) = {wire[c][1]} \cup Members(Tail(wire[c]))
  BY <1>1, Rest
<1>3. Notes(wire'[c]) \subseteq Notes(wire[c])
  BY <1>1, <1>2 DEF Notes
<1> QED BY <1>1, <1>2, <1>3

(* A connection that changes to less. *)
LEMMA LessInOrder ==
    ASSUME SessionTypes, SessionTypes', ConnsInOrder, NEW c \in Conns, change' = change,
           Tidy(conn'[c]), Known(conn'[c], wire'[c]) \subseteq Known(conn[c], wire[c]),
           conn'[c].st = "open" => conn[c].st = "open" /\ conn[c].seq <= conn'[c].seq,
           Notes(conn'[c].items) \subseteq Notes(conn[c].items)
    PROVE  Tidy(conn'[c]) /\ InOrder(conn'[c], wire'[c], change')
<1>1. InOrder(conn[c], wire[c], change)
  BY DEF ConnsInOrder
<1>2. /\ \A f \in Known(conn[c], wire[c]) : f.seq \in Nat
      /\ conn[c].seq \in Nat
  BY FramesOfConn
<1>3. conn'[c].seq \in Nat
  BY ConnFields DEF SessionTypes
<1>4. InOrder(conn'[c], wire'[c], change)
  BY <1>1, <1>2, <1>3, InOrderLess
<1> QED BY <1>4

LEMMA ConnsStep ==
    ASSUME SessionTypes, SessionTypes', ConnsInOrder, WireInv, [Next]_vars
    PROVE  ConnsInOrder'
<1>1. \A c \in Conns : /\ Tidy(conn[c]) /\ InOrder(conn[c], wire[c], change)
                       /\ conn[c] \in ConnType /\ conn'[c] \in ConnType
  BY DEF ConnsInOrder, SessionTypes
<1>2. SUFFICES ASSUME NEW d \in Conns PROVE Tidy(conn'[d]) /\ InOrder(conn'[d], wire'[d], change')
  BY DEF ConnsInOrder
<1>3. CASE conn'[d] = conn[d] /\ wire'[d] = wire[d] /\ change' = change
  BY <1>1, <1>3
<1>4. ASSUME NEW out \in ItemType, QueuesMove(out)
      PROVE  Tidy(conn'[d]) /\ InOrder(conn'[d], wire'[d], change')
  <2>1. Pushed(conn[d], conn'[d], out) /\ wire' = wire
    BY <1>4 DEF QueuesMove
  <2>2. change \in Nat /\ change' \in Nat /\ change <= change'
    BY <1>4, LimitAssumption DEF QueuesMove, SessionTypes
  <2>3. IsNotification(out) => /\ out.entity \in Entities /\ out.change = change + 1
                               /\ change' = change + 1
    BY <1>4 DEF QueuesMove
  <2>4. /\ \A f \in Members(conn[d].sent) \cup Notes(wire[d]) : f.change \in Nat
        /\ \A x \in Notes(conn[d].items) : x.change \in Nat
    BY FramesOfConn DEF Known
  <2>5. InOrder(conn'[d], wire[d], change')
    BY <1>1, <2>1, <2>2, <2>3, <2>4, PushedInOrder
  <2> QED BY <2>1, <2>5 DEF Pushed
<1>5. ASSUME NEW c \in Conns, ConnEnds(c)
      PROVE  Tidy(conn'[d]) /\ InOrder(conn'[d], wire'[d], change')
  <2>1. CASE d # c
    BY <1>3, <1>5, <2>1 DEF ConnEnds, OnlyConn
  <2>2. CASE d = c
    <3> DEFINE q == conn[d]
               r == conn'[d]
    <3>1. /\ r.st \in {"ending", "closed", "gone"} /\ r.items = <<>> /\ ~r.overflowed
          /\ (r.st = "gone" => r = Gone) /\ (r.st # "gone" => r.sent = q.sent)
          /\ wire' = wire /\ change' = change
      BY <1>5, <2>2 DEF ConnEnds
    <3>2. r.sent = q.sent \/ r.sent = <<>>
      BY <3>1, UnusedFields
    <3>3. Notes(r.items) = {}
      BY <3>1, NoFrame DEF Notes
    <3>4. Known(r, wire'[d]) \subseteq Known(q, wire[d])
      BY <3>1, <3>2, NoFrame DEF Known
    <3>5. Tidy(r)
      <4>1. Ascends(r.sent) /\ Len(r.sent) <= KEPT
        BY <1>1, <3>2, NoFrame, LimitAssumption, SMTT(20) DEF Tidy, Ascends
      <4>2. \A i \in 1..Len(r.items) : FALSE
        BY <3>1, NoFrame
      <4> HIDE DEF r
      <4>3. r.st # "unused" /\ (r.st = "gone" => r = [Unused EXCEPT !.st = "gone"])
        BY <3>1 DEF Gone
      <4> QED BY <3>1, <4>1, <4>2, <4>3 DEF Tidy
    <3>6. r.st # "open" /\ change' = change
      BY <3>1
    <3> QED BY <3>3, <3>4, <3>5, <3>6, LessInOrder
  <2> QED BY <2>1, <2>2
<1>6. ASSUME NEW c \in Conns, Takes(c)
      PROVE  Tidy(conn'[d]) /\ InOrder(conn'[d], wire'[d], change')
  <2>1. CASE d # c
    BY <1>3, <1>6, <2>1 DEF Takes, OnlyConn, Writes
  <2>2. CASE d = c
    BY <1>6, <2>2, TakenInOrder DEF Takes
  <2> QED BY <2>1, <2>2
<1>7. ASSUME NEW c \in Conns, Resumes(c)
      PROVE  Tidy(conn'[d]) /\ InOrder(conn'[d], wire'[d], change')
  BY <1>7, ResumedInOrder DEF Resumes
<1>8. ASSUME NEW c \in Conns, Refuses(c) \/ Subscribes(c)
      PROVE  Tidy(conn'[d]) /\ InOrder(conn'[d], wire'[d], change')
  <2>1. CASE d # c
    BY <1>3, <1>8, <2>1 DEF Refuses, Subscribes, OnlyConn, Writes
  <2>2. CASE d = c
    <3> DEFINE q == conn[d]
               r == conn'[d]
    <3>1. /\ q.st = "open" /\ r.st = "open" /\ r.items = q.items /\ r.overflowed = q.overflowed
          /\ r.seq = q.seq /\ r.sent = q.sent /\ change' = change
      BY <1>8, <2>2 DEF Refuses, Subscribes
    <3>2. Notes(wire'[d]) = Notes(wire[d])
      BY <1>8, <2>2, RefusedWire DEF Subscribes
    <3>3. Tidy(r)
      BY <1>1, <3>1 DEF Tidy
    <3>4. Known(r, wire'[d]) \subseteq Known(q, wire[d])
      BY <3>1, <3>2 DEF Known
    <3>5. q.seq <= r.seq
      BY <3>1, FramesOfConn
    <3> QED BY <3>1, <3>3, <3>4, <3>5, LessInOrder
  <2> QED BY <2>1, <2>2
<1>9. ASSUME NEW c \in Conns, Reads(c) \/ Leaves(c)
      PROVE  Tidy(conn'[d]) /\ InOrder(conn'[d], wire'[d], change')
  <2>1. CASE d # c
    BY <1>3, <1>9, <2>1 DEF Reads, Leaves
  <2>2. CASE d = c
    <3>1. conn' = conn /\ change' = change
      BY <1>9 DEF Reads, Leaves
    <3>2. Notes(wire'[d]) \subseteq Notes(wire[d])
      BY <1>9, <2>2, ReadWire, NoFrame DEF Leaves, Notes
    <3>3. Known(conn'[d], wire'[d]) \subseteq Known(conn[d], wire[d])
      BY <3>1, <3>2 DEF Known
    <3>4. conn[d].seq <= conn'[d].seq
      BY <3>1, FramesOfConn
    <3> QED BY <1>1, <3>1, <3>3, <3>4, LessInOrder
  <2> QED BY <2>1, <2>2
<1>10. ASSUME NEW c \in Conns, Connects(c)
       PROVE  Tidy(conn'[d]) /\ InOrder(conn'[d], wire'[d], change')
  <2>1. CASE d # c
    BY <1>3, <1>10, <2>1 DEF Connects, OnlyConn
  <2>2. CASE d = c
    <3> DEFINE r == conn'[d]
    <3>1. /\ r.st = "open" /\ r.items = <<>> /\ ~r.overflowed /\ r.seq = 0 /\ r.sent = <<>>
          /\ wire' = wire /\ change' = change /\ client.on = 0
      BY <1>10, <2>2 DEF Connects
    <3>2. wire[d] = <<>>
      BY <3>1, LimitAssumption DEF WireInv, Conns
    <3> HIDE DEF r
    <3>3. \A i \in 1..Len(r.items) : FALSE
      BY <3>1, NoFrame
    <3>4. \A i \in 1..Len(r.sent) : FALSE
      BY <3>1, NoFrame
    <3>5. Len(r.sent) <= KEPT
      BY <3>1, NoFrame, LimitAssumption
    <3>6. Tidy(r)
      BY <3>1, <3>3, <3>4, <3>5 DEF Tidy, Ascends
    <3>7. Notes(r.items) = {} /\ Members(r.sent) = {} /\ Notes(wire'[d]) = {}
      BY <3>1, <3>2, NoFrame DEF Notes
    <3>8. InOrder(r, wire'[d], change')
      BY <3>7 DEF InOrder
    <3> QED BY <3>6, <3>8 DEF r
  <2> QED BY <2>1, <2>2
<1>11. CASE UNCHANGED <<conn, wire, change, used, clientVars>>
  BY <1>3, <1>11
<1> QED
  BY <1>4, <1>5, <1>6, <1>7, <1>8, <1>9, <1>10, <1>11, StepKinds
  DEF ReadsPlace, ReadsRefusal, ReadsNote, ReadsGap

-----------------------------------------------------------------------------
(* What is on the wire goes on. *)

LEMMA NoResult ==
    ASSUME NEW f, f.kind \in {"notification", "gap"}
    PROVE  f # Result(200) /\ f # Result(404)
BY ResultIsFrame

LEMMA AnswerIsOne ==
    ASSUME NEW w \in Seq(Frame), NEW k, NEW m, Answered(w, k), Answered(w, m)
    PROVE  k = m
<1>1. k \in 0..Len(w) /\ m \in 0..Len(w) /\ Len(w) \in Nat
  BY LenProperties DEF Answered
<1>2. ASSUME NEW a \in 0..Len(w), NEW b \in 0..Len(w), Answered(w, a), Answered(w, b), a < b
      PROVE  FALSE
  <2>1. b \in 1..Len(w) /\ b > a /\ b # 0
    BY <1>1, <1>2
  <2>2. w[b].kind \in {"notification", "gap"}
    BY <1>2, <2>1 DEF Answered
  <2>3. w[b] = Result(200) \/ w[b] = Result(404)
    BY <1>2, <2>1 DEF Answered
  <2> QED BY <2>2, <2>3, ResultIsFrame
<1>3. ~(k < m) /\ ~(m < k)
  BY <1>1, <1>2
<1> QED BY <1>1, <1>3

LEMMA FromIsNat ==
    ASSUME NEW c, NEW w, NEW p, NEW n \in Nat
    PROVE  From(c, w, p, n) \in Nat
BY DEF From

(* The wire is as it was, and the connection may number on. *)
LEMMA OnWireKept ==
    ASSUME NEW c, NEW w \in Seq(Frame), NEW q, NEW r, NEW p, NEW n \in Nat, OnWire(c, w, q, p, n),
           q.seq \in Nat, r.seq \in Nat,
           r.st = "open" => q.st = "open" /\ q.seq <= r.seq /\ (r.first => q.first)
    PROVE  OnWire(c, w, r, p, n)
<1> DEFINE F == From(c, w, p, n)
<1>1. F \in Nat
  BY FromIsNat
<1>2. PICK k \in 0..Len(w) : /\ Answered(w, k) /\ GoesOn(w, k, F, q)
                             /\ k # 0 => p \notin {0, c} /\ (q.st = "open" => ~q.first)
  BY DEF OnWire
<1> HIDE DEF F
<1>3. \A i \in 1..Len(w) : w[i].to \in Nat
  BY ElementOfSeq, FrameFields
<1>4. GoesOn(w, k, F, r)
  BY <1>1, <1>2, <1>3 DEF GoesOn
<1>5. k # 0 => p \notin {0, c} /\ (r.st = "open" => ~r.first)
  BY <1>2
<1> QED BY <1>2, <1>4, <1>5 DEF OnWire, F

(* More is written to an open connection. *)
LEMMA OnWireTaken ==
    ASSUME NEW c, NEW w \in Seq(Frame), NEW q, NEW r, NEW p, NEW n \in Nat, OnWire(c, w, q, p, n),
           NEW W \in Seq(Frame), NEW items, Numbered(W, q.seq, items),
           q.seq \in Nat, r.seq \in Nat, q.st = "open", r.first = q.first,
           r.st = "open" => r.seq = q.seq + Len(W)
    PROVE  OnWire(c, w \o W, r, p, n) /\ (Moved(w \o W) <=> Moved(w))
<1> DEFINE v == w \o W
           F == From(c, w, p, n)
           m == Len(w)
<1>1. /\ v \in Seq(Frame) /\ Len(v) = m + Len(W) /\ m \in Nat /\ Len(W) \in Nat
      /\ \A i \in 1..m : i \in 1..Len(v) /\ v[i] = w[i]
      /\ \A i \in 1..Len(W) : m + i \in 1..Len(v) /\ v[m + i] = W[i]
      /\ \A i \in 1..Len(v) : \/ i \in 1..m
                              \/ (i - m \in 1..Len(W) /\ i = m + (i - m))
      /\ Members(v) = Members(w) \cup Members(W)
  BY Joined
<1>2. F \in Nat
  BY FromIsNat
<1>3. PICK k \in 0..m : /\ Answered(w, k) /\ GoesOn(w, k, F, q)
                        /\ k # 0 => p \notin {0, c} /\ (q.st = "open" => ~q.first)
  BY DEF OnWire
<1>4. /\ \A i \in 1..Len(W) : /\ W[i].seq = q.seq + i /\ W[i].to = q.seq + i
                              /\ W[i].kind \in {"notification", "gap"}
  BY DEF Numbered
<1>5. Moved(v) <=> Moved(w)
  <2>1. \A i \in 1..Len(W) : W[i] # Result(200)
    BY <1>4, NoResult
  <2>2. Result(200) \notin Members(W)
    BY <2>1 DEF Members
  <2> QED BY <1>1, <2>2 DEF Moved
<1>6. F = From(c, v, p, n)
  BY <1>5 DEF From
<1>7. \A i \in 1..m : w[i].to \in Nat /\ w[i].seq \in Nat
  BY ElementOfSeq, FrameFields
<1> HIDE DEF v, F, m
<1>8. ASSUME NEW i \in 1..Len(v), i > k
      PROVE  \/ i \in 1..m /\ v[i] = w[i] /\ F < w[i].seq /\ w[i].seq <= w[i].to /\ w[i].to <= q.seq
                /\ w[i].kind \in {"notification", "gap"}
             \/ \E j \in 1..Len(W) : i = m + j /\ v[i] = W[j]
  <2>1. CASE i \in 1..m
    BY <1>1, <1>3, <1>8, <2>1 DEF GoesOn, Answered, m
  <2>2. CASE i - m \in 1..Len(W) /\ i = m + (i - m)
    <3>1. v[m + (i - m)] = W[i - m]
      BY <1>1, <2>2
    <3> QED BY <2>2, <3>1
  <2> QED BY <1>1, <2>1, <2>2
<1>9. F <= q.seq
  BY <1>3 DEF GoesOn
<1>10. Answered(v, k)
  <2>1. k \in 0..Len(v) /\ (k # 0 => k \in 1..m)
    BY <1>1
  <2>2. k # 0 => v[k] \in {Result(200), Result(404)}
    BY <1>1, <1>3, <2>1 DEF Answered
  <2>3. \A i \in 1..Len(v) : i < k => v[i].kind = "gap"
    <3>1. \A i \in 1..Len(v) : i < k => i \in 1..m
      BY <1>1
    <3>2. \A i \in 1..m : i < k => w[i].kind = "gap"
      BY <1>3 DEF Answered, m
    <3>3. \A i \in 1..m : v[i] = w[i]
      BY <1>1
    <3> QED BY <3>1, <3>2, <3>3
  <2>4. \A i \in 1..Len(v) : i > k => v[i].kind \in {"notification", "gap"}
    BY <1>4, <1>8
  <2> QED BY <2>1, <2>2, <2>3, <2>4 DEF Answered
<1>11. GoesOn(v, k, F, r)
  <2>1. ASSUME NEW i \in 1..Len(v), i > k
        PROVE  F < v[i].seq /\ v[i].seq <= v[i].to /\ (r.st = "open" => v[i].to <= r.seq)
    <3>1. CASE i \in 1..m /\ v[i] = w[i] /\ F < w[i].seq /\ w[i].seq <= w[i].to /\ w[i].to <= q.seq
      <4>1. r.st = "open" => q.seq <= r.seq
        BY <1>1
      <4> QED BY <1>7, <3>1, <4>1
    <3>2. ASSUME NEW j \in 1..Len(W), i = m + j, v[i] = W[j]
          PROVE  F < v[i].seq /\ v[i].seq <= v[i].to /\ (r.st = "open" => v[i].to <= r.seq)
      <4>1. v[i].seq = q.seq + j /\ v[i].to = q.seq + j
        BY <1>4, <3>2
      <4> QED BY <1>1, <1>2, <1>9, <4>1
    <3> QED BY <1>8, <2>1, <3>1, <3>2
  <2>2. ASSUME NEW i \in 1..Len(v), NEW j \in 1..Len(v), k < i, i < j PROVE v[i].to < v[j].seq
    <3>1. i > k /\ j > k
      BY <2>2
    <3>2. CASE i \in 1..m /\ v[i] = w[i] /\ w[i].to <= q.seq /\ j \in 1..m /\ v[j] = w[j]
      BY <1>3, <2>2, <3>2 DEF GoesOn, m
    <3>3. ASSUME NEW b \in 1..Len(W), j = m + b, v[j] = W[b], i \in 1..m, v[i] = w[i], w[i].to <= q.seq
          PROVE  v[i].to < v[j].seq
      <4>1. v[j].seq = q.seq + b
        BY <1>4, <3>3
      <4> QED BY <1>7, <3>3, <4>1
    <3>4. ASSUME NEW a \in 1..Len(W), i = m + a, v[i] = W[a], NEW b \in 1..Len(W), j = m + b, v[j] = W[b]
          PROVE  v[i].to < v[j].seq
      <4>1. v[i].to = q.seq + a /\ v[j].seq = q.seq + b /\ a < b
        BY <1>1, <1>4, <2>2, <3>4
      <4> QED BY <4>1
    <3>5. ASSUME NEW a \in 1..Len(W), i = m + a, j \in 1..m PROVE FALSE
      BY <1>1, <2>2, <3>5
    <3> QED BY <1>8, <3>1, <3>2, <3>3, <3>4, <3>5
  <2>3. r.st = "open" => F <= r.seq
    BY <1>1, <1>2, <1>9
  <2> QED BY <2>1, <2>2, <2>3 DEF GoesOn
<1>12. k \in 0..Len(v)
  BY <1>1
<1>13. OnWire(c, v, r, p, n)
  BY <1>3, <1>6, <1>10, <1>11, <1>12 DEF OnWire
<1> QED BY <1>5, <1>13 DEF v

(* v is w, the answer and what is sent again. *)
Laid(w, v, A) ==
    /\ Len(v) = Len(w) + 1 + Len(A) /\ \A i \in 1..Len(w) : v[i] = w[i]
    /\ v[Len(w) + 1] = Result(200) /\ \A i \in 1..Len(A) : v[Len(w) + 1 + i] = A[i]

(* What is sent again goes on after the x-seq of the client. *)
LEMMA OnWireResumed ==
    ASSUME NEW c, NEW w \in Seq(Frame), NEW A \in Seq(Frame), NEW v \in Seq(Frame), NEW r, NEW p,
           NEW n \in Nat, p \notin {0, c}, ~r.first, r.seq \in Nat, n <= r.seq,
           \A i \in 1..Len(w) : w[i].kind = "gap",
           Onwards(A, n, r.seq), Laid(w, v, A)
    PROVE  OnWire(c, v, r, p, n) /\ Moved(v) /\ Answered(v, Len(w) + 1)
<1> DEFINE k == Len(w) + 1
           L == Len(A)
<1>1. L \in Nat /\ Len(w) \in Nat /\ k \in Nat \ {0} /\ k \in 1..Len(v) /\ k \in 0..Len(v) /\ Len(v) = k + L
  BY LenProperties DEF Laid
<1>2. v[k] = Result(200) /\ \A i \in 1..L : v[k + i] = A[i]
  BY DEF Laid
<1>3. \A i \in 1..Len(v) : i < k => i \in 1..Len(w) /\ v[i] = w[i]
  BY <1>1 DEF Laid
<1> HIDE DEF k, L
<1>4. Moved(v)
  BY <1>1, <1>2 DEF Moved, Members
<1>5. From(c, v, p, n) = n
  BY <1>4 DEF From
<1>6. ASSUME NEW i \in 1..Len(v), i > k PROVE \E j \in 1..L : i = k + j /\ v[i] = A[j]
  <2>1. i - k \in 1..L /\ i = k + (i - k)
    BY <1>1, <1>6
  <2> QED BY <1>2, <2>1
<1>7. Answered(v, k)
  <2>1. \A i \in 1..Len(v) : i > k => v[i].kind \in {"notification", "gap"}
    BY <1>6 DEF Onwards, L
  <2>2. \A i \in 1..Len(v) : i < k => v[i].kind = "gap"
    BY <1>3
  <2> QED BY <1>1, <1>2, <2>1, <2>2 DEF Answered
<1>8. GoesOn(v, k, n, r)
  <2>1. ASSUME NEW i \in 1..Len(v), i > k
        PROVE  n < v[i].seq /\ v[i].seq <= v[i].to /\ v[i].to <= r.seq
    <3>1. PICK a \in 1..L : v[i] = A[a]
      BY <1>6, <2>1
    <3> QED BY <3>1 DEF Onwards, L
  <2>2. ASSUME NEW i \in 1..Len(v), NEW j \in 1..Len(v), k < i, i < j PROVE v[i].to < v[j].seq
    <3>1. i > k /\ j > k
      BY <1>1, <2>2
    <3>2. PICK a \in 1..L : i = k + a /\ v[i] = A[a]
      BY <1>6, <3>1
    <3>3. PICK b \in 1..L : j = k + b /\ v[j] = A[b]
      BY <1>6, <3>1
    <3>4. a < b
      BY <1>1, <2>2, <3>2, <3>3
    <3> QED BY <3>2, <3>3, <3>4 DEF Onwards, L
  <2> QED BY <2>1, <2>2 DEF GoesOn
<1>9. OnWire(c, v, r, p, n)
  BY <1>1, <1>5, <1>7, <1>8 DEF OnWire
<1> QED BY <1>4, <1>7, <1>9 DEF k

LEMMA OnWireRefused ==
    ASSUME NEW c, NEW w \in Seq(Frame), NEW v \in Seq(Frame), NEW r, NEW p,
           NEW n, p \notin {0, c}, ~r.first, r.seq \in Nat,
           \A i \in 1..Len(w) : w[i].kind = "gap",
           Len(v) = Len(w) + 1, \A i \in 1..Len(w) : v[i] = w[i], v[Len(w) + 1] = Result(404)
    PROVE  OnWire(c, v, r, p, n) /\ ~Moved(v) /\ Answered(v, Len(w) + 1)
<1> DEFINE k == Len(w) + 1
<1>1. Len(w) \in Nat /\ k \in Nat \ {0} /\ k \in 0..Len(v) /\ Len(v) = k /\ v[k] = Result(404)
  BY LenProperties
<1>2. \A i \in 1..Len(v) : (i < k => i \in 1..Len(w)) /\ (i < k \/ i = k) /\ ~(i > k)
  BY <1>1
<1> HIDE DEF k
<1>3. \A i \in 1..Len(w) : w[i] # Result(200)
  BY NoResult
<1>4. ~Moved(v)
  <2>1. \A i \in 1..Len(v) : v[i] # Result(200)
    BY <1>1, <1>2, <1>3, ResultIsFrame
  <2> QED BY <2>1 DEF Moved, Members
<1>5. From(c, v, p, n) = 0
  BY <1>4 DEF From
<1>6. Answered(v, k)
  BY <1>1, <1>2 DEF Answered
<1>7. GoesOn(v, k, 0, r)
  BY <1>1, <1>2 DEF GoesOn
<1>8. OnWire(c, v, r, p, n)
  BY <1>1, <1>5, <1>6, <1>7 DEF OnWire
<1> QED BY <1>4, <1>6, <1>8 DEF k

(* The wire after its first frame. *)
Shorter(v, w) == Len(v) = Len(w) - 1 /\ \A i \in 1..Len(v) : i + 1 \in 1..Len(w) /\ v[i] = w[i + 1]

LEMMA GoesOnShorter ==
    ASSUME NEW w \in Seq(Frame), NEW v \in Seq(Frame), Shorter(v, w), NEW q, NEW k \in 1..Len(w), NEW n,
           GoesOn(w, k, n, q)
    PROVE  GoesOn(v, k - 1, n, q)
<1>1. Len(w) \in Nat /\ Len(v) \in Nat /\ Len(v) = Len(w) - 1 /\ \A i \in 1..Len(v) : v[i] = w[i + 1]
  BY LenProperties DEF Shorter
<1>2. \A i \in 1..Len(v) : i + 1 \in 1..Len(w) /\ (i > k - 1 => i + 1 > k) /\ (k - 1 < i => k < i + 1)
  BY <1>1
<1>3. \A i, j \in 1..Len(v) : i < j => i + 1 < j + 1
  OBVIOUS
<1> QED BY <1>1, <1>2, <1>3 DEF GoesOn

(* With a first frame that counts, it goes on from there. *)
LEMMA GoesOnFirst ==
    ASSUME NEW w \in Seq(Frame), NEW v \in Seq(Frame), w # <<>>, Shorter(v, w), NEW q, NEW n \in Nat,
           GoesOn(w, 0, n, q)
    PROVE  /\ GoesOn(v, 0, w[1].to, q) /\ n < w[1].seq /\ w[1].seq <= w[1].to
           /\ q.st = "open" => w[1].to <= q.seq
           /\ GoesOn(v, 0, n, q)
<1>1. /\ Len(w) \in Nat \ {0} /\ Len(v) \in Nat /\ Len(v) = Len(w) - 1 /\ 1 \in 1..Len(w)
      /\ \A i \in 1..Len(v) : i + 1 \in 1..Len(w) /\ v[i] = w[i + 1] /\ i + 1 > 0 /\ 1 < i + 1
  <2>1. Len(w) \in Nat \ {0}
    BY EmptySeq
  <2> QED BY <2>1, LenProperties DEF Shorter
<1>2. /\ \A i \in 1..Len(w) : i > 0 => /\ n < w[i].seq /\ w[i].seq <= w[i].to
                                       /\ (q.st = "open" => w[i].to <= q.seq)
      /\ \A i, j \in 1..Len(w) : 0 < i /\ i < j => w[i].to < w[j].seq
  BY DEF GoesOn
<1>3. \A i, j \in 1..Len(v) : i < j => i + 1 < j + 1
  OBVIOUS
<1>4. n < w[1].seq /\ w[1].seq <= w[1].to /\ (q.st = "open" => w[1].to <= q.seq)
  BY <1>1, <1>2
<1>5. ASSUME NEW i \in 1..Len(v)
      PROVE  /\ w[1].to < v[i].seq /\ n < v[i].seq /\ v[i].seq <= v[i].to
             /\ (q.st = "open" => v[i].to <= q.seq)
  <2> DEFINE j == i + 1
  <2>1. j \in 1..Len(w) /\ v[i] = w[j] /\ j > 0 /\ 1 < j /\ 0 < 1
    BY <1>1
  <2> HIDE DEF j
  <2> QED BY <1>1, <1>2, <2>1
<1>6. \A i, j \in 1..Len(v) : i < j => v[i].to < v[j].seq
  <2> TAKE i, j \in 1..Len(v)
  <2>1. i < j => i + 1 < j + 1 /\ 0 < i + 1
    OBVIOUS
  <2> QED BY <1>1, <1>2, <2>1
<1>7. q.st = "open" => n <= q.seq
  BY DEF GoesOn
<1> QED BY <1>4, <1>5, <1>6, <1>7 DEF GoesOn

LEMMA AnsweredShorter ==
    ASSUME NEW w \in Seq(Frame), NEW v \in Seq(Frame), w # <<>>, Shorter(v, w), NEW k, Answered(w, k)
    PROVE  /\ k # 0 => Answered(v, k - 1) /\ k - 1 \in 0..Len(v)
           /\ k = 0 => Answered(v, 0) /\ 0 \in 0..Len(v)
<1>1. /\ Len(w) \in Nat \ {0} /\ Len(v) \in Nat /\ Len(v) = Len(w) - 1
      /\ \A i \in 1..Len(v) : i + 1 \in 1..Len(w) /\ v[i] = w[i + 1] /\ i + 1 > 0
  <2>1. Len(w) \in Nat \ {0}
    BY EmptySeq
  <2> QED BY <2>1, LenProperties DEF Shorter
<1>2. /\ k \in 0..Len(w) /\ (k # 0 => w[k] \in {Result(200), Result(404)})
      /\ \A i \in 1..Len(w) : i < k => w[i].kind = "gap"
      /\ \A i \in 1..Len(w) : i > k => w[i].kind \in {"notification", "gap"}
  BY DEF Answered
<1>3. ASSUME k # 0 PROVE Answered(v, k - 1) /\ k - 1 \in 0..Len(v)
  <2> DEFINE m == k - 1
  <2>1. m \in 0..Len(v) /\ k = m + 1 /\ (m # 0 => m \in 1..Len(v))
    BY <1>1, <1>2, <1>3
  <2> HIDE DEF m
  <2>2. m # 0 => v[m] = w[k]
    BY <1>1, <2>1
  <2>3. \A i \in 1..Len(v) : (i < m => i + 1 < k) /\ (i > m => i + 1 > k)
    BY <2>1
  <2>4. Answered(v, m)
    BY <1>1, <1>2, <1>3, <2>1, <2>2, <2>3 DEF Answered
  <2> QED BY <2>1, <2>4 DEF m
<1>4. ASSUME k = 0 PROVE Answered(v, 0) /\ 0 \in 0..Len(v)
  <2>1. \A i \in 1..Len(v) : v[i].kind \in {"notification", "gap"} /\ ~(i < 0)
    BY <1>1, <1>2, <1>4
  <2> QED BY <1>1, <2>1 DEF Answered
<1> QED BY <1>3, <1>4

(* Where the answer is, by the first frame. *)
LEMMA HeadAnswer ==
    ASSUME NEW w \in Seq(Frame), w # <<>>, NEW k, Answered(w, k)
    PROVE  /\ w[1] \in {Result(200), Result(404)} => k = 1
           /\ IsNotification(w[1]) => k = 0
           /\ k = 0 => ~Moved(w) /\ w[1].kind \in {"notification", "gap"}
           /\ w[1] = Result(404) => ~Moved(w)
           /\ k = 1 /\ w[1].kind = "gap" => FALSE
<1>1. Len(w) \in Nat \ {0} /\ 1 \in 1..Len(w) /\ k \in 0..Len(w)
  <2>1. Len(w) \in Nat \ {0}
    BY EmptySeq
  <2> QED BY <2>1 DEF Answered
<1>2. /\ (k # 0 => w[k] \in {Result(200), Result(404)})
      /\ \A i \in 1..Len(w) : i < k => w[i].kind = "gap"
      /\ \A i \in 1..Len(w) : i > k => w[i].kind \in {"notification", "gap"}
  BY DEF Answered
<1>3. (1 < k => w[1].kind = "gap") /\ (1 > k => w[1].kind \in {"notification", "gap"})
  BY <1>1, <1>2
<1>4. Result(200).kind = "result" /\ Result(404).kind = "result"
  BY ResultIsFrame
<1>5. w[1] \in {Result(200), Result(404)} => k = 1
  BY <1>1, <1>3, <1>4
<1>6. IsNotification(w[1]) => k = 0
  <2>1. CASE k = 1
    BY <1>2, <1>4, <2>1 DEF IsNotification
  <2>2. CASE k # 1
    BY <1>1, <1>3, <2>2 DEF IsNotification
  <2> QED BY <2>1, <2>2
<1>7. ASSUME k = 0 PROVE ~Moved(w) /\ w[1].kind \in {"notification", "gap"}
  <2>1. \A i \in 1..Len(w) : w[i].kind \in {"notification", "gap"}
    BY <1>2, <1>7
  <2>2. \A i \in 1..Len(w) : w[i] # Result(200)
    BY <2>1, NoResult
  <2> QED BY <1>1, <2>1, <2>2 DEF Moved, Members
<1>8. ASSUME w[1] = Result(404) PROVE ~Moved(w)
  <2>1. \A i \in 1..Len(w) : i = 1 \/ w[i].kind \in {"notification", "gap"}
    BY <1>1, <1>2, <1>5, <1>8
  <2>2. \A i \in 1..Len(w) : w[i] # Result(200)
    BY <1>8, <2>1, NoResult, ResultIsFrame
  <2> QED BY <2>2 DEF Moved, Members
<1>9. k = 1 /\ w[1].kind = "gap" => FALSE
  BY <1>2, <1>4
<1> QED BY <1>5, <1>6, <1>7, <1>8, <1>9

Keeps(q, r) ==
    /\ r.st = "open" => q.st = "open" /\ q.seq <= r.seq /\ (r.first => q.first)
    /\ q.st # "unused" => r.st # "unused"
    /\ q.st = "gone" => r.st = "gone"

(* Connections that go on, under the same wires. *)
LEMMA WireKept ==
    ASSUME SessionTypes, SessionTypes', WireInv, wire' = wire, client' = client,
           \A d \in Conns : Keeps(conn[d], conn'[d]),
           client.on # 0 /\ client.on # Carrier => Fresh(conn'[client.on], wire[client.on])
    PROVE  WireInv'
<1>1. /\ \A d \in Conns : wire[d] \in Seq(Frame) /\ conn[d].seq \in Nat /\ conn'[d].seq \in Nat
      /\ client \in ClientType
  BY FramesOfConn, ConnFields DEF SessionTypes, ClientType
<1>2. Carrier' = Carrier
  BY DEF Carrier
<1>3. client.on \in Conns \cup {0} /\ client.place \in Conns \cup {0} /\ client.at \in Nat
      /\ Carrier \in Conns \cup {0}
  BY <1>1 DEF ClientType, Carrier
<1>4. ASSUME client.on # 0
      PROVE  OnWire(client.on, wire[client.on], conn'[client.on], client.place, client.at)
  <2>1. OnWire(client.on, wire[client.on], conn[client.on], client.place, client.at)
    BY <1>4 DEF WireInv
  <2> DEFINE c == client.on
  <2>2. c \in Conns
    BY <1>3, <1>4
  <2>3. wire[c] \in Seq(Frame) /\ conn[c].seq \in Nat /\ conn'[c].seq \in Nat /\ client.at \in Nat
    BY <1>1, <1>3, <2>2
  <2>4. conn'[c].st = "open" => /\ conn[c].st = "open" /\ conn[c].seq <= conn'[c].seq
                                /\ (conn'[c].first => conn[c].first)
    BY <2>2 DEF Keeps
  <2> QED BY <2>1, <2>3, <2>4, OnWireKept
<1>5. Carrier # 0 /\ conn'[Carrier].st = "open" => client.at <= conn'[Carrier].seq
  <2>1. Carrier # 0 /\ conn'[Carrier].st = "open" =>
          /\ client.at <= conn[Carrier].seq /\ conn[Carrier].seq <= conn'[Carrier].seq
          /\ Carrier \in Conns
    BY <1>3 DEF WireInv, Keeps
  <2> QED BY <1>1, <1>3, <2>1
<1>6. client.on # 0 => conn'[client.on].st # "unused"
  BY <1>3 DEF WireInv, Keeps
<1>7. client.on # 0 /\ Moved(wire[client.on]) => conn'[client.place].st = "gone"
  <2>1. ASSUME client.on # 0, Moved(wire[client.on]) PROVE client.place \in Conns
    <3>1. PICK k \in 0..Len(wire[client.on]) :
             /\ Answered(wire[client.on], k)
             /\ k # 0 => client.place \notin {0, client.on}
      BY <2>1 DEF WireInv, OnWire
    <3>2. k # 0
      <4>1. SUFFICES ASSUME k = 0 PROVE FALSE
        OBVIOUS
      <4>2. \A i \in 1..Len(wire[client.on]) : i > 0
        OBVIOUS
      <4>3. \A i \in 1..Len(wire[client.on]) : wire[client.on][i].kind \in {"notification", "gap"}
        BY <3>1, <4>1, <4>2 DEF Answered
      <4>4. \A i \in 1..Len(wire[client.on]) : wire[client.on][i] # Result(200)
        BY <4>3, NoResult
      <4> QED BY <2>1, <4>4 DEF Moved, Members
    <3> QED BY <1>3, <3>1, <3>2
  <2> QED BY <2>1 DEF WireInv, Keeps
<1>8. client.place # 0 => conn'[client.place].st # "unused"
  BY <1>3 DEF WireInv, Keeps
<1>9. \A c \in Conns : c # client.on => wire[c] = <<>>
  BY DEF WireInv
<1> QED BY <1>2, <1>4, <1>5, <1>6, <1>7, <1>8, <1>9 DEF WireInv

LEMMA WireQueues ==
    ASSUME SessionTypes, SessionTypes', ConnsInOrder, WireInv, NEW out \in ItemType, QueuesMove(out)
    PROVE  WireInv'
<1>1. wire' = wire /\ client' = client /\ \A d \in Conns : Pushed(conn[d], conn'[d], out)
  BY DEF QueuesMove
<1>2. ASSUME NEW d \in Conns PROVE Keeps(conn[d], conn'[d])
  <2>1. conn'[d].st = conn[d].st /\ conn'[d].seq = conn[d].seq /\ conn'[d].first = conn[d].first
    BY <1>1 DEF Pushed
  <2>2. conn[d].seq \in Nat
    BY FramesOfConn
  <2> QED BY <2>1, <2>2 DEF Keeps
<1>3. client.on \in Conns \cup {0}
  BY DEF SessionTypes
<1>4. ASSUME client.on # 0, client.on # Carrier PROVE Fresh(conn'[client.on], wire[client.on])
  <2> DEFINE q == conn[client.on]
             r == conn'[client.on]
             w == wire[client.on]
  <2>1. Fresh(q, w) /\ client.on \in Conns
    BY <1>3, <1>4 DEF WireInv
  <2>2. CASE IsNotification(out)
    <3>1. r = q
      BY <2>1, <2>2 DEF QueuesMove, Fresh
    <3> QED BY <2>1, <3>1
  <2>3. CASE ~IsNotification(out)
    <3>1. Pushed(q, r, out)
      BY <1>1, <2>1
    <3> HIDE DEF q, r, w
    <3>2. Notes(r.items) \subseteq Notes(q.items) /\ r.sent = q.sent /\ r.sub \in {q.sub, FALSE}
      BY <2>3, <3>1 DEF Pushed, Notes
    <3>3. Fresh(r, w)
      BY <2>1, <3>2 DEF Fresh
    <3> QED BY <3>3 DEF r, w
  <2> QED BY <2>2, <2>3
<1> QED BY <1>1, <1>2, <1>4, WireKept

LEMMA WireEnds ==
    ASSUME SessionTypes, SessionTypes', ConnsInOrder, WireInv, NEW c \in Conns, ConnEnds(c)
    PROVE  WireInv'
<1>1. wire' = wire /\ client' = client
  BY DEF ConnEnds
<1>2. /\ conn[c].st \in {"open", "ending", "closed"} /\ conn'[c].st \in {"ending", "closed", "gone"}
      /\ conn'[c].items = <<>>
      /\ conn'[c].st = "gone" => conn'[c] = Gone
      /\ conn'[c].st # "gone" => conn'[c].sent = conn[c].sent /\ conn'[c].sub = conn[c].sub
      /\ \A d \in Conns : d # c => conn'[d] = conn[d]
  BY DEF ConnEnds, OnlyConn
<1>3. \A d \in Conns : Keeps(conn[d], conn'[d])
  <2> TAKE d \in Conns
  <2>1. CASE d = c
    <3>1. conn'[c].st # "open" /\ conn'[c].st # "unused" /\ conn[c].st # "gone"
      BY <1>2
    <3> QED BY <2>1, <3>1 DEF Keeps
  <2>2. CASE d # c
    BY <1>2, <2>2, FramesOfConn DEF Keeps
  <2> QED BY <2>1, <2>2
<1>4. client.on \in Conns \cup {0}
  BY DEF SessionTypes
<1>5. ASSUME client.on # 0, client.on # Carrier PROVE Fresh(conn'[client.on], wire[client.on])
  <2>1. Fresh(conn[client.on], wire[client.on]) /\ client.on \in Conns
    BY <1>4, <1>5 DEF WireInv
  <2>2. CASE client.on # c
    BY <1>2, <2>1, <2>2
  <2>3. CASE client.on = c
    <3>1. Notes(conn'[c].items) = {}
      BY <1>2, NoFrame DEF Notes
    <3>2. ~conn'[c].sub /\ conn'[c].sent = <<>>
      BY <1>2, <2>1, <2>3, UnusedFields DEF Fresh
    <3> QED BY <2>1, <2>3, <3>1, <3>2 DEF Fresh
  <2> QED BY <2>2, <2>3
<1> QED BY <1>1, <1>3, <1>5, WireKept

LEMMA WireTakes ==
    ASSUME SessionTypes, SessionTypes', ConnsInOrder, WireInv, NEW c \in Conns, Takes(c)
    PROVE  WireInv' /\ Carrier' = Carrier
<1> DEFINE q == conn[c]
           r == conn'[c]
           w == wire[c]
           W == Written(q)
<1>1. /\ q.st = "open" /\ r.st \in {"open", "ending"}
      /\ (r.st = "open" => r.seq = q.seq + Len(W))
      /\ r.items = <<>> /\ r.sent = KeptOn(q) /\ r.sub = q.sub /\ r.first = q.first
      /\ client' = client /\ \A d \in Conns : d # c => conn'[d] = conn[d]
      /\ \A d \in Conns : wire'[d] = IF d = c /\ c = client.on THEN w \o W ELSE wire[d]
  BY DEF Takes, OnlyConn, Writes
<1>2. /\ q \in ConnType /\ q.seq \in Nat /\ r.seq \in Nat /\ w \in Seq(Frame) /\ client.at \in Nat
      /\ client.on \in Conns \cup {0} /\ client.place \in Conns \cup {0} /\ Tidy(q)
  BY FramesOfConn, ConnFields DEF SessionTypes, ConnsInOrder
<1>3. W \in Seq(Frame) /\ Len(W) \in Nat /\ Numbered(W, q.seq, q.items) /\ Notes(W) = Notes(Frames(q))
  BY <1>2, WrittenFacts
<1>4. \A d \in Conns : Keeps(conn[d], conn'[d])
  <2> TAKE d \in Conns
  <2>1. CASE d = c
    BY <1>1, <1>2, <1>3, <2>1 DEF Keeps
  <2>2. CASE d # c
    BY <1>1, <2>2, FramesOfConn DEF Keeps
  <2> QED BY <2>1, <2>2
<1>5. CASE client.on # c
  <2>1. wire' = wire
    <3>1. wire \in [Conns -> Seq(Frame)] /\ wire' \in [Conns -> Seq(Frame)]
      BY DEF SessionTypes
    <3>2. \A d \in Conns : wire'[d] = wire[d]
      BY <1>1, <1>5
    <3> QED BY <3>1, <3>2
  <2>2. client.on # 0 /\ client.on # Carrier => Fresh(conn'[client.on], wire[client.on])
    <3>1. client.on # 0 => conn'[client.on] = conn[client.on]
      BY <1>1, <1>2, <1>5
    <3> QED BY <3>1 DEF WireInv
  <2>3. WireInv'
    BY <1>1, <1>4, <2>1, <2>2, WireKept
  <2> QED BY <1>1, <2>1, <2>3 DEF Carrier
<1>6. CASE client.on = c
  <2> DEFINE p == client.place
             n == client.at
             v == w \o W
  <2>1. c # 0
    BY LimitAssumption DEF Conns
  <2>2. wire'[c] = v
    BY <1>1, <1>6
  <2>3. OnWire(c, w, q, p, n)
    BY <1>6, <2>1 DEF WireInv
  <2>4. OnWire(c, v, r, p, n) /\ (Moved(v) <=> Moved(w))
    <3>1. /\ q.st = "open" /\ r.first = q.first /\ q.seq \in Nat /\ r.seq \in Nat
          /\ r.st = "open" => r.seq = q.seq + Len(W)
      BY <1>1, <1>2
    <3>2. w \in Seq(Frame) /\ n \in Nat /\ W \in Seq(Frame) /\ Numbered(W, q.seq, q.items)
      BY <1>2, <1>3
    <3> HIDE DEF q, r, w, W, p, n
    <3> QED BY <2>3, <3>1, <3>2, OnWireTaken
  <2>5. Carrier' = Carrier
    BY <1>1, <1>6, <2>2, <2>4 DEF Carrier
  <2>6. Carrier # c => Fresh(r, v)
    <3> SUFFICES ASSUME Carrier # c PROVE Fresh(r, v)
      OBVIOUS
    <3>1. Fresh(q, w)
      BY <1>6, <2>1 DEF WireInv
    <3>2. Notes(W) = {}
      <4>1. \A i \in 1..Len(W) : ~IsNotification(W[i])
        BY <1>3, <3>1 DEF Numbered, Fresh
      <4> QED BY <4>1 DEF Notes, Members
    <3>3. Notes(v) = {}
      <4>1. Members(v) = Members(w) \cup Members(W)
        BY <1>2, <1>3, Joined
      <4> QED BY <3>1, <3>2, <4>1 DEF Notes, Fresh
    <3>4. r.sent = <<>>
      <4>1. \A f \in Members(q.sent) : f.seq <= q.seq
        BY <3>1, NoFrame DEF Fresh
      <4>2. KeptOn(q) \in Seq(Frame) /\ Members(KeptOn(q)) \subseteq Members(q.sent) \cup Notes(Frames(q))
        BY <1>2, <4>1, KeptOnFacts
      <4>3. Members(KeptOn(q)) = {}
        BY <1>3, <3>1, <3>2, <4>2, NoFrame DEF Fresh
      <4> QED BY <1>1, <4>2, <4>3, MembersOf
    <3>5. Notes(r.items) = {}
      BY <1>1, NoFrame DEF Notes
    <3> QED BY <1>1, <3>1, <3>3, <3>4, <3>5 DEF Fresh
  <2>7. Moved(v) => conn'[p].st = "gone"
    <3> SUFFICES ASSUME Moved(v) PROVE conn'[p].st = "gone"
      OBVIOUS
    <3>1. conn[p].st = "gone"
      BY <1>6, <2>1, <2>4 DEF WireInv
    <3>2. p # c
      BY <1>1, <3>1
    <3>3. p \in Conns
      <4>1. PICK k \in 0..Len(w) : Answered(w, k) /\ (k # 0 => p \notin {0, c})
        BY <2>3 DEF OnWire
      <4>2. w # <<>>
        BY <2>4, NoFrame DEF Moved
      <4>3. k # 0
        BY <1>2, <2>4, <4>1, <4>2, HeadAnswer
      <4> QED BY <1>2, <4>1, <4>3
    <3> QED BY <1>1, <3>1, <3>2, <3>3
  <2>8. Carrier # 0 /\ conn'[Carrier].st = "open" => client.at <= conn'[Carrier].seq
    <3> SUFFICES ASSUME Carrier # 0, conn'[Carrier].st = "open" PROVE client.at <= conn'[Carrier].seq
      OBVIOUS
    <3>1. Carrier \in Conns
      BY <1>2 DEF Carrier
    <3>2. conn[Carrier].st = "open" /\ conn[Carrier].seq <= conn'[Carrier].seq
      BY <1>4, <3>1 DEF Keeps
    <3>3. client.at <= conn[Carrier].seq
      BY <3>2 DEF WireInv
    <3>4. conn[Carrier].seq \in Nat /\ conn'[Carrier].seq \in Nat
      BY <3>1, FramesOfConn, ConnFields DEF SessionTypes
    <3> QED BY <1>2, <3>2, <3>3, <3>4
  <2>9. \A d \in Conns : d # c => wire'[d] = <<>>
    BY <1>1, <1>6 DEF WireInv
  <2>10. conn'[c].st # "unused"
    BY <1>1
  <2>11. p # 0 => conn'[p].st # "unused"
    BY <1>2, <1>4 DEF WireInv, Keeps
  <2> HIDE DEF p, n, v, q, r, w, W
  <2>12. WireInv'
    BY <1>1, <1>6, <2>1, <2>2, <2>4, <2>5, <2>6, <2>7, <2>8, <2>9, <2>10, <2>11 DEF WireInv, p, n, r
  <2> QED BY <2>5, <2>12
<1> QED BY <1>5, <1>6

(* The client's connection and its wire. *)
LEMMA WireOf ==
    ASSUME SessionTypes, WireInv, NEW c \in Conns, client.on = c
    PROVE  /\ c # 0 /\ wire[c] \in Seq(Frame) /\ Len(wire[c]) \in Nat
           /\ conn[c] \in ConnType /\ conn[c].seq \in Nat /\ conn[c].st # "unused"
           /\ client.place \in Conns \cup {0} /\ client.at \in Nat
           /\ \A d \in Conns : d # c => wire[d] = <<>>
           /\ Carrier = IF Moved(wire[c]) THEN c ELSE client.place
           /\ Moved(wire[c]) => conn[client.place].st = "gone"
           /\ c # Carrier => Fresh(conn[c], wire[c])
           /\ \E k \in 0..Len(wire[c]) :
                /\ Answered(wire[c], k)
                /\ GoesOn(wire[c], k, From(c, wire[c], client.place, client.at), conn[c])
                /\ k # 0 => client.place \notin {0, c} /\ (conn[c].st = "open" => ~conn[c].first)
<1>1. c # 0
  BY DEF Conns
<1>2. wire[c] \in Seq(Frame) /\ conn[c] \in ConnType /\ conn[c].seq \in Nat
  BY FramesOfConn
<1>3. Len(wire[c]) \in Nat
  BY <1>2, LenProperties
<1>4. client.place \in Conns \cup {0} /\ client.at \in Nat
  BY DEF SessionTypes
<1>5. Carrier = IF Moved(wire[c]) THEN c ELSE client.place
  BY <1>1 DEF Carrier
<1>6. OnWire(c, wire[c], conn[c], client.place, client.at)
  BY <1>1 DEF WireInv
<1>7. /\ conn[c].st # "unused" /\ \A d \in Conns : d # c => wire[d] = <<>>
      /\ Moved(wire[c]) => conn[client.place].st = "gone"
      /\ c # Carrier => Fresh(conn[c], wire[c])
  BY <1>1 DEF WireInv
<1> QED BY <1>1, <1>2, <1>3, <1>4, <1>5, <1>6, <1>7 DEF OnWire

(* What is to be shown of the client's connection after a step. *)
LEMMA WireAgain ==
    ASSUME SessionTypes', NEW c \in Conns, client'.on = c,
           \A d \in Conns : d # c => wire'[d] = <<>>,
           conn'[c].st # "unused",
           client'.place # 0 => conn'[client'.place].st # "unused",
           OnWire(c, wire'[c], conn'[c], client'.place, client'.at),
           NEW m \in Conns \cup {0}, m = IF Moved(wire'[c]) THEN c ELSE client'.place,
           Moved(wire'[c]) => conn'[client'.place].st = "gone",
           c # m => Fresh(conn'[c], wire'[c]),
           m # 0 /\ conn'[m].st = "open" => client'.at <= conn'[m].seq
    PROVE  WireInv' /\ Carrier' = m
<1>1. c # 0
  BY DEF Conns
<1>2. Carrier' = m
  BY <1>1 DEF Carrier
<1> QED BY <1>1, <1>2 DEF WireInv

LEMMA NotMoved ==
    ASSUME NEW w \in Seq(Frame), Answered(w, 0)
    PROVE  ~Moved(w)
<1>1. \A i \in 1..Len(w) : i > 0
  OBVIOUS
<1>2. \A i \in 1..Len(w) : w[i].kind \in {"notification", "gap"}
  BY <1>1 DEF Answered
<1>3. \A i \in 1..Len(w) : w[i] # Result(200)
  BY <1>2, NoResult
<1> QED BY <1>3 DEF Moved, Members

LEMMA WireResumes ==
    ASSUME SessionTypes, SessionTypes', ConnsInOrder, WireInv, NEW c \in Conns, Resumes(c)
    PROVE  WireInv' /\ Carrier' = c
<1> DEFINE p == client.place
           s == conn[p].sent
           n == client.at
           w == wire[c]
           v == wire'[c]
           A == Again(s, n)
           r == conn'[c]
<1>1. /\ client.on = c /\ p \in Conns /\ p # c /\ conn[c].st = "open" /\ conn[c].first
      /\ conn'[p] = Gone /\ r.st = "open" /\ ~r.first /\ r.seq = LastOf(s, n) /\ client' = client
  BY DEF Resumes
<1>2. c # 0 /\ p # 0
  BY <1>1 DEF Conns
<1>3. \A i \in 1..Len(w) : w[i].kind = "gap"
  BY <1>1, BeforeAnswer
<1>0. WroteAgain(s, n, w, v, A) /\ \A d \in Conns : d # c => wire'[d] = wire[d]
  BY ResumedWire
<1> HIDE DEF p, s, n, w, v, A, r
<1>4. /\ s \in Seq(Frame) /\ Ascends(s) /\ \A f \in Members(s) : IsNotification(f) /\ f.to = f.seq
      /\ n \in Nat /\ A \in Seq(Frame) /\ w \in Seq(Frame) /\ v \in Seq(Frame)
      /\ Len(v) = Len(w) + 1 + Len(A)
      /\ \A i \in 1..Len(w) : v[i] = w[i]
      /\ v[Len(w) + 1] = Result(200)
      /\ \A i \in 1..Len(A) : v[Len(w) + 1 + i] = A[i]
      /\ \A d \in Conns : d # c => wire'[d] = wire[d]
  BY <1>0 DEF WroteAgain
<1>5. LastOf(s, n) \in Nat /\ n <= LastOf(s, n) /\ Onwards(A, n, LastOf(s, n))
  BY <1>4, AgainFacts DEF A
<1>6. \A d \in Conns : d # c => wire[d] = <<>>
  BY <1>1 DEF WireInv
<1>7. OnWire(c, v, r, p, n) /\ Moved(v)
  <2>1. p \notin {0, c} /\ r.seq \in Nat /\ n <= r.seq /\ Onwards(A, n, r.seq)
    BY <1>1, <1>2, <1>5
  <2>2. ~r.first
    BY <1>1
  <2>3. /\ w \in Seq(Frame) /\ A \in Seq(Frame) /\ v \in Seq(Frame) /\ n \in Nat
        /\ Laid(w, v, A)
    BY <1>4 DEF Laid
  <2> QED BY <1>3, <2>1, <2>2, <2>3, OnWireResumed
<1>8. conn'[p].st = "gone"
  BY <1>1, UnusedFields
<1>9. /\ client'.on = c /\ client'.place = p /\ client'.at = n
      /\ \A d \in Conns : d # c => wire'[d] = <<>>
      /\ r.st # "unused" /\ n <= r.seq
  <2>1. client'.on = c /\ client'.place = p /\ client'.at = n
    BY <1>1 DEF p, n
  <2>2. \A d \in Conns : d # c => wire'[d] = <<>>
    BY <1>0, <1>6
  <2>3. r.st # "unused" /\ n <= r.seq
    BY <1>1, <1>5
  <2> QED BY <2>1, <2>2, <2>3
<1> QED BY <1>7, <1>8, <1>9, WireAgain DEF v, r

LEMMA WireRefuses ==
    ASSUME SessionTypes, SessionTypes', ConnsInOrder, WireInv, NEW c \in Conns, Refuses(c)
    PROVE  WireInv' /\ Carrier' = Carrier /\ Carrier = client.place
<1> DEFINE p == client.place
           w == wire[c]
           v == wire'[c]
           r == conn'[c]
<1>1. /\ client.on = c /\ p \in Conns /\ p # c /\ conn[c].st = "open" /\ conn[c].first
      /\ conn'[p] = conn[p] /\ r.st = "open" /\ ~r.first /\ r.seq = conn[c].seq /\ client' = client
      /\ r.items = conn[c].items /\ r.sub = conn[c].sub /\ r.sent = conn[c].sent
  BY DEF Refuses, OnlyConn
<1>2. c # 0 /\ p # 0
  BY <1>1 DEF Conns
<1>3. /\ Carrier = p /\ Fresh(conn[c], w) /\ \A i \in 1..Len(w) : w[i].kind = "gap"
  BY <1>1, BeforeAnswer
<1>4. /\ v \in Seq(Frame) /\ w \in Seq(Frame) /\ Len(v) = Len(w) + 1
      /\ \A i \in 1..Len(w) : v[i] = w[i]
      /\ v[Len(w) + 1] = Result(404)
      /\ Notes(v) = Notes(w)
      /\ \A d \in Conns : d # c => wire'[d] = wire[d]
  BY RefusedWire
<1>5. /\ \A d \in Conns : d # c => wire[d] = <<>>
      /\ conn[p].st # "unused" /\ (conn[p].st = "open" => client.at <= conn[p].seq)
  BY <1>1, <1>2, <1>3 DEF WireInv
<1>6. r.seq \in Nat
  BY FramesOfConn, <1>1
<1>7. OnWire(c, v, r, p, client.at) /\ ~Moved(v)
  <2> HIDE DEF p, w, v, r
  <2> QED BY <1>1, <1>2, <1>3, <1>4, <1>6, OnWireRefused
<1>8. Fresh(r, v)
  BY <1>1, <1>3, <1>4 DEF Fresh
<1> QED BY <1>1, <1>2, <1>3, <1>4, <1>5, <1>7, <1>8, WireAgain

LEMMA WireSubscribes ==
    ASSUME SessionTypes, SessionTypes', ConnsInOrder, WireInv, NEW c \in Conns, Subscribes(c)
    PROVE  /\ WireInv' /\ Carrier' = c /\ Carrier = 0 /\ Fresh(conn[c], wire[c])
           /\ Answered(wire[c], 0)
<1> DEFINE w == wire[c]
           q == conn[c]
           r == conn'[c]
           n == client.at
<1>1. /\ client.on = c /\ client.place = 0 /\ q.st = "open"
      /\ r.st = "open" /\ r.seq = q.seq
      /\ client'.on = c /\ client'.place = c /\ client'.at = n /\ wire' = wire
  BY DEF Subscribes
<1>2. /\ c # 0 /\ w \in Seq(Frame) /\ Len(w) \in Nat
      /\ \A d \in Conns : d # c => wire[d] = <<>>
      /\ Carrier = IF Moved(w) THEN c ELSE 0
      /\ c # Carrier => Fresh(q, w)
      /\ \E k \in 0..Len(w) : Answered(w, k) /\ GoesOn(w, k, From(c, w, 0, n), q) /\ (k # 0 => FALSE)
  BY <1>1, WireOf
<1>3. Answered(w, 0) /\ GoesOn(w, 0, n, q)
  BY <1>2 DEF From
<1>4. ~Moved(w)
  BY <1>2, <1>3, NotMoved
<1>5. GoesOn(w, 0, n, r) /\ n <= r.seq
  BY <1>1, <1>3 DEF GoesOn
<1>6. OnWire(c, w, r, c, n)
  <2>1. 0 \in 0..Len(w) /\ From(c, w, c, n) = n
    BY <1>2 DEF From
  <2> QED BY <1>3, <1>5, <2>1 DEF OnWire
<1> QED BY <1>1, <1>2, <1>3, <1>4, <1>5, <1>6, WireAgain

LEMMA WireReadsPlace ==
    ASSUME SessionTypes, SessionTypes', ConnsInOrder, WireInv, NEW c \in Conns, ReadsPlace(c)
    PROVE  WireInv' /\ Carrier' = c /\ Carrier = c
<1> DEFINE w == wire[c]
           v == wire'[c]
           q == conn[c]
           n == client.at
           p == client.place
<1>1. /\ client.on = c /\ conn' = conn /\ w[1] = Result(200) /\ w # <<>> /\ Reads(c)
      /\ client'.on = c /\ client'.place = c /\ client'.at = n
      /\ \A d \in Conns : d # c => wire'[d] = wire[d]
  BY DEF ReadsPlace, Reads
<1>2. /\ c # 0 /\ w \in Seq(Frame) /\ Len(w) \in Nat /\ q.seq \in Nat /\ n \in Nat
      /\ q.st # "unused"
      /\ \A d \in Conns : d # c => wire[d] = <<>>
      /\ Carrier = IF Moved(w) THEN c ELSE p
      /\ \E k \in 0..Len(w) : Answered(w, k) /\ GoesOn(w, k, From(c, w, p, n), q)
  BY <1>1, WireOf
<1>3. PICK k \in 0..Len(w) : Answered(w, k) /\ GoesOn(w, k, From(c, w, p, n), q)
  BY <1>2
<1>4. v \in Seq(Frame) /\ Shorter(v, w) /\ 1 \in 1..Len(w)
  BY <1>1, ReadWire DEF Shorter
<1>5. Moved(w)
  BY <1>1, <1>4 DEF Moved, Members
<1> HIDE DEF w, v, q, n, p
<1>6. k = 1 /\ From(c, w, p, n) = n
  BY <1>1, <1>2, <1>3, <1>5, HeadAnswer DEF From
<1>7. Answered(v, 0) /\ 0 \in 0..Len(v)
  <2>1. 1 # 0 /\ 1 - 1 = 0
    OBVIOUS
  <2> QED BY <1>1, <1>2, <1>3, <1>4, <1>6, <2>1, AnsweredShorter
<1>8. GoesOn(v, 0, n, q)
  <2>1. 1 - 1 = 0
    OBVIOUS
  <2> QED BY <1>2, <1>3, <1>4, <1>6, <2>1, GoesOnShorter
<1>9. ~Moved(v)
  BY <1>4, <1>7, NotMoved
<1>10. OnWire(c, v, q, c, n)
  BY <1>7, <1>8 DEF OnWire, From
<1>11. q.st = "open" => n <= q.seq
  BY <1>8 DEF GoesOn
<1>12. /\ conn'[c] = q /\ Carrier = c
       /\ \A d \in Conns : d # c => wire'[d] = <<>>
  BY <1>1, <1>2, <1>5 DEF q
<1> QED BY <1>1, <1>2, <1>9, <1>10, <1>11, <1>12, WireAgain DEF v

LEMMA WireReadsRefusal ==
    ASSUME SessionTypes, SessionTypes', ConnsInOrder, WireInv, NEW c \in Conns, ReadsRefusal(c)
    PROVE  WireInv' /\ Carrier' = 0
<1> DEFINE w == wire[c]
           v == wire'[c]
           q == conn[c]
           n == client.at
           p == client.place
<1>1. /\ client.on = c /\ conn' = conn /\ w[1] = Result(404) /\ w # <<>> /\ Reads(c)
      /\ client'.on = c /\ client'.place = 0 /\ client'.at = 0
      /\ \A d \in Conns : d # c => wire'[d] = wire[d]
  BY DEF ReadsRefusal, Reads
<1>2. /\ c # 0 /\ w \in Seq(Frame) /\ Len(w) \in Nat /\ q.seq \in Nat /\ n \in Nat
      /\ q.st # "unused" 
      /\ \A d \in Conns : d # c => wire[d] = <<>>
      /\ Carrier = IF Moved(w) THEN c ELSE p
      /\ c # Carrier => Fresh(q, w)
      /\ \E k \in 0..Len(w) : Answered(w, k) /\ GoesOn(w, k, From(c, w, p, n), q)
                              /\ (k # 0 => p \notin {0, c})
  BY <1>1, WireOf
<1>3. PICK k \in 0..Len(w) : Answered(w, k) /\ GoesOn(w, k, From(c, w, p, n), q) /\ (k # 0 => p \notin {0, c})
  BY <1>2
<1>4. v \in Seq(Frame) /\ Shorter(v, w) /\ Notes(v) \subseteq Notes(w) /\ 1 \in 1..Len(w)
  BY <1>1, ReadWire DEF Shorter
<1> HIDE DEF w, v, q, n, p
<1>5. k = 1 /\ ~Moved(w)
  BY <1>1, <1>2, <1>3, HeadAnswer
<1>6. From(c, w, p, n) = 0 /\ p \notin {0, c} /\ Fresh(q, w)
  BY <1>2, <1>3, <1>5 DEF From
<1>7. Answered(v, 0) /\ 0 \in 0..Len(v)
  <2>1. 1 # 0 /\ 1 - 1 = 0
    OBVIOUS
  <2> QED BY <1>1, <1>2, <1>3, <1>4, <1>5, <2>1, AnsweredShorter
<1>8. GoesOn(v, 0, 0, q)
  <2>1. 1 - 1 = 0
    OBVIOUS
  <2> QED BY <1>2, <1>3, <1>4, <1>5, <1>6, <2>1, GoesOnShorter
<1>9. ~Moved(v)
  BY <1>4, <1>7, NotMoved
<1>10. OnWire(c, v, q, 0, 0)
  BY <1>7, <1>8 DEF OnWire, From
<1>11. Fresh(q, v)
  BY <1>4, <1>6 DEF Fresh
<1>12. /\ conn'[c] = q 
       /\ \A d \in Conns : d # c => wire'[d] = <<>>
  BY <1>1, <1>2 DEF q
<1> QED BY <1>1, <1>2, <1>9, <1>10, <1>11, <1>12, WireAgain DEF v

LEMMA WireReadsNote ==
    ASSUME SessionTypes, SessionTypes', ConnsInOrder, WireInv, NEW c \in Conns, ReadsNote(c)
    PROVE  /\ WireInv' /\ Carrier' = c /\ Carrier = c /\ client.place = c
           /\ Answered(wire[c], 0) /\ client.at < wire[c][1].seq
           /\ \A g \in Members(wire'[c]) : wire[c][1].seq < g.seq
<1> DEFINE w == wire[c]
           v == wire'[c]
           q == conn[c]
           n == client.at
           p == client.place
<1>1. /\ client.on = c /\ conn' = conn /\ IsNotification(w[1]) /\ w # <<>> /\ Reads(c)
      /\ client'.on = c /\ client'.place = p /\ client'.at = w[1].seq
      /\ \A d \in Conns : d # c => wire'[d] = wire[d]
  BY DEF ReadsNote, Reads
<1>2. /\ c # 0 /\ w \in Seq(Frame) /\ Len(w) \in Nat /\ q.seq \in Nat /\ n \in Nat
      /\ q.st # "unused" 
      /\ \A d \in Conns : d # c => wire[d] = <<>>
      /\ Carrier = IF Moved(w) THEN c ELSE p
      /\ c # Carrier => Fresh(q, w)
      /\ \E k \in 0..Len(w) : Answered(w, k) /\ GoesOn(w, k, From(c, w, p, n), q)
  BY <1>1, WireOf
<1>3. PICK k \in 0..Len(w) : Answered(w, k) /\ GoesOn(w, k, From(c, w, p, n), q)
  BY <1>2
<1>4. v \in Seq(Frame) /\ Shorter(v, w) /\ 1 \in 1..Len(w) /\ w[1] \in Members(w)
  <2>1. v \in Seq(Frame) /\ Shorter(v, w) /\ 1 \in 1..Len(w)
    BY <1>1, ReadWire DEF Shorter
  <2> QED BY <2>1 DEF Members
<1>5. w[1].to = w[1].seq /\ w[1].seq \in Nat
  <2>1. w[1] \in Known(q, w)
    BY <1>1, <1>4 DEF Known, Notes
  <2>2. InOrder(q, w, change)
    BY DEF ConnsInOrder
  <2>3. w[1].seq \in Nat
    BY <2>1, FramesOfConn
  <2> HIDE DEF w, q
  <2> QED BY <2>1, <2>2, <2>3 DEF InOrder, Known
<1> HIDE DEF w, v, q, n, p
<1>6. k = 0 /\ ~Moved(w)
  BY <1>1, <1>2, <1>3, HeadAnswer
<1>7. c = Carrier /\ p = c
  <2>1. Notes(w) # {}
    BY <1>1, <1>4 DEF Notes
  <2> QED BY <1>2, <1>6, <2>1 DEF Fresh
<1>8. From(c, w, p, n) = n
  BY <1>7 DEF From
<1>9. Answered(v, 0) /\ 0 \in 0..Len(v)
  BY <1>1, <1>2, <1>3, <1>4, <1>6, AnsweredShorter
<1>10. /\ GoesOn(v, 0, w[1].seq, q) /\ n < w[1].seq /\ (q.st = "open" => w[1].seq <= q.seq)
  BY <1>1, <1>2, <1>3, <1>4, <1>5, <1>6, <1>8, GoesOnFirst
<1>11. ~Moved(v)
  BY <1>4, <1>9, NotMoved
<1>12. OnWire(c, v, q, c, w[1].seq)
  BY <1>9, <1>10 DEF OnWire, From
<1>13. conn'[c] = q /\ \A d \in Conns : d # c => wire'[d] = <<>>
  BY <1>1, <1>2 DEF q
<1>14. WireInv' /\ Carrier' = c
  BY <1>1, <1>2, <1>7, <1>10, <1>11, <1>12, <1>13, WireAgain DEF v
<1>15. \A g \in Members(v) : w[1].seq < g.seq
  BY <1>10 DEF GoesOn, Members
<1>16. Answered(w, 0)
  BY <1>3, <1>6
<1> QED BY <1>7, <1>10, <1>14, <1>15, <1>16 DEF w, v, n, p

LEMMA WireReadsGap ==
    ASSUME SessionTypes, SessionTypes', ConnsInOrder, WireInv, NEW c \in Conns, ReadsGap(c)
    PROVE  WireInv' /\ Carrier' = Carrier /\ client.at <= client'.at
<1> DEFINE w == wire[c]
           v == wire'[c]
           q == conn[c]
           n == client.at
           p == client.place
           m == Carrier
<1>1. /\ client.on = c /\ conn' = conn /\ w[1].kind = "gap" /\ w # <<>> /\ Reads(c)
      /\ client'.on = c /\ client'.place = p
      /\ client'.at = IF p \in {0, c} THEN w[1].to ELSE n
      /\ \A d \in Conns : d # c => wire'[d] = wire[d]
  BY DEF ReadsGap, Reads
<1>2. /\ c # 0 /\ w \in Seq(Frame) /\ Len(w) \in Nat /\ q.seq \in Nat /\ n \in Nat
      /\ q.st # "unused" /\ p \in Conns \cup {0}
      /\ \A d \in Conns : d # c => wire[d] = <<>>
      /\ m = IF Moved(w) THEN c ELSE p
      /\ c # m => Fresh(q, w)
      /\ Moved(w) => conn[p].st = "gone"
      /\ \E k \in 0..Len(w) : /\ Answered(w, k) /\ GoesOn(w, k, From(c, w, p, n), q)
                              /\ k # 0 => p \notin {0, c} /\ (q.st = "open" => ~q.first)
  BY <1>1, WireOf
<1>3. PICK k \in 0..Len(w) : /\ Answered(w, k) /\ GoesOn(w, k, From(c, w, p, n), q)
                             /\ k # 0 => p \notin {0, c} /\ (q.st = "open" => ~q.first)
  BY <1>2
<1>4. /\ v \in Seq(Frame) /\ Shorter(v, w) /\ 1 \in 1..Len(w) /\ Notes(v) \subseteq Notes(w)
      /\ Members(w) = {w[1]} \cup Members(v)
  <2>1. /\ v \in Seq(Frame) /\ Shorter(v, w) /\ Notes(v) \subseteq Notes(w)
        /\ Members(w) = {w[1]} \cup Members(v)
    BY <1>1, ReadWire DEF Shorter
  <2>2. 1 \in 1..Len(w)
    BY <1>1, <1>2, MembersOf
  <2> QED BY <2>1, <2>2
<1>5. /\ p # 0 => conn[p].st # "unused"
      /\ m # 0 /\ conn[m].st = "open" => n <= conn[m].seq
      /\ m \in Conns \cup {0}
  BY <1>1, <1>2 DEF WireInv
<1>6. Moved(v) <=> Moved(w)
  <2>1. w[1] # Result(200)
    BY <1>1, NoResult
  <2> QED BY <1>4, <2>1 DEF Moved
<1>7. /\ conn'[c] = q /\ \A d \in Conns : d # c => wire'[d] = <<>>
      /\ p # 0 => conn'[p].st # "unused"
      /\ Moved(v) => conn'[p].st = "gone"
      /\ m = IF Moved(v) THEN c ELSE p
      /\ c # m => Fresh(q, v)
  BY <1>1, <1>2, <1>4, <1>5, <1>6 DEF Fresh
<1> HIDE DEF w, v, q, n, p, m
<1>8. ASSUME k = 0
      PROVE  /\ OnWire(c, v, q, p, client'.at)
             /\ m # 0 /\ conn[m].st = "open" => client'.at <= conn[m].seq
             /\ n <= client'.at
  <2>1. Answered(v, 0) /\ 0 \in 0..Len(v) /\ ~Moved(w)
    BY <1>1, <1>2, <1>3, <1>4, <1>8, AnsweredShorter, HeadAnswer
  <2>2. CASE p \in {0, c}
    <3>1. From(c, w, p, n) = n /\ From(c, v, p, client'.at) = w[1].to
      BY <1>1, <2>2 DEF From
    <3>2. /\ GoesOn(v, 0, w[1].to, q) /\ (q.st = "open" => w[1].to <= q.seq)
          /\ n < w[1].seq /\ w[1].seq <= w[1].to
      BY <1>1, <1>2, <1>3, <1>4, <1>8, <3>1, GoesOnFirst
    <3>3. m # 0 => m = c
      BY <1>2, <2>1, <2>2
    <3>4. w[1].seq \in Nat /\ w[1].to \in Nat
      BY <1>2, <1>4, ElementOfSeq, FrameFields
    <3>5. n <= w[1].to
      BY <1>2, <3>2, <3>4
    <3> QED BY <1>1, <2>1, <2>2, <3>1, <3>2, <3>3, <3>5 DEF OnWire, q
  <2>3. CASE p \notin {0, c}
    <3>1. From(c, w, p, n) = 0 /\ From(c, v, p, client'.at) = 0 /\ client'.at = n
      BY <1>1, <1>6, <2>1, <2>3 DEF From
    <3>2. GoesOn(v, 0, 0, q)
      <4>1. 0 \in Nat
        OBVIOUS
      <4> QED BY <1>1, <1>2, <1>3, <1>4, <1>8, <3>1, <4>1, GoesOnFirst
    <3> QED BY <1>2, <1>5, <2>1, <3>1, <3>2 DEF OnWire
  <2> QED BY <2>2, <2>3
<1>9. ASSUME k # 0
      PROVE  /\ OnWire(c, v, q, p, client'.at)
             /\ m # 0 /\ conn[m].st = "open" => client'.at <= conn[m].seq
             /\ n <= client'.at
  <2>1. Answered(v, k - 1) /\ k - 1 \in 0..Len(v)
    BY <1>1, <1>2, <1>3, <1>4, <1>9, AnsweredShorter
  <2>2. client'.at = n /\ From(c, v, p, client'.at) = From(c, w, p, n)
    BY <1>1, <1>3, <1>6, <1>9 DEF From
  <2>3. GoesOn(v, k - 1, From(c, v, p, client'.at), q)
    <3>1. k \in 1..Len(w)
      BY <1>2, <1>9
    <3> QED BY <1>2, <1>3, <1>4, <2>2, <3>1, GoesOnShorter
  <2>4. OnWire(c, v, q, p, client'.at)
    BY <1>3, <1>9, <2>1, <2>3 DEF OnWire
  <2> QED BY <1>2, <1>5, <2>2, <2>4
<1>10. /\ OnWire(c, v, q, p, client'.at)
       /\ m # 0 /\ conn'[m].st = "open" => client'.at <= conn'[m].seq
       /\ n <= client'.at
  BY <1>1, <1>8, <1>9
<1>11. WireInv' /\ Carrier' = m
  BY <1>1, <1>2, <1>5, <1>7, <1>10, WireAgain DEF v
<1> QED BY <1>10, <1>11 DEF m, n

LEMMA WireLeaves ==
    ASSUME SessionTypes, SessionTypes', WireInv, NEW c \in Conns, Leaves(c)
    PROVE  WireInv' /\ Carrier' = client.place
<1>1. /\ client.on = c /\ wire'[c] = <<>> /\ \A d \in Conns : d # c => wire'[d] = wire[d]
      /\ client'.on = 0 /\ client'.place = client.place /\ client'.at = client.at /\ conn' = conn
  BY DEF Leaves
<1>2. /\ \A d \in Conns : d # c => wire[d] = <<>>
      /\ Carrier = IF Moved(wire[c]) THEN c ELSE client.place
      /\ Moved(wire[c]) => conn[client.place].st = "gone"
  BY <1>1, WireOf
<1>3. Carrier' = client.place
  BY <1>1 DEF Carrier
<1>4. client.place # 0 /\ conn[client.place].st = "open" => client.at <= conn[client.place].seq
  BY <1>2 DEF WireInv
<1>5. client.place # 0 => conn[client.place].st # "unused"
  BY DEF WireInv
<1> QED BY <1>1, <1>2, <1>3, <1>4, <1>5 DEF WireInv

LEMMA WireConnects ==
    ASSUME SessionTypes, SessionTypes', WireInv, NEW c \in Conns, Connects(c)
    PROVE  WireInv' /\ Carrier' = client.place /\ Carrier = client.place /\ client.place # c
           /\ wire'[c] = <<>>
<1> DEFINE p == client.place
           r == conn'[c]
<1>1. /\ client.on = 0 /\ conn[c].st = "unused" /\ \A d \in Conns : d # c => conn'[d] = conn[d]
      /\ r.st = "open" /\ ~r.sub /\ r.items = <<>> /\ r.seq = 0 /\ r.sent = <<>>
      /\ client'.on = c /\ client'.place = p /\ client'.at = IF p = 0 THEN 0 ELSE client.at
      /\ wire' = wire
  BY DEF Connects, OnlyConn
<1>2. \A d \in Conns : wire[d] = <<>>
  BY <1>1 DEF WireInv, Conns
<1>3. /\ p \in Conns \cup {0} /\ client.at \in Nat /\ Carrier = p
      /\ p # 0 => conn[p].st # "unused"
      /\ p # 0 /\ conn[p].st = "open" => client.at <= conn[p].seq
  BY <1>1 DEF WireInv, SessionTypes, Carrier
<1>4. p # c /\ c # 0
  BY <1>1, <1>3 DEF Conns
<1>5. p # 0 => conn'[p] = conn[p]
  BY <1>1, <1>3, <1>4
<1> DEFINE v == wire'[c]
<1>6. v = <<>> /\ Len(v) = 0 /\ Members(v) = {} /\ ~Moved(v) /\ Notes(v) = {} /\ Notes(r.items) = {}
  BY <1>1, <1>2, NoFrame DEF Moved, Notes
<1>7. OnWire(c, v, r, p, client'.at)
  <2> DEFINE n == client'.at
  <2>1. From(c, v, p, n) = 0
    BY <1>1, <1>4, <1>6 DEF From
  <2>2. 0 \in 0..Len(v) /\ \A i \in 1..Len(v) : FALSE
    BY <1>6
  <2> HIDE DEF n, v, r, p
  <2>3. Answered(v, 0) /\ GoesOn(v, 0, From(c, v, p, n), r)
    BY <1>1, <2>1, <2>2 DEF Answered, GoesOn
  <2> QED BY <2>2, <2>3 DEF OnWire, n
<1>8. Fresh(r, v)
  BY <1>1, <1>6 DEF Fresh
<1>9. WireInv' /\ Carrier' = p
  <2>1. /\ r.st # "unused" /\ p = IF Moved(v) THEN c ELSE p
        /\ p # 0 => conn'[p].st # "unused"
        /\ \A d \in Conns : d # c => wire'[d] = <<>>
        /\ p # 0 /\ conn'[p].st = "open" => client'.at <= conn'[p].seq
    <3>1. r.st # "unused" /\ p = (IF Moved(v) THEN c ELSE p)
      BY <1>1, <1>6
    <3>2. \A d \in Conns : d # c => wire'[d] = <<>>
      BY <1>1, <1>2
    <3> QED BY <1>1, <1>3, <1>5, <3>1, <3>2
  <2> QED BY <1>1, <1>3, <1>6, <1>7, <1>8, <2>1, WireAgain
<1> QED BY <1>3, <1>4, <1>6, <1>9

LEMMA WireStep ==
    ASSUME SessionTypes, SessionTypes', ConnsInOrder, WireInv, [Next]_vars
    PROVE  WireInv'
<1>1. ASSUME UNCHANGED <<conn, wire, change, used, clientVars>> PROVE WireInv'
  <2>1. conn' = conn /\ wire' = wire /\ client' = client
    BY <1>1 DEF clientVars
  <2>2. Carrier' = Carrier
    BY <2>1 DEF Carrier
  <2> QED BY <2>1, <2>2 DEF WireInv
<1>2. ASSUME NEW out \in ItemType, QueuesMove(out) PROVE WireInv'
  BY <1>2, WireQueues
<1>3. ASSUME NEW c \in Conns,
             \/ ConnEnds(c) \/ Takes(c) \/ Resumes(c) \/ Refuses(c) \/ Subscribes(c)
             \/ ReadsPlace(c) \/ ReadsRefusal(c) \/ ReadsNote(c) \/ ReadsGap(c)
             \/ Leaves(c) \/ Connects(c)
      PROVE  WireInv'
  <2>1. CASE ConnEnds(c)
    BY <2>1, WireEnds
  <2>2. CASE Takes(c)
    BY <2>2, WireTakes
  <2>3. CASE Resumes(c)
    BY <2>3, WireResumes
  <2>4. CASE Refuses(c)
    BY <2>4, WireRefuses
  <2>5. CASE Subscribes(c)
    BY <2>5, WireSubscribes
  <2>6. CASE ReadsPlace(c)
    BY <2>6, WireReadsPlace
  <2>7. CASE ReadsRefusal(c)
    BY <2>7, WireReadsRefusal
  <2>8. CASE ReadsNote(c)
    BY <2>8, WireReadsNote
  <2>9. CASE ReadsGap(c)
    BY <2>9, WireReadsGap
  <2>10. CASE Leaves(c)
    BY <2>10, WireLeaves
  <2>11. CASE Connects(c)
    BY <2>11, WireConnects
  <2> QED BY <1>3, <2>1, <2>2, <2>3, <2>4, <2>5, <2>6, <2>7, <2>8, <2>9, <2>10, <2>11
<1> QED BY <1>1, <1>2, <1>3, StepKinds

-----------------------------------------------------------------------------
(* What the client has not heard stays later than what it has. *)

LEMMA HeardKept ==
    ASSUME NEW q, NEW w, NEW r, NEW v, NEW n \in Nat, NEW k \in Nat, NEW h,
           Unheard(q, w, n, h), n <= k,
           Members(r.sent) \subseteq Members(q.sent), \A f \in Members(q.sent) : f.seq \in Nat,
           Notes(v) \cup Notes(r.items) \subseteq Notes(w) \cup Notes(q.items)
    PROVE  Unheard(r, v, k, h)
<1>1. ASSUME NEW f \in Members(r.sent), k < f.seq PROVE h[f.entity] < f.change
  <2>1. f \in Members(q.sent) /\ f.seq \in Nat
    OBVIOUS
  <2>2. n < f.seq
    BY <1>1, <2>1
  <2> QED BY <2>1, <2>2 DEF Unheard
<1> QED BY <1>1 DEF Unheard

LEMMA HeardOf ==
    ASSUME SessionTypes, WireInv, HeardInv, NEW c \in Conns, c = Carrier
    PROVE  Unheard(conn[c], wire[c], client.at, heard)
<1>1. c # 0
  BY DEF Conns
<1> QED BY <1>1 DEF HeardInv

LEMMA HeardQueues ==
    ASSUME SessionTypes, ConnsInOrder, WireInv, HeardInv, NEW out \in ItemType, QueuesMove(out)
    PROVE  HeardInv'
<1>1. /\ wire' = wire /\ client' = client /\ heard' = heard
      /\ \A c \in Conns : Pushed(conn[c], conn'[c], out)
      /\ IsNotification(out) => out.entity \in Entities /\ out.change = change + 1 /\ change' = change + 1
      /\ ~IsNotification(out) => change' = change
      /\ change \in Nat /\ change' \in Nat
  BY LimitAssumption DEF QueuesMove, SessionTypes
<1>2. Carrier' = Carrier /\ Carrier \in Conns \cup {0}
  BY <1>1 DEF Carrier, SessionTypes
<1>3. \A e \in Entities : heard[e] <= change /\ heard[e] \in Nat
  BY LimitAssumption DEF HeardInv, SessionTypes
<1>4. \A e \in Entities : heard'[e] <= change'
  <2>1. change <= change'
    BY <1>1
  <2> QED BY <1>1, <1>3, <2>1
<1>5. ASSUME Carrier # 0 PROVE Unheard(conn'[Carrier], wire'[Carrier], client'.at, heard')
  <2> DEFINE m == Carrier
             q == conn[m]
             r == conn'[m]
  <2>1. m \in Conns /\ Unheard(q, wire[m], client.at, heard) /\ Pushed(q, r, out)
    BY <1>1, <1>2, <1>5 DEF HeardInv
  <2> HIDE DEF q, r, m
  <2>2. r.sent = q.sent /\ \A x \in Notes(r.items) : x \in Notes(q.items) \/ (x = out /\ IsNotification(out))
    BY <2>1 DEF Pushed, Notes
  <2>3. IsNotification(out) => heard[out.entity] < out.change
    BY <1>1, <1>3
  <2>4. Unheard(r, wire[m], client.at, heard)
    BY <2>1, <2>2, <2>3 DEF Unheard
  <2> QED BY <1>1, <2>4 DEF r, m
<1> QED BY <1>2, <1>4, <1>5 DEF HeardInv

LEMMA HeardEnds ==
    ASSUME SessionTypes, ConnsInOrder, WireInv, HeardInv, NEW c \in Conns, ConnEnds(c)
    PROVE  HeardInv'
<1>1. /\ wire' = wire /\ client' = client /\ heard' = heard /\ change' = change
      /\ \A d \in Conns : d # c => conn'[d] = conn[d]
      /\ conn'[c].items = <<>> /\ conn'[c].sent \in {conn[c].sent, <<>>}
  <2>1. conn'[c].st = "gone" => conn'[c].sent = <<>>
    BY UnusedFields DEF ConnEnds
  <2> QED BY <2>1 DEF ConnEnds, OnlyConn
<1>2. Carrier' = Carrier /\ Carrier \in Conns \cup {0} /\ client.at \in Nat
  BY <1>1 DEF Carrier, SessionTypes
<1>3. ASSUME Carrier # 0 PROVE Unheard(conn'[Carrier], wire'[Carrier], client'.at, heard')
  <2> DEFINE m == Carrier
  <2>1. m \in Conns /\ Unheard(conn[m], wire[m], client.at, heard)
    BY <1>2, <1>3 DEF HeardInv
  <2> HIDE DEF m
  <2>2. CASE m # c
    BY <1>1, <2>1, <2>2 DEF m
  <2>3. CASE m = c
    <3>1. Members(conn'[c].sent) \subseteq Members(conn[c].sent) /\ Notes(conn'[c].items) = {}
      BY <1>1, NoFrame DEF Notes
    <3>2. Unheard(conn'[c], wire[c], client.at, heard)
      BY <2>1, <2>3, <3>1 DEF Unheard
    <3> QED BY <1>1, <2>3, <3>2 DEF m
  <2> QED BY <2>2, <2>3
<1>4. \A e \in Entities : heard'[e] <= change'
  BY <1>1 DEF HeardInv
<1> QED BY <1>2, <1>3, <1>4 DEF HeardInv

LEMMA HeardTakes ==
    ASSUME SessionTypes, SessionTypes', ConnsInOrder, WireInv, HeardInv, NEW c \in Conns, Takes(c)
    PROVE  HeardInv'
<1> DEFINE q == conn[c]
           r == conn'[c]
           w == wire[c]
           W == Written(q)
<1>1. /\ client' = client /\ heard' = heard /\ change' = change
      /\ \A d \in Conns : d # c => conn'[d] = conn[d]
      /\ r.items = <<>> /\ r.sent = KeptOn(q)
      /\ \A d \in Conns : wire'[d] = IF d = c /\ c = client.on THEN w \o W ELSE wire[d]
  BY DEF Takes, OnlyConn, Writes
<1>2. Carrier' = Carrier /\ Carrier \in Conns \cup {0}
  BY WireTakes DEF Carrier, SessionTypes
<1>3. \A e \in Entities : heard'[e] <= change'
  BY <1>1 DEF HeardInv
<1>4. /\ q \in ConnType /\ w \in Seq(Frame) /\ Tidy(q) /\ q.st = "open"
  BY FramesOfConn DEF ConnsInOrder, Takes
<1>5. /\ W \in Seq(Frame) /\ Numbered(W, q.seq, q.items) /\ Notes(W) = Notes(Frames(q))
  BY <1>4, WrittenFacts
<1>6. \A f \in Members(q.sent) : f.seq <= q.seq
  BY <1>4 DEF ConnsInOrder, InOrder
<1>7. Members(KeptOn(q)) \subseteq Members(q.sent) \cup Notes(W)
  BY <1>4, <1>5, <1>6, KeptOnFacts
<1>8. ASSUME Carrier # 0 PROVE Unheard(conn'[Carrier], wire'[Carrier], client'.at, heard')
  <2>1. CASE Carrier # c
    <3>1. Unheard(conn[Carrier], wire[Carrier], client.at, heard)
      BY <1>8 DEF HeardInv
    <3> QED BY <1>1, <1>2, <1>8, <2>1, <3>1
  <2>2. CASE Carrier = c
    <3>1. Unheard(q, w, client.at, heard)
      BY <1>8, <2>2 DEF HeardInv
    <3>2. ASSUME NEW f \in Notes(W) PROVE heard[f.entity] < f.change
      <4>1. PICK i \in 1..Len(W) : W[i] = f /\ IsNotification(f)
        BY <1>5, MembersOf DEF Notes
      <4>2. PICK x \in Notes(q.items) : x.entity = f.entity /\ x.change = f.change
        BY <1>5, <4>1 DEF Numbered
      <4> QED BY <3>1, <4>2 DEF Unheard
    <3>3. Notes(wire'[c]) \subseteq Notes(w) \cup Notes(W)
      <4>1. Members(w \o W) = Members(w) \cup Members(W)
        BY <1>4, <1>5, Joined
      <4> QED BY <1>1, <4>1 DEF Notes
    <3>4. Notes(r.items) = {} /\ Members(r.sent) \subseteq Members(q.sent) \cup Notes(W)
      BY <1>1, <1>7, NoFrame DEF Notes
    <3>5. Unheard(r, wire'[c], client.at, heard)
      <4> HIDE DEF q, r, w, W
      <4> QED BY <3>1, <3>2, <3>3, <3>4 DEF Unheard
    <3> QED BY <1>1, <2>2, <3>5
  <2> QED BY <2>1, <2>2
<1> QED BY <1>2, <1>3, <1>8 DEF HeardInv

LEMMA HeardResumes ==
    ASSUME SessionTypes, SessionTypes', ConnsInOrder, WireInv, HeardInv, NEW c \in Conns, Resumes(c)
    PROVE  HeardInv'
<1> DEFINE p == client.place
           s == conn[p].sent
           n == client.at
           v == wire'[c]
           r == conn'[c]
<1>1. /\ client.on = c /\ p \in Conns /\ p # c /\ conn[c].st = "open" /\ conn[c].first
      /\ r.items = conn[c].items /\ r.sent = Over(s, n) /\ client' = client
      /\ heard' = heard /\ change' = change
  BY DEF Resumes
<1>2. Carrier = p /\ Fresh(conn[c], wire[c]) /\ Carrier' = c
  BY <1>1, BeforeAnswer, WireResumes
<1>3. s \in Seq(Frame) /\ Ascends(s) /\ n \in Nat /\ Notes(v) = Members(Over(s, n))
  BY ResumedWire DEF WroteAgain
<1>4. Unheard(conn[p], wire[p], n, heard)
  BY <1>1, <1>2, HeardOf
<1>5. \A f \in Members(Over(s, n)) : heard[f.entity] < f.change
  <2> HIDE DEF n
  <2>1. \A f \in Members(Over(s, n)) : f \in Members(s) /\ n < f.seq
    BY <1>3, OverFacts
  <2> QED BY <1>4, <2>1 DEF Unheard
<1>6. Unheard(r, v, n, heard)
  <2>1. Notes(r.items) = {}
    BY <1>1, <1>2 DEF Fresh
  <2> QED BY <1>1, <1>3, <1>5, <2>1 DEF Unheard
<1>7. \A e \in Entities : heard'[e] <= change'
  BY <1>1 DEF HeardInv
<1> QED BY <1>1, <1>2, <1>6, <1>7 DEF HeardInv

LEMMA HeardAsked ==
    ASSUME SessionTypes, SessionTypes', ConnsInOrder, WireInv, HeardInv, NEW c \in Conns,
           Refuses(c) \/ Subscribes(c)
    PROVE  HeardInv'
<1>1. heard' = heard /\ change' = change /\ client'.at = client.at
  BY DEF Refuses, Subscribes
<1>2. \A e \in Entities : heard'[e] <= change'
  BY <1>1 DEF HeardInv
<1>3. CASE Refuses(c)
  <2> DEFINE p == client.place
  <2>1. /\ client' = client /\ p \in Conns /\ p # c /\ client.on = c /\ conn'[p] = conn[p]
    BY <1>3 DEF Refuses, OnlyConn
  <2>2. Carrier' = p /\ Carrier = p
    BY <1>3, WireRefuses
  <2>3. wire'[p] = wire[p]
    BY <1>3, <2>1, RefusedWire
  <2>4. Unheard(conn[p], wire[p], client.at, heard)
    BY <2>1, <2>2, HeardOf
  <2> QED BY <1>1, <1>2, <2>1, <2>2, <2>3, <2>4 DEF HeardInv
<1>4. CASE Subscribes(c)
  <2>1. Carrier' = c /\ Fresh(conn[c], wire[c])
    BY <1>4, WireSubscribes
  <2>2. conn'[c].sent = conn[c].sent /\ conn'[c].items = conn[c].items /\ wire' = wire
    BY <1>4 DEF Subscribes
  <2>3. Members(conn'[c].sent) = {} /\ Notes(wire'[c]) = {} /\ Notes(conn'[c].items) = {}
    BY <2>1, <2>2, NoFrame DEF Fresh
  <2>4. Unheard(conn'[c], wire'[c], client'.at, heard')
    BY <2>3 DEF Unheard
  <2> QED BY <1>2, <2>1, <2>4 DEF HeardInv
<1> QED BY <1>3, <1>4

LEMMA HeardReadsNote ==
    ASSUME SessionTypes, SessionTypes', ConnsInOrder, WireInv, HeardInv, NEW c \in Conns, ReadsNote(c)
    PROVE  HeardInv' /\ heard[wire[c][1].entity] < wire[c][1].change
<1> DEFINE q == conn[c]
           w == wire[c]
           v == wire'[c]
           f == w[1]
<1>1. /\ conn' = conn /\ change' = change /\ client'.at = f.seq /\ IsNotification(f) /\ Reads(c)
      /\ w # <<>> /\ \A e \in Entities : heard'[e] = IF e = f.entity THEN f.change ELSE heard[e]
  BY DEF ReadsNote, Reads
<1>2. Carrier' = c /\ Carrier = c /\ client.at < f.seq /\ \A g \in Members(v) : f.seq < g.seq
  BY WireReadsNote
<1>3. Notes(v) \subseteq Notes(w) /\ f \in Notes(w) /\ v \in Seq(Frame)
  <2>1. Members(w) = {f} \cup Members(v) /\ Notes(v) \subseteq Notes(w) /\ v \in Seq(Frame)
    BY <1>1, ReadWire
  <2> QED BY <1>1, <2>1 DEF Notes
<1>4. /\ \A g \in Known(q, w) : g \in Frame /\ g.seq \in Nat /\ g.change \in Nat
      /\ client.at \in Nat /\ change \in Nat
  BY FramesOfConn, LimitAssumption DEF SessionTypes
<1>5. InOrder(q, w, change)
  BY DEF ConnsInOrder
<1>6. Unheard(q, w, client.at, heard)
  BY <1>2, HeardOf
<1>7. \A e \in Entities : heard[e] <= change
  BY DEF HeardInv
<1> HIDE DEF q, w, v, f
<1>8. /\ f \in Known(q, w) /\ f.entity \in Entities /\ f.change <= change
      /\ \A g \in Known(q, w) : g.entity \in Entities /\ Later(f, g)
      /\ \A x \in Notes(q.items) : x.entity \in Entities /\ (f.entity = x.entity => f.change < x.change)
  BY <1>3, <1>5 DEF Known, InOrder
<1>9. ASSUME NEW g \in Members(q.sent), f.seq < g.seq PROVE heard'[g.entity] < g.change
  <2>1. g \in Known(q, w)
    BY DEF Known
  <2>2. f.entity = g.entity => f.change < g.change
    BY <1>8, <1>9, <2>1 DEF Later
  <2>3. client.at < g.seq
    BY <1>2, <1>4, <1>8, <1>9, <2>1
  <2>4. heard[g.entity] < g.change
    BY <1>6, <2>3 DEF Unheard
  <2> QED BY <1>1, <1>8, <2>1, <2>2, <2>4
<1>10. ASSUME NEW g \in Notes(v) PROVE heard'[g.entity] < g.change
  <2>1. g \in Known(q, w) /\ g \in Notes(w) /\ f.seq < g.seq
    BY <1>2, <1>3 DEF Known, Notes
  <2>2. f.entity = g.entity => f.change < g.change
    BY <1>8, <2>1 DEF Later
  <2>3. heard[g.entity] < g.change
    BY <1>6, <2>1 DEF Unheard
  <2> QED BY <1>1, <1>8, <2>1, <2>2, <2>3
<1>11. ASSUME NEW x \in Notes(q.items) PROVE heard'[x.entity] < x.change
  <2>1. heard[x.entity] < x.change
    BY <1>6 DEF Unheard
  <2> QED BY <1>1, <1>8, <2>1
<1>12. Unheard(q, v, f.seq, heard')
  BY <1>9, <1>10, <1>11 DEF Unheard
<1>13. \A e \in Entities : heard'[e] <= change'
  BY <1>1, <1>7, <1>8
<1>14. heard[f.entity] < f.change
  BY <1>3, <1>6 DEF Unheard
<1> QED BY <1>1, <1>2, <1>12, <1>13, <1>14 DEF HeardInv, q, v, w, f

LEMMA HeardReads ==
    ASSUME SessionTypes, SessionTypes', ConnsInOrder, WireInv, HeardInv, NEW c \in Conns,
           ReadsPlace(c) \/ ReadsRefusal(c) \/ ReadsGap(c)
    PROVE  HeardInv'
<1>1. Reads(c) /\ heard' = heard /\ change' = change
  BY DEF ReadsPlace, ReadsRefusal, ReadsGap, Reads
<1>2. \A e \in Entities : heard'[e] <= change'
  BY <1>1 DEF HeardInv
<1>3. CASE ReadsRefusal(c)
  BY <1>2, <1>3, WireReadsRefusal DEF HeardInv
<1>4. CASE ReadsPlace(c) \/ ReadsGap(c)
  <2>1. Carrier' = Carrier /\ client.at <= client'.at
    <3>1. CASE ReadsPlace(c)
      <4>1. client'.at = client.at /\ client.at \in Nat
        BY <3>1 DEF ReadsPlace, SessionTypes
      <4> QED BY <3>1, <4>1, WireReadsPlace
    <3> QED BY <1>4, <3>1, WireReadsGap
  <2>2. Carrier \in Conns \cup {0} /\ client.at \in Nat /\ client'.at \in Nat
    <3>1. client \in ClientType /\ client' \in ClientType
      BY DEF SessionTypes, ClientType
    <3> QED BY <1>1, <3>1 DEF Carrier, ClientType, Reads
  <2>3. /\ \A d \in Conns : d # c => wire'[d] = wire[d]
        /\ conn' = conn /\ Notes(wire'[c]) \subseteq Notes(wire[c])
    BY <1>1, ReadWire DEF Reads
  <2>4. ASSUME Carrier # 0 PROVE Unheard(conn'[Carrier], wire'[Carrier], client'.at, heard')
    <3> DEFINE m == Carrier
    <3>1. m \in Conns /\ Unheard(conn[m], wire[m], client.at, heard)
      BY <2>2, <2>4 DEF HeardInv
    <3>2. Notes(wire'[m]) \subseteq Notes(wire[m]) /\ \A f \in Members(conn[m].sent) : f.seq \in Nat
      BY <2>3, <3>1, FramesOfConn DEF Known
    <3>3. Unheard(conn[m], wire'[m], client'.at, heard)
      <4> HIDE DEF m
      <4> QED BY <2>1, <2>2, <3>1, <3>2, HeardKept
    <3> QED BY <1>1, <2>3, <3>3
  <2> QED BY <1>2, <2>1, <2>4 DEF HeardInv
<1> QED BY <1>3, <1>4

LEMMA HeardLeaves ==
    ASSUME SessionTypes, SessionTypes', ConnsInOrder, WireInv, HeardInv, NEW c \in Conns,
           Leaves(c) \/ Connects(c)
    PROVE  HeardInv'
<1> DEFINE p == client.place
<1>1. /\ heard' = heard /\ change' = change /\ client'.place = p /\ p \in Conns \cup {0}
      /\ p # 0 => client'.at = client.at
  BY DEF Leaves, Connects, SessionTypes
<1>2. Carrier' = p
  BY WireLeaves, WireConnects
<1>3. \A e \in Entities : heard'[e] <= change'
  BY <1>1 DEF HeardInv
<1>4. ASSUME p # 0 PROVE Unheard(conn'[p], wire'[p], client'.at, heard')
  <2>1. p \in Conns
    BY <1>1, <1>4
  <2>2. CASE Connects(c)
    <3>1. Carrier = p /\ p # c
      BY <2>2, WireConnects
    <3>2. conn'[p] = conn[p] /\ wire' = wire
      BY <2>1, <2>2, <3>1 DEF Connects, OnlyConn
    <3>3. Unheard(conn[p], wire[p], client.at, heard)
      BY <2>1, <3>1, HeardOf
    <3> QED BY <1>1, <1>4, <3>2, <3>3
  <2>3. CASE Leaves(c)
    <3>1. /\ conn' = conn /\ client.on = c /\ wire'[c] = <<>>
          /\ \A d \in Conns : d # c => wire'[d] = wire[d]
      BY <2>3 DEF Leaves
    <3>2. \A d \in Conns : wire'[d] = <<>>
      BY <3>1, WireOf
    <3>3. Notes(wire'[p]) = {}
      BY <2>1, <3>2, NoFrame DEF Notes
    <3>4. CASE Carrier = p
      <4>1. Unheard(conn[p], wire[p], client.at, heard)
        BY <2>1, <3>4, HeardOf
      <4> QED BY <1>1, <1>4, <3>1, <3>3, <4>1 DEF Unheard
    <3>5. CASE Carrier # p
      <4>1. conn[p].st = "gone"
        BY <3>1, <3>5, WireOf
      <4>2. conn[p] = Gone
        BY <2>1, <4>1 DEF ConnsInOrder, Tidy, Gone
      <4>3. Members(conn'[p].sent) = {} /\ Notes(conn'[p].items) = {}
        BY <3>1, <4>2, UnusedFields, NoFrame DEF Notes
      <4> QED BY <3>3, <4>3 DEF Unheard
    <3> QED BY <3>4, <3>5
  <2> QED BY <2>2, <2>3
<1> QED BY <1>2, <1>3, <1>4 DEF HeardInv

LEMMA HeardStep ==
    ASSUME SessionTypes, SessionTypes', ConnsInOrder, WireInv, HeardInv, [Next]_vars
    PROVE  HeardInv'
<1>1. ASSUME UNCHANGED <<conn, wire, change, used, clientVars>> PROVE HeardInv'
  <2>1. conn' = conn /\ wire' = wire /\ client' = client /\ heard' = heard /\ change' = change
    BY <1>1 DEF clientVars
  <2>2. Carrier' = Carrier
    BY <2>1 DEF Carrier
  <2> QED BY <2>1, <2>2 DEF HeardInv
<1>2. ASSUME NEW out \in ItemType, QueuesMove(out) PROVE HeardInv'
  BY <1>2, HeardQueues
<1>3. ASSUME NEW c \in Conns,
             \/ ConnEnds(c) \/ Takes(c) \/ Resumes(c) \/ Refuses(c) \/ Subscribes(c)
             \/ ReadsPlace(c) \/ ReadsRefusal(c) \/ ReadsNote(c) \/ ReadsGap(c)
             \/ Leaves(c) \/ Connects(c)
      PROVE  HeardInv'
  <2>1. CASE ConnEnds(c)
    BY <2>1, HeardEnds
  <2>2. CASE Takes(c)
    BY <2>2, HeardTakes
  <2>3. CASE Resumes(c)
    BY <2>3, HeardResumes
  <2>4. CASE Refuses(c) \/ Subscribes(c)
    BY <2>4, HeardAsked
  <2>5. CASE ReadsPlace(c) \/ ReadsRefusal(c) \/ ReadsGap(c)
    BY <2>5, HeardReads
  <2>6. CASE ReadsNote(c)
    BY <2>6, HeardReadsNote
  <2>7. CASE Leaves(c) \/ Connects(c)
    BY <2>7, HeardLeaves
  <2> QED BY <1>3, <2>1, <2>2, <2>3, <2>4, <2>5, <2>6, <2>7
<1> QED BY <1>1, <1>2, <1>3, StepKinds

-----------------------------------------------------------------------------
(* What is owed is kept for a resume, and on the wire or cleared by it. *)

Reaches(f, w) == f \in Members(w) \/ Clears(w)

LEMMA OwedOf ==
    ASSUME SessionTypes, OwedInv, NEW f \in owed
    PROVE  /\ f \in Frame /\ f.seq \in Nat /\ IsNotification(f) /\ Carrier \in Conns /\ client.at < f.seq
           /\ conn[Carrier].st = "gone" \/ Remembered(f, conn[Carrier].sent)
           /\ Carrier = client.on => Reaches(f, wire[Carrier])
<1>1. f \in Frame /\ Carrier \in Conns \cup {0}
  BY DEF SessionTypes, Carrier
<1>2. f.seq \in Nat
  BY <1>1, FrameFields
<1> QED BY <1>1, <1>2 DEF OwedInv, Reaches

LEMMA OwedAgain ==
    ASSUME NEW m \in Conns, m = Carrier', NEW f, IsNotification(f), client'.at < f.seq,
           conn'[m].st = "gone" \/ Remembered(f, conn'[m].sent),
           m = client'.on => Reaches(f, wire'[m])
    PROVE  /\ IsNotification(f) /\ Carrier' # 0 /\ client'.at < f.seq
           /\ conn'[Carrier'].st = "gone" \/ Remembered(f, conn'[Carrier'].sent)
           /\ Carrier' = client'.on => f \in Members(wire'[Carrier']) \/ Clears(wire'[Carrier'])
<1>1. m # 0
  BY DEF Conns
<1> QED BY <1>1 DEF Reaches

(* The same connection carries what was owed before. *)
LEMMA OwedKept ==
    ASSUME SessionTypes, OwedInv, Carrier' = Carrier, NEW f \in owed,
           client'.on = client.on, client'.at = client.at,
           conn'[Carrier].st = "gone" \/ conn'[Carrier].sent = conn[Carrier].sent,
           conn[Carrier].st = "gone" => conn'[Carrier].st = "gone",
           Carrier = client.on /\ Reaches(f, wire[Carrier]) => Reaches(f, wire'[Carrier])
    PROVE  /\ IsNotification(f) /\ Carrier' # 0 /\ client'.at < f.seq
           /\ conn'[Carrier'].st = "gone" \/ Remembered(f, conn'[Carrier'].sent)
           /\ Carrier' = client'.on => f \in Members(wire'[Carrier']) \/ Clears(wire'[Carrier'])
<1> DEFINE m == Carrier
<1>1. /\ IsNotification(f) /\ m \in Conns /\ client.at < f.seq
      /\ conn[m].st = "gone" \/ Remembered(f, conn[m].sent)
      /\ m = client.on => Reaches(f, wire[m])
  BY OwedOf
<1>2. m = Carrier'
  OBVIOUS
<1>3. client'.at < f.seq
  BY <1>1
<1>4. conn'[m].st = "gone" \/ Remembered(f, conn'[m].sent)
  BY <1>1
<1>5. m = client'.on => Reaches(f, wire'[m])
  BY <1>1
<1> HIDE DEF m
<1> QED BY <1>1, <1>2, <1>3, <1>4, <1>5, OwedAgain

LEMMA OwedQueues ==
    ASSUME SessionTypes, ConnsInOrder, WireInv, OwedInv,
           (\E out \in ItemType : QueuesMove(out)) \/ (\E c \in Conns : ConnEnds(c))
    PROVE  OwedInv'
<1>1. wire' = wire /\ client' = client /\ owed' = owed
  BY DEF QueuesMove, ConnEnds
<1>2. ASSUME NEW d \in Conns
      PROVE  /\ conn'[d].st = "gone" \/ conn'[d].sent = conn[d].sent
             /\ conn[d].st = "gone" => conn'[d].st = "gone"
  <2>1. CASE \E out \in ItemType : QueuesMove(out)
    BY <2>1 DEF QueuesMove, Pushed
  <2>2. ASSUME NEW c \in Conns, ConnEnds(c)
        PROVE  /\ conn'[d].st = "gone" \/ conn'[d].sent = conn[d].sent
               /\ conn[d].st = "gone" => conn'[d].st = "gone"
    <3>1. CASE d = c
      <4>1. conn[c].st # "gone" /\ (conn'[c].st = "gone" \/ conn'[c].sent = conn[c].sent)
        BY <2>2 DEF ConnEnds
      <4> QED BY <3>1, <4>1
    <3>2. CASE d # c
      BY <2>2, <3>2 DEF ConnEnds, OnlyConn
    <3> QED BY <3>1, <3>2
  <2> QED BY <2>1, <2>2
<1>3. Carrier' = Carrier
  BY <1>1 DEF Carrier
<1>4. ASSUME NEW f \in owed'
      PROVE  /\ IsNotification(f) /\ Carrier' # 0 /\ client'.at < f.seq
             /\ conn'[Carrier'].st = "gone" \/ Remembered(f, conn'[Carrier'].sent)
             /\ Carrier' = client'.on => f \in Members(wire'[Carrier']) \/ Clears(wire'[Carrier'])
  <2>1. f \in owed
    BY <1>1
  <2>2. Carrier \in Conns
    BY <2>1, OwedOf
  <2>3. /\ conn'[Carrier].st = "gone" \/ conn'[Carrier].sent = conn[Carrier].sent
        /\ conn[Carrier].st = "gone" => conn'[Carrier].st = "gone"
    BY <1>2, <2>2
  <2>4. Reaches(f, wire[Carrier]) => Reaches(f, wire'[Carrier])
    BY <1>1
  <2> QED BY <1>1, <1>3, <2>1, <2>3, <2>4, OwedKept
<1> QED BY <1>4 DEF OwedInv

LEMMA ReachesLonger ==
    ASSUME NEW w \in Seq(Frame), NEW W \in Seq(Frame), NEW f, Reaches(f, w)
    PROVE  Reaches(f, w \o W)
<1> DEFINE v == w \o W
<1>1. /\ Len(w) \in Nat /\ Len(v) \in Nat /\ Len(w) <= Len(v)
      /\ \A i \in 1..Len(w) : i \in 1..Len(v) /\ v[i] = w[i]
      /\ Members(w) \subseteq Members(v)
  BY Joined
<1> HIDE DEF v
<1>2. ASSUME NEW i \in 1..Len(w), w[i].kind = "gap" \/ w[i] = Result(404),
             \A k \in 1..Len(w) : k < i => ~IsNotification(w[k])
      PROVE  Clears(v)
  <2>1. i \in 1..Len(v) /\ (v[i].kind = "gap" \/ v[i] = Result(404))
    BY <1>1, <1>2
  <2>2. ASSUME NEW k \in 1..Len(v), k < i PROVE ~IsNotification(v[k])
    <3>1. k \in 1..Len(w)
      BY <1>1, <2>2
    <3> QED BY <1>1, <1>2, <2>2, <3>1
  <2> QED BY <2>1, <2>2 DEF Clears
<1>3. Clears(w) => Clears(v)
  <2>1. ASSUME Clears(w) PROVE Clears(v)
    <3>1. PICK i \in 1..Len(w) : /\ w[i].kind = "gap" \/ w[i] = Result(404)
                                 /\ \A k \in 1..Len(w) : k < i => ~IsNotification(w[k])
      BY <2>1 DEF Clears
    <3> QED BY <1>2, <3>1
  <2> QED BY <2>1
<1>4. Reaches(f, v)
  BY <1>1, <1>3 DEF Reaches
<1> QED BY <1>4 DEF v

LEMMA OwedTakes ==
    ASSUME SessionTypes, SessionTypes', ConnsInOrder, WireInv, OwedInv, NEW c \in Conns, Takes(c)
    PROVE  OwedInv'
<1> DEFINE q == conn[c]
           r == conn'[c]
           w == wire[c]
           W == Written(q)
           m == Carrier
<1>1. /\ client' = client /\ q.st = "open" /\ r.sent = KeptOn(q)
      /\ \A d \in Conns : d # c => conn'[d] = conn[d]
      /\ \A d \in Conns : wire'[d] = IF d = c /\ c = client.on THEN w \o W ELSE wire[d]
      /\ owed' = IF c \in {client.on, client.place} THEN owed \cup Notes(W) ELSE owed
  BY DEF Takes, OnlyConn, Writes
<1>2. Carrier' = m
  BY WireTakes
<1>3. /\ q \in ConnType /\ w \in Seq(Frame) /\ Tidy(q) /\ q.seq \in Nat /\ client.at \in Nat
      /\ client.on \in Conns \cup {0} /\ client.place \in Conns \cup {0}
  BY FramesOfConn DEF ConnsInOrder, SessionTypes
<1>4. /\ W \in Seq(Frame) /\ Len(W) \in Nat /\ Numbered(W, q.seq, q.items) /\ Notes(W) = Notes(Frames(q))
  BY <1>3, WrittenFacts
<1>5. \A f \in Members(q.sent) : f.seq <= q.seq
  BY <1>1 DEF ConnsInOrder, InOrder
<1>6. /\ \A f \in Notes(W) : Remembered(f, r.sent)
      /\ \A f \in Frame : Remembered(f, q.sent) => Remembered(f, r.sent)
  BY <1>1, <1>3, <1>4, <1>5, KeptOnFacts
<1>7. ASSUME NEW f \in Notes(W), c \in {client.on, client.place}
      PROVE  /\ m = c /\ client.at < f.seq /\ IsNotification(f)
             /\ c = client.on => f \in Members(wire'[c])
  <2>1. PICK i \in 1..Len(W) : W[i] = f /\ IsNotification(f)
    BY <1>4, MembersOf DEF Notes
  <2>2. f.seq = q.seq + i /\ Notes(q.items) # {}
    BY <1>4, <2>1 DEF Numbered
  <2>3. m = c
    <3>0. c # 0
      BY DEF Conns
    <3>1. CASE client.on = c
      <4>1. c # m => Fresh(q, w)
        BY <3>1, WireOf
      <4> QED BY <2>2, <4>1 DEF Fresh
    <3>2. CASE client.on # c
      <4>1. client.place = c
        BY <1>7, <3>2
      <4>2. ASSUME client.on # 0, Moved(wire[client.on]) PROVE FALSE
        BY <1>1, <4>1, <4>2 DEF WireInv
      <4> QED BY <4>1, <4>2 DEF Carrier
    <3> QED BY <3>1, <3>2
  <2>4. client.at <= q.seq
    <3>1. c # 0
      BY DEF Conns
    <3> QED BY <1>1, <2>3, <3>1 DEF WireInv
  <2>5. client.at < f.seq
    BY <1>3, <2>2, <2>4
  <2>6. c = client.on => f \in Members(wire'[c])
    <3>1. Members(w \o W) = Members(w) \cup Members(W)
      BY <1>3, <1>4, Joined
    <3> QED BY <1>1, <3>1 DEF Notes
  <2> QED BY <2>1, <2>3, <2>5, <2>6
<1>8. ASSUME NEW f \in owed'
      PROVE  /\ IsNotification(f) /\ Carrier' # 0 /\ client'.at < f.seq
             /\ conn'[Carrier'].st = "gone" \/ Remembered(f, conn'[Carrier'].sent)
             /\ Carrier' = client'.on => f \in Members(wire'[Carrier']) \/ Clears(wire'[Carrier'])
  <2>1. CASE f \in owed
    <3>1. /\ f \in Frame /\ IsNotification(f) /\ m \in Conns /\ client.at < f.seq
          /\ conn[m].st = "gone" \/ Remembered(f, conn[m].sent)
          /\ m = client.on => Reaches(f, wire[m])
      BY <2>1, OwedOf
    <3>2. CASE m # c
      <4>1. conn'[m] = conn[m] /\ wire'[m] = wire[m]
        BY <1>1, <3>1, <3>2
      <4> HIDE DEF m
      <4> QED BY <1>1, <1>2, <3>1, <4>1, OwedAgain
    <3>3. CASE m = c
      <4>1. Remembered(f, r.sent)
        BY <1>1, <1>6, <3>1, <3>3
      <4>2. c = client.on => Reaches(f, wire'[c])
        BY <1>1, <1>3, <1>4, <3>1, <3>3, ReachesLonger
      <4> HIDE DEF m
      <4> QED BY <1>1, <1>2, <3>1, <3>3, <4>1, <4>2, OwedAgain
    <3> QED BY <3>2, <3>3
  <2>2. CASE f \notin owed
    <3>1. f \in Notes(W) /\ c \in {client.on, client.place}
      BY <1>1, <2>2
    <3>2. /\ m = c /\ client.at < f.seq /\ IsNotification(f)
          /\ c = client.on => Reaches(f, wire'[c])
      BY <1>7, <3>1 DEF Reaches
    <3>3. Remembered(f, r.sent)
      BY <1>6, <3>1
    <3> HIDE DEF m
    <3> QED BY <1>1, <1>2, <3>2, <3>3, OwedAgain
  <2> QED BY <2>1, <2>2
<1> QED BY <1>8 DEF OwedInv

LEMMA OwedResumes ==
    ASSUME SessionTypes, SessionTypes', ConnsInOrder, WireInv, OwedInv, NEW c \in Conns, Resumes(c)
    PROVE  OwedInv'
<1> DEFINE p == client.place
           s == conn[p].sent
           n == client.at
           w == wire[c]
           v == wire'[c]
           A == Again(s, n)
           O == Over(s, n)
           r == conn'[c]
<1>1. /\ client.on = c /\ p \in Conns /\ p # c /\ conn[c].st = "open" /\ conn[c].first
      /\ conn[p].st = "closed" /\ r.sent = O /\ client' = client
      /\ owed' \subseteq owed \cup Notes(<<Result(200)>> \o A)
  BY DEF Resumes, Writes
<1>2. Carrier = p /\ Carrier' = c /\ \A i \in 1..Len(w) : w[i].kind = "gap"
  BY <1>1, BeforeAnswer, WireResumes
<1>0. WroteAgain(s, n, w, v, A)
  BY ResumedWire
<1> HIDE DEF p, s, n, w, v, A, r
<1>3. /\ s \in Seq(Frame) /\ Ascends(s) /\ \A f \in Members(s) : IsNotification(f) /\ f.to = f.seq
      /\ n \in Nat /\ A \in Seq(Frame) /\ w \in Seq(Frame) /\ v \in Seq(Frame)
      /\ Len(w) \in Nat /\ Len(A) \in Nat /\ Len(v) = Len(w) + 1 + Len(A)
      /\ \A i \in 1..Len(w) : v[i] = w[i]
      /\ v[Len(w) + 1] = Result(200)
      /\ \A i \in 1..Len(A) : v[Len(w) + 1 + i] = A[i]
      /\ Members(v) = Members(w) \cup {Result(200)} \cup Members(A)
      /\ Notes(v) = Members(O)
  BY <1>0 DEF WroteAgain
<1> HIDE DEF O
<1>4. Notes(<<Result(200)>> \o A) \subseteq Members(O)
  <2>0. PICK g \in Frame : g = Result(200)
    BY ResultIsFrame
  <2>1. PICK u \in Seq(Frame) : u = <<g>> /\ Members(u) = {g}
    BY OneFrame
  <2>2. Members(u \o A) = Members(u) \cup Members(A)
    <3>1. u \in Seq(Frame) /\ A \in Seq(Frame)
      BY <1>3
    <3> QED BY <3>1, Joined
  <2>3. Notes(u \o A) \subseteq Notes(v)
    BY <1>3, <2>0, <2>1, <2>2 DEF Notes
  <2> QED BY <1>3, <2>0, <2>1, <2>3, SMTT(20)
<1>5. \A f : f \in Members(O) <=> f \in Members(s) /\ n < f.seq
  BY <1>3, OverFacts DEF O
<1>6. ASSUME NEW f \in owed
      PROVE  /\ IsNotification(f) /\ n < f.seq
             /\ f \in Members(O) \/ (Remembered(f, O) /\ Clears(v))
  <2>1. f \in Frame /\ f.seq \in Nat /\ IsNotification(f) /\ n < f.seq /\ Remembered(f, s)
    BY <1>1, <1>2, OwedOf DEF n, s
  <2>2. CASE f \in Members(s)
    BY <1>5, <2>1, <2>2
  <2>3. CASE f \notin Members(s)
    <3>1. s # <<>> /\ \A g \in Members(s) : f.seq < g.seq
      BY <2>1, <2>3 DEF Remembered
    <3>2. A # <<>> /\ A[1].kind = "gap"
      BY <1>3, <2>1, <3>1, AgainFacts DEF A
    <3>3. PICK g \in Members(s) : TRUE
      BY <1>3, <3>1, MembersOf
    <3>4. n < g.seq
      <4>1. g \in Frame
        BY <1>3, MembersOf
      <4>2. g.seq \in Nat
        BY <4>1, FrameFields
      <4> QED BY <1>3, <2>1, <3>1, <4>2
    <3>5. g \in Members(O)
      BY <1>5, <3>4
    <3>6. O # <<>>
      BY <3>5, NoFrame
    <3>7. Remembered(f, O)
      BY <1>5, <3>1, <3>6 DEF Remembered
    <3>8. Clears(v)
      <4> DEFINE i == Len(w) + 2
      <4>1. Len(A) # 0
        BY <1>3, <3>2, MembersOf
      <4>2. i \in 1..Len(v) /\ v[i].kind = "gap"
        <5>1. 1 \in 1..Len(A) /\ Len(w) + 1 + 1 = i
          BY <1>3, <4>1
        <5> QED BY <1>3, <3>2, <5>1
      <4>3. ASSUME NEW k \in 1..Len(v), k < i PROVE ~IsNotification(v[k])
        <5>0. Len(w) \in Nat /\ k \in Nat \ {0}
          BY <1>3
        <5>1. k \in 1..Len(w) \/ k = Len(w) + 1
          BY <4>3, <5>0
        <5>2. k \in 1..Len(w) => v[k].kind = "gap"
          BY <1>2, <1>3
        <5> QED BY <1>3, <5>1, <5>2, ResultIsFrame DEF IsNotification
      <4> HIDE DEF i
      <4> QED BY <4>2, <4>3 DEF Clears
    <3> QED BY <2>1, <3>7, <3>8
  <2> QED BY <2>2, <2>3
<1>7. ASSUME NEW f \in Members(O) PROVE IsNotification(f) /\ n < f.seq /\ f \in Members(v)
  BY <1>3, <1>5 DEF Notes
<1>8. ASSUME NEW f \in owed'
      PROVE  IsNotification(f) /\ n < f.seq /\ Remembered(f, O) /\ Reaches(f, v)
  <2>1. f \in owed \/ f \in Members(O)
    BY <1>1, <1>4
  <2> QED BY <1>6, <1>7, <2>1 DEF Remembered, Reaches
<1>9. ASSUME NEW f \in owed'
      PROVE  /\ IsNotification(f) /\ Carrier' # 0 /\ client'.at < f.seq
             /\ conn'[Carrier'].st = "gone" \/ Remembered(f, conn'[Carrier'].sent)
             /\ Carrier' = client'.on => f \in Members(wire'[Carrier']) \/ Clears(wire'[Carrier'])
  <2>1. /\ IsNotification(f) /\ client'.at < f.seq /\ Remembered(f, conn'[c].sent)
        /\ Reaches(f, wire'[c])
    BY <1>1, <1>8 DEF n, r, v
  <2> QED BY <1>2, <2>1, OwedAgain
<1> QED BY <1>9 DEF OwedInv

LEMMA OwedRefuses ==
    ASSUME SessionTypes, SessionTypes', ConnsInOrder, WireInv, OwedInv, NEW c \in Conns, Refuses(c)
    PROVE  OwedInv'
<1> DEFINE p == client.place
<1>1. /\ client' = client /\ p \in Conns /\ p # c /\ client.on = c /\ conn'[p] = conn[p]
      /\ owed' \subseteq owed \cup Notes(<<Result(404)>>)
  BY DEF Refuses, OnlyConn, Writes
<1>2. Carrier' = p /\ Carrier = p
  BY WireRefuses
<1>3. owed' \subseteq owed
  <2>1. Members(<<Result(404)>>) = {Result(404)}
    BY ResultIsFrame, OneFrame
  <2> QED BY <1>1, <2>1, ResultIsFrame DEF Notes
<1>4. ASSUME NEW f \in owed'
      PROVE  /\ IsNotification(f) /\ Carrier' # 0 /\ client'.at < f.seq
             /\ conn'[Carrier'].st = "gone" \/ Remembered(f, conn'[Carrier'].sent)
             /\ Carrier' = client'.on => f \in Members(wire'[Carrier']) \/ Clears(wire'[Carrier'])
  <2>1. /\ IsNotification(f) /\ client.at < f.seq
        /\ conn[p].st = "gone" \/ Remembered(f, conn[p].sent)
    BY <1>2, <1>3, OwedOf
  <2> HIDE DEF p
  <2> QED BY <1>1, <1>2, <2>1, OwedAgain
<1> QED BY <1>4 DEF OwedInv

LEMMA OwedReadsPlace ==
    ASSUME SessionTypes, SessionTypes', ConnsInOrder, WireInv, OwedInv, NEW c \in Conns, ReadsPlace(c)
    PROVE  OwedInv'
<1> DEFINE w == wire[c]
           v == wire'[c]
<1>1. /\ Reads(c) /\ conn' = conn /\ w[1] = Result(200) /\ client'.at = client.at /\ client'.on = client.on
      /\ owed' = owed /\ client.on = c
  BY DEF ReadsPlace, Reads
<1>2. Carrier' = c /\ Carrier = c
  BY WireReadsPlace
<1>3. /\ v \in Seq(Frame) /\ w \in Seq(Frame) /\ Len(w) \in Nat \ {0} /\ Len(v) = Len(w) - 1
      /\ \A i \in 1..Len(v) : i + 1 \in 1..Len(w) /\ v[i] = w[i + 1]
      /\ Members(w) = {w[1]} \cup Members(v)
  BY <1>1, ReadWire
<1>4. ASSUME NEW f, IsNotification(f), Reaches(f, w) PROVE Reaches(f, v)
  <2> HIDE DEF w, v
  <2>1. CASE f \in Members(w)
    BY <1>1, <1>3, <1>4, <2>1, ResultIsFrame DEF Reaches
  <2>2. ASSUME NEW i \in 1..Len(w), w[i].kind = "gap" \/ w[i] = Result(404),
               \A k \in 1..Len(w) : k < i => ~IsNotification(w[k])
        PROVE  Reaches(f, v)
    <3>1. i # 1
      BY <1>1, <2>2, ResultIsFrame
    <3> DEFINE a == i - 1
    <3>2. a \in 1..Len(v) /\ a + 1 = i
      BY <1>3, <3>1
    <3> HIDE DEF a
    <3>3. v[a].kind = "gap" \/ v[a] = Result(404)
      BY <1>3, <2>2, <3>2
    <3>4. ASSUME NEW k \in 1..Len(v), k < a PROVE ~IsNotification(v[k])
      <4>1. k + 1 \in 1..Len(w) /\ k + 1 < i /\ v[k] = w[k + 1]
        BY <1>3, <3>2, <3>4
      <4> QED BY <2>2, <4>1
    <3> QED BY <3>2, <3>3, <3>4 DEF Reaches, Clears
  <2> QED BY <1>4, <2>1, <2>2 DEF Reaches, Clears
<1>5. ASSUME NEW f \in owed'
      PROVE  /\ IsNotification(f) /\ Carrier' # 0 /\ client'.at < f.seq
             /\ conn'[Carrier'].st = "gone" \/ Remembered(f, conn'[Carrier'].sent)
             /\ Carrier' = client'.on => f \in Members(wire'[Carrier']) \/ Clears(wire'[Carrier'])
  <2>1. IsNotification(f) /\ f \in owed
    BY <1>1, OwedOf
  <2>2. Reaches(f, w) => Reaches(f, v)
    BY <1>4, <2>1
  <2> QED BY <1>1, <1>2, <2>1, <2>2, OwedKept
<1> QED BY <1>5 DEF OwedInv

LEMMA OwedReadsNote ==
    ASSUME SessionTypes, SessionTypes', ConnsInOrder, WireInv, OwedInv, NEW c \in Conns, ReadsNote(c)
    PROVE  OwedInv'
<1> DEFINE w == wire[c]
           v == wire'[c]
           g == w[1]
<1>1. /\ Reads(c) /\ conn' = conn /\ IsNotification(g) /\ client'.at = g.seq /\ client'.on = c
      /\ owed' = owed \ {g} /\ client.on = c
  BY DEF ReadsNote, Reads
<1>2. /\ Carrier' = c /\ Carrier = c /\ \A f \in Members(v) : g.seq < f.seq
  BY WireReadsNote
<1>3. /\ Members(w) = {g} \cup Members(v)
  BY <1>1, ReadWire
<1>4. w \in Seq(Frame) /\ Len(w) \in Nat \ {0}
  BY <1>1, ReadWire
<1>5. ~Clears(w)
  <2> SUFFICES ASSUME Clears(w) PROVE FALSE
    OBVIOUS
  <2> HIDE DEF w
  <2>1. PICK i \in 1..Len(w) : /\ w[i].kind = "gap" \/ w[i] = Result(404)
                               /\ \A k \in 1..Len(w) : k < i => ~IsNotification(w[k])
    BY DEF Clears
  <2>2. i # 1
    BY <1>1, <2>1, ResultIsFrame DEF IsNotification
  <2>3. 1 \in 1..Len(w) /\ 1 < i
    BY <1>4, <2>2
  <2> QED BY <1>1, <2>1, <2>3
<1> HIDE DEF w, v, g
<1>6. ASSUME NEW f \in owed'
      PROVE  /\ IsNotification(f) /\ Carrier' # 0 /\ client'.at < f.seq
             /\ conn'[Carrier'].st = "gone" \/ Remembered(f, conn'[Carrier'].sent)
             /\ Carrier' = client'.on => f \in Members(wire'[Carrier']) \/ Clears(wire'[Carrier'])
  <2>1. f \in owed /\ f # g
    BY <1>1
  <2>2. /\ IsNotification(f) /\ Reaches(f, w)
        /\ conn[c].st = "gone" \/ Remembered(f, conn[c].sent)
    BY <1>1, <1>2, <2>1, OwedOf DEF w
  <2>3. f \in Members(v)
    BY <1>3, <1>5, <2>1, <2>2 DEF Reaches
  <2>4. client'.at < f.seq /\ Reaches(f, wire'[c])
    BY <1>1, <1>2, <2>3 DEF Reaches, v
  <2> QED BY <1>1, <1>2, <2>2, <2>4, OwedAgain
<1> QED BY <1>6 DEF OwedInv

LEMMA OwedLeaves ==
    ASSUME SessionTypes, SessionTypes', ConnsInOrder, WireInv, OwedInv, NEW c \in Conns,
           Leaves(c) \/ Connects(c)
    PROVE  OwedInv'
<1> DEFINE p == client.place
<1>1. owed' = owed /\ client'.place = p /\ p \in Conns \cup {0}
  BY DEF Leaves, Connects, SessionTypes
<1>2. Carrier' = p
  BY WireLeaves, WireConnects
<1>3. ASSUME NEW f \in owed'
      PROVE  /\ IsNotification(f) /\ Carrier' # 0 /\ client'.at < f.seq
             /\ conn'[Carrier'].st = "gone" \/ Remembered(f, conn'[Carrier'].sent)
             /\ Carrier' = client'.on => f \in Members(wire'[Carrier']) \/ Clears(wire'[Carrier'])
  <2>1. /\ IsNotification(f) /\ Carrier \in Conns /\ client.at < f.seq
        /\ conn[Carrier].st = "gone" \/ Remembered(f, conn[Carrier].sent)
    BY <1>1, <1>3, OwedOf
  <2>2. CASE Connects(c)
    <3>1. Carrier = p /\ p # c
      BY <2>2, WireConnects
    <3>2. p \in Conns /\ p # 0
      BY <2>1, <3>1 DEF Conns
    <3>3. conn'[p] = conn[p] /\ client'.on = c /\ client'.at = client.at
      BY <2>2, <3>1, <3>2 DEF Connects, OnlyConn
    <3> HIDE DEF p
    <3> QED BY <1>2, <2>1, <3>1, <3>2, <3>3, OwedAgain
  <2>3. CASE Leaves(c)
    <3>1. conn' = conn /\ client.on = c /\ client'.on = 0 /\ client'.at = client.at
      BY <2>3 DEF Leaves
    <3>2. /\ Carrier = IF Moved(wire[c]) THEN c ELSE p
          /\ Moved(wire[c]) => conn[p].st = "gone"
          /\ wire[c] \in Seq(Frame)
          /\ \E k \in 0..Len(wire[c]) : Answered(wire[c], k) /\ (k # 0 => p \notin {0, c})
      BY <3>1, WireOf
    <3>3. Moved(wire[c]) => p # 0
      BY <3>2, NotMoved
    <3>4. p \in Conns /\ p # 0
      BY <1>1, <2>1, <3>2, <3>3 DEF Conns
    <3>5. conn[p].st = "gone" \/ Remembered(f, conn[p].sent)
      BY <2>1, <3>2
    <3> HIDE DEF p
    <3> QED BY <1>2, <2>1, <3>1, <3>4, <3>5, OwedAgain
  <2> QED BY <2>2, <2>3
<1> QED BY <1>3 DEF OwedInv

LEMMA OwedStep ==
    ASSUME SessionTypes, SessionTypes', ConnsInOrder, WireInv, OwedInv, [Next]_vars
    PROVE  OwedInv'
<1>1. ASSUME UNCHANGED <<conn, wire, change, used, clientVars>> PROVE OwedInv'
  <2>1. conn' = conn /\ wire' = wire /\ client' = client /\ owed' = owed
    BY <1>1 DEF clientVars
  <2>2. Carrier' = Carrier
    BY <2>1 DEF Carrier
  <2> QED BY <2>1, <2>2 DEF OwedInv
<1>2. ASSUME NEW out \in ItemType, QueuesMove(out) PROVE OwedInv'
  BY <1>2, OwedQueues
<1>3. ASSUME NEW c \in Conns,
             \/ ConnEnds(c) \/ Takes(c) \/ Resumes(c) \/ Refuses(c) \/ Subscribes(c)
             \/ ReadsPlace(c) \/ ReadsRefusal(c) \/ ReadsNote(c) \/ ReadsGap(c)
             \/ Leaves(c) \/ Connects(c)
      PROVE  OwedInv'
  <2>1. CASE ConnEnds(c)
    BY <2>1, OwedQueues
  <2>2. CASE Takes(c)
    BY <2>2, OwedTakes
  <2>3. CASE Resumes(c)
    BY <2>3, OwedResumes
  <2>4. CASE Refuses(c)
    BY <2>4, OwedRefuses
  <2>5. CASE Subscribes(c) \/ ReadsRefusal(c) \/ ReadsGap(c)
    BY <2>5 DEF Subscribes, ReadsRefusal, ReadsGap, OwedInv
  <2>6. CASE ReadsPlace(c)
    BY <2>6, OwedReadsPlace
  <2>7. CASE ReadsNote(c)
    BY <2>7, OwedReadsNote
  <2>8. CASE Leaves(c) \/ Connects(c)
    BY <2>8, OwedLeaves
  <2> QED BY <1>3, <2>1, <2>2, <2>3, <2>4, <2>5, <2>6, <2>7, <2>8
<1> QED BY <1>1, <1>2, <1>3, StepKinds

-----------------------------------------------------------------------------
(* The subscription moves with the place. *)

LEMMA MovesStep ==
    ASSUME SessionTypes, SessionTypes', ConnsInOrder, WireInv, MovesInv, [Next]_vars
    PROVE  MovesInv'
<1> DEFINE Quiet == used \cap {"reload", "refusal"} = {}
           m == Carrier
<1>1. (refused' => refused \/ "refusal" \in used') /\ used \subseteq used'
  BY StepKinds DEF QueuesMove, ConnEnds, Takes, Resumes, Refuses, Subscribes, ReadsPlace, ReadsRefusal,
                   ReadsNote, ReadsGap, Reads, Leaves, Connects
<1>2. refused' => "refusal" \in used'
  BY <1>1 DEF MovesInv
<1>3. m \in Conns \cup {0} /\ \A d \in Conns : d # 0
  BY DEF SessionTypes, Carrier, Conns
<1>4. Quiet /\ m # 0 /\ conn[m].st # "gone" => conn[m].sub
  BY DEF MovesInv
<1> HIDE DEF m
(* The place stays where it is, and what has it is as before. *)
<1>5. ASSUME Carrier' = m, Quiet, m # 0,
             conn'[m].st = "gone" \/ (conn[m].st # "gone" /\ conn'[m].sub = conn[m].sub)
      PROVE  conn'[m].st # "gone" => conn'[m].sub
  BY <1>4, <1>5
<1> DEFINE Kept == Quiet /\ Carrier' # 0 /\ conn'[Carrier'].st # "gone" => conn'[Carrier'].sub
<1>6. ASSUME UNCHANGED <<conn, wire, change, used, clientVars>> PROVE Kept
  <2>1. conn' = conn /\ wire' = wire /\ client' = client
    BY <1>6 DEF clientVars
  <2>2. Carrier' = m
    BY <2>1 DEF Carrier, m
  <2> QED BY <1>4, <2>1, <2>2
<1>7. ASSUME NEW out \in ItemType, QueuesMove(out), used' \cap {"reload", "refusal"} = {} PROVE Kept
  <2>1. wire' = wire /\ client' = client
    BY <1>7 DEF QueuesMove
  <2>2. Carrier' = m
    BY <2>1 DEF Carrier, m
  <2>3. \A d \in Conns : conn'[d].st = conn[d].st /\ conn'[d].sub = conn[d].sub
    BY <1>7 DEF QueuesMove, Pushed
  <2> QED BY <1>3, <1>4, <2>2, <2>3
<1>8. ASSUME NEW c \in Conns,
             \/ ConnEnds(c) \/ Takes(c) \/ Resumes(c) \/ Refuses(c) \/ Subscribes(c)
             \/ ReadsPlace(c) \/ ReadsRefusal(c) \/ ReadsNote(c) \/ ReadsGap(c)
             \/ Leaves(c) \/ Connects(c)
      PROVE  Kept
  <2>1. CASE ConnEnds(c)
    <3>1. Carrier' = m
      BY <2>1 DEF ConnEnds, Carrier, m
    <3>2. \A d \in Conns : d # c => conn'[d] = conn[d]
      BY <2>1 DEF ConnEnds, OnlyConn
    <3>3. conn'[c].st = "gone" \/ (conn[c].st # "gone" /\ conn'[c].sub = conn[c].sub)
      BY <2>1 DEF ConnEnds
    <3> QED BY <1>3, <1>4, <3>1, <3>2, <3>3
  <2>2. CASE Takes(c)
    <3>1. Carrier' = m
      BY <2>2, WireTakes DEF m
    <3>2. \A d \in Conns : d # c => conn'[d] = conn[d]
      BY <2>2 DEF Takes, OnlyConn
    <3>3. conn[c].st # "gone" /\ conn'[c].sub = conn[c].sub
      BY <2>2 DEF Takes
    <3> QED BY <1>3, <1>4, <3>1, <3>2, <3>3
  <2>3. CASE Resumes(c)
    <3> DEFINE p == client.place
    <3>1. /\ client.on = c /\ p \in Conns /\ p # c /\ conn[c].st = "open" /\ conn[c].first
          /\ conn[p].st = "closed" /\ conn'[c].sub = (conn[p].sub /\ ~refused)
      BY <2>3 DEF Resumes
    <3>2. m = p /\ Carrier' = c
      BY <2>3, <3>1, BeforeAnswer, WireResumes DEF m
    <3>3. Quiet => ~refused
      BY DEF MovesInv
    <3> QED BY <1>3, <1>4, <3>1, <3>2, <3>3
  <2>4. CASE Refuses(c)
    <3>1. /\ client.place \in Conns /\ client.place # c
          /\ \A d \in Conns : d # c => conn'[d] = conn[d]
      BY <2>4 DEF Refuses, OnlyConn
    <3>2. Carrier' = m /\ m = client.place
      BY <2>4, WireRefuses DEF m
    <3> QED BY <1>4, <3>1, <3>2
  <2>5. CASE Subscribes(c)
    <3>1. Carrier' = c /\ conn'[c].sub
      BY <2>5, WireSubscribes DEF Subscribes
    <3> QED BY <3>1
  <2>6. CASE ReadsPlace(c) \/ ReadsNote(c) \/ ReadsGap(c)
    <3>1. Carrier' = m /\ conn' = conn
      BY <2>6, WireReadsPlace, WireReadsNote, WireReadsGap DEF ReadsPlace, ReadsNote, ReadsGap, Reads, m
    <3> QED BY <1>4, <3>1
  <2>7. CASE ReadsRefusal(c)
    BY <2>7, WireReadsRefusal
  <2>8. CASE Leaves(c)
    <3>1. /\ client.on = c /\ conn' = conn
      BY <2>8 DEF Leaves
    <3>2. /\ m = IF Moved(wire[c]) THEN c ELSE client.place
          /\ Moved(wire[c]) => conn[client.place].st = "gone"
      BY <3>1, WireOf DEF m
    <3>3. Carrier' = client.place
      BY <2>8, WireLeaves
    <3> QED BY <1>4, <3>1, <3>2, <3>3
  <2>9. CASE Connects(c)
    <3>1. Carrier' = m /\ m # c
      BY <2>9, WireConnects DEF m
    <3>2. \A d \in Conns : d # c => conn'[d] = conn[d]
      BY <2>9 DEF Connects, OnlyConn
    <3> QED BY <1>3, <1>4, <3>1, <3>2
  <2> QED BY <1>8, <2>1, <2>2, <2>3, <2>4, <2>5, <2>6, <2>7, <2>8, <2>9
<1>9. ASSUME used' \cap {"reload", "refusal"} = {} PROVE Quiet /\ Kept
  <2>1. Quiet
    BY <1>1, <1>9
  <2>2. Kept
    BY <1>6, <1>7, <1>8, <1>9, StepKinds
  <2> QED BY <2>1, <2>2
<1>10. used' \cap {"reload", "refusal"} = {} /\ Carrier' # 0 /\ conn'[Carrier'].st # "gone"
         => conn'[Carrier'].sub
  BY <1>9
<1> QED BY <1>2, <1>10 DEF MovesInv

-----------------------------------------------------------------------------
(* Without a gap of the upstream the numbers go on by one. *)

LEMMA KeptStep ==
    ASSUME SessionTypes, SessionTypes', ConnsInOrder, WireInv, [Next]_vars, "gap" \notin used',
           \A c \in Conns : KeptByOne(conn[c])
    PROVE  \A c \in Conns : KeptByOne(conn'[c])
<1> DEFINE Same(d) == conn'[d].items = conn[d].items /\ conn'[d].sent = conn[d].sent
                      /\ conn'[d].seq = conn[d].seq /\ (conn'[d].st = "open" => conn[d].st = "open")
           Still(d) == KeptByOne(conn'[d])
<1>1. ASSUME NEW d \in Conns, Same(d) PROVE Still(d)
  BY <1>1 DEF KeptByOne
<1>2. ASSUME NEW d \in Conns, conn'[d].items = <<>>, conn'[d].sent = <<>> PROVE Still(d)
  <2>1. Len(<<>>) = 0 /\ Members(<<>>) = {}
    BY NoFrame
  <2> QED BY <1>2, <2>1 DEF KeptByOne, Consecutive
<1> HIDE DEF Still
<1>3. ASSUME conn' = conn, NEW d \in Conns PROVE Still(d)
  BY <1>1, <1>3
<1>4. ASSUME NEW out \in ItemType, QueuesMove(out), NEW d \in Conns PROVE Still(d)
  <2>1. /\ conn'[d].st = conn[d].st /\ conn'[d].seq = conn[d].seq /\ conn'[d].sent = conn[d].sent
        /\ \A x \in Members(conn'[d].items) : x \in Members(conn[d].items) \/ x = out
        /\ out.kind # "gap"
    BY <1>4 DEF QueuesMove, Pushed
  <2>2. KeptByOne(conn[d])
    OBVIOUS
  <2> QED BY <2>1, <2>2 DEF KeptByOne, Still
<1>5. ASSUME NEW c \in Conns, NEW d \in Conns,
             \/ ConnEnds(c) \/ Takes(c) \/ Resumes(c) \/ Refuses(c) \/ Subscribes(c)
             \/ ReadsPlace(c) \/ ReadsRefusal(c) \/ ReadsNote(c) \/ ReadsGap(c)
             \/ Leaves(c) \/ Connects(c)
      PROVE  Still(d)
  <2>1. CASE ConnEnds(c)
    <3>1. CASE d # c
      <4>1. conn'[d] = conn[d]
        BY <2>1, <3>1 DEF ConnEnds, OnlyConn
      <4> QED BY <1>1, <4>1
    <3>2. CASE d = c
      <4>1. conn'[c].items = <<>> /\ conn'[c].st # "open" /\ conn'[c].sent \in {conn[c].sent, <<>>}
        BY <2>1, UnusedFields DEF ConnEnds
      <4>2. Len(<<>>) = 0 /\ Members(<<>>) = {}
        BY NoFrame
      <4> QED BY <3>2, <4>1, <4>2 DEF KeptByOne, Consecutive, Still
    <3> QED BY <3>1, <3>2
  <2>2. CASE Takes(c)
    <3>1. CASE d # c
      <4>1. conn'[d] = conn[d]
        BY <2>2, <3>1 DEF Takes, OnlyConn
      <4> QED BY <1>1, <4>1
    <3>2. CASE d = c
      <4> DEFINE q == conn[c]
                 r == conn'[c]
      <4>1. /\ q.st = "open" /\ r.items = <<>> /\ r.sent = KeptOn(q)
            /\ r.st = "open" => r.seq = q.seq + Len(Written(q)) /\ ~q.overflowed
        BY <2>2 DEF Takes
      <4>2. q \in ConnType /\ Tidy(q) /\ \A f \in Members(q.sent) : f.seq <= q.seq
        BY <4>1, FramesOfConn DEF ConnsInOrder, InOrder
      <4>3. KeptByOne(q)
        OBVIOUS
      <4> HIDE DEF q, r
      <4>4. /\ Consecutive(KeptOn(q))
            /\ KeptOn(q) # <<>> => KeptOn(q)[Len(KeptOn(q))].seq = q.seq + Len(Frames(q))
        BY <4>1, <4>2, <4>3, KeptOnFacts
      <4>5. r.st = "open" => r.seq = q.seq + Len(Frames(q))
        BY <4>1, <4>2, WrittenFacts
      <4>6. Members(r.items) = {}
        BY <4>1, NoFrame
      <4> QED BY <3>2, <4>1, <4>4, <4>5, <4>6 DEF KeptByOne, Still, r
    <3> QED BY <3>1, <3>2
  <2>3. CASE Resumes(c)
    <3> DEFINE p == client.place
               s == conn[p].sent
               n == client.at
               r == conn'[c]
    <3>1. /\ p \in Conns /\ conn'[p] = Gone /\ \A e \in Conns : e \notin {c, p} => conn'[e] = conn[e]
          /\ r.items = conn[c].items /\ r.seq = LastOf(s, n) /\ r.sent = Over(s, n)
      BY <2>3 DEF Resumes
    <3>2. CASE d \notin {c, p}
      BY <1>1, <3>1, <3>2
    <3>3. CASE d = p
      BY <1>2, <3>1, <3>3, UnusedFields
    <3>4. CASE d = c
      <4>1. s \in Seq(Frame) /\ Ascends(s) /\ n \in Nat /\ \A f \in Members(s) : IsNotification(f) /\ f.to = f.seq
        BY <2>3, ResumedWire DEF WroteAgain
      <4>2. Consecutive(s) /\ \A x \in Members(conn[c].items) : x.kind # "gap"
        BY <3>1 DEF KeptByOne
      <4> HIDE DEF s, n, r
      <4>3. Consecutive(Over(s, n))
        BY <4>1, <4>2, OverFacts
      <4>4. Over(s, n) # <<>> => Over(s, n)[Len(Over(s, n))].seq = LastOf(s, n)
        BY <4>1, AgainFacts
      <4> QED BY <3>1, <3>4, <4>2, <4>3, <4>4 DEF KeptByOne, Still, r
    <3> QED BY <3>2, <3>3, <3>4
  <2>4. CASE Refuses(c) \/ Subscribes(c)
    <3>1. CASE d # c
      <4>1. conn'[d] = conn[d]
        BY <2>4, <3>1 DEF Refuses, Subscribes, OnlyConn
      <4> QED BY <1>1, <4>1
    <3>2. CASE d = c
      <4>1. Same(c)
        BY <2>4 DEF Refuses, Subscribes
      <4> QED BY <1>1, <3>2, <4>1
    <3> QED BY <3>1, <3>2
  <2>5. CASE ReadsPlace(c) \/ ReadsRefusal(c) \/ ReadsNote(c) \/ ReadsGap(c) \/ Leaves(c)
    <3>1. conn' = conn
      BY <2>5 DEF ReadsPlace, ReadsRefusal, ReadsNote, ReadsGap, Reads, Leaves
    <3> QED BY <1>3, <3>1
  <2>6. CASE Connects(c)
    <3>1. conn'[c].items = <<>> /\ conn'[c].sent = <<>> /\ (d # c => conn'[d] = conn[d])
      BY <2>6 DEF Connects, OnlyConn
    <3> QED BY <1>1, <1>2, <3>1
  <2> QED BY <1>5, <2>1, <2>2, <2>3, <2>4, <2>5, <2>6
<1>6. ASSUME NEW d \in Conns PROVE Still(d)
  BY <1>3, <1>4, <1>5, StepKinds
<1> QED BY <1>6 DEF Still

(* The frames of a wire after its first. *)
LEMMA ByOneShorter ==
    ASSUME NEW w \in Seq(Frame), NEW v \in Seq(Frame), w # <<>>, Shorter(v, w), NEW q, NEW n,
           NEW k \in 0..Len(w), ByOne(w, k, n, q)
    PROVE  /\ k # 0 => ByOne(v, k - 1, n, q)
           /\ k = 0 => w[1].seq = 1 + n /\ ByOne(v, 0, w[1].to, q)
<1>1. /\ Len(w) \in Nat \ {0} /\ Len(v) \in Nat /\ Len(v) = Len(w) - 1
      /\ \A i \in 1..Len(v) : i + 1 \in 1..Len(w) /\ v[i] = w[i + 1]
  BY Rest, LenProperties DEF Shorter
<1>2. /\ \A i \in 1..Len(w) : i > k => w[i].seq = 1 + IF i = k + 1 THEN n ELSE w[i - 1].to
      /\ q.st = "open" => q.seq = IF k = Len(w) THEN n ELSE w[Len(w)].to
  BY DEF ByOne
<1> HIDE DEF Shorter
<1>3. ASSUME k # 0 PROVE ByOne(v, k - 1, n, q)
  <2> DEFINE a == k - 1
  <2>0. a \in Nat /\ a + 1 = k /\ a \in 0..Len(v)
    BY <1>1, <1>3
  <2> HIDE DEF a
  <2>1. ASSUME NEW i \in 1..Len(v), i > a
        PROVE  v[i].seq = 1 + IF i = a + 1 THEN n ELSE v[i - 1].to
    <3>1. i + 1 \in 1..Len(w) /\ i + 1 > k /\ (i + 1) - 1 = i /\ v[i] = w[i + 1]
      BY <1>1, <2>0, <2>1
    <3>2. w[i + 1].seq = 1 + IF i + 1 = k + 1 THEN n ELSE w[i].to
      BY <1>2, <3>1
    <3>3. CASE i = a + 1
      BY <2>0, <3>1, <3>2, <3>3
    <3>4. CASE i # a + 1
      <4> DEFINE b == i - 1
      <4>1. b \in 1..Len(v) /\ b + 1 = i /\ i + 1 # k + 1
        BY <1>1, <2>0, <2>1, <3>4
      <4> HIDE DEF b
      <4>2. v[b] = w[i]
        BY <1>1, <4>1
      <4> QED BY <3>1, <3>2, <3>4, <4>1, <4>2 DEF b
    <3> QED BY <3>3, <3>4
  <2>2. q.st = "open" => q.seq = IF a = Len(v) THEN n ELSE v[Len(v)].to
    <3>1. CASE a = Len(v)
      BY <1>1, <1>2, <2>0, <3>1
    <3>2. CASE a # Len(v)
      <4>1. Len(v) \in 1..Len(v) /\ Len(v) + 1 = Len(w) /\ k # Len(w)
        BY <1>1, <2>0, <3>2
      <4>2. v[Len(v)] = w[Len(w)]
        BY <1>1, <4>1
      <4> QED BY <1>2, <3>2, <4>1, <4>2
    <3> QED BY <3>1, <3>2
  <2>3. ByOne(v, a, n, q)
    BY <2>1, <2>2 DEF ByOne
  <2> QED BY <2>3 DEF a
<1>4. ASSUME k = 0 PROVE w[1].seq = 1 + n /\ ByOne(v, 0, w[1].to, q)
  <2>1. w[1].seq = 1 + n
    <3>1. 1 \in 1..Len(w) /\ 1 > k /\ 1 = k + 1
      BY <1>1, <1>4
    <3> QED BY <1>2, <3>1
  <2>2. ASSUME NEW i \in 1..Len(v), i > 0
        PROVE  v[i].seq = 1 + IF i = 0 + 1 THEN w[1].to ELSE v[i - 1].to
    <3>1. i + 1 \in 1..Len(w) /\ i + 1 > k /\ (i + 1) - 1 = i /\ v[i] = w[i + 1] /\ i + 1 # k + 1
      BY <1>1, <1>4, <2>2
    <3>2. w[i + 1].seq = 1 + w[i].to
      BY <1>2, <3>1
    <3>3. CASE i = 1
      BY <3>1, <3>2, <3>3
    <3>4. CASE i # 1
      <4> DEFINE b == i - 1
      <4>1. b \in 1..Len(v) /\ b + 1 = i
        BY <1>1, <2>2, <3>4
      <4> HIDE DEF b
      <4>2. v[b] = w[i]
        BY <1>1, <4>1
      <4> QED BY <3>1, <3>2, <3>4, <4>1, <4>2 DEF b
    <3> QED BY <3>3, <3>4
  <2>3. q.st = "open" => q.seq = IF 0 = Len(v) THEN w[1].to ELSE v[Len(v)].to
    <3>1. CASE 0 = Len(v)
      BY <1>1, <1>2, <1>4, <3>1
    <3>2. CASE 0 # Len(v)
      <4>1. Len(v) \in 1..Len(v) /\ Len(v) + 1 = Len(w) /\ k # Len(w)
        BY <1>1, <1>4, <3>2
      <4>2. v[Len(v)] = w[Len(w)]
        BY <1>1, <4>1
      <4> QED BY <1>2, <3>2, <4>1, <4>2
    <3> QED BY <3>1, <3>2
  <2> QED BY <2>1, <2>2, <2>3 DEF ByOne
<1> QED BY <1>3, <1>4

(* More is written to it. *)
LEMMA ByOneLonger ==
    ASSUME NEW w \in Seq(Frame), NEW W \in Seq(Frame), NEW q, NEW r, NEW n, NEW items, NEW k,
           Answered(w, k), ByOne(w, k, n, q), q.st = "open", q.seq \in Nat,
           Numbered(W, q.seq, items), r.st = "open" => r.seq = q.seq + Len(W)
    PROVE  Answered(w \o W, k) /\ k \in 0..Len(w \o W) /\ ByOne(w \o W, k, n, r)
<1> DEFINE v == w \o W
           m == Len(w)
<1>1. /\ m \in Nat /\ Len(W) \in Nat /\ v \in Seq(Frame) /\ Len(v) = m + Len(W)
      /\ \A i \in 1..m : i \in 1..Len(v) /\ v[i] = w[i]
      /\ \A i \in 1..Len(W) : m + i \in 1..Len(v) /\ v[m + i] = W[i]
      /\ \A i \in 1..Len(v) : i \in 1..m \/ (i - m \in 1..Len(W) /\ i = m + (i - m))
  BY Joined
<1>2. /\ k \in 0..m /\ (k # 0 => w[k] \in {Result(200), Result(404)})
      /\ \A i \in 1..m : i < k => w[i].kind = "gap"
      /\ \A i \in 1..m : i > k => w[i].kind \in {"notification", "gap"}
      /\ \A i \in 1..m : i > k => w[i].seq = 1 + IF i = k + 1 THEN n ELSE w[i - 1].to
      /\ q.seq = IF k = m THEN n ELSE w[m].to
  BY DEF Answered, ByOne
<1>3. \A i \in 1..Len(W) : W[i].seq = q.seq + i /\ W[i].to = q.seq + i /\ W[i].kind \in {"notification", "gap"}
  BY DEF Numbered
<1> HIDE DEF v, m
<1>4. k \in 0..Len(v) /\ (k # 0 => k \in 1..m)
  BY <1>1, <1>2
<1>5. ASSUME NEW i \in 1..Len(v), i > k, i \notin 1..m
      PROVE  /\ v[i].kind \in {"notification", "gap"}
             /\ v[i].seq = 1 + IF i = k + 1 THEN n ELSE v[i - 1].to
  <2>1. PICK j \in 1..Len(W) : i = m + j
    BY <1>1, <1>5
  <2>2. v[i] = W[j] /\ W[j].seq = q.seq + j
    BY <1>1, <1>3, <2>1
  <2>3. CASE j = 1
    <3>1. i = m + 1 /\ i - 1 = m
      BY <1>1, <2>1, <2>3
    <3>2. CASE k = m
      BY <1>2, <1>3, <2>2, <2>3, <3>1, <3>2
    <3>3. CASE k # m
      <4>1. m \in 1..m /\ i # k + 1
        BY <1>1, <1>2, <3>1, <3>3
      <4>2. v[i - 1].to = q.seq
        BY <1>1, <1>2, <3>1, <3>3, <4>1
      <4> QED BY <1>3, <2>2, <2>3, <4>1, <4>2
    <3> QED BY <3>2, <3>3
  <2>4. CASE j # 1
    <3> DEFINE b == j - 1
    <3>1. b \in 1..Len(W) /\ b + 1 = j /\ i - 1 = m + b /\ i # k + 1 /\ b \in Nat
      BY <1>1, <1>2, <2>1, <2>4
    <3> HIDE DEF b
    <3>2. v[i - 1].to = q.seq + b
      <4>1. v[m + b] = W[b] /\ W[b].to = q.seq + b
        BY <1>1, <1>3, <3>1
      <4>2. i - 1 = m + b
        BY <3>1
      <4> QED BY <4>1, <4>2
    <3>3. q.seq + j = 1 + (q.seq + b)
      <4>1. q.seq \in Nat /\ b \in Nat /\ b + 1 = j
        BY <3>1
      <4> QED BY <4>1, SMTT(20)
    <3> QED BY <1>3, <2>2, <3>1, <3>2, <3>3
  <2> QED BY <2>3, <2>4
<1>6. ASSUME NEW i \in 1..m, i > k
      PROVE  /\ v[i].kind \in {"notification", "gap"}
             /\ v[i].seq = 1 + IF i = k + 1 THEN n ELSE v[i - 1].to
  <2>1. v[i] = w[i] /\ w[i].kind \in {"notification", "gap"}
        /\ w[i].seq = 1 + IF i = k + 1 THEN n ELSE w[i - 1].to
    BY <1>1, <1>2, <1>6
  <2>2. i # k + 1 => i - 1 \in 1..m
    BY <1>1, <1>2, <1>6
  <2>3. i # k + 1 => v[i - 1] = w[i - 1]
    BY <1>1, <2>2
  <2> QED BY <2>1, <2>3
<1>7. Answered(v, k)
  <2>1. ASSUME NEW i \in 1..Len(v), i < k PROVE v[i].kind = "gap"
    <3>1. i \in 1..m
      BY <1>1, <1>2, <2>1
    <3> QED BY <1>1, <1>2, <2>1, <3>1
  <2>2. k # 0 => v[k] \in {Result(200), Result(404)}
    BY <1>1, <1>2, <1>4
  <2>3. \A i \in 1..Len(v) : i > k => v[i].kind \in {"notification", "gap"}
    BY <1>5, <1>6
  <2> QED BY <1>4, <2>1, <2>2, <2>3 DEF Answered
<1>8. r.st = "open" => r.seq = IF k = Len(v) THEN n ELSE v[Len(v)].to
  <2> SUFFICES ASSUME r.st = "open" PROVE r.seq = IF k = Len(v) THEN n ELSE v[Len(v)].to
    OBVIOUS
  <2>1. r.seq = q.seq + Len(W)
    OBVIOUS
  <2>2. CASE Len(W) = 0
    <3>1. Len(v) = m /\ r.seq = q.seq
      BY <1>1, <2>1, <2>2
    <3>2. k # m => m \in 1..m
      BY <1>1, <1>2
    <3> QED BY <1>1, <1>2, <3>1, <3>2
  <2>3. CASE Len(W) # 0
    <3>1. Len(W) \in 1..Len(W) /\ Len(v) = m + Len(W) /\ k # Len(v)
      BY <1>1, <1>2, <2>3
    <3>2. v[Len(v)] = v[m + Len(W)]
      BY <3>1
    <3>3. v[m + Len(W)] = W[Len(W)]
      BY <1>1, <3>1
    <3>4. W[Len(W)].to = q.seq + Len(W)
      BY <1>3, <3>1
    <3>5. v[Len(v)].to = q.seq + Len(W)
      BY <3>2, <3>3, <3>4
    <3> QED BY <2>1, <3>1, <3>5
  <2> QED BY <2>2, <2>3
<1>9. ByOne(v, k, n, r)
  BY <1>5, <1>6, <1>8 DEF ByOne
<1> QED BY <1>4, <1>7, <1>9 DEF v

(* The same wire under a connection that only ends, or gets more queued. *)
LEMMA SteadyKept ==
    ASSUME NEW c, NEW w, NEW q, NEW r, NEW p, NEW n, Steady(c, w, q, p, n),
           r.st = "open" => q.st = "open" /\ r.seq = q.seq
    PROVE  Steady(c, w, r, p, n)
<1>1. PICK k \in 0..Len(w) :
        /\ Answered(w, k) /\ ByOne(w, k, From(c, w, p, n), q)
        /\ p \notin {0, c} /\ k = 0 /\ w # <<>> => Len(w) = 1 /\ q.st # "open"
  BY DEF Steady
<1>2. ByOne(w, k, From(c, w, p, n), r)
  BY <1>1 DEF ByOne
<1> QED BY <1>1, <1>2 DEF Steady

LEMMA SteadyTakes ==
    ASSUME SessionTypes, ConnsInOrder, WireInv, NEW c \in Conns, Takes(c), client.on = c,
           KeptByOne(conn[c]), Steady(c, wire[c], conn[c], client.place, client.at)
    PROVE  Steady(c, wire'[c], conn'[c], client.place, client.at)
<1> DEFINE q == conn[c]
           r == conn'[c]
           w == wire[c]
           W == Written(q)
           v == w \o W
           p == client.place
           n == client.at
<1>1. /\ q.st = "open" /\ r.st \in {"open", "ending"} /\ wire'[c] = v
      /\ r.st = "open" => r.seq = q.seq + Len(W)
      /\ q.overflowed => r.st = "ending"
  BY DEF Takes, Writes
<1>2. /\ q \in ConnType /\ q.seq \in Nat /\ w \in Seq(Frame) /\ Tidy(q)
      /\ Carrier = IF Moved(w) THEN c ELSE p
      /\ c # Carrier => Fresh(q, w)
  BY WireOf DEF ConnsInOrder
<1>3. W \in Seq(Frame) /\ Len(W) \in Nat /\ Numbered(W, q.seq, q.items)
  BY <1>2, WrittenFacts
<1>4. PICK k \in 0..Len(w) :
        /\ Answered(w, k) /\ ByOne(w, k, From(c, w, p, n), q)
        /\ p \notin {0, c} /\ k = 0 /\ w # <<>> => Len(w) = 1 /\ q.st # "open"
  BY DEF Steady
<1>5. Answered(v, k) /\ k \in 0..Len(v) /\ ByOne(v, k, From(c, w, p, n), r)
  <2> HIDE DEF q, r, w, W, p, n
  <2> QED BY <1>1, <1>2, <1>3, <1>4, ByOneLonger
<1>6. Moved(v) <=> Moved(w)
  <2>1. Members(v) = Members(w) \cup Members(W)
    BY <1>2, <1>3, Joined
  <2>2. \A i \in 1..Len(W) : W[i] # Result(200)
    <3>1. \A i \in 1..Len(W) : W[i].kind \in {"notification", "gap"}
      BY <1>3 DEF Numbered
    <3> QED BY <3>1, NoResult
  <2>3. Result(200) \notin Members(W)
    <3> HIDE DEF W
    <3> QED BY <2>2 DEF Members
  <2> QED BY <2>1, <2>3 DEF Moved
<1>7. From(c, v, p, n) = From(c, w, p, n)
  <2> HIDE DEF v, w, p, n
  <2> QED BY <1>6 DEF From
<1>8. ASSUME p \notin {0, c}, k = 0, v # <<>> PROVE Len(v) = 1 /\ r.st # "open"
  <2>1. w = <<>>
    BY <1>1, <1>4, <1>8
  <2>2. ~Moved(w)
    BY <1>2, <1>4, <1>8, NotMoved
  <2>3. Notes(q.items) = {}
    BY <1>2, <1>8, <2>2 DEF Fresh
  <2>4. Frames(q) = <<>>
    BY <1>2, <2>3, FramesFacts DEF KeptByOne
  <2>5. /\ ~q.overflowed => W = <<>>
        /\ Len(W) <= 0 + 1
    BY <1>2, <2>4, NoFrame, WrittenFacts
  <2>6. v \in Seq(Frame) /\ Len(v) = Len(w) + Len(W) /\ Len(w) = 0
    BY <1>2, <1>3, <2>1, Joined, NoFrame
  <2>7. Len(v) # 0
    BY <1>8, <2>6, MembersOf
  <2>8. Len(W) = 1
    <3> HIDE DEF W, v, w
    <3> QED BY <1>3, <2>5, <2>6, <2>7
  <2>9. q.overflowed
    <3>1. W # <<>>
      <4>1. W = <<>> <=> Len(W) = 0
        BY <1>3, MembersOf
      <4> QED BY <2>8, <4>1
    <3> QED BY <2>5, <3>1
  <2> HIDE DEF W, v, w
  <2> QED BY <1>1, <2>6, <2>8, <2>9
<1> HIDE DEF v, p, n, r
<1>9. Steady(c, v, r, p, n)
  BY <1>5, <1>7, <1>8 DEF Steady
<1> QED BY <1>1, <1>9 DEF r, p, n

(* Before the answer to a resume nothing is on the wire. *)
LEMMA NothingBefore ==
    ASSUME SessionTypes, WireInv, NEW c \in Conns, client.on = c, client.place \in Conns,
           client.place # c, conn[c].st = "open", conn[c].first,
           Steady(c, wire[c], conn[c], client.place, client.at)
    PROVE  wire[c] = <<>> /\ conn[c].seq = 0 /\ wire[c] \in Seq(Frame)
<1> DEFINE w == wire[c]
           p == client.place
<1>1. w \in Seq(Frame) /\ p \notin {0, c}
  BY FramesOfConn DEF Conns
<1>2. ~Moved(w) /\ Answered(w, 0)
  BY BeforeAnswer
<1>3. PICK k \in 0..Len(w) :
        /\ Answered(w, k) /\ ByOne(w, k, From(c, w, p, client.at), conn[c])
        /\ p \notin {0, c} /\ k = 0 /\ w # <<>> => Len(w) = 1 /\ conn[c].st # "open"
  BY DEF Steady
<1>4. k = 0
  BY <1>1, <1>2, <1>3, AnswerIsOne
<1>5. w = <<>>
  BY <1>1, <1>3, <1>4
<1>6. From(c, w, p, client.at) = 0 /\ Len(w) = 0
  BY <1>1, <1>2, <1>5, NoFrame DEF From
<1>7. conn[c].seq = 0
  BY <1>3, <1>4, <1>6 DEF ByOne
<1> QED BY <1>1, <1>5, <1>7

LEMMA SteadyResumes ==
    ASSUME SessionTypes, SessionTypes', ConnsInOrder, WireInv, NEW c \in Conns, Resumes(c),
           KeptByOne(conn[client.place]), Steady(c, wire[c], conn[c], client.place, client.at)
    PROVE  Steady(c, wire'[c], conn'[c], client.place, client.at)
<1> DEFINE p == client.place
           s == conn[p].sent
           n == client.at
           v == wire'[c]
           A == Again(s, n)
           r == conn'[c]
<1>1. /\ client.on = c /\ p \in Conns /\ p # c /\ conn[c].st = "open" /\ conn[c].first
      /\ r.st = "open" /\ ~r.first /\ r.seq = LastOf(s, n)
  BY DEF Resumes
<1>2. wire[c] = <<>>
  BY <1>1, NothingBefore
<1>0. WroteAgain(s, n, <<>>, v, A)
  BY <1>2, ResumedWire
<1> HIDE DEF s, n, v, A
<1>3. /\ s \in Seq(Frame) /\ Ascends(s) /\ \A f \in Members(s) : IsNotification(f) /\ f.to = f.seq
      /\ n \in Nat /\ A \in Seq(Frame) /\ Len(A) \in Nat /\ v \in Seq(Frame)
      /\ Len(v) = 0 + 1 + Len(A) /\ v[0 + 1] = Result(200)
      /\ \A i \in 1..Len(A) : v[0 + 1 + i] = A[i]
  BY <1>0, NoFrame DEF WroteAgain
<1>4. Consecutive(s)
  BY DEF KeptByOne, p, s
<1>5. p \notin {0, c}
  BY <1>1 DEF Conns
<1> HIDE DEF p, s, n, v, A, r
<1>6. OneByOne(A, n, LastOf(s, n))
  BY <1>3, <1>4, AgainFacts DEF A
<1>7. /\ Len(v) = 1 + Len(A) /\ v[1] = Result(200) /\ \A i \in 1..Len(A) : v[1 + i] = A[i]
  BY <1>3
<1>8. \A i \in 1..Len(A) : A[i].kind \in {"notification", "gap"}
  <2>1. Onwards(A, n, LastOf(s, n))
    BY <1>3, AgainFacts DEF A
  <2> QED BY <2>1 DEF Onwards
<1>9. ASSUME NEW i \in 1..Len(v), i > 1
      PROVE  /\ v[i].kind \in {"notification", "gap"}
             /\ v[i].seq = 1 + IF i = 1 + 1 THEN n ELSE v[i - 1].to
  <2> DEFINE a == i - 1
  <2>1. a \in 1..Len(A) /\ 1 + a = i /\ a \in Nat
    BY <1>3, <1>7, <1>9
  <2> HIDE DEF a
  <2>2. v[i] = A[a] /\ A[a].seq = 1 + IF a = 1 THEN n ELSE A[a - 1].to
    BY <1>6, <1>7, <2>1 DEF OneByOne
  <2>3. CASE a = 1
    BY <1>8, <2>1, <2>2, <2>3
  <2>4. CASE a # 1
    <3> DEFINE b == a - 1
    <3>1. b \in 1..Len(A) /\ 1 + b = a
      BY <1>3, <2>1, <2>4
    <3> HIDE DEF b
    <3>2. v[a] = A[b]
      BY <1>7, <3>1
    <3>3. i # 1 + 1
      BY <2>1, <2>4
    <3> QED BY <1>8, <2>1, <2>2, <2>4, <3>2, <3>3 DEF a, b
  <2> QED BY <2>3, <2>4
<1>10. Moved(v) /\ Answered(v, 1) /\ 1 \in 0..Len(v)
  <2>1. 1 \in 1..Len(v) /\ \A i \in 1..Len(v) : ~(i < 1)
    BY <1>3, <1>7
  <2> QED BY <1>7, <1>9, <2>1 DEF Moved, Members, Answered
<1>11. From(c, v, p, n) = n
  BY <1>10 DEF From
<1>12. ByOne(v, 1, n, r)
  <2>1. r.seq = IF 1 = Len(v) THEN n ELSE v[Len(v)].to
    <3>1. LastOf(s, n) = IF Len(A) = 0 THEN n ELSE A[Len(A)].to
      BY <1>6 DEF OneByOne
    <3>2. CASE Len(A) = 0
      BY <1>1, <1>7, <3>1, <3>2
    <3>3. CASE Len(A) # 0
      <4>1. Len(A) \in 1..Len(A) /\ 1 # Len(v)
        BY <1>3, <1>7, <3>3
      <4> QED BY <1>1, <1>7, <3>1, <3>3, <4>1
    <3> QED BY <3>2, <3>3
  <2> QED BY <1>9, <2>1 DEF ByOne
<1>13. Steady(c, v, r, p, n)
  BY <1>10, <1>11, <1>12 DEF Steady
<1> QED BY <1>13 DEF v, r, p, n

LEMMA SteadyRefuses ==
    ASSUME SessionTypes, SessionTypes', ConnsInOrder, WireInv, NEW c \in Conns, Refuses(c),
           Steady(c, wire[c], conn[c], client.place, client.at)
    PROVE  Steady(c, wire'[c], conn'[c], client.place, client.at)
<1> DEFINE p == client.place
           n == client.at
           v == wire'[c]
           r == conn'[c]
<1>1. /\ client.on = c /\ p \in Conns /\ p # c /\ conn[c].st = "open" /\ conn[c].first
      /\ r.seq = conn[c].seq
  BY DEF Refuses
<1>2. wire[c] = <<>> /\ r.seq = 0
  BY <1>1, NothingBefore
<1>3. v \in Seq(Frame) /\ Len(v) = 1 /\ v[1] = Result(404) /\ Members(v) = {Result(404)}
  <2>1. Len(wire[c]) = 0 /\ Members(wire[c]) = {}
    BY <1>2, NoFrame
  <2>2. /\ v \in Seq(Frame) /\ Len(v) = Len(wire[c]) + 1 /\ v[Len(wire[c]) + 1] = Result(404)
        /\ Members(v) = Members(wire[c]) \cup {Result(404)}
    BY RefusedWire
  <2>3. Len(wire[c]) + 1 = 1
    BY <2>1
  <2> HIDE DEF v
  <2> QED BY <2>1, <2>2, <2>3
<1>4. p \notin {0, c}
  BY <1>1 DEF Conns
<1> HIDE DEF p, n, v, r
<1>5. From(c, v, p, n) = 0
  BY <1>3, <1>4, ResultIsFrame DEF From, Moved
<1>6. 1 \in 0..Len(v) /\ \A i \in 1..Len(v) : ~(i < 1) /\ ~(i > 1)
  BY <1>3
<1>7. Answered(v, 1) /\ ByOne(v, 1, 0, r)
  BY <1>2, <1>3, <1>6 DEF Answered, ByOne
<1>8. Steady(c, v, r, p, n)
  BY <1>5, <1>6, <1>7 DEF Steady
<1> QED BY <1>8 DEF p, n, v, r

LEMMA SteadySubscribes ==
    ASSUME SessionTypes, SessionTypes', ConnsInOrder, WireInv, NEW c \in Conns, Subscribes(c),
           Steady(c, wire[c], conn[c], 0, client.at)
    PROVE  Steady(c, wire'[c], conn'[c], c, client.at)
<1> DEFINE w == wire[c]
           q == conn[c]
           r == conn'[c]
           n == client.at
<1>1. /\ client.on = c /\ q.st = "open" /\ r.st = "open" /\ r.seq = q.seq /\ wire' = wire /\ w \in Seq(Frame)
  BY FramesOfConn DEF Subscribes
<1>2. Answered(w, 0)
  BY WireSubscribes
<1>3. PICK k \in 0..Len(w) : Answered(w, k) /\ ByOne(w, k, From(c, w, 0, n), q)
  BY DEF Steady
<1> HIDE DEF w, q, r, n
<1>4. k = 0 /\ From(c, w, 0, n) = n /\ From(c, w, c, n) = n
  BY <1>1, <1>2, <1>3, AnswerIsOne DEF From
<1>5. ByOne(w, k, n, r)
  BY <1>1, <1>3, <1>4 DEF ByOne
<1>6. Steady(c, w, r, c, n)
  BY <1>3, <1>4, <1>5 DEF Steady
<1> QED BY <1>1, <1>6 DEF w, r, n

LEMMA SteadyReads ==
    ASSUME SessionTypes, SessionTypes', ConnsInOrder, WireInv, NEW c \in Conns,
           ReadsPlace(c) \/ ReadsRefusal(c) \/ ReadsNote(c) \/ ReadsGap(c),
           Steady(c, wire[c], conn[c], client.place, client.at)
    PROVE  /\ Steady(c, wire'[c], conn'[c], client'.place, client'.at)
           /\ client.place = c /\ wire[c][1].kind # "result" => wire[c][1].seq = client.at + 1
<1> DEFINE w == wire[c]
           v == wire'[c]
           q == conn[c]
           n == client.at
           p == client.place
           f == w[1]
<1>1. /\ Reads(c) /\ client.on = c /\ w # <<>> /\ conn' = conn
      /\ ReadsPlace(c) => f = Result(200) /\ client'.place = c /\ client'.at = n
      /\ ReadsRefusal(c) => f = Result(404) /\ client'.place = 0 /\ client'.at = 0
      /\ ReadsNote(c) => IsNotification(f) /\ client'.place = p /\ client'.at = f.seq
      /\ ReadsGap(c) => f.kind = "gap" /\ client'.place = p /\ client'.at = IF p \in {0, c} THEN f.to ELSE n
  BY DEF ReadsPlace, ReadsRefusal, ReadsNote, ReadsGap, Reads
<1>2. /\ w \in Seq(Frame) /\ v \in Seq(Frame) /\ Len(w) \in Nat \ {0} /\ Len(v) \in Nat /\ Len(v) = Len(w) - 1
      /\ Shorter(v, w) /\ Members(w) = {f} \cup Members(v) /\ f \in Frame
  <2>1. w \in Seq(Frame) /\ v \in Seq(Frame)
    BY <1>1, ReadWire
  <2>2. Len(w) \in Nat \ {0} /\ Len(v) \in Nat
    BY <1>1, <2>1, ReadWire, LenProperties
  <2> QED BY <1>1, <2>1, <2>2, ReadWire DEF Shorter
<1>3. n \in Nat
  BY DEF SessionTypes
<1>4. PICK k \in 0..Len(w) :
        /\ Answered(w, k) /\ ByOne(w, k, From(c, w, p, n), q)
        /\ p \notin {0, c} /\ k = 0 /\ w # <<>> => Len(w) = 1 /\ q.st # "open"
  BY DEF Steady
<1>5. /\ ReadsNote(c) => p = c /\ Answered(w, 0) /\ f.to = f.seq
  <2>1. ASSUME ReadsNote(c) PROVE p = c /\ Answered(w, 0)
    BY <2>1, WireReadsNote
  <2>2. ASSUME ReadsNote(c) PROVE f.to = f.seq
    <3>1. f \in Known(q, w)
      BY <1>1, <1>2, <2>2 DEF Known, Notes
    <3>2. InOrder(q, w, change)
      BY DEF ConnsInOrder
    <3> HIDE DEF w, q, f
    <3> QED BY <3>1, <3>2 DEF InOrder, Known
  <2> QED BY <2>1, <2>2
<1>6. /\ k # 0 => Answered(v, k - 1) /\ k - 1 \in 0..Len(v)
      /\ k = 0 => Answered(v, 0) /\ 0 \in 0..Len(v)
  BY <1>1, <1>2, <1>4, AnsweredShorter
<1>7. k # 0 => p \notin {0, c}
  <2>1. PICK j \in 0..Len(w) : Answered(w, j) /\ (j # 0 => p \notin {0, c})
    BY <1>1, WireOf
  <2> QED BY <1>2, <1>4, <2>1, AnswerIsOne
<1>8. /\ f \in {Result(200), Result(404)} => k = 1
      /\ IsNotification(f) => k = 0
      /\ k = 0 => ~Moved(w)
      /\ f = Result(404) => ~Moved(w)
      /\ k = 1 /\ f.kind = "gap" => FALSE
  BY <1>1, <1>2, <1>4, HeadAnswer
<1>9. f = Result(200) => Moved(w)
  BY <1>2 DEF Moved
<1>10. /\ \A m : (k # 0 /\ ByOne(w, k, m, q) => ByOne(v, k - 1, m, q))
       /\ \A m : (k = 0 /\ ByOne(w, k, m, q) => f.seq = 1 + m /\ ByOne(v, 0, f.to, q))
  <2> HIDE DEF w, v, q
  <2>1. ASSUME NEW m, ByOne(w, k, m, q)
        PROVE  /\ k # 0 => ByOne(v, k - 1, m, q)
               /\ k = 0 => w[1].seq = 1 + m /\ ByOne(v, 0, w[1].to, q)
    <3>1. w # <<>> /\ w \in Seq(Frame) /\ v \in Seq(Frame) /\ Shorter(v, w) /\ k \in 0..Len(w)
      BY <1>1, <1>2
    <3> QED BY <2>1, <3>1, ByOneShorter
  <2> QED BY <2>1
<1>11. f.kind # "gap" => (Moved(v) => Moved(w))
  BY <1>2 DEF Moved
<1>12. f.kind = "gap" => (Moved(v) <=> Moved(w))
  <2>1. f.kind = "gap" => f # Result(200)
    BY ResultIsFrame
  <2> QED BY <1>2, <2>1 DEF Moved
<1> HIDE DEF w, v, q, n, p, f
<1>13. CASE ReadsPlace(c)
  <2>1. k = 1 /\ From(c, w, p, n) = n /\ From(c, v, c, n) = n
    BY <1>1, <1>8, <1>9, <1>13 DEF From
  <2>2. Answered(v, 0) /\ 0 \in 0..Len(v) /\ ByOne(v, 0, n, q)
    <3>1. 1 - 1 = 0 /\ k # 0
      BY <2>1
    <3> QED BY <1>4, <1>6, <1>10, <2>1, <3>1
  <2>3. Steady(c, v, q, c, n)
    BY <2>1, <2>2 DEF Steady
  <2>4. p # c
    BY <1>7, <2>1
  <2> QED BY <1>1, <1>13, <2>3, <2>4 DEF v, q, n, p
<1>14. CASE ReadsRefusal(c)
  <2>1. k = 1 /\ p \notin {0, c} /\ From(c, w, p, n) = 0 /\ From(c, v, 0, 0) = 0
    BY <1>1, <1>7, <1>8, <1>14 DEF From
  <2>2. Answered(v, 0) /\ 0 \in 0..Len(v) /\ ByOne(v, 0, 0, q)
    <3>1. 1 - 1 = 0 /\ k # 0
      BY <2>1
    <3> QED BY <1>4, <1>6, <1>10, <2>1, <3>1
  <2>3. Steady(c, v, q, 0, 0)
    BY <2>1, <2>2 DEF Steady
  <2> QED BY <1>1, <1>14, <2>1, <2>3 DEF v, q, n, p
<1>15. CASE ReadsNote(c)
  <2>1. k = 0 /\ p = c /\ From(c, w, p, n) = n /\ From(c, v, c, f.to) = f.to
    BY <1>1, <1>5, <1>8, <1>15 DEF From
  <2>2. f.seq = 1 + n /\ ByOne(v, 0, f.to, q) /\ Answered(v, 0) /\ 0 \in 0..Len(v)
    BY <1>4, <1>6, <1>10, <2>1
  <2>3. Steady(c, v, q, c, f.to)
    BY <2>1, <2>2 DEF Steady
  <2>4. client'.place = c /\ client'.at = f.to
    BY <1>1, <1>5, <1>15, <2>1
  <2>5. f.seq = n + 1
    BY <1>3, <2>2
  <2> QED BY <1>1, <2>3, <2>4, <2>5 DEF v, q, n, p, f, w
<1>16. CASE ReadsGap(c)
  <2>1. client'.place = p /\ client'.at = (IF p \in {0, c} THEN f.to ELSE n) /\ f.kind = "gap"
    BY <1>1, <1>16
  <2>2. CASE k = 0
    <3>1. ~Moved(w) /\ ~Moved(v)
      BY <1>8, <1>12, <2>1, <2>2
    <3>2. CASE p \in {0, c}
      <4>1. From(c, w, p, n) = n /\ From(c, v, p, f.to) = f.to
        BY <3>2 DEF From
      <4>2. f.seq = 1 + n /\ ByOne(v, 0, f.to, q) /\ Answered(v, 0) /\ 0 \in 0..Len(v)
        BY <1>4, <1>6, <1>10, <2>2, <4>1
      <4>3. Steady(c, v, q, p, f.to)
        BY <3>2, <4>1, <4>2 DEF Steady
      <4>4. f.seq = n + 1
        BY <1>3, <4>2
      <4> QED BY <1>1, <2>1, <3>2, <4>3, <4>4 DEF v, q, n, p, f, w
    <3>3. CASE p \notin {0, c}
      <4>1. Len(w) = 1 /\ q.st # "open"
        BY <1>1, <1>4, <2>2, <3>3
      <4>2. Len(v) = 0
        BY <1>2, <4>1
      <4>3. v = <<>>
        BY <1>2, <4>2, MembersOf
      <4>4. ByOne(v, 0, From(c, v, p, n), q)
        <5>1. \A i \in 1..Len(v) : FALSE
          BY <4>2
        <5> QED BY <4>1, <5>1 DEF ByOne
      <4>5. Steady(c, v, q, p, n)
        BY <1>6, <2>2, <4>3, <4>4 DEF Steady
      <4> QED BY <1>1, <2>1, <3>3, <4>5 DEF v, q, n, p
    <3> QED BY <3>2, <3>3
  <2>3. CASE k # 0
    <3>1. p \notin {0, c} /\ client'.at = n
      BY <1>7, <2>1, <2>3
    <3>2. From(c, v, p, n) = From(c, w, p, n)
      BY <1>12, <2>1 DEF From
    <3>3. ByOne(v, k - 1, From(c, v, p, n), q) /\ Answered(v, k - 1) /\ k - 1 \in 0..Len(v)
      BY <1>4, <1>6, <1>10, <2>3, <3>2
    <3>4. k - 1 # 0
      BY <1>2, <1>4, <1>8, <2>1
    <3>5. Steady(c, v, q, p, n)
      BY <3>3, <3>4 DEF Steady
    <3> QED BY <1>1, <2>1, <3>1, <3>5 DEF v, q, n, p
  <2> QED BY <2>2, <2>3
<1> QED BY <1>13, <1>14, <1>15, <1>16

LEMMA SteadyConnects ==
    ASSUME SessionTypes, SessionTypes', WireInv, NEW c \in Conns, Connects(c)
    PROVE  Steady(c, wire'[c], conn'[c], client'.place, client'.at)
<1> DEFINE v == wire'[c]
           r == conn'[c]
           p == client'.place
           n == client'.at
<1>1. v = <<>> /\ p # c
  BY WireConnects DEF Connects
<1>2. r.seq = 0 /\ (p = 0 => n = 0)
  BY DEF Connects
<1>3. Len(v) = 0 /\ Members(v) = {}
  BY <1>1, NoFrame
<1> HIDE DEF v, r, p, n
<1>4. From(c, v, p, n) = 0
  BY <1>1, <1>2, <1>3 DEF From, Moved
<1>5. 0 \in 0..Len(v) /\ \A i \in 1..Len(v) : FALSE
  BY <1>3
<1>6. Answered(v, 0) /\ ByOne(v, 0, From(c, v, p, n), r)
  BY <1>2, <1>3, <1>4, <1>5 DEF Answered, ByOne
<1>7. Steady(c, v, r, p, n)
  BY <1>1, <1>5, <1>6 DEF Steady
<1> QED BY <1>7 DEF v, r, p, n

LEMMA NumbersStep ==
    ASSUME SessionTypes, SessionTypes', ConnsInOrder, WireInv, NumbersInv, [Next]_vars
    PROVE  NumbersInv'
<1> SUFFICES ASSUME "gap" \notin used'
             PROVE  /\ \A c \in Conns : KeptByOne(conn'[c])
                    /\ client'.on # 0 =>
                         Steady(client'.on, wire'[client'.on], conn'[client'.on], client'.place, client'.at)
  BY DEF NumbersInv
<1>1. "gap" \notin used
  <2>1. used \subseteq used'
    BY StepKinds DEF QueuesMove, ConnEnds, Takes, Resumes, Refuses, Subscribes, ReadsPlace, ReadsRefusal,
                     ReadsNote, ReadsGap, Reads, Leaves, Connects
  <2> QED BY <2>1
<1>2. /\ \A c \in Conns : KeptByOne(conn[c])
      /\ client.on # 0 =>
           Steady(client.on, wire[client.on], conn[client.on], client.place, client.at)
  BY <1>1 DEF NumbersInv
<1>3. \A c \in Conns : KeptByOne(conn'[c])
  BY <1>2, KeptStep
<1>4. client.on \in Conns \cup {0} /\ \A d \in Conns : d # 0
  BY DEF SessionTypes, Conns
<1> DEFINE Goes == client'.on # 0 =>
             Steady(client'.on, wire'[client'.on], conn'[client'.on], client'.place, client'.at)
(* The wire is as it was; connections only end, or get more queued. *)
<1>5. ASSUME client' = client, wire' = wire,
             \A d \in Conns : conn'[d].st = "open" => conn[d].st = "open" /\ conn'[d].seq = conn[d].seq
      PROVE  Goes
  <2> SUFFICES ASSUME client.on # 0
               PROVE  Steady(client.on, wire[client.on], conn'[client.on], client.place, client.at)
    BY <1>5
  <2> DEFINE q == conn[client.on]
             r == conn'[client.on]
  <2>1. r.st = "open" => q.st = "open" /\ r.seq = q.seq
    BY <1>4, <1>5
  <2>2. Steady(client.on, wire[client.on], q, client.place, client.at)
    BY <1>2
  <2> HIDE DEF q, r
  <2>3. Steady(client.on, wire[client.on], r, client.place, client.at)
    BY <2>1, <2>2, SteadyKept
  <2> QED BY <2>3 DEF r
<1>6. ASSUME UNCHANGED <<conn, wire, change, used, clientVars>> PROVE Goes
  BY <1>5, <1>6 DEF clientVars
<1>7. ASSUME NEW out \in ItemType, QueuesMove(out) PROVE Goes
  <2>1. /\ client' = client /\ wire' = wire
        /\ \A d \in Conns : conn'[d].st = conn[d].st /\ conn'[d].seq = conn[d].seq
    BY <1>7 DEF QueuesMove, Pushed
  <2> QED BY <1>5, <2>1
<1>8. ASSUME NEW c \in Conns,
             \/ ConnEnds(c) \/ Takes(c) \/ Resumes(c) \/ Refuses(c) \/ Subscribes(c)
             \/ ReadsPlace(c) \/ ReadsRefusal(c) \/ ReadsNote(c) \/ ReadsGap(c)
             \/ Leaves(c) \/ Connects(c)
      PROVE  Goes
  <2>1. CASE ConnEnds(c)
    <3>1. /\ client' = client /\ wire' = wire /\ conn'[c].st # "open"
          /\ \A d \in Conns : d # c => conn'[d] = conn[d]
      BY <2>1 DEF ConnEnds, OnlyConn
    <3>2. \A d \in Conns : conn'[d].st = "open" => conn[d].st = "open" /\ conn'[d].seq = conn[d].seq
      BY <3>1
    <3> QED BY <1>5, <3>1, <3>2
  <2>2. CASE Takes(c)
    <3>1. /\ client' = client /\ \A d \in Conns : d # c => conn'[d] = conn[d]
          /\ \A d \in Conns : ~(d = c /\ c = client.on) => wire'[d] = wire[d]
      BY <2>2 DEF Takes, Writes, OnlyConn
    <3>2. CASE client.on = c
      <4>1. Steady(c, wire'[c], conn'[c], client.place, client.at)
        BY <1>2, <1>4, <2>2, <3>2, SteadyTakes
      <4> QED BY <3>1, <3>2, <4>1
    <3>3. CASE client.on # c
      <4>1. client.on # 0 => wire'[client.on] = wire[client.on] /\ conn'[client.on] = conn[client.on]
        BY <1>4, <3>1, <3>3
      <4> QED BY <1>2, <3>1, <4>1
    <3> QED BY <3>2, <3>3
  <2>3. CASE Resumes(c)
    <3>1. client' = client /\ client.on = c /\ client.place \in Conns
      BY <2>3 DEF Resumes
    <3>2. Steady(c, wire'[c], conn'[c], client.place, client.at)
      BY <1>2, <1>4, <2>3, <3>1, SteadyResumes
    <3> QED BY <3>1, <3>2
  <2>4. CASE Refuses(c)
    <3>1. client' = client /\ client.on = c
      BY <2>4 DEF Refuses
    <3>2. Steady(c, wire'[c], conn'[c], client.place, client.at)
      BY <1>2, <1>4, <2>4, <3>1, SteadyRefuses
    <3> QED BY <3>1, <3>2
  <2>5. CASE Subscribes(c)
    <3>1. client.on = c /\ client.place = 0 /\ client'.on = c /\ client'.place = c /\ client'.at = client.at
      BY <2>5 DEF Subscribes
    <3>2. Steady(c, wire'[c], conn'[c], c, client.at)
      BY <1>2, <1>4, <2>5, <3>1, SteadySubscribes
    <3> QED BY <3>1, <3>2
  <2>6. CASE ReadsPlace(c) \/ ReadsRefusal(c) \/ ReadsNote(c) \/ ReadsGap(c)
    <3>1. client.on = c /\ client'.on = c
      BY <2>6 DEF ReadsPlace, ReadsRefusal, ReadsNote, ReadsGap, Reads
    <3>2. Steady(c, wire'[c], conn'[c], client'.place, client'.at)
      BY <1>2, <1>4, <2>6, <3>1, SteadyReads
    <3> QED BY <3>1, <3>2
  <2>7. CASE Leaves(c)
    BY <2>7 DEF Leaves
  <2>8. CASE Connects(c)
    <3>1. client'.on = c
      BY <2>8 DEF Connects
    <3> QED BY <2>8, <3>1, SteadyConnects
  <2> QED BY <1>8, <2>1, <2>2, <2>3, <2>4, <2>5, <2>6, <2>7, <2>8
<1>9. Goes
  BY <1>6, <1>7, <1>8, StepKinds
<1> QED BY <1>3, <1>9

-----------------------------------------------------------------------------
(* The invariant, and what follows from it. *)

ClientInv == SessionInv /\ NumbersInv

LEMMA ClientInit == Init => ClientInv
<1> SUFFICES ASSUME Init PROVE ClientInv
  OBVIOUS
<1> DEFINE q == [Unused EXCEPT !.st = "open", !.sub = TRUE]
<1>1. /\ 1 \in Conns /\ 0 \notin Conns
      /\ conn \in [Conns -> ConnType] /\ conn[1] = q /\ \A c \in Conns : c # 1 => conn[c] = Unused
      /\ q \in ConnType /\ q.st = "open" /\ q.sub /\ q.items = <<>> /\ ~q.overflowed /\ q.seq = 0
      /\ q.sent = <<>>
  <2>1. 1 \in Conns /\ 0 \notin Conns
    BY LimitAssumption DEF Conns
  <2>2. /\ q \in ConnType /\ q.st = "open" /\ q.sub /\ q.items = <<>> /\ ~q.overflowed /\ q.seq = 0
        /\ q.sent = <<>>
    BY UnusedFields DEF Unused, ConnType
  <2>3. conn = [c \in Conns |-> IF c = 1 THEN q ELSE Unused]
    BY DEF Init
  <2> HIDE DEF q
  <2>4. /\ conn \in [Conns -> ConnType] /\ conn[1] = q /\ \A c \in Conns : c # 1 => conn[c] = Unused
    BY <2>1, <2>2, <2>3, UnusedFields
  <2> QED BY <2>1, <2>2, <2>4
<1> HIDE DEF q
<1>2. /\ \A c \in Conns : wire[c] = <<>>
      /\ client.on = 1 /\ client.place = 1 /\ client.at = 0
      /\ change = 0 /\ used = {} /\ owed = {} /\ ~refused /\ \A e \in Entities : heard[e] = 0
  BY DEF Init
<1>3. <<>> \in Seq(Frame) /\ Len(<<>>) = 0 /\ Members(<<>>) = {} /\ Notes(<<>>) = {} /\ ~Moved(<<>>)
  BY NoFrame DEF Notes, Moved
<1>4. SessionTypes
  <2>1. wire \in [Conns -> Seq(Frame)]
    BY <1>3 DEF Init
  <2>2. 0 \in 0..MaxChanges
    BY LimitAssumption
  <2>3. client \in [on : Conns \cup {0}, place : Conns \cup {0}, at : Nat]
    BY <1>1 DEF Init
  <2> QED BY <1>1, <2>1, <2>2, <2>3 DEF Init, SessionTypes
<1>5. \A c \in Conns : conn[c].items = <<>> /\ conn[c].sent = <<>> /\ ~conn[c].overflowed
  BY <1>1, UnusedFields
<1>6. ASSUME NEW c \in Conns PROVE Tidy(conn[c]) /\ InOrder(conn[c], wire[c], change)
  <2>1. Ascends(conn[c].sent) /\ Len(conn[c].sent) <= KEPT
    <3>1. \A i \in 1..Len(conn[c].sent) : FALSE
      BY <1>3, <1>5
    <3> QED BY <1>3, <1>5, <3>1, LimitAssumption DEF Ascends
  <2>2. Tidy(conn[c])
    <3>1. \A i \in 1..Len(conn[c].items) : FALSE
      BY <1>3, <1>5
    <3>2. (conn[c].st = "unused" => conn[c] = Unused) /\ conn[c].st # "gone"
      BY <1>1, UnusedFields
    <3> QED BY <1>5, <2>1, <3>1, <3>2 DEF Tidy
  <2>3. InOrder(conn[c], wire[c], change)
    BY <1>2, <1>3, <1>5 DEF InOrder
  <2> QED BY <2>2, <2>3
<1>7. Carrier = 1
  BY <1>2 DEF Carrier
<1>8. Answered(<<>>, 0) /\ From(1, <<>>, 1, 0) = 0
  BY <1>3 DEF Answered, From
<1>9. \A i \in 1..Len(<<>>) : FALSE
  BY <1>3
<1>10. WireInv
  <2>1. GoesOn(<<>>, 0, 0, q)
    BY <1>1, <1>9 DEF GoesOn
  <2>2. OnWire(1, <<>>, q, 1, 0)
    BY <1>3, <1>8, <2>1 DEF OnWire
  <2> QED BY <1>1, <1>2, <1>3, <1>7, <2>2 DEF WireInv
<1>11. HeardInv /\ OwedInv /\ MovesInv
  <2>1. Unheard(conn[1], wire[1], client.at, heard)
    BY <1>1, <1>2, <1>3, <1>5 DEF Unheard
  <2> QED BY <1>1, <1>2, <1>7, <2>1 DEF HeardInv, OwedInv, MovesInv
<1>12. NumbersInv
  <2>1. \A c \in Conns : KeptByOne(conn[c])
    BY <1>3, <1>5, <1>9 DEF KeptByOne, Consecutive
  <2>2. ByOne(<<>>, 0, 0, q)
    BY <1>1, <1>3, <1>9 DEF ByOne
  <2>3. Steady(1, <<>>, q, 1, 0)
    BY <1>3, <1>8, <2>2 DEF Steady
  <2> QED BY <1>1, <1>2, <2>1, <2>3 DEF NumbersInv
<1> QED BY <1>4, <1>6, <1>10, <1>11, <1>12 DEF ClientInv, SessionInv, ConnsInOrder

LEMMA ClientStep == ClientInv /\ [Next]_vars => ClientInv'
<1> SUFFICES ASSUME ClientInv, [Next]_vars PROVE ClientInv'
  OBVIOUS
<1>1. SessionTypes /\ ConnsInOrder /\ WireInv /\ HeardInv /\ OwedInv /\ MovesInv /\ NumbersInv
  BY DEF ClientInv, SessionInv
<1>2. SessionTypes'
  BY <1>1, TypesStep
<1>3. ConnsInOrder'
  BY <1>1, <1>2, ConnsStep
<1>4. WireInv'
  BY <1>1, <1>2, WireStep
<1>5. HeardInv'
  BY <1>1, <1>2, HeardStep
<1>6. OwedInv'
  BY <1>1, <1>2, OwedStep
<1>7. MovesInv'
  BY <1>1, <1>2, MovesStep
<1>8. NumbersInv'
  BY <1>1, <1>2, NumbersStep
<1> QED BY <1>2, <1>3, <1>4, <1>5, <1>6, <1>7, <1>8 DEF ClientInv, SessionInv

LEMMA ClientAlways == Spec => []ClientInv
BY ClientInit, ClientStep, PTL DEF Spec

LEMMA ClientTypes == ClientInv => TypeOK
<1> SUFFICES ASSUME ClientInv PROVE TypeOK
  OBVIOUS
<1>1. SessionTypes /\ \A c \in Conns : Len(conn[c].sent) <= KEPT
  BY DEF ClientInv, SessionInv, ConnsInOrder, Tidy
<1> QED BY <1>1 DEF SessionTypes, TypeOK, ConnType, ItemType

LEMMA ClientReaches == ClientInv => SentReaches
<1> SUFFICES ASSUME ClientInv, Settled PROVE owed = {}
  BY ClientTypes DEF SentReaches
<1>1. client.on # 0 /\ client.place = client.on /\ wire[client.on] = <<>>
  BY DEF Settled
<1>2. Carrier = client.on
  BY <1>1 DEF Carrier
<1>3. \A f \in owed : f \in Members(wire[client.on]) \/ Clears(wire[client.on])
  BY <1>2 DEF ClientInv, SessionInv, OwedInv
<1>4. Len(<<>>) = 0 /\ Members(<<>>) = {}
  BY NoFrame
<1>5. ~Clears(<<>>)
  <2>1. \A i \in 1..Len(<<>>) : FALSE
    BY <1>4
  <2> QED BY <2>1 DEF Clears
<1> QED BY <1>1, <1>3, <1>4, <1>5

(* fanout/socket.rs resume: whatever broke and however often, no             *)
(* notification that was sent is silently lost to a client that resumed,     *)
(* from a memory of KEPT notifications: for every KEPT, MAX_QUEUED and       *)
(* number of connections.                                                    *)
THEOREM SentIsNotLost == Spec => []SentReaches
BY ClientAlways, ClientReaches, PTL

(* fanout/socket.rs resume: "the closed connection's subscriptions move to   *)
(* this one", while no reload and no refusal came in between.                *)
THEOREM SubscriptionsMoveAlong == Spec => []QuietResumeMoves
<1>1. ClientInv => QuietResumeMoves
  <2> SUFFICES ASSUME ClientInv, used \cap {"reload", "refusal"} = {}, Settled PROVE conn[client.on].sub
    BY DEF QuietResumeMoves, SubscriptionsMove
  <2>1. client.on # 0 /\ client.place = client.on /\ conn[client.on].st = "open"
    BY DEF Settled
  <2>2. Carrier = client.on
    BY <2>1 DEF Carrier
  <2> QED BY <2>1, <2>2 DEF ClientInv, SessionInv, MovesInv
<1> QED BY <1>1, ClientAlways, PTL

(* Queue::push, resume: the notifications of an entity reach the client in   *)
(* the order of its changes and none twice, across resumes and coalescing.   *)
THEOREM NothingIsToldTwice == Spec => HeardInOrder
<1> DEFINE ToldOnce == \A c \in Conns : Receive(c) /\ Head(wire[c]).kind = "notification" =>
                Head(wire[c]).change > heard[Head(wire[c]).entity]
<1>1. ClientInv /\ ClientInv' /\ [Next]_vars => [ToldOnce]_vars
  <2> SUFFICES ASSUME ClientInv, ClientInv', NEW c \in Conns, Receive(c), Head(wire[c]).kind = "notification"
               PROVE  Head(wire[c]).change > heard[Head(wire[c]).entity]
    OBVIOUS
  <2>1. SessionTypes /\ SessionTypes' /\ ConnsInOrder /\ WireInv /\ HeardInv
    BY DEF ClientInv, SessionInv
  <2> DEFINE f == wire[c][1]
  <2>2. wire[c] # <<>> /\ Head(wire[c]) = f /\ f \in Frame
    <3>1. wire[c] # <<>> /\ wire[c] \in Seq(Frame)
      BY <2>1, FramesOfConn DEF Receive
    <3> QED BY <3>1, Rest
  <2>3. ReadsNote(c)
    <3>1. f.kind = "notification"
      BY <2>2
    <3>2. f # Result(200) /\ f # Result(404) /\ f.kind # "gap"
      BY <3>1, NoResult
    <3> QED BY <2>1, <3>2, ReceiveFacts DEF ReadsPlace, ReadsRefusal, ReadsGap
  <2>4. heard[f.entity] < f.change
    BY <2>1, <2>3, HeardReadsNote
  <2>5. f \in Members(wire[c])
    BY <2>2, Rest, <2>1, FramesOfConn
  <2>6. f.entity \in Entities /\ f.change \in Nat
    <3>1. IsNotification(f)
      BY <2>2 DEF IsNotification
    <3>2. f \in Known(conn[c], wire[c])
      BY <2>5, <3>1 DEF Known, Notes
    <3>3. InOrder(conn[c], wire[c], change)
      BY <2>1 DEF ConnsInOrder
    <3>4. f.change \in Nat
      BY <2>2, FrameFields
    <3> HIDE DEF f
    <3> QED BY <3>2, <3>3, <3>4 DEF InOrder, Known
  <2>7. heard[f.entity] \in Nat
    BY <2>1, <2>6, LimitAssumption DEF SessionTypes
  <2> HIDE DEF f
  <2> QED BY <2>2, <2>4, <2>6, <2>7
<1> QED BY <1>1, ClientAlways, PTL DEF Spec, HeardInOrder

(* fanout/socket.rs: x-seq never skips silently: without a gap of the        *)
(* upstream the numbers a client reads go on by one, or an x-gap starts      *)
(* right after the last one.                                                 *)
THEOREM NumbersAreWhole == Spec => NumbersGoOn
<1> DEFINE OnByOne == \A c \in Conns :
         Receive(c) /\ "gap" \notin used /\ client.place = c /\ Head(wire[c]).kind # "result" =>
             Head(wire[c]).seq = client.at + 1
<1>1. ClientInv /\ ClientInv' /\ [Next]_vars => [OnByOne]_vars
  <2> SUFFICES ASSUME ClientInv, ClientInv', NEW c \in Conns, Receive(c), "gap" \notin used, client.place = c,
                      Head(wire[c]).kind # "result"
               PROVE  Head(wire[c]).seq = client.at + 1
    OBVIOUS
  <2>1. SessionTypes /\ SessionTypes' /\ ConnsInOrder /\ WireInv /\ NumbersInv
    BY DEF ClientInv, SessionInv
  <2>2. wire[c] # <<>> /\ Head(wire[c]) = wire[c][1]
    <3>1. wire[c] # <<>> /\ wire[c] \in Seq(Frame)
      BY <2>1, FramesOfConn DEF Receive
    <3> QED BY <3>1, Rest
  <2>3. client.on = c /\ client.on # 0
    BY DEF Receive, Conns
  <2>4. Steady(c, wire[c], conn[c], client.place, client.at)
    BY <2>1, <2>3 DEF NumbersInv
  <2>5. ReadsPlace(c) \/ ReadsRefusal(c) \/ ReadsNote(c) \/ ReadsGap(c)
    BY <2>1, ReceiveFacts
  <2> QED BY <2>1, <2>2, <2>4, <2>5, SteadyReads
<1> QED BY <1>1, ClientAlways, PTL DEF Spec, NumbersGoOn

-----------------------------------------------------------------------------
(***************************************************************************)
(* Registry.  For any sockets, callers, views and caps: whoever is         *)
(* connected is on a registered hub whose upstream runs, and the caps are  *)
(* kept.                                                                   *)
(*                                                                         *)
(* A hub leaves the registry for another only while it waits among the     *)
(* idle ones, and those have no connection (IdleHaveNone); so a connection *)
(* stays on the hub of its view (OnTheirHub).  The counts are              *)
(* cardinalities, which every step moves by one.                           *)
(***************************************************************************)

Hubs == HubIds \cup {NoHub}

(* The hubs that wait have no connection, and wait once. *)
IdleHaveNone(s, held) ==
    /\ s \in Seq(HubIds)
    /\ \A i, j \in 1..Len(s) : s[i] = s[j] => i = j
    /\ \A h \in Members(s) : held[h] = {}

(* A connection is one of the hub that the registry has for its view. *)
OnTheirHub(up, reg, held) ==
    \A s \in Sockets : up[s].at = "joined" =>
        /\ up[s].hub \in HubIds
        /\ reg[ViewOf[s]] = up[s].hub
        /\ s \in held[up[s].hub]

(* What is registered runs. *)
RegisteredRun(reg, tasks) == \A v \in Views : reg[v] # NoHub => tasks[reg[v]] = "runs"

SocketsOf(up, space) == {s \in Sockets : up[s].at = "joined" /\ Space(s) = space}

HeldBy(up, p) ==
    {s \in Sockets : CallerOf[s] = p /\ up[s].at \in {"counted", "joined", "closing"}}

RegistryInv ==
    /\ RegistryTypeOK
    /\ IdleHaveNone(idle, clients)
    /\ OnTheirHub(upgrade, registry, clients)
    /\ RegisteredRun(registry, task)
    /\ \A space \in Spaces : Cardinality(SocketsOf(upgrade, space)) <= PER_SPACE
    /\ \A space \in Spaces : Cardinality(Counted(registry, space)) <= HUBS_PER_SPACE
    /\ Cardinality(CountedInAll(registry)) <= HUBS
    /\ \A p \in People : opened[p] = Cardinality(HeldBy(upgrade, p)) /\ opened[p] <= PER_CALLER

(* The invariant says what is served. *)
LEMMA ServedByInv == RegistryInv => EveryClientIsServed
<1> SUFFICES ASSUME RegistryInv PROVE EveryClientIsServed
  OBVIOUS
<1>1. \A s \in Connected : /\ s \in Sockets /\ registry[ViewOf[s]] = upgrade[s].hub
                           /\ upgrade[s].hub \in HubIds
  BY DEF RegistryInv, OnTheirHub, Connected
<1>2. \A s \in Connected : task[upgrade[s].hub] = "runs"
  BY <1>1, RegistryAssumption DEF RegistryInv, RegisteredRun
<1>3. \A space \in Spaces : {s \in Connected : Space(s) = space} = SocketsOf(upgrade, space)
  BY DEF Connected, SocketsOf
<1>4. \A p \in People : {s \in Sockets : CallerOf[s] = p
                            /\ upgrade[s].at \in {"counted", "joined", "closing"}} = HeldBy(upgrade, p)
  BY DEF HeldBy
<1> QED BY <1>1, <1>2, <1>3, <1>4 DEF RegistryInv, EveryClientIsServed

-----------------------------------------------------------------------------
(* Counting. *)

(* A part of a finite set is no larger. *)
LEMMA NoMore ==
    ASSUME NEW S, IsFiniteSet(S), NEW T \in SUBSET S
    PROVE  /\ IsFiniteSet(T) /\ Cardinality(T) \in Nat /\ Cardinality(S) \in Nat
           /\ Cardinality(T) <= Cardinality(S)
  BY FS_Subset, FS_CardinalityType

(* One more is one more. *)
LEMMA OneMore ==
    ASSUME NEW S, IsFiniteSet(S), NEW x, NEW cap \in Nat, Cardinality(S) < cap
    PROVE  IsFiniteSet(S \cup {x}) /\ Cardinality(S \cup {x}) \in Nat /\ Cardinality(S \cup {x}) <= cap
<1>1. Cardinality(S) \in Nat /\ IsFiniteSet(S \cup {x})
  BY FS_AddElement, FS_CardinalityType
<1>2. Cardinality(S \cup {x}) = Cardinality(S) \/ Cardinality(S \cup {x}) = Cardinality(S) + 1
  BY FS_AddElement
<1> QED BY <1>1, <1>2

(* Making room in one count of views leaves at most the hub of one view out, *)
(* an idle one, and the count below its cap.                                 *)
LEMMA DroppedLeavesRoom ==
    ASSUME NEW reg \in [Views -> Hubs], NEW views \in SUBSET Views, NEW cap \in Nat \ {0},
           \A v \in views : reg[v] # NoHub,
           IsFiniteSet(views), Cardinality(views) <= cap,
           NEW new \in Dropped(reg, views, cap)
    PROVE  /\ new \in [Views -> Hubs]
           /\ \A v \in Views : new[v] # NoHub => new[v] = reg[v]
           /\ \A v \in Views : new[v] = reg[v] \/ reg[v] \in Members(idle)
           /\ Cardinality({v \in views : new[v] # NoHub}) < cap
           /\ Cardinality({v \in views : new[v] # NoHub}) \in Nat
<1>0. Cardinality(views) \in Nat
  BY FS_CardinalityType
<1>1. CASE Cardinality(views) < cap
  <2>1. new = reg
    BY <1>1 DEF Dropped
  <2>2. {v \in views : new[v] # NoHub} = views
    BY <2>1
  <2> QED BY <1>0, <1>1, <2>1, <2>2
<1>2. CASE ~(Cardinality(views) < cap)
  <2>1. PICK v \in Idlest(reg, views) : new = [reg EXCEPT ![v] = NoHub]
    BY <1>2 DEF Dropped
  <2>2. v \in views /\ v \in Views /\ reg[v] \in Members(idle)
    BY <2>1 DEF Idlest, Members
  <2>3. {w \in views : new[w] # NoHub} = views \ {v}
    BY <2>1, <2>2
  <2>4. Cardinality(views \ {v}) = Cardinality(views) - 1
    BY <2>2, FS_RemoveElement
  <2>5. new \in [Views -> Hubs] /\ new[v] = NoHub /\ \A w \in Views : w # v => new[w] = reg[w]
    BY <2>1, <2>2 DEF Hubs
  <2> HIDE DEF Hubs
  <2>6. Cardinality(views) - 1 \in Nat
    BY <1>0, <1>2
  <2> QED BY <1>0, <1>2, <2>2, <2>3, <2>4, <2>5, <2>6
<1> QED BY <1>1, <1>2

(* The registry with room for a hub of `space`. *)
LEMMA RoomIsMade ==
    ASSUME RegistryInv, NEW space \in Spaces, NEW reg \in make_room(space)
    PROVE  /\ reg \in [Views -> Hubs]
           /\ \A v \in Views : reg[v] # NoHub => reg[v] = registry[v]
           /\ \A v \in Views : reg[v] = registry[v] \/ registry[v] \in Members(idle)
           /\ Cardinality(Counted(reg, space)) < HUBS_PER_SPACE
           /\ Cardinality(CountedInAll(reg)) < HUBS
<1>1. PICK one \in Dropped(registry, Counted(registry, space), HUBS_PER_SPACE) :
        reg \in Dropped(one, CountedInAll(one), HUBS)
  BY DEF make_room
<1>2. registry \in [Views -> Hubs] /\ HUBS \in Nat \ {0} /\ HUBS_PER_SPACE \in Nat \ {0}
  BY RegistryAssumption DEF RegistryInv, RegistryTypeOK, Hubs
<1>3. /\ Counted(registry, space) \in SUBSET Views /\ CountedInAll(registry) \in SUBSET Views
      /\ \A v \in Counted(registry, space) : registry[v] # NoHub
      /\ IsFiniteSet(Counted(registry, space)) /\ Cardinality(Counted(registry, space)) <= HUBS_PER_SPACE
      /\ IsFiniteSet(CountedInAll(registry)) /\ Cardinality(CountedInAll(registry)) <= HUBS
  <2>1. Counted(registry, space) \in SUBSET Views /\ CountedInAll(registry) \in SUBSET Views
    BY DEF Counted, CountedInAll
  <2>2. IsFiniteSet(Counted(registry, space)) /\ IsFiniteSet(CountedInAll(registry))
    BY <2>1, RegistryAssumption, NoMore
  <2> QED BY <2>1, <2>2 DEF RegistryInv, Counted
<1>4. /\ one \in [Views -> Hubs]
      /\ \A v \in Views : one[v] # NoHub => one[v] = registry[v]
      /\ \A v \in Views : one[v] = registry[v] \/ registry[v] \in Members(idle)
      /\ Cardinality({v \in Counted(registry, space) : one[v] # NoHub}) < HUBS_PER_SPACE
  BY <1>1, <1>2, <1>3, DroppedLeavesRoom
<1>5. CountedInAll(one) \in SUBSET CountedInAll(registry) /\ CountedInAll(one) \in SUBSET Views
  BY <1>4 DEF CountedInAll
<1>6. IsFiniteSet(CountedInAll(one)) /\ Cardinality(CountedInAll(one)) <= HUBS
  <2>1. /\ IsFiniteSet(CountedInAll(one))
        /\ Cardinality(CountedInAll(one)) <= Cardinality(CountedInAll(registry))
        /\ Cardinality(CountedInAll(one)) \in Nat /\ Cardinality(CountedInAll(registry)) \in Nat
    BY <1>3, <1>5, NoMore
  <2> QED BY <1>2, <1>3, <2>1
<1>7. \A v \in CountedInAll(one) : one[v] # NoHub
  BY DEF CountedInAll
<1>8. /\ reg \in [Views -> Hubs]
      /\ \A v \in Views : reg[v] # NoHub => reg[v] = one[v]
      /\ \A v \in Views : reg[v] = one[v] \/ one[v] \in Members(idle)
      /\ Cardinality({v \in CountedInAll(one) : reg[v] # NoHub}) < HUBS
  BY <1>1, <1>2, <1>4, <1>5, <1>6, <1>7, DroppedLeavesRoom, SMTT(30)
<1>9. CountedInAll(reg) = {v \in CountedInAll(one) : reg[v] # NoHub}
  BY <1>8 DEF CountedInAll
<1>10. Counted(reg, space) \in SUBSET {v \in Counted(registry, space) : one[v] # NoHub}
  BY <1>4, <1>8 DEF Counted
<1>11. Cardinality(Counted(reg, space)) < HUBS_PER_SPACE
  <2> DEFINE T == {v \in Counted(registry, space) : one[v] # NoHub}
  <2>1. T \in SUBSET Counted(registry, space)
    OBVIOUS
  <2> HIDE DEF T
  <2>2. IsFiniteSet(T)
    BY <1>3, <2>1, NoMore
  <2>3. Cardinality(Counted(reg, space)) <= Cardinality(T) /\ Cardinality(T) \in Nat
        /\ Cardinality(Counted(reg, space)) \in Nat
    BY <1>10, <2>2, NoMore DEF T
  <2> QED BY <1>2, <1>4, <2>3 DEF T
<1>12. \A v \in Views : reg[v] = registry[v] \/ registry[v] \in Members(idle)
  BY <1>4, <1>8
<1> QED BY <1>4, <1>8, <1>9, <1>11, <1>12

-----------------------------------------------------------------------------
(* The steps. *)

(* A step that leaves the hubs alone and joins nobody. *)
LEMMA NobodyJoins ==
    ASSUME RegistryInv, UNCHANGED <<registry, clients, idle, task>>, RegistryTypeOK',
           \A s \in Sockets : upgrade'[s].at = "joined" => upgrade[s] = upgrade'[s],
           \A p \in People : opened'[p] = Cardinality(HeldBy(upgrade', p)) /\ opened'[p] <= PER_CALLER
    PROVE  RegistryInv'
<1>1. \A space \in Spaces : SocketsOf(upgrade', space) \in SUBSET SocketsOf(upgrade, space)
                            /\ SocketsOf(upgrade, space) \in SUBSET Sockets
  BY DEF SocketsOf
<1>2. \A space \in Spaces : Cardinality(SocketsOf(upgrade', space)) <= PER_SPACE
  <2> TAKE space \in Spaces
  <2>1. IsFiniteSet(SocketsOf(upgrade, space))
    BY <1>1, RegistryAssumption, NoMore
  <2>2. /\ Cardinality(SocketsOf(upgrade', space)) <= Cardinality(SocketsOf(upgrade, space))
        /\ Cardinality(SocketsOf(upgrade', space)) \in Nat /\ Cardinality(SocketsOf(upgrade, space)) \in Nat
    BY <1>1, <2>1, NoMore
  <2>3. Cardinality(SocketsOf(upgrade, space)) <= PER_SPACE /\ PER_SPACE \in Nat
    BY RegistryAssumption DEF RegistryInv
  <2> QED BY <2>2, <2>3
<1>3. OnTheirHub(upgrade', registry', clients')
  BY DEF RegistryInv, OnTheirHub
<1>4. IdleHaveNone(idle', clients') /\ RegisteredRun(registry', task')
  BY DEF RegistryInv
<1>5. /\ \A space \in Spaces : Cardinality(Counted(registry', space)) <= HUBS_PER_SPACE
      /\ Cardinality(CountedInAll(registry')) <= HUBS
  BY DEF RegistryInv
<1> QED BY <1>2, <1>3, <1>4, <1>5 DEF RegistryInv

(* The sockets of a caller, when one of them moves on. *)
LEMMA HeldWhileCounted ==
    ASSUME RegistryInv, NEW s \in Sockets, NEW to \in [at : {"counted", "joined", "closing"}, hub : Hubs],
           upgrade[s].at \in {"counted", "joined", "closing"}, UNCHANGED opened,
           upgrade' = [upgrade EXCEPT ![s] = to]
    PROVE  \A p \in People : opened'[p] = Cardinality(HeldBy(upgrade', p)) /\ opened'[p] <= PER_CALLER
<1>1. to.at \in {"counted", "joined", "closing"}
  OBVIOUS
<1>2. upgrade \in [Sockets -> [at : {"new", "counted", "joined", "closing", "gone"}, hub : Hubs]]
  BY DEF RegistryInv, RegistryTypeOK, Hubs
<1>3. upgrade'[s] = to /\ \A t \in Sockets : t # s => upgrade'[t] = upgrade[t]
  BY <1>2
<1>4. \A p \in People : HeldBy(upgrade', p) = HeldBy(upgrade, p)
  BY <1>1, <1>3 DEF HeldBy
<1> QED BY <1>4 DEF RegistryInv

(* Open::take counts the socket, or turns it away. *)
LEMMA TakeSocketStep ==
    ASSUME RegistryInv, NEW s \in Sockets, TakeSocket(s)
    PROVE  RegistryInv'
<1> DEFINE p == CallerOf[s]
<1>1. /\ upgrade \in [Sockets -> [at : {"new", "counted", "joined", "closing", "gone"}, hub : Hubs]]
      /\ opened \in [People -> Nat] /\ p \in People /\ PER_CALLER \in Nat /\ upgrade[s].at = "new"
  BY RegistryAssumption DEF RegistryInv, RegistryTypeOK, Hubs, TakeSocket
<1>2. UNCHANGED <<registry, clients, idle, task>>
  BY DEF TakeSocket
<1>3. ASSUME NEW q \in People
      PROVE  HeldBy(upgrade, q) \in SUBSET Sockets /\ IsFiniteSet(HeldBy(upgrade, q))
             /\ opened[q] = Cardinality(HeldBy(upgrade, q)) /\ opened[q] <= PER_CALLER
  <2>1. HeldBy(upgrade, q) \in SUBSET Sockets
    BY DEF HeldBy
  <2> QED BY <2>1, NoMore, RegistryAssumption DEF RegistryInv
<1>4. CASE opened[p] >= PER_CALLER
  <2>1. upgrade' = [upgrade EXCEPT ![s].at = "gone"] /\ UNCHANGED opened
    BY <1>4 DEF TakeSocket, At
  <2>2. /\ upgrade' \in [Sockets -> [at : {"new", "counted", "joined", "closing", "gone"}, hub : Hubs]]
        /\ upgrade'[s].at = "gone" /\ \A t \in Sockets : t # s => upgrade'[t] = upgrade[t]
    BY <1>1, <2>1
  <2>3. \A q \in People : HeldBy(upgrade', q) = HeldBy(upgrade, q)
    BY <1>1, <2>2 DEF HeldBy
  <2>4. RegistryTypeOK'
    BY <1>2, <2>1, <2>2 DEF RegistryInv, RegistryTypeOK, Hubs
  <2> QED BY <1>2, <1>3, <2>1, <2>2, <2>3, <2>4, NobodyJoins
<1>5. CASE ~(opened[p] >= PER_CALLER)
  <2>1. upgrade' = [upgrade EXCEPT ![s].at = "counted"] /\ opened' = [opened EXCEPT ![p] = @ + 1]
    BY <1>5 DEF TakeSocket, At
  <2>2. /\ upgrade' \in [Sockets -> [at : {"new", "counted", "joined", "closing", "gone"}, hub : Hubs]]
        /\ upgrade'[s].at = "counted" /\ \A t \in Sockets : t # s => upgrade'[t] = upgrade[t]
    BY <1>1, <2>1
  <2>3. \A q \in People : q # p => HeldBy(upgrade', q) = HeldBy(upgrade, q)
    BY <1>1, <2>2 DEF HeldBy
  <2>4. HeldBy(upgrade', p) = HeldBy(upgrade, p) \cup {s} /\ s \notin HeldBy(upgrade, p)
    BY <1>1, <2>2 DEF HeldBy
  <2>5. Cardinality(HeldBy(upgrade', p)) = Cardinality(HeldBy(upgrade, p)) + 1
    <3> DEFINE B == HeldBy(upgrade, p)
    <3>1. IsFiniteSet(B) /\ s \notin B /\ HeldBy(upgrade', p) = B \cup {s}
      BY <1>1, <1>3, <2>4
    <3> HIDE DEF B
    <3>2. Cardinality(B \cup {s}) = Cardinality(B) + 1
      BY <3>1, FS_AddElement
    <3> QED BY <3>1, <3>2 DEF B
  <2>6. /\ opened' \in [People -> Nat] /\ opened'[p] = opened[p] + 1
        /\ \A q \in People : q # p => opened'[q] = opened[q]
    BY <1>1, <2>1
  <2>7. RegistryTypeOK'
    BY <1>2, <2>2, <2>6 DEF RegistryInv, RegistryTypeOK, Hubs
  <2>8. \A q \in People : opened'[q] = Cardinality(HeldBy(upgrade', q)) /\ opened'[q] <= PER_CALLER
    <3> TAKE q \in People
    <3>1. CASE q = p
      <4>1. opened[p] = Cardinality(HeldBy(upgrade, p)) /\ opened[p] \in Nat
        BY <1>1, <1>3
      <4>2. opened[p] + 1 <= PER_CALLER
        BY <1>1, <1>5
      <4> QED BY <2>5, <2>6, <3>1, <4>1, <4>2
    <3>2. CASE q # p
      BY <1>3, <2>3, <2>6, <3>2
    <3> QED BY <3>1, <3>2
  <2> QED BY <1>2, <2>2, <2>7, <2>8, NobodyJoins
<1> QED BY <1>4, <1>5

(* A join that is refused and an upgrade that fails keep the socket counted. *)
LEMMA ClosingStep ==
    ASSUME RegistryInv, NEW s \in Sockets, RefuseJoin(s) \/ RejectUpgrade(s)
    PROVE  RegistryInv'
<1> DEFINE to == [at |-> "closing", hub |-> upgrade[s].hub]
<1>1. /\ upgrade \in [Sockets -> [at : {"new", "counted", "joined", "closing", "gone"}, hub : Hubs]]
      /\ upgrade[s].at = "counted" /\ UNCHANGED <<opened, registry, clients, idle, task>>
      /\ upgrade' = [upgrade EXCEPT ![s].at = "closing"]
  BY DEF RegistryInv, RegistryTypeOK, Hubs, RefuseJoin, RejectUpgrade, At
<1>2. upgrade' = [upgrade EXCEPT ![s] = to] /\ to \in [at : {"counted", "joined", "closing"}, hub : Hubs]
  <2>1. upgrade[s] \in [at : {"new", "counted", "joined", "closing", "gone"}, hub : Hubs]
    BY <1>1
  <2>2. [upgrade[s] EXCEPT !.at = "closing"] = to
    BY <2>1
  <2>3. upgrade[s].hub \in Hubs
    BY <2>1
  <2> QED BY <1>1, <2>2, <2>3
<1>3. /\ upgrade' \in [Sockets -> [at : {"new", "counted", "joined", "closing", "gone"}, hub : Hubs]]
      /\ upgrade'[s].at = "closing" /\ \A t \in Sockets : t # s => upgrade'[t] = upgrade[t]
  BY <1>1
<1>4. \A p \in People : opened'[p] = Cardinality(HeldBy(upgrade', p)) /\ opened'[p] <= PER_CALLER
  <2> HIDE DEF to
  <2> QED BY <1>1, <1>2, HeldWhileCounted
<1>5. RegistryTypeOK'
  BY <1>1, <1>3 DEF RegistryInv, RegistryTypeOK, Hubs
<1> QED BY <1>1, <1>3, <1>4, <1>5, NobodyJoins

(* Held::drop gives back what Open::take counted. *)
LEMMA GiveBackStep ==
    ASSUME RegistryInv, NEW s \in Sockets, GiveBack(s)
    PROVE  RegistryInv'
<1> DEFINE p == CallerOf[s]
<1>1. /\ upgrade \in [Sockets -> [at : {"new", "counted", "joined", "closing", "gone"}, hub : Hubs]]
      /\ opened \in [People -> Nat] /\ p \in People /\ PER_CALLER \in Nat /\ upgrade[s].at = "closing"
      /\ UNCHANGED <<registry, clients, idle, task>>
      /\ upgrade' = [upgrade EXCEPT ![s].at = "gone"] /\ opened' = [opened EXCEPT ![p] = @ - 1]
  BY RegistryAssumption DEF RegistryInv, RegistryTypeOK, Hubs, GiveBack, At
<1>2. /\ upgrade' \in [Sockets -> [at : {"new", "counted", "joined", "closing", "gone"}, hub : Hubs]]
      /\ upgrade'[s].at = "gone" /\ \A t \in Sockets : t # s => upgrade'[t] = upgrade[t]
  BY <1>1
<1>3. \A q \in People : q # p => HeldBy(upgrade', q) = HeldBy(upgrade, q)
  BY <1>1, <1>2 DEF HeldBy
<1>4. HeldBy(upgrade', p) = HeldBy(upgrade, p) \ {s} /\ s \in HeldBy(upgrade, p)
      /\ HeldBy(upgrade, p) \in SUBSET Sockets
  BY <1>1, <1>2 DEF HeldBy
<1>5. /\ Cardinality(HeldBy(upgrade', p)) = Cardinality(HeldBy(upgrade, p)) - 1
      /\ Cardinality(HeldBy(upgrade', p)) \in Nat
  <2>1. IsFiniteSet(HeldBy(upgrade, p))
    BY <1>4, RegistryAssumption, NoMore
  <2>2. IsFiniteSet(HeldBy(upgrade', p))
    BY <1>4, <2>1, FS_RemoveElement
  <2> QED BY <1>4, <2>1, <2>2, FS_RemoveElement, FS_CardinalityType
<1>6. opened[p] = Cardinality(HeldBy(upgrade, p)) /\ opened[p] <= PER_CALLER
  BY <1>1 DEF RegistryInv
<1>7. /\ opened' \in [People -> Nat] /\ opened'[p] = opened[p] - 1
      /\ \A q \in People : q # p => opened'[q] = opened[q]
  <2>1. opened[p] - 1 \in Nat
    BY <1>5, <1>6
  <2> QED BY <1>1, <2>1
<1>8. RegistryTypeOK'
  BY <1>1, <1>2, <1>7 DEF RegistryInv, RegistryTypeOK, Hubs
<1>9. \A q \in People : opened'[q] = Cardinality(HeldBy(upgrade', q)) /\ opened'[q] <= PER_CALLER
  <2> TAKE q \in People
  <2>1. CASE q = p
    BY <1>1, <1>5, <1>6, <1>7, <2>1
  <2>2. CASE q # p
    BY <1>3, <1>7, <2>2 DEF RegistryInv
  <2> QED BY <2>1, <2>2
<1> QED BY <1>1, <1>2, <1>8, <1>9, NobodyJoins


(* A socket joins hub h, which its view is registered with and which runs,   *)
(* in a space with room.                                                     *)
LEMMA OpensStep ==
    ASSUME RegistryInv, NEW s \in Sockets, upgrade[s].at = "counted", NEW h \in HubIds, Opens(s, h),
           Cardinality(SocketsOf(upgrade, Space(s))) < PER_SPACE,
           registry' \in [Views -> Hubs], task' \in [HubIds -> {"none", "runs", "stopped"}],
           registry'[ViewOf[s]] = h,
           \A v \in Views : \/ registry'[v] = registry[v] \/ registry[v] \in Members(idle)
                            \/ (v = ViewOf[s] /\ registry[v] = NoHub),
           RegisteredRun(registry', task'),
           \A space \in Spaces : Cardinality(Counted(registry', space)) <= HUBS_PER_SPACE,
           Cardinality(CountedInAll(registry')) <= HUBS
    PROVE  RegistryInv'
<1> DEFINE to == [at |-> "joined", hub |-> h]
<1>1. /\ upgrade \in [Sockets -> [at : {"new", "counted", "joined", "closing", "gone"}, hub : Hubs]]
      /\ clients \in [HubIds -> SUBSET Sockets] /\ opened \in [People -> Nat] /\ UNCHANGED opened
      /\ upgrade' = [upgrade EXCEPT ![s] = to]
      /\ clients' = [clients EXCEPT ![h] = @ \cup {s}] /\ idle' = Without(idle, h)
  BY DEF RegistryInv, RegistryTypeOK, Hubs, Opens, Besides
<1>2. /\ upgrade' \in [Sockets -> [at : {"new", "counted", "joined", "closing", "gone"}, hub : Hubs]]
      /\ upgrade'[s] = to /\ \A t \in Sockets : t # s => upgrade'[t] = upgrade[t]
      /\ to \in [at : {"counted", "joined", "closing"}, hub : Hubs]
  BY <1>1 DEF Hubs
<1>3. /\ clients' \in [HubIds -> SUBSET Sockets] /\ clients'[h] = clients[h] \cup {s}
      /\ \A g \in HubIds : g # h => clients'[g] = clients[g]
  BY <1>1
<1>4. IdleHaveNone(idle, clients) /\ OnTheirHub(upgrade, registry, clients)
  BY DEF RegistryInv
<1>5. IdleHaveNone(idle', clients')
  <2>1. idle \in Seq(HubIds) /\ \A i, j \in 1..Len(idle) : idle[i] = idle[j] => i = j
    BY <1>4 DEF IdleHaveNone
  <2>2. /\ Without(idle, h) \in Seq(HubIds)
        /\ \A i, j \in 1..Len(Without(idle, h)) : Without(idle, h)[i] = Without(idle, h)[j] => i = j
        /\ Members(Without(idle, h)) = Members(idle) \ {h}
    BY <2>1, WithoutOrder
  <2>3. Members(idle) \subseteq HubIds
    BY <2>1, ElementOfSeq DEF Members
  <2>4. \A g \in Members(idle) \ {h} : clients'[g] = {}
    BY <1>3, <1>4, <2>3 DEF IdleHaveNone
  <2> QED BY <1>1, <2>2, <2>4 DEF IdleHaveNone
<1>6. OnTheirHub(upgrade', registry', clients')
  <2> SUFFICES ASSUME NEW t \in Sockets, upgrade'[t].at = "joined"
               PROVE  /\ upgrade'[t].hub \in HubIds
                      /\ registry'[ViewOf[t]] = upgrade'[t].hub
                      /\ t \in clients'[upgrade'[t].hub]
    BY DEF OnTheirHub
  <2>1. CASE t = s
    BY <1>2, <1>3, <2>1
  <2>2. CASE t # s
    <3> DEFINE g == upgrade[t].hub
    <3>1. upgrade'[t] = upgrade[t] /\ upgrade[t].at = "joined"
      BY <1>2, <2>2
    <3>2. g \in HubIds /\ registry[ViewOf[t]] = g /\ t \in clients[g] /\ ViewOf[t] \in Views /\ g # NoHub
      BY <1>4, <3>1, RegistryAssumption DEF OnTheirHub
    <3>3. g \notin Members(idle)
      BY <1>4, <3>2 DEF IdleHaveNone
    <3>4. registry'[ViewOf[t]] = g
      BY <3>2, <3>3
    <3> HIDE DEF g
    <3>5. t \in clients'[g]
      BY <1>3, <3>2
    <3> QED BY <3>1, <3>2, <3>4, <3>5 DEF g
  <2> QED BY <2>1, <2>2
<1>7. \A space \in Spaces : Cardinality(SocketsOf(upgrade', space)) <= PER_SPACE
  <2> TAKE space \in Spaces
  <2>1. CASE space = Space(s)
    <3> DEFINE B == SocketsOf(upgrade, space)
    <3>1. SocketsOf(upgrade', space) = B \cup {s}
      BY <1>1, <1>2, <2>1 DEF SocketsOf
    <3>2. B \in SUBSET Sockets
      BY DEF SocketsOf
    <3>3. IsFiniteSet(B) /\ PER_SPACE \in Nat
      BY <3>2, NoMore, RegistryAssumption
    <3>4. Cardinality(B) < PER_SPACE
      BY <2>1
    <3> HIDE DEF B
    <3> QED BY <3>1, <3>3, <3>4, OneMore
  <2>2. CASE space # Space(s)
    <3>1. SocketsOf(upgrade', space) = SocketsOf(upgrade, space)
      BY <1>2, <2>2 DEF SocketsOf
    <3> QED BY <3>1 DEF RegistryInv
  <2> QED BY <2>1, <2>2
<1>8. \A p \in People : opened'[p] = Cardinality(HeldBy(upgrade', p)) /\ opened'[p] <= PER_CALLER
  <2> HIDE DEF to
  <2> QED BY <1>1, <1>2, HeldWhileCounted
<1>9. RegistryTypeOK'
  BY <1>1, <1>2, <1>3 DEF RegistryTypeOK, Hubs
<1> QED BY <1>5, <1>6, <1>7, <1>8, <1>9 DEF RegistryInv

(* The sockets of a space are among the connections of its hubs: the guard   *)
(* of a join counts them all.                                                *)
LEMMA NoneEscapes ==
    ASSUME RegistryInv, NEW s \in Sockets, ~SpaceIsFull(s)
    PROVE  Cardinality(SocketsOf(upgrade, Space(s))) < PER_SPACE
<1> DEFINE space == Space(s)
<1>1. InSpace(space) \in SUBSET Sockets
  <2>1. \A v \in Counted(registry, space) : clients[registry[v]] \subseteq Sockets
    BY DEF Counted, RegistryInv, RegistryTypeOK
  <2> QED BY <2>1 DEF InSpace
<1>2. SocketsOf(upgrade, space) \in SUBSET InSpace(space)
  <2> SUFFICES ASSUME NEW t \in SocketsOf(upgrade, space)
               PROVE  t \in InSpace(space)
    OBVIOUS
  <2>1. t \in Sockets /\ upgrade[t].at = "joined" /\ SpaceOf[ViewOf[t]] = space
    BY DEF SocketsOf, Space
  <2>2. /\ upgrade[t].hub \in HubIds /\ registry[ViewOf[t]] = upgrade[t].hub
        /\ t \in clients[upgrade[t].hub]
    BY <2>1 DEF RegistryInv, OnTheirHub
  <2>3. ViewOf[t] \in Counted(registry, space)
    BY <2>1, <2>2, RegistryAssumption DEF Counted
  <2> QED BY <2>2, <2>3 DEF InSpace
<1>3. IsFiniteSet(InSpace(space))
  BY <1>1, RegistryAssumption, NoMore
<1>4. /\ Cardinality(SocketsOf(upgrade, space)) <= Cardinality(InSpace(space))
      /\ Cardinality(SocketsOf(upgrade, space)) \in Nat /\ Cardinality(InSpace(space)) \in Nat
  BY <1>2, <1>3, NoMore
<1>5. PER_SPACE \in Nat /\ ~(Cardinality(InSpace(space)) >= PER_SPACE)
  BY RegistryAssumption DEF SpaceIsFull
<1> QED BY <1>4, <1>5

(* Hubs::join of a registered hub. *)
LEMMA JoinHubStep ==
    ASSUME RegistryInv, NEW s \in Sockets, JoinHub(s)
    PROVE  RegistryInv'
<1> DEFINE h == registry[ViewOf[s]]
<1>1. /\ upgrade[s].at = "counted" /\ ~SpaceIsFull(s) /\ h # NoHub /\ Opens(s, h)
      /\ registry' = registry /\ task' = task
  BY DEF JoinHub
<1>2. /\ registry \in [Views -> Hubs] /\ task \in [HubIds -> {"none", "runs", "stopped"}]
      /\ RegisteredRun(registry, task) /\ Cardinality(CountedInAll(registry)) <= HUBS
      /\ \A space \in Spaces : Cardinality(Counted(registry, space)) <= HUBS_PER_SPACE
  BY DEF RegistryInv, RegistryTypeOK, Hubs
<1>3. h \in HubIds
  BY <1>1, <1>2, RegistryAssumption DEF Hubs
<1>4. Cardinality(SocketsOf(upgrade, Space(s))) < PER_SPACE
  BY <1>1, NoneEscapes
<1>5. registry'[ViewOf[s]] = h
  BY <1>1
<1> HIDE DEF h
<1> QED BY <1>1, <1>2, <1>3, <1>4, <1>5, OpensStep

(* And of a new one, for which room was made. *)
LEMMA NewHubStep ==
    ASSUME RegistryInv, NEW s \in Sockets, NewHub(s)
    PROVE  RegistryInv'
<1> DEFINE view == ViewOf[s]
           space == Space(s)
<1>1. /\ upgrade[s].at = "counted" /\ ~SpaceIsFull(s) /\ registry[view] = NoHub
      /\ view \in Views /\ space \in Spaces /\ space = SpaceOf[view]
      /\ HUBS \in Nat /\ HUBS_PER_SPACE \in Nat
  BY RegistryAssumption DEF NewHub, Space
<1>2. PICK h \in HubIds, reg \in make_room(space) :
        /\ task[h] = "none"
        /\ registry' = [reg EXCEPT ![view] = h]
        /\ task' = [task EXCEPT ![h] = "runs"]
        /\ Opens(s, h)
  BY DEF NewHub
<1>3. /\ reg \in [Views -> Hubs]
      /\ \A v \in Views : reg[v] # NoHub => reg[v] = registry[v]
      /\ \A v \in Views : reg[v] = registry[v] \/ registry[v] \in Members(idle)
      /\ Cardinality(Counted(reg, space)) < HUBS_PER_SPACE
      /\ Cardinality(CountedInAll(reg)) < HUBS
  BY <1>1, <1>2, RoomIsMade
<1> HIDE DEF view, space
<1>4. /\ registry' \in [Views -> Hubs] /\ registry'[view] = h
      /\ \A v \in Views : v # view => registry'[v] = reg[v]
  BY <1>1, <1>2, <1>3 DEF Hubs
<1>5. task \in [HubIds -> {"none", "runs", "stopped"}] /\ registry \in [Views -> Hubs]
  BY DEF RegistryInv, RegistryTypeOK, Hubs
<1>6. task' \in [HubIds -> {"none", "runs", "stopped"}] /\ task'[h] = "runs"
      /\ \A g \in HubIds : g # h => task'[g] = task[g]
  BY <1>2, <1>5
<1>7. RegisteredRun(registry', task')
  <2> SUFFICES ASSUME NEW v \in Views, registry'[v] # NoHub PROVE task'[registry'[v]] = "runs"
    BY DEF RegisteredRun
  <2>1. CASE v = view
    BY <1>4, <1>6, <2>1
  <2>2. CASE v # view
    <3>1. registry'[v] = registry[v] /\ registry[v] # NoHub /\ registry[v] \in HubIds
      BY <1>3, <1>4, <1>5, <2>2 DEF Hubs
    <3>2. task[registry[v]] = "runs"
      BY <3>1 DEF RegistryInv, RegisteredRun
    <3> QED BY <1>2, <1>6, <3>1, <3>2
  <2> QED BY <2>1, <2>2
<1>8. \A sp \in Spaces : Cardinality(Counted(registry', sp)) <= HUBS_PER_SPACE
  <2> TAKE sp \in Spaces
  <2>1. CASE sp = space
    <3> DEFINE B == Counted(reg, space)
    <3>1. Counted(registry', sp) = B \cup {view}
      BY <1>1, <1>2, <1>4, <2>1, RegistryAssumption DEF Counted
    <3>2. B \in SUBSET Views
      BY DEF Counted
    <3>3. IsFiniteSet(B)
      BY <3>2, NoMore, RegistryAssumption
    <3>4. Cardinality(B) < HUBS_PER_SPACE
      BY <1>3
    <3> HIDE DEF B
    <3> QED BY <1>1, <3>1, <3>3, <3>4, OneMore
  <2>2. CASE sp # space
    <3>1. Counted(registry', sp) \in SUBSET Counted(registry, sp) /\ Counted(registry, sp) \in SUBSET Views
      BY <1>1, <1>3, <1>4, <2>2 DEF Counted
    <3>2. IsFiniteSet(Counted(registry, sp))
      BY <3>1, NoMore, RegistryAssumption
    <3>3. /\ Cardinality(Counted(registry', sp)) <= Cardinality(Counted(registry, sp))
          /\ Cardinality(Counted(registry', sp)) \in Nat /\ Cardinality(Counted(registry, sp)) \in Nat
      BY <3>1, <3>2, NoMore
    <3>4. Cardinality(Counted(registry, sp)) <= HUBS_PER_SPACE
      BY DEF RegistryInv
    <3> QED BY <1>1, <3>3, <3>4
  <2> QED BY <2>1, <2>2
<1>9. Cardinality(CountedInAll(registry')) <= HUBS
  <2> DEFINE B == CountedInAll(reg)
  <2>1. CountedInAll(registry') = B \cup {view}
    BY <1>1, <1>2, <1>4, RegistryAssumption DEF CountedInAll
  <2>2. B \in SUBSET Views
    BY DEF CountedInAll
  <2>3. IsFiniteSet(B)
    BY <2>2, NoMore, RegistryAssumption
  <2>4. Cardinality(B) < HUBS
    BY <1>3
  <2> HIDE DEF B
  <2> QED BY <1>1, <2>1, <2>3, <2>4, OneMore
<1>10. \A v \in Views : \/ registry'[v] = registry[v] \/ registry[v] \in Members(idle)
                        \/ (v = ViewOf[s] /\ registry[v] = NoHub)
  BY <1>1, <1>3, <1>4 DEF view
<1>11. Cardinality(SocketsOf(upgrade, Space(s))) < PER_SPACE
  BY <1>1, NoneEscapes
<1>12. registry'[ViewOf[s]] = h
  BY <1>4 DEF view
<1> QED BY <1>1, <1>2, <1>4, <1>6, <1>7, <1>8, <1>9, <1>10, <1>11, <1>12, OpensStep

(* Hub::close: the hub waits once its last connection is gone. *)
LEMMA CloseSocketStep ==
    ASSUME RegistryInv, NEW s \in Sockets, CloseSocket(s)
    PROVE  RegistryInv'
<1> DEFINE h == upgrade[s].hub
           to == [at |-> "closing", hub |-> h]
<1>1. /\ upgrade \in [Sockets -> [at : {"new", "counted", "joined", "closing", "gone"}, hub : Hubs]]
      /\ clients \in [HubIds -> SUBSET Sockets] /\ upgrade[s].at = "joined"
      /\ UNCHANGED <<opened, registry, task>>
      /\ clients' = [clients EXCEPT ![h] = @ \ {s}]
      /\ idle' = IF clients[h] = {s} THEN Append(idle, h) ELSE idle
      /\ upgrade' = [upgrade EXCEPT ![s].at = "closing"]
  BY DEF RegistryInv, RegistryTypeOK, Hubs, CloseSocket, At
<1>2. h \in HubIds /\ s \in clients[h]
  BY <1>1 DEF RegistryInv, OnTheirHub
<1>3. /\ upgrade' \in [Sockets -> [at : {"new", "counted", "joined", "closing", "gone"}, hub : Hubs]]
      /\ upgrade'[s].at = "closing" /\ \A t \in Sockets : t # s => upgrade'[t] = upgrade[t]
  BY <1>1
<1>4. upgrade' = [upgrade EXCEPT ![s] = to] /\ to \in [at : {"counted", "joined", "closing"}, hub : Hubs]
  <2>1. upgrade[s] \in [at : {"new", "counted", "joined", "closing", "gone"}, hub : Hubs]
    BY <1>1
  <2>2. [upgrade[s] EXCEPT !.at = "closing"] = to
    BY <2>1
  <2>3. upgrade[s].hub \in Hubs
    BY <2>1
  <2> QED BY <1>1, <2>2, <2>3
<1> HIDE DEF to
<1>5. \A p \in People : opened'[p] = Cardinality(HeldBy(upgrade', p)) /\ opened'[p] <= PER_CALLER
  BY <1>1, <1>4, HeldWhileCounted
<1> HIDE DEF h
<1>6. /\ clients' \in [HubIds -> SUBSET Sockets] /\ clients'[h] = clients[h] \ {s}
      /\ \A g \in HubIds : g # h => clients'[g] = clients[g]
  BY <1>1, <1>2
<1>7. IdleHaveNone(idle', clients')
  <2>1. /\ idle \in Seq(HubIds) /\ \A i, j \in 1..Len(idle) : idle[i] = idle[j] => i = j
        /\ Len(idle) \in Nat /\ \A i \in 1..Len(idle) : idle[i] \in HubIds /\ clients[idle[i]] = {}
    BY ElementOfSeq, LenProperties DEF RegistryInv, IdleHaveNone, Members
  <2>2. \A i \in 1..Len(idle) : idle[i] # h /\ clients'[idle[i]] = {}
    BY <1>2, <1>6, <2>1
  <2>3. CASE clients[h] = {s}
    <3>1. idle' = Append(idle, h)
      BY <1>1, <2>3
    <3>2. /\ idle' \in Seq(HubIds) /\ Len(idle') = Len(idle) + 1 /\ idle'[Len(idle) + 1] = h
          /\ \A i \in 1..Len(idle) : idle'[i] = idle[i]
      BY <1>2, <2>1, <3>1, AppendProperties
    <3>3. clients'[h] = {}
      BY <1>6, <2>3
    <3>4. \A i \in 1..(Len(idle) + 1) : i \in 1..Len(idle) \/ i = Len(idle) + 1
      BY <2>1
    <3>5. \A i, j \in 1..Len(idle') : idle'[i] = idle'[j] => i = j
      BY <2>1, <2>2, <3>2, <3>4
    <3>6. \A g \in Members(idle') : clients'[g] = {}
      <4> SUFFICES ASSUME NEW i \in 1..(Len(idle) + 1) PROVE clients'[idle'[i]] = {}
        BY <3>2 DEF Members
      <4> QED BY <2>2, <3>2, <3>3, <3>4
    <3> QED BY <3>2, <3>5, <3>6 DEF IdleHaveNone
  <2>4. CASE clients[h] # {s}
    BY <1>1, <2>1, <2>2, <2>4 DEF IdleHaveNone, Members
  <2> QED BY <2>3, <2>4
<1>8. OnTheirHub(upgrade', registry', clients')
  BY <1>1, <1>3, <1>6 DEF RegistryInv, OnTheirHub
<1>9. \A space \in Spaces : Cardinality(SocketsOf(upgrade', space)) <= PER_SPACE
  <2> TAKE space \in Spaces
  <2>1. SocketsOf(upgrade', space) \in SUBSET SocketsOf(upgrade, space)
        /\ SocketsOf(upgrade, space) \in SUBSET Sockets
    BY <1>3 DEF SocketsOf
  <2>2. IsFiniteSet(SocketsOf(upgrade, space))
    BY <2>1, RegistryAssumption, NoMore
  <2>3. /\ Cardinality(SocketsOf(upgrade', space)) <= Cardinality(SocketsOf(upgrade, space))
        /\ Cardinality(SocketsOf(upgrade', space)) \in Nat /\ Cardinality(SocketsOf(upgrade, space)) \in Nat
    BY <2>1, <2>2, NoMore
  <2>4. Cardinality(SocketsOf(upgrade, space)) <= PER_SPACE /\ PER_SPACE \in Nat
    BY RegistryAssumption DEF RegistryInv
  <2> QED BY <2>3, <2>4
<1>10. RegistryTypeOK'
  BY <1>1, <1>3, <1>6 DEF RegistryInv, RegistryTypeOK, Hubs
<1> QED BY <1>1, <1>5, <1>7, <1>8, <1>9, <1>10 DEF RegistryInv

(* leave_if_idle() stops a hub nobody is on. *)
LEMMA StopsStep ==
    ASSUME RegistryInv, NEW h \in HubIds, Stops(h)
    PROVE  RegistryInv'
<1>1. /\ UNCHANGED <<opened, upgrade, clients>> /\ idle' = Without(idle, h)
      /\ registry' = [v \in Views |-> IF registry[v] = h THEN NoHub ELSE registry[v]]
      /\ task' = [task EXCEPT ![h] = "stopped"]
      /\ (\E v \in Views : registry[v] = h) => clients[h] = {}
  <2> DEFINE held == {v \in Views : registry[v] = h}
  <2>1. /\ UNCHANGED <<opened, upgrade, clients>> /\ idle' = Without(idle, h)
        /\ registry' = [v \in Views |-> IF v \in held THEN NoHub ELSE registry[v]]
        /\ task' = [task EXCEPT ![h] = "stopped"]
        /\ held # {} => clients[h] = {}
    BY DEF Stops, Besides
  <2>2. registry' = [v \in Views |-> IF registry[v] = h THEN NoHub ELSE registry[v]]
    BY <2>1
  <2> QED BY <2>1, <2>2
<1>2. /\ registry \in [Views -> Hubs] /\ task \in [HubIds -> {"none", "runs", "stopped"}]
  BY DEF RegistryInv, RegistryTypeOK, Hubs
<1>3. /\ registry' \in [Views -> Hubs] /\ task' \in [HubIds -> {"none", "runs", "stopped"}]
      /\ \A g \in HubIds : g # h => task'[g] = task[g]
      /\ \A v \in Views : registry'[v] = IF registry[v] = h THEN NoHub ELSE registry[v]
  BY <1>1, <1>2 DEF Hubs
<1>4. RegistryTypeOK'
  BY <1>1, <1>3 DEF RegistryInv, RegistryTypeOK, Hubs
<1>5. IdleHaveNone(idle', clients')
  <2>1. idle \in Seq(HubIds) /\ \A i, j \in 1..Len(idle) : idle[i] = idle[j] => i = j
    BY DEF RegistryInv, IdleHaveNone
  <2>2. /\ Without(idle, h) \in Seq(HubIds)
        /\ \A i, j \in 1..Len(Without(idle, h)) : Without(idle, h)[i] = Without(idle, h)[j] => i = j
        /\ Members(Without(idle, h)) = Members(idle) \ {h}
    BY <2>1, WithoutOrder
  <2>3. \A g \in Members(idle) \ {h} : clients'[g] = {}
    BY <1>1 DEF RegistryInv, IdleHaveNone
  <2> QED BY <1>1, <2>2, <2>3 DEF IdleHaveNone
<1>6. OnTheirHub(upgrade', registry', clients')
  <2> SUFFICES ASSUME NEW s \in Sockets, upgrade[s].at = "joined"
               PROVE  /\ upgrade[s].hub \in HubIds
                      /\ registry'[ViewOf[s]] = upgrade[s].hub
                      /\ s \in clients[upgrade[s].hub]
    BY <1>1 DEF OnTheirHub
  <2>1. /\ upgrade[s].hub \in HubIds /\ registry[ViewOf[s]] = upgrade[s].hub
        /\ s \in clients[upgrade[s].hub] /\ ViewOf[s] \in Views
    BY RegistryAssumption DEF RegistryInv, OnTheirHub
  <2>2. upgrade[s].hub # h
    BY <1>1, <2>1
  <2> QED BY <1>3, <2>1, <2>2
<1>7. RegisteredRun(registry', task')
  BY <1>2, <1>3 DEF RegistryInv, RegisteredRun, Hubs
<1>8. /\ \A space \in Spaces : Counted(registry', space) \in SUBSET Counted(registry, space)
                               /\ Counted(registry, space) \in SUBSET Views
      /\ CountedInAll(registry') \in SUBSET CountedInAll(registry) /\ CountedInAll(registry) \in SUBSET Views
  BY <1>3 DEF Counted, CountedInAll
<1>9. /\ \A space \in Spaces : Cardinality(Counted(registry', space)) <= HUBS_PER_SPACE
      /\ Cardinality(CountedInAll(registry')) <= HUBS
  <2>1. ASSUME NEW S, S \in SUBSET Views, NEW T, T \in SUBSET S
        PROVE  Cardinality(T) <= Cardinality(S) /\ Cardinality(T) \in Nat /\ Cardinality(S) \in Nat
    <3>1. IsFiniteSet(S)
      BY <2>1, NoMore, RegistryAssumption
    <3> QED BY <2>1, <3>1, NoMore
  <2>2. /\ HUBS \in Nat /\ HUBS_PER_SPACE \in Nat /\ Cardinality(CountedInAll(registry)) <= HUBS
        /\ \A space \in Spaces : Cardinality(Counted(registry, space)) <= HUBS_PER_SPACE
    BY RegistryAssumption DEF RegistryInv
  <2>3. Cardinality(CountedInAll(registry')) <= HUBS
    BY <1>8, <2>1, <2>2
  <2>4. ASSUME NEW space \in Spaces
        PROVE  Cardinality(Counted(registry', space)) <= HUBS_PER_SPACE
    BY <1>8, <2>1, <2>2
  <2> QED BY <2>3, <2>4
<1> QED BY <1>1, <1>4, <1>5, <1>6, <1>7, <1>9 DEF RegistryInv

(* fanout/socket.rs: for any callers, views, spaces and caps, whoever is      *)
(* connected is on the registered and running hub of its view, and no cap is  *)
(* passed, whatever order the locks are taken in.                             *)
THEOREM ClientsAreServed == RegistrySpec => []EveryClientIsServed
<1>1. RegistryInit => RegistryInv
  <2> SUFFICES ASSUME RegistryInit PROVE RegistryInv
    OBVIOUS
  <2>1. RegistryTypeOK
    BY DEF RegistryInit, RegistryTypeOK
  <2>2. /\ \A p \in People : HeldBy(upgrade, p) = {} /\ opened[p] = 0
        /\ \A space \in Spaces : SocketsOf(upgrade, space) = {} /\ Counted(registry, space) = {}
        /\ CountedInAll(registry) = {}
    BY DEF RegistryInit, HeldBy, SocketsOf, Counted, CountedInAll
  <2>3. idle = <<>> /\ Len(idle) = 0 /\ idle \in Seq(HubIds)
    BY DEF RegistryInit
  <2>4. IdleHaveNone(idle, clients)
    BY <2>3 DEF IdleHaveNone, Members
  <2>5. Cardinality({}) = 0
    BY FS_EmptySet
  <2>6. {PER_CALLER, PER_SPACE, HUBS, HUBS_PER_SPACE} \subseteq Nat
    BY RegistryAssumption
  <2>7. /\ \A p \in People : opened[p] = Cardinality(HeldBy(upgrade, p)) /\ opened[p] <= PER_CALLER
        /\ \A space \in Spaces : /\ Cardinality(SocketsOf(upgrade, space)) <= PER_SPACE
                                 /\ Cardinality(Counted(registry, space)) <= HUBS_PER_SPACE
        /\ Cardinality(CountedInAll(registry)) <= HUBS
    BY <2>2, <2>5, <2>6
  <2>8. OnTheirHub(upgrade, registry, clients) /\ RegisteredRun(registry, task)
    BY DEF RegistryInit, OnTheirHub, RegisteredRun
  <2> QED BY <2>1, <2>4, <2>7, <2>8 DEF RegistryInv
<1>2. RegistryInv /\ [RegistryNext]_registryVars => RegistryInv'
  <2> SUFFICES ASSUME RegistryInv, [RegistryNext]_registryVars PROVE RegistryInv'
    OBVIOUS
  <2>1. CASE UNCHANGED registryVars
    <3>1. RegistryTypeOK'
      BY <2>1 DEF RegistryInv, RegistryTypeOK, registryVars
    <3>2. UNCHANGED <<registry, clients, idle, task, upgrade, opened>>
      BY <2>1 DEF registryVars
    <3>3. \A p \in People : opened'[p] = Cardinality(HeldBy(upgrade', p)) /\ opened'[p] <= PER_CALLER
      BY <3>2 DEF RegistryInv
    <3> QED BY <3>1, <3>2, <3>3, NobodyJoins
  <2>2. ASSUME NEW s \in Sockets, TakeSocket(s) \/ JoinHub(s) \/ NewHub(s) \/ RefuseJoin(s)
                                  \/ RejectUpgrade(s) \/ CloseSocket(s) \/ GiveBack(s)
        PROVE  RegistryInv'
    BY <2>2, TakeSocketStep, JoinHubStep, NewHubStep, ClosingStep, CloseSocketStep, GiveBackStep
  <2>3. ASSUME NEW h \in HubIds, Stops(h) PROVE RegistryInv'
    BY <2>3, StopsStep
  <2> QED BY <2>1, <2>2, <2>3 DEF RegistryNext
<1> QED BY <1>1, <1>2, ServedByInv, PTL DEF RegistrySpec

=============================================================================
