--------------------------- MODULE InFlightProofs ---------------------------
(***************************************************************************)
(* The admission layer keeps its books for every number of requests,       *)
(* callers and slots: IndInv is an inductive invariant of InFlight, and    *)
(* the class shares, the callers' shares and the implementation of         *)
(* Admission follow from it.                                               *)
(***************************************************************************)
EXTENDS InFlight, FiniteSetTheorems, TLAPS

(* Every limit that `InFlight::new` computes is a natural number, and a     *)
(* permit taken is one or SLOW_WEIGHT.                                      *)
LEMMA CapacityType ==
    \A s \in Semaphores : Capacity(s) \in Nat /\ Take(s) \in Nat \ {0}
<1>1. Total \in Nat \ {0} /\ SLOW_WEIGHT \in Nat \ {0} /\ Downloads \in Nat
  BY LimitAssumption
<1>2. anonymous_share(Total) \in Nat /\ write_reserve(Total) \in Nat /\ SlowBudget \in Nat
  BY <1>1 DEF anonymous_share, write_reserve, SlowBudget, AtLeast, AtMost
<1>3. AtLeast(Total - write_reserve(Total), 1) \in Nat
  BY <1>1, <1>2 DEF AtLeast
<1>4. AtLeast(SlowBudget \div 2, SLOW_WEIGHT) \in Nat
  BY <1>1, <1>2 DEF AtLeast
<1> QED
  BY <1>1, <1>2, <1>3, <1>4 DEF Semaphores, Capacity, Take

(* What a class can be: the parts of ClassAssumption the proofs use. *)
LEMMA ClassFacts ==
    \A r \in Requests :
        /\ Caller[r] \in Callers
        /\ Class[r].anonymous \in BOOLEAN /\ Class[r].read \in BOOLEAN
        /\ Class[r].loadtest \in BOOLEAN
        /\ Class[r].plain \in BOOLEAN /\ Class[r].download \in BOOLEAN
        /\ Class[r].plain => Class[r].read /\ ~Class[r].download
        /\ Cap(r) \in Nat
  BY ClassAssumption, LimitAssumption DEF Classes, Cap

(* A set of tasks has a number of elements. *)
LEMMA TasksFinite ==
    ASSUME NEW S \in SUBSET Requests
    PROVE  IsFiniteSet(S) /\ Cardinality(S) \in Nat
  BY RequestsFinite, FS_Subset, FS_CardinalityType

(* One task more, one task less. *)
LEMMA AddTask ==
    ASSUME NEW S \in SUBSET Requests, NEW r \in Requests, r \notin S
    PROVE  Cardinality(S \cup {r}) = Cardinality(S) + 1
  BY TasksFinite, FS_AddElement

LEMMA RemoveTask ==
    ASSUME NEW S \in SUBSET Requests, NEW r \in S
    PROVE  Cardinality(S \ {r}) = Cardinality(S) - 1
  BY TasksFinite, FS_RemoveElement

LEMMA AcquireType ==
    ASSUME TypeOK, NEW r \in Requests, NEW s \in Semaphores, Acquire(r, s)
    PROVE  free' \in [Semaphores -> Nat] /\ held' \in [Semaphores -> SUBSET Requests]
  BY CapacityType DEF TypeOK, Acquire

LEMMA ReleaseType ==
    ASSUME TypeOK, NEW r \in Requests, NEW s \in Semaphores, Release(r, s)
    PROVE  free' \in [Semaphores -> Nat] /\ held' \in [Semaphores -> SUBSET Requests]
  BY CapacityType DEF TypeOK, Release

(* Every step keeps the types: the permits and the counts stay naturals. *)
LEMMA TypeStep ==
    ASSUME TypeOK, [Next]_vars
    PROVE  TypeOK'
<1> USE DEF PCs, Answers
<1>1. CASE UNCHANGED vars
  BY <1>1 DEF TypeOK, vars
<1>2. ASSUME NEW r \in Requests, Step(r) PROVE TypeOK'
  <2>1. CASE Enforce(r)
    BY <2>1 DEF TypeOK, Enforce, Goto
  <2>2. CASE LoadtestWrites(r)
    BY <2>2 DEF TypeOK, LoadtestWrites, Goto, Answer
  <2>3. CASE Leave(r)
    BY <2>3 DEF TypeOK, Leave, Goto, Answer
  <2>4. CASE StartDownload(r)
    BY <2>4, AcquireType DEF TypeOK, StartDownload, Semaphores
  <2>5. CASE RefuseDownload(r)
    BY <2>5 DEF TypeOK, RefuseDownload, Goto, Answer
  <2>6. CASE EndDownload(r)
    BY <2>6, ReleaseType DEF TypeOK, EndDownload, Semaphores
  <2>7. CASE HandlerAnswers(r) \/ Abandon(r)
    BY <2>7 DEF TypeOK, HandlerAnswers, Abandon, Goto, Answer
  <2>8. CASE SlowAfter(r) \/ Deadline(r)
    BY <2>8 DEF TypeOK, SlowAfter, Deadline, Goto, Answer
  <2>9. CASE LayerStep(r)
    <3>1. ASSUME NEW s \in SlotOrder, TakeSlot(r, s) PROVE TypeOK'
      <4>1. AfterSlot(r, s) \in PCs
        BY DEF AfterSlot
      <4> QED
        BY <3>1, <4>1, AcquireType DEF TypeOK, TakeSlot, Goto, SlotOrder, Semaphores
    <3>2. ASSUME NEW s \in SlotOrder, RefuseSlot(r, s) PROVE TypeOK'
      BY <3>2 DEF TypeOK, RefuseSlot, Goto, Answer
    <3>3. CASE Admit(r)
      BY <3>3, ClassFacts DEF TypeOK, Admit, Goto
    <3>4. CASE RefuseCaller(r)
      BY <3>4 DEF TypeOK, RefuseCaller, Goto, Answer
    <3>5. ASSUME NEW s \in SlowOrder, TakeSlow(r, s) PROVE TypeOK'
      BY <3>5, AcquireType DEF TypeOK, TakeSlow, Goto, SlowOrder, Semaphores
    <3>6. ASSUME NEW s \in SlowOrder, RefuseSlow(r, s) PROVE TypeOK'
      BY <3>6 DEF TypeOK, RefuseSlow, Goto
    <3>7. CASE Weigh(r)
      <4>1. SLOW_WEIGHT - Weight(r) \in Nat
        BY LimitAssumption DEF Weight
      <4> QED
        BY <3>7, <4>1, ClassFacts DEF TypeOK, Weigh, Goto
    <3>8. CASE RefuseWeigh(r)
      BY <3>8 DEF TypeOK, RefuseWeigh, Goto
    <3>9. ASSUME NEW s \in SlowOrder, Unweigh(r, s) PROVE TypeOK'
      BY <3>9, ReleaseType DEF TypeOK, Unweigh, SlowOrder, Semaphores
    <3>10. CASE NoRoom(r)
      BY <3>10 DEF TypeOK, NoRoom, Goto, Answer
    <3>11. CASE DropTicket(r)
      <4>1. Weight(r) \in Nat
        BY LimitAssumption DEF Weight
      <4> QED
        BY <3>11, <4>1, ClassFacts DEF TypeOK, DropTicket, Goto
    <3>12. ASSUME NEW s \in Semaphores, DropSlot(r, s) PROVE TypeOK'
      BY <3>12, ReleaseType DEF TypeOK, DropSlot
    <3>13. CASE Answered(r)
      BY <3>13 DEF TypeOK, Answered, Goto
    <3> QED
      BY <2>9, <3>1, <3>2, <3>3, <3>4, <3>5, <3>6, <3>7, <3>8, <3>9, <3>10, <3>11, <3>12,
         <3>13 DEF LayerStep
  <2> QED
    BY <1>2, <2>1, <2>2, <2>3, <2>4, <2>5, <2>6, <2>7, <2>8, <2>9 DEF Step
<1> QED
  BY <1>1, <1>2 DEF Next

-----------------------------------------------------------------------------
(* Initially nothing is held and nothing is counted. *)
LEMMA IndInvInit == Init => IndInv
<1> SUFFICES ASSUME Init PROVE IndInv
  OBVIOUS
<1> USE DEF Init
<1>1. TypeOK
  BY CapacityType DEF TypeOK, PCs, Answers
<1>2. PermitsConserved
  BY CapacityType, FS_EmptySet DEF PermitsConserved
<1>3. \A S : S \cap weighed = {} /\ {r \in tickets : S = Caller[r]} = {}
  OBVIOUS
<1>4. \A c \in Callers : TicketsOf(c) = {}
  BY DEF TicketsOf
<1>5. WeightOf({}, weighed) = 0
  BY <1>3, FS_EmptySet, LimitAssumption DEF WeightOf
<1>6. CallerCountExact
  BY <1>4, <1>5 DEF CallerCountExact
<1>7. CallerWithinShare
  <2>1. \A c \in Callers : OrdinaryOf(c) = {} /\ LoadtestOf(c) = {}
    BY <1>4 DEF OrdinaryOf, LoadtestOf
  <2> QED
    BY <2>1, <1>5, LimitAssumption DEF CallerWithinShare
<1>8. HoldersPlaced /\ SlotsHeld /\ TicketsPlaced
  BY DEF HoldersPlaced, SlotsHeld, TicketsPlaced, Slotted, Ticketed, HandlerAlive, Semaphores
<1> QED
  BY <1>1, <1>2, <1>6, <1>7, <1>8 DEF IndInv

-----------------------------------------------------------------------------
(* Permits.  A permit taken by a request that held none, or given back by   *)
(* one that held it, moves between `free` and `held`.                       *)
LEMMA AcquireConserves ==
    ASSUME TypeOK, PermitsConserved, NEW r \in Requests, NEW s \in Semaphores,
           Acquire(r, s), r \notin held[s]
    PROVE  PermitsConserved'
<1> SUFFICES ASSUME NEW t \in Semaphores
             PROVE  free'[t] + Take(t) * Cardinality(held'[t]) = Capacity(t)
  BY DEF PermitsConserved
<1>1. CASE t # s
  BY <1>1 DEF PermitsConserved, Acquire, TypeOK
<1>2. CASE t = s
  <2>1. held'[s] = held[s] \cup {r} /\ free'[s] = free[s] - Take(s)
    BY DEF Acquire, TypeOK
  <2>2. Cardinality(held[s]) \in Nat /\ Cardinality(held'[s]) = Cardinality(held[s]) + 1
    BY <2>1, TasksFinite, AddTask DEF TypeOK
  <2>3. Take(s) \in Nat /\ free[s] \in Nat
    BY CapacityType DEF TypeOK
  <2>4. free[s] + Take(s) * Cardinality(held[s]) = Capacity(s)
    BY DEF PermitsConserved
  <2>5. Take(s) * (Cardinality(held[s]) + 1) = Take(s) * Cardinality(held[s]) + Take(s)
    BY <2>2, <2>3
  <2>6. Take(s) * Cardinality(held[s]) \in Nat
    BY <2>2, <2>3
  <2> QED
    BY <1>2, <2>1, <2>2, <2>3, <2>4, <2>5, <2>6
<1> QED
  BY <1>1, <1>2

LEMMA ReleaseConserves ==
    ASSUME TypeOK, PermitsConserved, NEW r \in Requests, NEW s \in Semaphores, Release(r, s)
    PROVE  PermitsConserved'
<1> SUFFICES ASSUME NEW t \in Semaphores
             PROVE  free'[t] + Take(t) * Cardinality(held'[t]) = Capacity(t)
  BY DEF PermitsConserved
<1>1. CASE t # s
  BY <1>1 DEF PermitsConserved, Release, TypeOK
<1>2. CASE t = s
  <2>1. held'[s] = held[s] \ {r} /\ free'[s] = free[s] + Take(s) /\ r \in held[s]
    BY DEF Release, TypeOK
  <2>2. Cardinality(held'[s]) \in Nat /\ Cardinality(held[s]) = Cardinality(held'[s]) + 1
    <3>1. held[s] \in SUBSET Requests /\ held'[s] \in SUBSET Requests
      BY <2>1 DEF TypeOK
    <3>2. Cardinality(held[s]) \in Nat /\ Cardinality(held'[s]) \in Nat
      BY <3>1, TasksFinite
    <3>3. Cardinality(held[s] \ {r}) = Cardinality(held[s]) - 1
      BY <2>1, <3>1, RemoveTask
    <3> QED
      BY <2>1, <3>2, <3>3
  <2>3. Take(s) \in Nat /\ free[s] \in Nat
    BY CapacityType DEF TypeOK
  <2>4. free[s] + Take(s) * Cardinality(held[s]) = Capacity(s)
    BY DEF PermitsConserved
  <2>5. Take(s) * (Cardinality(held'[s]) + 1) = Take(s) * Cardinality(held'[s]) + Take(s)
    BY <2>2, <2>3
  <2>6. Take(s) * Cardinality(held'[s]) \in Nat
    BY <2>2, <2>3
  <2> QED
    BY <1>2, <2>1, <2>2, <2>3, <2>4, <2>5, <2>6
<1> QED
  BY <1>1, <1>2

(* A request only tries a semaphore it holds no permit of: that is what     *)
(* HoldersPlaced says of the places it tries them from.                     *)
LEMMA PermitsStep ==
    ASSUME TypeOK, PermitsConserved, HoldersPlaced, [Next]_vars
    PROVE  PermitsConserved'
<1>1. CASE UNCHANGED <<free, held>>
  BY <1>1 DEF PermitsConserved
<1>2. ASSUME NEW r \in Requests, NEW s \in SlotOrder \cup SlowOrder, pc[r] = s, Acquire(r, s)
      PROVE  PermitsConserved'
  <2>1. s \in Semaphores /\ r \notin held[s]
    BY <1>2 DEF HoldersPlaced, HolderPlaces, SlotOrder, SlowOrder, Semaphores
  <2> QED
    BY <1>2, <2>1, AcquireConserves
<1>3. ASSUME NEW r \in Requests, StartDownload(r) PROVE PermitsConserved'
  BY <1>3, AcquireConserves DEF StartDownload, Semaphores
<1>4. ASSUME NEW r \in Requests, NEW s \in Semaphores, Release(r, s) PROVE PermitsConserved'
  BY <1>4, ReleaseConserves
<1>5. ASSUME NEW r \in Requests, Step(r) PROVE PermitsConserved'
  <2>1. CASE LayerStep(r)
    <3>1. ASSUME NEW s \in SlotOrder, TakeSlot(r, s) PROVE PermitsConserved'
      BY <1>2, <3>1 DEF TakeSlot
    <3>2. ASSUME NEW s \in SlowOrder, TakeSlow(r, s) PROVE PermitsConserved'
      BY <1>2, <3>2 DEF TakeSlow
    <3>3. ASSUME NEW s \in SlowOrder, Unweigh(r, s) PROVE PermitsConserved'
      BY <1>4, <3>3 DEF Unweigh, SlowOrder, Semaphores
    <3>4. ASSUME NEW s \in Semaphores, DropSlot(r, s) PROVE PermitsConserved'
      BY <1>4, <3>4 DEF DropSlot
    <3>5. ASSUME NEW s, RefuseSlot(r, s) \/ RefuseSlow(r, s) PROVE PermitsConserved'
      BY <1>1, <3>5 DEF RefuseSlot, RefuseSlow
    <3>6. CASE Admit(r) \/ RefuseCaller(r) \/ Weigh(r) \/ RefuseWeigh(r) \/ NoRoom(r)
                 \/ DropTicket(r) \/ Answered(r)
      BY <1>1, <3>6 DEF Admit, RefuseCaller, Weigh, RefuseWeigh, NoRoom, DropTicket, Answered
    <3> QED
      BY <2>1, <3>1, <3>2, <3>3, <3>4, <3>5, <3>6 DEF LayerStep
  <2>2. CASE EndDownload(r)
    BY <1>4, <2>2 DEF EndDownload, Semaphores
  <2>3. CASE Enforce(r) \/ LoadtestWrites(r) \/ Leave(r) \/ RefuseDownload(r)
               \/ HandlerAnswers(r) \/ Abandon(r) \/ SlowAfter(r) \/ Deadline(r)
    BY <1>1, <2>3 DEF Enforce, LoadtestWrites, Leave, RefuseDownload, HandlerAnswers, Abandon,
                      SlowAfter, Deadline
  <2> QED
    BY <1>3, <1>5, <2>1, <2>2, <2>3 DEF Step
<1>6. CASE UNCHANGED vars
  BY <1>1, <1>6 DEF vars
<1> QED
  BY <1>5, <1>6 DEF Next

-----------------------------------------------------------------------------
(* Places.  Every action moves one request, and changes its permits and its *)
(* ticket only.                                                             *)

(* What a step leaves alone: the other requests' places, permits, tickets. *)
LEMMA OthersUnchanged ==
    ASSUME TypeOK, NEW r \in Requests, Step(r), NEW q \in Requests, q # r
    PROVE  /\ pc'[q] = pc[q]
           /\ \A s \in Semaphores : q \in held'[s] <=> q \in held[s]
           /\ q \in tickets' <=> q \in tickets
           /\ q \in weighed' <=> q \in weighed
<1> USE DEF TypeOK, Goto, Acquire, Release
<1>1. CASE Enforce(r) \/ LoadtestWrites(r) \/ Leave(r)
  BY <1>1 DEF Enforce, LoadtestWrites, Leave
<1>2. CASE StartDownload(r) \/ RefuseDownload(r) \/ EndDownload(r)
  BY <1>2 DEF StartDownload, RefuseDownload, EndDownload
<1>3. CASE HandlerAnswers(r) \/ Abandon(r) \/ SlowAfter(r) \/ Deadline(r)
  BY <1>3 DEF HandlerAnswers, Abandon, SlowAfter, Deadline
<1>4. ASSUME NEW s, TakeSlot(r, s) \/ RefuseSlot(r, s) \/ TakeSlow(r, s) \/ RefuseSlow(r, s)
                 \/ Unweigh(r, s) \/ DropSlot(r, s)
      PROVE  /\ pc'[q] = pc[q]
             /\ \A t \in Semaphores : q \in held'[t] <=> q \in held[t]
             /\ q \in tickets' <=> q \in tickets
             /\ q \in weighed' <=> q \in weighed
  BY <1>4 DEF TakeSlot, RefuseSlot, TakeSlow, RefuseSlow, Unweigh, DropSlot
<1>5. CASE Admit(r) \/ RefuseCaller(r) \/ Weigh(r) \/ RefuseWeigh(r) \/ NoRoom(r)
             \/ DropTicket(r) \/ Answered(r)
  BY <1>5 DEF Admit, RefuseCaller, Weigh, RefuseWeigh, NoRoom, DropTicket, Answered
<1> QED
  BY <1>1, <1>2, <1>3, <1>4, <1>5 DEF Step, LayerStep

(* What the invariant says of one request. *)
Placed(r) ==
    /\ \A s \in Semaphores : r \in held[s] => pc[r] \in HolderPlaces(s)
    /\ r \in held["downloads"] => Class[r].download
    /\ pc[r] \in HandlerAlive \ {"running"} => Class[r].plain
    /\ pc[r] \in {"anonymous", "anonymous_slow"} => Class[r].anonymous
    /\ pc[r] \in Slotted \cup {"anonymous", "reads"} => r \in held["total"]
    /\ pc[r] \in Slotted \cup {"reads"} /\ Class[r].anonymous => r \in held["anonymous"]
    /\ pc[r] \in Slotted /\ Shared(r) => r \in held["reads"]
    /\ r \in weighed \/ pc[r] = "weigh" => r \in held["slow"]
    /\ r \in weighed \/ pc[r] \in {"weigh", "slow"} =>
         (Class[r].anonymous => r \in held["anonymous_slow"])
    /\ r \in tickets <=> pc[r] \in Ticketed
    /\ r \in weighed => pc[r] \in {"slow_running", "drop"}
    /\ pc[r] = "slow_running" => r \in weighed

LEMMA PlacedParts ==
    (\A r \in Requests : Placed(r)) <=> HoldersPlaced /\ SlotsHeld /\ TicketsPlaced
  BY DEF Placed, HoldersPlaced, SlotsHeld, TicketsPlaced

(* The request that moves ends up where it may be with what it holds. *)
LEMMA MoverPlaced ==
    ASSUME TypeOK, NEW r \in Requests, Placed(r), Step(r)
    PROVE  Placed(r)'
<1> USE ClassFacts
    DEF TypeOK, Placed, Goto, HolderPlaces, PCs, Semaphores, Slotted, Ticketed, HandlerAlive,
        Shared
<1>1. CASE Enforce(r)
  BY <1>1 DEF Enforce
<1>2. CASE LoadtestWrites(r)
  BY <1>2 DEF LoadtestWrites
<1>3. CASE Leave(r)
  BY <1>3 DEF Leave
<1>4. CASE StartDownload(r)
  BY <1>4 DEF StartDownload, Acquire
<1>5. CASE RefuseDownload(r)
  BY <1>5 DEF RefuseDownload
<1>6. CASE EndDownload(r)
  BY <1>6 DEF EndDownload, Release
<1>7. CASE HandlerAnswers(r)
  BY <1>7 DEF HandlerAnswers
<1>8. CASE Abandon(r)
  BY <1>8 DEF Abandon
<1>9. CASE SlowAfter(r)
  BY <1>9 DEF SlowAfter
<1>10. CASE Deadline(r)
  BY <1>10 DEF Deadline
<1>11. ASSUME NEW s \in SlotOrder, TakeSlot(r, s) PROVE Placed(r)'
  BY <1>11 DEF TakeSlot, Acquire, AfterSlot, SlotOrder
<1>12. ASSUME NEW s \in SlotOrder, RefuseSlot(r, s) PROVE Placed(r)'
  BY <1>12 DEF RefuseSlot, SlotOrder
<1>13. CASE Admit(r)
  BY <1>13 DEF Admit
<1>14. CASE RefuseCaller(r)
  BY <1>14 DEF RefuseCaller
<1>15. ASSUME NEW s \in SlowOrder, TakeSlow(r, s) PROVE Placed(r)'
  BY <1>15 DEF TakeSlow, Acquire, SlowOrder
<1>16. ASSUME NEW s \in SlowOrder, RefuseSlow(r, s) PROVE Placed(r)'
  BY <1>16 DEF RefuseSlow, SlowOrder
<1>17. CASE Weigh(r)
  BY <1>17 DEF Weigh
<1>18. CASE RefuseWeigh(r)
  BY <1>18 DEF RefuseWeigh
<1>19. ASSUME NEW s \in SlowOrder, Unweigh(r, s) PROVE Placed(r)'
  BY <1>19 DEF Unweigh, Release, SlowOrder
<1>20. CASE NoRoom(r)
  BY <1>20 DEF NoRoom, SlowOrder
<1>21. CASE DropTicket(r)
  BY <1>21 DEF DropTicket
<1>22. ASSUME NEW s \in Semaphores, DropSlot(r, s) PROVE Placed(r)'
  BY <1>22 DEF DropSlot, Release
<1>23. CASE Answered(r)
  BY <1>23 DEF Answered
<1> QED
  BY <1>1, <1>2, <1>3, <1>4, <1>5, <1>6, <1>7, <1>8, <1>9, <1>10, <1>11, <1>12, <1>13, <1>14,
     <1>15, <1>16, <1>17, <1>18, <1>19, <1>20, <1>21, <1>22, <1>23 DEF Step, LayerStep

LEMMA PlacesStep ==
    ASSUME TypeOK, HoldersPlaced, SlotsHeld, TicketsPlaced, [Next]_vars
    PROVE  (HoldersPlaced /\ SlotsHeld /\ TicketsPlaced)'
<1>1. \A q \in Requests : Placed(q)
  BY PlacedParts
<1>2. ASSUME NEW r \in Requests, Step(r), NEW q \in Requests PROVE Placed(q)'
  <2>1. CASE q = r
    BY <1>1, <1>2, <2>1, MoverPlaced
  <2>2. CASE q # r
    BY <1>1, <1>2, <2>2, OthersUnchanged DEF Placed, Semaphores
  <2> QED
    BY <2>1, <2>2
<1>3. CASE UNCHANGED vars
  BY <1>3 DEF vars, HoldersPlaced, SlotsHeld, TicketsPlaced
<1>4. CASE Next
  <2>1. (\A q \in Requests : Placed(q))'
    BY <1>2, <1>4 DEF Next
  <2> QED
    BY <2>1 DEF Placed, HoldersPlaced, SlotsHeld, TicketsPlaced
<1> QED
  BY <1>3, <1>4

-----------------------------------------------------------------------------
(* Counts.  The weight of a set of tickets is a natural number, grows by    *)
(* one with a ticket, by SLOW_WEIGHT - 1 when one of them is weighed, and   *)
(* falls by a ticket's weight when it is dropped.                           *)
LEMMA WeightType ==
    ASSUME NEW W, NEW S \in SUBSET Requests
    PROVE  WeightOf(S, W) \in Nat
<1>1. Cardinality(S) \in Nat /\ Cardinality(S \cap W) \in Nat
  BY TasksFinite
<1>2. SLOW_WEIGHT - 1 \in Nat
  BY LimitAssumption
<1>3. (SLOW_WEIGHT - 1) * Cardinality(S \cap W) \in Nat
  BY <1>1, <1>2
<1> QED
  BY <1>1, <1>3 DEF WeightOf

LEMMA WeightMonotone ==
    ASSUME NEW W, NEW S \in SUBSET Requests, NEW T \in SUBSET S
    PROVE  WeightOf(T, W) <= WeightOf(S, W)
<1>1. /\ Cardinality(T) \in Nat /\ Cardinality(T \cap W) \in Nat
      /\ Cardinality(S) \in Nat /\ Cardinality(S \cap W) \in Nat
  BY TasksFinite
<1>2. Cardinality(T) <= Cardinality(S)
  BY TasksFinite, FS_Subset
<1>3. Cardinality(T \cap W) <= Cardinality(S \cap W)
  <2>1. IsFiniteSet(S \cap W) /\ T \cap W \in SUBSET (S \cap W)
    BY TasksFinite
  <2> QED
    BY <2>1, FS_Subset
<1>4. SLOW_WEIGHT - 1 \in Nat
  BY LimitAssumption
<1>5. (SLOW_WEIGHT - 1) * Cardinality(T \cap W)
        <= (SLOW_WEIGHT - 1) * Cardinality(S \cap W)
  BY <1>1, <1>3, <1>4
<1>6. /\ (SLOW_WEIGHT - 1) * Cardinality(T \cap W) \in Nat
      /\ (SLOW_WEIGHT - 1) * Cardinality(S \cap W) \in Nat
  BY <1>1, <1>4
<1> QED
  BY <1>1, <1>2, <1>5, <1>6 DEF WeightOf

LEMMA WeightAdd ==
    ASSUME NEW W, NEW S \in SUBSET Requests, NEW r \in Requests, r \notin S, r \notin W
    PROVE  WeightOf(S \cup {r}, W) = WeightOf(S, W) + 1
<1>1. (S \cup {r}) \cap W = S \cap W
  OBVIOUS
<1>2. Cardinality(S \cup {r}) = Cardinality(S) + 1 /\ Cardinality(S) \in Nat
  BY AddTask, TasksFinite
<1>3. Cardinality(S \cap W) \in Nat
  BY TasksFinite
<1>4. PICK extra \in Nat : extra = (SLOW_WEIGHT - 1) * Cardinality(S \cap W)
  BY <1>3, LimitAssumption
<1>5. WeightOf(S \cup {r}, W) = Cardinality(S \cup {r}) + extra
  BY <1>1, <1>4 DEF WeightOf
<1>6. WeightOf(S, W) = Cardinality(S) + extra
  BY <1>4 DEF WeightOf
<1> QED
  BY <1>2, <1>5, <1>6

LEMMA WeightWeigh ==
    ASSUME NEW W, NEW S \in SUBSET Requests, NEW r \in S, r \notin W
    PROVE  WeightOf(S, W \cup {r}) = WeightOf(S, W) + (SLOW_WEIGHT - 1)
<1>1. S \cap (W \cup {r}) = (S \cap W) \cup {r}
  OBVIOUS
<1>2. /\ Cardinality(S \cap (W \cup {r})) = Cardinality(S \cap W) + 1
      /\ Cardinality(S \cap W) \in Nat
  BY <1>1, AddTask, TasksFinite
<1>3. SLOW_WEIGHT - 1 \in Nat /\ Cardinality(S) \in Nat
  BY LimitAssumption, TasksFinite
<1>4. (SLOW_WEIGHT - 1) * (Cardinality(S \cap W) + 1)
        = (SLOW_WEIGHT - 1) * Cardinality(S \cap W) + (SLOW_WEIGHT - 1)
  BY <1>2, <1>3
<1>5. (SLOW_WEIGHT - 1) * Cardinality(S \cap W) \in Nat
  BY <1>2, <1>3
<1> QED
  BY <1>2, <1>3, <1>4, <1>5 DEF WeightOf

LEMMA WeightDrop ==
    ASSUME NEW W, NEW S \in SUBSET Requests, NEW r \in S
    PROVE  WeightOf(S, W) = WeightOf(S \ {r}, W \ {r}) + (IF r \in W THEN SLOW_WEIGHT ELSE 1)
<1>1. (S \ {r}) \cap (W \ {r}) = (S \cap W) \ {r}
  OBVIOUS
<1>2. /\ Cardinality(S \ {r}) = Cardinality(S) - 1
      /\ Cardinality(S) \in Nat /\ Cardinality(S \ {r}) \in Nat
  BY RemoveTask, TasksFinite
<1>3. SLOW_WEIGHT \in Nat \ {0} /\ SLOW_WEIGHT - 1 \in Nat
  BY LimitAssumption
<1>4. /\ Cardinality(S \cap W) \in Nat
      /\ Cardinality((S \cap W) \ {r}) \in Nat
  BY TasksFinite
<1>5. CASE r \in W
  <2>1. Cardinality((S \cap W) \ {r}) = Cardinality(S \cap W) - 1
    <3>1. S \cap W \in SUBSET Requests /\ r \in S \cap W
      BY <1>5
    <3> QED
      BY <3>1, RemoveTask
  <2>2. PICK extra \in Int : extra = (SLOW_WEIGHT - 1) * (Cardinality(S \cap W) - 1)
    BY <1>3, <1>4
  <2>3. (SLOW_WEIGHT - 1) * Cardinality(S \cap W) = extra + (SLOW_WEIGHT - 1)
    BY <1>3, <1>4, <2>2
  <2>4. WeightOf(S, W) = Cardinality(S) + (extra + (SLOW_WEIGHT - 1))
    BY <2>3 DEF WeightOf
  <2>5. WeightOf(S \ {r}, W \ {r}) = Cardinality(S \ {r}) + extra
    BY <1>1, <2>1, <2>2 DEF WeightOf
  <2> QED
    BY <1>2, <1>3, <1>5, <2>4, <2>5
<1>6. CASE r \notin W
  <2>1. (S \cap W) \ {r} = S \cap W
    BY <1>6
  <2>2. PICK extra \in Nat : extra = (SLOW_WEIGHT - 1) * Cardinality(S \cap W)
    BY <1>3, <1>4
  <2>3. WeightOf(S, W) = Cardinality(S) + extra
    BY <2>2 DEF WeightOf
  <2>4. WeightOf(S \ {r}, W \ {r}) = Cardinality(S \ {r}) + extra
    BY <1>1, <2>1, <2>2 DEF WeightOf
  <2> QED
    BY <1>2, <1>6, <2>3, <2>4
<1> QED
  BY <1>5, <1>6

(* Weighing or dropping another request leaves a set's weight alone. *)
LEMMA WeightOther ==
    ASSUME NEW W, NEW S \in SUBSET Requests, NEW r, r \notin S,
           NEW V, V = W \/ V = W \cup {r} \/ V = W \ {r}
    PROVE  WeightOf(S, V) = WeightOf(S, W)
<1>1. S \cap V = S \cap W
  OBVIOUS
<1> QED
  BY <1>1 DEF WeightOf

(* The parts of a caller's tickets. *)
LEMMA TicketSets ==
    ASSUME TypeOK, NEW c \in Callers
    PROVE  /\ TicketsOf(c) \in SUBSET Requests
           /\ OrdinaryOf(c) \in SUBSET TicketsOf(c)
           /\ LoadtestOf(c) \in SUBSET TicketsOf(c)
  BY DEF TypeOK, TicketsOf, OrdinaryOf, LoadtestOf

(* Every step counts exactly the tickets that are out, and admits or weighs *)
(* a ticket only while its own share has room.                              *)
LEMMA CountsStep ==
    ASSUME IndInv, [Next]_vars
    PROVE  (CallerCountExact /\ CallerWithinShare)'
<1> USE DEF IndInv
<1> DEFINE Kept(c) == /\ count'[c] = WeightOf(TicketsOf(c)', weighed')
                      /\ WeightOf(OrdinaryOf(c)', weighed') <= PerCaller
                      /\ WeightOf(LoadtestOf(c)', weighed') <= LoadtestShare
<1>1. ASSUME \A c \in Callers : Kept(c) PROVE (CallerCountExact /\ CallerWithinShare)'
  BY <1>1 DEF CallerCountExact, CallerWithinShare
<1>2. TypeOK'
  BY TypeStep
<1>3. \A c \in Callers :
        /\ TicketsOf(c)' \in SUBSET Requests
        /\ OrdinaryOf(c)' \in SUBSET TicketsOf(c)'
        /\ LoadtestOf(c)' \in SUBSET TicketsOf(c)'
  BY <1>2 DEF TypeOK, TicketsOf, OrdinaryOf, LoadtestOf
<1>4. \A c \in Callers :
        /\ WeightOf(TicketsOf(c)', weighed') \in Nat
        /\ WeightOf(OrdinaryOf(c)', weighed') \in Nat
        /\ WeightOf(LoadtestOf(c)', weighed') \in Nat
        /\ WeightOf(OrdinaryOf(c)', weighed') <= WeightOf(TicketsOf(c)', weighed')
        /\ WeightOf(LoadtestOf(c)', weighed') <= WeightOf(TicketsOf(c)', weighed')
  <2> TAKE c \in Callers
  <2>1. /\ TicketsOf(c)' \in SUBSET Requests
        /\ OrdinaryOf(c)' \in SUBSET Requests
        /\ LoadtestOf(c)' \in SUBSET Requests
    BY <1>3
  <2> QED
    BY <1>3, <2>1, WeightType, WeightMonotone
<1>5. \A c \in Callers :
        /\ count[c] = WeightOf(TicketsOf(c), weighed)
        /\ WeightOf(OrdinaryOf(c), weighed) <= PerCaller
        /\ WeightOf(LoadtestOf(c), weighed) <= LoadtestShare
        /\ TicketsOf(c) \in SUBSET Requests
        /\ OrdinaryOf(c) \in SUBSET Requests
        /\ LoadtestOf(c) \in SUBSET Requests
  BY TicketSets DEF CallerCountExact, CallerWithinShare
<1>6. CASE UNCHANGED <<count, tickets, weighed>>
  BY <1>1, <1>5, <1>6 DEF TicketsOf, OrdinaryOf, LoadtestOf
<1>7. ASSUME NEW r \in Requests, NEW c \in Callers, c = Caller[r],
             Admit(r) \/ Weigh(r) \/ DropTicket(r)
      PROVE  \A d \in Callers \ {c} : Kept(d)
  <2> TAKE d \in Callers \ {c}
  <2>1. /\ count'[d] = count[d] /\ TicketsOf(d)' = TicketsOf(d)
        /\ OrdinaryOf(d)' = OrdinaryOf(d) /\ LoadtestOf(d)' = LoadtestOf(d)
    BY <1>7, ClassFacts
    DEF Admit, Weigh, DropTicket, TicketsOf, OrdinaryOf, LoadtestOf, TypeOK
  <2>2. weighed' = weighed \/ weighed' = weighed \cup {r} \/ weighed' = weighed \ {r}
    BY <1>7 DEF Admit, Weigh, DropTicket
  <2>3. r \notin TicketsOf(d) /\ r \notin OrdinaryOf(d) /\ r \notin LoadtestOf(d)
    BY <1>7 DEF TicketsOf, OrdinaryOf, LoadtestOf
  <2>4. /\ WeightOf(TicketsOf(d), weighed') = WeightOf(TicketsOf(d), weighed)
        /\ WeightOf(OrdinaryOf(d), weighed') = WeightOf(OrdinaryOf(d), weighed)
        /\ WeightOf(LoadtestOf(d), weighed') = WeightOf(LoadtestOf(d), weighed)
    <3>1. \A S \in SUBSET Requests : r \notin S => WeightOf(S, weighed') = WeightOf(S, weighed)
      BY <2>2, WeightOther
    <3> QED
      BY <1>5, <2>3, <3>1
  <2> QED
    BY <1>5, <2>1, <2>4
<1>8. ASSUME NEW r \in Requests, NEW c \in Callers, c = Caller[r], r \in tickets',
             count'[c] = WeightOf(TicketsOf(c)', weighed'), count'[c] <= Cap(r),
             weighed' = weighed \/ weighed' = weighed \cup {r},
             tickets' = tickets \cup {r}
      PROVE  Kept(c)
  <2>1. CASE Class[r].loadtest
    <3>1. OrdinaryOf(c)' = OrdinaryOf(c) /\ r \notin OrdinaryOf(c)
      BY <1>8, <2>1 DEF OrdinaryOf, TicketsOf
    <3>2. WeightOf(OrdinaryOf(c)', weighed') = WeightOf(OrdinaryOf(c), weighed)
      <4>1. OrdinaryOf(c) \in SUBSET Requests
        BY <1>5
      <4>2. WeightOf(OrdinaryOf(c), weighed') = WeightOf(OrdinaryOf(c), weighed)
        BY <1>8, <3>1, <4>1, WeightOther
      <4> QED
        BY <3>1, <4>2
    <3>3. WeightOf(LoadtestOf(c)', weighed') <= LoadtestShare
      BY <1>4, <1>8, <2>1, LimitAssumption DEF Cap
    <3> QED
      BY <1>5, <1>8, <3>2, <3>3
  <2>2. CASE ~Class[r].loadtest
    <3>1. LoadtestOf(c)' = LoadtestOf(c) /\ r \notin LoadtestOf(c)
      BY <1>8, <2>2 DEF LoadtestOf, TicketsOf
    <3>2. WeightOf(LoadtestOf(c)', weighed') = WeightOf(LoadtestOf(c), weighed)
      <4>1. LoadtestOf(c) \in SUBSET Requests
        BY <1>5
      <4>2. WeightOf(LoadtestOf(c), weighed') = WeightOf(LoadtestOf(c), weighed)
        BY <1>8, <3>1, <4>1, WeightOther
      <4> QED
        BY <3>1, <4>2
    <3>3. WeightOf(OrdinaryOf(c)', weighed') <= PerCaller
      BY <1>4, <1>8, <2>2, LimitAssumption DEF Cap
    <3> QED
      BY <1>5, <1>8, <3>2, <3>3
  <2> QED
    BY <2>1, <2>2
<1>9. ASSUME NEW r \in Requests, Admit(r) PROVE Kept(Caller[r])
  <2>1. /\ r \notin tickets /\ r \notin weighed
        /\ tickets' = tickets \cup {r} /\ weighed' = weighed
        /\ count[Caller[r]] < Cap(r)
        /\ count'[Caller[r]] = count[Caller[r]] + 1
    BY <1>9, ClassFacts DEF Admit, TicketsPlaced, Ticketed, HandlerAlive, TypeOK
  <2>2. TicketsOf(Caller[r])' = TicketsOf(Caller[r]) \cup {r} /\ r \notin TicketsOf(Caller[r])
    BY <2>1 DEF TicketsOf
  <2>3. WeightOf(TicketsOf(Caller[r])', weighed') = count[Caller[r]] + 1
    BY <1>5, <2>1, <2>2, ClassFacts, WeightAdd
  <2>4. count[Caller[r]] \in Nat
    BY ClassFacts DEF TypeOK
  <2> QED
    BY <1>8, <2>1, <2>3, <2>4, ClassFacts
<1>10. ASSUME NEW r \in Requests, Weigh(r) PROVE Kept(Caller[r])
  <2>1. /\ r \in tickets /\ r \notin weighed /\ Weight(r) = 1
        /\ tickets' = tickets /\ weighed' = weighed \cup {r}
        /\ count[Caller[r]] + (SLOW_WEIGHT - 1) <= Cap(r)
        /\ count'[Caller[r]] = count[Caller[r]] + (SLOW_WEIGHT - 1)
    BY <1>10, ClassFacts
    DEF Weigh, RoomToWeigh, Weight, TicketsPlaced, Ticketed, HandlerAlive, TypeOK
  <2>2. TicketsOf(Caller[r])' = TicketsOf(Caller[r]) /\ r \in TicketsOf(Caller[r])
    BY <2>1 DEF TicketsOf
  <2>3. WeightOf(TicketsOf(Caller[r])', weighed') = count[Caller[r]] + (SLOW_WEIGHT - 1)
    BY <1>5, <2>1, <2>2, ClassFacts, WeightWeigh
  <2> QED
    BY <1>8, <2>1, <2>3, ClassFacts
<1>11. ASSUME NEW r \in Requests, DropTicket(r) PROVE Kept(Caller[r])
  <2> DEFINE c == Caller[r]
  <2>1. /\ r \in tickets /\ tickets' = tickets \ {r} /\ weighed' = weighed \ {r}
        /\ count'[c] = IF count[c] < Weight(r) THEN 0 ELSE count[c] - Weight(r)
    BY <1>11, ClassFacts DEF DropTicket, TicketsPlaced, Ticketed, TypeOK
  <2>2. /\ TicketsOf(c)' = TicketsOf(c) \ {r} /\ r \in TicketsOf(c)
        /\ OrdinaryOf(c)' = OrdinaryOf(c) \ {r} /\ LoadtestOf(c)' = LoadtestOf(c) \ {r}
    BY <2>1 DEF TicketsOf, OrdinaryOf, LoadtestOf
  <2>3. Weight(r) \in Nat /\ c \in Callers
    BY LimitAssumption, ClassFacts DEF Weight
  <2>4. count[c] = WeightOf(TicketsOf(c)', weighed') + Weight(r)
    BY <1>5, <2>1, <2>2, <2>3, WeightDrop DEF Weight
  <2>5. count'[c] = WeightOf(TicketsOf(c)', weighed')
    <3>1. \A a, b \in Nat : a + b >= b /\ (a + b) - b = a
      OBVIOUS
    <3>2. WeightOf(TicketsOf(c)', weighed') \in Nat
      BY <1>4, <2>3
    <3>3. ~(count[c] < Weight(r)) /\ count[c] - Weight(r) = WeightOf(TicketsOf(c)', weighed')
      BY <2>3, <2>4, <3>1, <3>2
    <3> QED
      BY <2>1, <3>3
  <2>6. ASSUME NEW S \in SUBSET Requests
        PROVE  WeightOf(S \ {r}, weighed \ {r}) <= WeightOf(S, weighed)
    <3>1. CASE r \in S
      <4>1. WeightOf(S, weighed) = WeightOf(S \ {r}, weighed \ {r}) + Weight(r)
        BY <3>1, WeightDrop DEF Weight
      <4>2. WeightOf(S \ {r}, weighed \ {r}) \in Nat
        BY WeightType
      <4> QED
        BY <2>3, <4>1, <4>2
    <3>2. CASE r \notin S
      <4>1. S \ {r} = S
        BY <3>2
      <4>2. WeightOf(S, weighed) \in Nat
        BY WeightType
      <4>3. WeightOf(S, weighed \ {r}) = WeightOf(S, weighed)
        BY <3>2, WeightOther
      <4> QED
        BY <4>1, <4>2, <4>3
    <3> QED
      BY <3>1, <3>2
  <2>7. /\ WeightOf(OrdinaryOf(c)', weighed') <= WeightOf(OrdinaryOf(c), weighed)
        /\ WeightOf(LoadtestOf(c)', weighed') <= WeightOf(LoadtestOf(c), weighed)
    BY <1>5, <2>1, <2>2, <2>3, <2>6
  <2>8. WeightOf(OrdinaryOf(c), weighed) \in Nat /\ WeightOf(LoadtestOf(c), weighed) \in Nat
    BY <1>5, <2>3, WeightType
  <2> QED
    BY <1>4, <1>5, <2>3, <2>5, <2>7, <2>8, LimitAssumption
<1>12. ASSUME NEW r \in Requests, Admit(r) \/ Weigh(r) \/ DropTicket(r)
       PROVE  \A d \in Callers : Kept(d)
  BY <1>7, <1>9, <1>10, <1>11, <1>12, ClassFacts
<1>13. ASSUME NEW r \in Requests, Step(r), ~(Admit(r) \/ Weigh(r) \/ DropTicket(r))
       PROVE  UNCHANGED <<count, tickets, weighed>>
  BY <1>13
  DEF Step, LayerStep, Enforce, LoadtestWrites, Leave, StartDownload, RefuseDownload,
      EndDownload, HandlerAnswers, Abandon, SlowAfter, Deadline, TakeSlot, RefuseSlot,
      RefuseCaller, TakeSlow, RefuseSlow, RefuseWeigh, Unweigh, NoRoom, DropSlot, Answered
<1>14. CASE UNCHANGED vars
  BY <1>6, <1>14 DEF vars
<1> QED
  BY <1>1, <1>6, <1>12, <1>13, <1>14 DEF Next

-----------------------------------------------------------------------------
LEMMA IndInvStep == IndInv /\ [Next]_vars => IndInv'
<1> SUFFICES ASSUME IndInv, [Next]_vars PROVE IndInv'
  OBVIOUS
<1>1. TypeOK' /\ PermitsConserved'
  BY TypeStep, PermitsStep DEF IndInv
<1>2. (HoldersPlaced /\ SlotsHeld /\ TicketsPlaced)'
  BY PlacesStep DEF IndInv
<1>3. (CallerCountExact /\ CallerWithinShare)'
  BY CountsStep
<1> QED
  BY <1>1, <1>2, <1>3 DEF IndInv

(* The books of the layer balance in every reachable state: no path of      *)
(* `slots`, `admit`, `weigh`, `time` and `Ticket::drop` loses a permit, or  *)
(* a count, or gives one back twice, for every number of requests, callers  *)
(* and slots.                                                               *)
THEOREM InFlightInvariant == Spec => []IndInv
<1>1. IndInv /\ UNCHANGED vars => IndInv'
  BY IndInvStep
<1> QED
  BY IndInvInit, IndInvStep, PTL DEF Spec

(* The permits out and the permits free are always what `new` made. *)
THEOREM PermitsAreConserved == Spec => []PermitsConserved
  BY InFlightInvariant, PTL DEF IndInv

(* The callers map counts exactly the tickets that are out. *)
THEOREM CountsAreExact == Spec => []CallerCountExact
  BY InFlightInvariant, PTL DEF IndInv

(* No caller ever holds more than its share, slow reads weighed in full. *)
THEOREM CallersKeepToTheirShare == Spec => []CallerWithinShare
  BY InFlightInvariant, PTL DEF IndInv

(* A semaphore never has more out than it was made with. *)
LEMMA HeldWithinCapacity ==
    ASSUME IndInv, NEW s \in Semaphores, NEW S \in SUBSET held[s]
    PROVE  Take(s) * Cardinality(S) <= Capacity(s)
<1>1. free[s] \in Nat /\ Take(s) \in Nat /\ held[s] \in SUBSET Requests
  BY CapacityType DEF IndInv, TypeOK
<1>2. /\ Cardinality(held[s]) \in Nat /\ Cardinality(S) \in Nat
      /\ Cardinality(S) <= Cardinality(held[s])
  BY <1>1, TasksFinite, FS_Subset
<1>3. free[s] + Take(s) * Cardinality(held[s]) = Capacity(s)
  BY DEF IndInv, PermitsConserved
<1>4. Take(s) * Cardinality(S) <= Take(s) * Cardinality(held[s])
  BY <1>1, <1>2
<1>5. Take(s) * Cardinality(held[s]) \in Nat /\ Take(s) * Cardinality(S) \in Nat
  BY <1>1, <1>2
<1> QED
  BY <1>1, <1>3, <1>4, <1>5

(* Every ticket stands on the permits of its class, so the shares hold. *)
LEMMA SharesFollow == IndInv => ClassShares
<1> SUFFICES ASSUME IndInv PROVE ClassShares
  OBVIOUS
<1>1. \A S \in SUBSET Requests : Cardinality(S) \in Nat
  BY TasksFinite
<1>2. /\ tickets \in SUBSET Requests /\ weighed \in SUBSET Requests
      /\ {r \in tickets : Shared(r)} \in SUBSET Requests
      /\ {r \in tickets : Class[r].anonymous} \in SUBSET Requests
  BY DEF IndInv, TypeOK
<1>3. /\ tickets \in SUBSET held["total"]
      /\ {r \in tickets : Shared(r)} \in SUBSET held["reads"]
      /\ {r \in tickets : Class[r].anonymous} \in SUBSET held["anonymous"]
      /\ weighed \in SUBSET held["slow"]
      /\ {r \in weighed : Class[r].anonymous} \in SUBSET held["anonymous_slow"]
  BY DEF IndInv, TypeOK, TicketsPlaced, SlotsHeld, Slotted, Ticketed
<1>4. /\ 1 * Cardinality(tickets) <= Capacity("total")
      /\ 1 * Cardinality({r \in tickets : Shared(r)}) <= Capacity("reads")
      /\ 1 * Cardinality({r \in tickets : Class[r].anonymous}) <= Capacity("anonymous")
      /\ SLOW_WEIGHT * Cardinality(weighed) <= Capacity("slow")
      /\ SLOW_WEIGHT * Cardinality({r \in weighed : Class[r].anonymous})
           <= Capacity("anonymous_slow")
  <2>1. /\ Take("total") = 1 /\ Take("reads") = 1 /\ Take("anonymous") = 1
        /\ Take("slow") = SLOW_WEIGHT /\ Take("anonymous_slow") = SLOW_WEIGHT
    BY DEF Take
  <2>2. {"total", "reads", "anonymous", "slow", "anonymous_slow"} \subseteq Semaphores
    BY DEF Semaphores
  <2> QED
    BY <1>3, <2>1, <2>2, HeldWithinCapacity
<1>5. Capacity("total") = Total /\ Capacity("slow") = SlowBudget
  BY DEF Capacity
<1> QED
  BY <1>1, <1>2, <1>4, <1>5 DEF ClassShares

(* Readers and the anonymous leave the write reserve, the anonymous leave   *)
(* half of the gateway, and slow reads weigh no more than the slow budget,  *)
(* in every reachable state.                                                *)
THEOREM SharesAreKept == Spec => []ClassShares
  BY SharesFollow, InFlightInvariant, PTL

(* A handler, and the broker call under it, never outlives its slots; a     *)
(* request that is answered, refused or abandoned leaves nothing behind.    *)
THEOREM SlotsOutliveHandlers == Spec => [](HandlerHoldsSlots /\ NothingLeftBehind)
<1>1. IndInv => HandlerHoldsSlots
  BY DEF IndInv, HandlerHoldsSlots, SlotsHeld, TicketsPlaced, Slotted, Ticketed
<1>2. IndInv => NothingLeftBehind
  BY DEF IndInv, NothingLeftBehind, HoldersPlaced, TicketsPlaced, Ticketed, HandlerAlive,
         HolderPlaces, Semaphores
<1> QED
  BY <1>1, <1>2, InFlightInvariant, PTL

-----------------------------------------------------------------------------
(* Admission counts with the same Cardinality. *)
LEMMA SameCardinality == \A S : Abstract!Cardinality(S) = Cardinality(S)
  BY DEF Abstract!Cardinality, Cardinality

(* The load Admission counts is the callers map's entry. *)
LEMMA LoadIsCount ==
    IndInv => \A r \in Requests : Abstract!Load(r, tickets, weighed) = count[Caller[r]]
<1> SUFFICES ASSUME IndInv, NEW r \in Requests
             PROVE  Abstract!Load(r, tickets, weighed) = count[Caller[r]]
  OBVIOUS
<1>1. {q \in tickets : SameCaller(q, r)} = TicketsOf(Caller[r])
  BY DEF SameCaller, TicketsOf
<1>2. {q \in weighed : SameCaller(q, r)} = TicketsOf(Caller[r]) \cap weighed
  BY DEF SameCaller, TicketsOf, IndInv, TypeOK, TicketsPlaced, Ticketed, HandlerAlive
<1>3. count[Caller[r]] = WeightOf(TicketsOf(Caller[r]), weighed)
  BY ClassFacts DEF IndInv, CallerCountExact
<1> QED
  BY <1>1, <1>2, <1>3, SameCardinality DEF Abstract!Load, WeightOf

(* The layer, with its semaphores, its mutex and its drops, implements the  *)
(* atomic admission control: a ticket appears, or is weighed as a slow      *)
(* read's, only in a step at which every share has room for it.             *)
THEOREM InFlightImplementsAdmission == Spec => ImplementsAdmission
<1>1. Init => Abstract!Init
  BY DEF Init, Abstract!Init
<1>2. IndInv /\ IndInv' /\ [Next]_vars => [Abstract!Next]_<<tickets, weighed>>
  <2> SUFFICES ASSUME IndInv, IndInv', [Next]_vars
               PROVE  Abstract!Next \/ UNCHANGED <<tickets, weighed>>
    OBVIOUS
  <2>1. ClassShares'
    <3>1. IndInv' => ClassShares'
      BY SharesFollow, PTL
    <3> QED
      BY <3>1
  <2>2. \A r \in Requests : Abstract!Load(r, tickets', weighed') = count'[Caller[r]]
    <3>1. IndInv' =>
            (\A r \in Requests : Abstract!Load(r, tickets, weighed) = count[Caller[r]])'
      BY LoadIsCount, PTL
    <3> QED
      BY <3>1
  <2>3. /\ tickets' \cap {q \in Requests : Shared(q)} = {q \in tickets' : Shared(q)}
        /\ tickets' \cap {q \in Requests : Class[q].anonymous}
             = {q \in tickets' : Class[q].anonymous}
        /\ weighed' \cap {q \in Requests : Class[q].anonymous}
             = {q \in weighed' : Class[q].anonymous}
    BY DEF IndInv, TypeOK
  <2>4. Capacity("total") = Total /\ Capacity("slow") = SlowBudget
    BY DEF Capacity
  <2>5. ASSUME NEW r \in Requests, Admit(r) PROVE Abstract!Admit(r)
    <3>1. /\ r \notin tickets /\ tickets' = tickets \cup {r} /\ weighed' = weighed
          /\ count'[Caller[r]] = count[Caller[r]] + 1 /\ count[Caller[r]] < Cap(r)
      BY <2>5, ClassFacts DEF Admit, IndInv, TypeOK, TicketsPlaced, Ticketed, HandlerAlive
    <3>2. count[Caller[r]] \in Nat /\ Cap(r) \in Nat
      BY ClassFacts DEF IndInv, TypeOK
    <3>3. Abstract!Load(r, tickets', weighed) <= Cap(r)
      BY <2>2, <3>1, <3>2
    <3> QED
      BY <2>1, <2>3, <2>4, <3>1, <3>3, SameCardinality DEF Abstract!Admit, ClassShares
  <2>6. ASSUME NEW r \in Requests, Weigh(r) PROVE Abstract!MakeSlow(r)
    <3>1. /\ r \in tickets \ weighed /\ weighed' = weighed \cup {r} /\ tickets' = tickets
          /\ count'[Caller[r]] <= Cap(r)
      BY <2>6, ClassFacts
      DEF Weigh, RoomToWeigh, Weight, IndInv, TypeOK, TicketsPlaced, Ticketed, HandlerAlive
    <3>2. Abstract!Load(r, tickets, weighed') <= Cap(r)
      BY <2>2, <3>1
    <3> QED
      BY <2>1, <2>3, <2>4, <3>1, <3>2, SameCardinality DEF Abstract!MakeSlow, ClassShares
  <2>7. ASSUME NEW r \in Requests, DropTicket(r) PROVE Abstract!End(r)
    BY <2>7 DEF DropTicket, Abstract!End, IndInv, TicketsPlaced, Ticketed
  <2>8. ASSUME NEW r \in Requests, Step(r), ~(Admit(r) \/ Weigh(r) \/ DropTicket(r))
        PROVE  UNCHANGED <<tickets, weighed>>
    BY <2>8
    DEF Step, LayerStep, Enforce, LoadtestWrites, Leave, StartDownload, RefuseDownload,
        EndDownload, HandlerAnswers, Abandon, SlowAfter, Deadline, TakeSlot, RefuseSlot,
        RefuseCaller, TakeSlow, RefuseSlow, RefuseWeigh, Unweigh, NoRoom, DropSlot, Answered
  <2> QED
    BY <2>5, <2>6, <2>7, <2>8 DEF Next, vars, Abstract!Next
<1> QED
  BY <1>1, <1>2, InFlightInvariant, PTL DEF Spec, ImplementsAdmission, Abstract!Spec

=============================================================================
