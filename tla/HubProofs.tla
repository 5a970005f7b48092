----------------------------- MODULE HubProofs ------------------------------
(***************************************************************************)
(* For any connections, entities, filters and bounds, whatever reloads,    *)
(* refusals, gaps and snapshots come between a client's operations: the    *)
(* index is the subscriptions, the table follows the filters, its eviction *)
(* order names its entities, no wake-up is lost, a pair is queued once and *)
(* a connection that is to close is sent no more.  And where no snapshot   *)
(* races a change and nothing is lost upstream, the table is what the next *)
(* change is made from, so that every change is judged.                    *)
(*                                                                         *)
(* IndexIsSubscriptions is inductive with the types of the connections,    *)
(* TableFollowsFilters as it stands: an index stays empty but for a        *)
(* subscription, and that asks for the table.  The wake-ups are inductive  *)
(* once every connection is counted, not only the open ones (Woken).  The  *)
(* table needs the changes on their way to follow each other up to the     *)
(* view (Chained), and the pages not seeded yet to be the view.  A close   *)
(* is final because no filter left in the index has the number of a        *)
(* notification in front of it (ClosedIsMuted): numbers are never reused.  *)
(***************************************************************************)
EXTENDS Hub, OrdersProofs, SequenceTheorems, TLAPS

Sessions == {"new", "joined", "open", "ending", "closed"}

ConnTypes ==
    conns \in [Conns -> [session : Sessions, record : Records \cup {0},
                         subs : SUBSET Sub, next : 1..SubLimit]]

(* The entry of the index for subscription s of connection c. *)
InIndex(c, s) == [conn |-> c, n |-> s.n, filter |-> s.filter]

IndexEntries == UNION {{InIndex(c, s) : s \in conns[c].subs} : c \in Conns}

IndexInv == ConnTypes /\ IndexIsSubscriptions

(* The index, entry by entry. *)
LEMMA IndexByEntry ==
    IndexIsSubscriptions =>
        /\ \A c \in Conns : \A s \in conns[c].subs : InIndex(c, s) \in index
        /\ \A i \in index : \E c \in Conns : \E s \in conns[c].subs : i = InIndex(c, s)
  BY DEF IndexIsSubscriptions, InIndex

(* A step that leaves each connection's subscriptions and number alone, and   *)
(* gives a session of subscriptions no other place than open or ending.       *)
LEMMA SubscriptionsKept ==
    ASSUME IndexInv, ConnTypes', index' = index,
           \A c \in Conns : /\ conns'[c].subs = conns[c].subs /\ conns'[c].next = conns[c].next
                            /\ \/ conns'[c].session = conns[c].session
                               \/ conns[c].session \in {"new", "joined"}
                               \/ conns'[c].session \in {"open", "ending"}
    PROVE  IndexInv'
  BY DEF IndexInv, IndexIsSubscriptions

(* The connections of C lose their subscriptions and their filters. *)
LEMMA SubscriptionsDropped ==
    ASSUME IndexInv, ConnTypes', NEW C \in SUBSET Conns,
           index' = {i \in index : i.conn \notin C},
           \A c \in Conns : /\ conns'[c].subs = IF c \in C THEN {} ELSE conns[c].subs
                            /\ conns'[c].next = conns[c].next
                            /\ c \notin C => conns'[c].session = conns[c].session
    PROVE  IndexInv'
<1>1. index' = IndexEntries'
  BY DEF IndexInv, IndexIsSubscriptions, IndexEntries, InIndex
<1> QED BY <1>1 DEF IndexInv, IndexIsSubscriptions, IndexEntries, InIndex

(* Subscription n of connection c, held there or new, becomes filter f. *)
LEMMA SubscriptionPlaced ==
    ASSUME IndexInv, ConnTypes', NEW c \in Conns, NEW f \in Filters, NEW n \in 1..SubLimit,
           conns[c].session = "open",
           index' = {i \in index : ~(i.conn = c /\ i.n = n)}
                      \cup {[conn |-> c, n |-> n, filter |-> f]},
           conns'[c].session = "open",
           conns'[c].subs = {s \in conns[c].subs : s.n # n} \cup {[n |-> n, filter |-> f]},
           conns'[c].next >= conns[c].next, n < conns'[c].next,
           \A d \in Conns \ {c} : conns'[d] = conns[d]
    PROVE  IndexInv'
<1>1. index' = IndexEntries'
  <2>1. ASSUME NEW i \in index'
        PROVE  i \in IndexEntries'
    <3>1. CASE i = [conn |-> c, n |-> n, filter |-> f]
      <4>1. [n |-> n, filter |-> f] \in conns'[c].subs
        OBVIOUS
      <4>2. PICK s \in conns'[c].subs : i = InIndex(c, s)
        BY <3>1, <4>1 DEF InIndex
      <4> QED BY <4>2 DEF IndexEntries, InIndex
    <3>2. CASE i \in index /\ ~(i.conn = c /\ i.n = n)
      <4>1. PICK d \in Conns : \E s \in conns[d].subs : i = InIndex(d, s)
        BY <3>2, IndexByEntry DEF IndexInv
      <4>2. PICK s \in conns[d].subs : i = InIndex(d, s)
        BY <4>1
      <4>3. s \in conns'[d].subs
        <5>1. d = c => s.n # n
          BY <3>2, <4>2 DEF InIndex
        <5> QED BY <5>1, <4>2
      <4> QED BY <4>2, <4>3 DEF IndexEntries, InIndex
    <3> QED BY <2>1, <3>1, <3>2
  <2>2. ASSUME NEW d \in Conns, NEW s \in conns'[d].subs
        PROVE  InIndex(d, s) \in index'
    <3>1. CASE d # c
      BY <2>2, <3>1, IndexByEntry DEF IndexInv, InIndex
    <3>2. CASE d = c
      BY <2>2, <3>2, IndexByEntry DEF IndexInv, InIndex
    <3> QED BY <3>1, <3>2
  <2> QED BY <2>1, <2>2 DEF IndexEntries, InIndex
<1>2. ASSUME NEW d \in Conns
      PROVE  /\ conns'[d].subs # {} => conns'[d].session \in {"open", "ending"}
             /\ \A s, t \in conns'[d].subs : s.n = t.n => s = t
             /\ \A s \in conns'[d].subs : s.n < conns'[d].next
  <2>1. CASE d # c
    BY <2>1 DEF IndexInv, IndexIsSubscriptions
  <2>2. CASE d = c
    <3>1. \A s \in conns'[c].subs :
            \/ s \in conns[c].subs /\ s.n # n
            \/ s = [n |-> n, filter |-> f]
      OBVIOUS
    <3>2. /\ \A s, t \in conns[c].subs : s.n = t.n => s = t
          /\ \A s \in conns[c].subs : s.n < conns[c].next /\ s.n \in Nat
          /\ conns[c].next \in Nat /\ conns'[c].next \in Nat
      BY DEF IndexInv, IndexIsSubscriptions, ConnTypes, Sub
    <3> QED BY <2>2, <3>1, <3>2
  <2> QED BY <2>1, <2>2
<1> QED BY <1>1, <1>2 DEF IndexInv, IndexIsSubscriptions, IndexEntries, InIndex

LEMMA IndexStart == Init => IndexInv
  BY SetAssumption, LimitAssumption
  DEF Init, IndexInv, ConnTypes, IndexIsSubscriptions, NewConn, Sessions

(* A connection leaves the hub. *)
LEMMA RemoveKeepsIndex ==
    ASSUME IndexInv, NEW c \in Conns, Remove(c)
    PROVE  IndexInv'
<1>1. ConnTypes'
  BY DEF Remove, IndexInv, ConnTypes, Sessions
<1>2. index' = {i \in index : i.conn \notin {c}}
  BY DEF Remove, FiltersOf
<1>3. \A d \in Conns : /\ conns'[d].subs = IF d \in {c} THEN {} ELSE conns[d].subs
                       /\ conns'[d].next = conns[d].next
                       /\ d \notin {c} => conns'[d].session = conns[d].session
  BY DEF Remove, IndexInv, ConnTypes
<1> QED BY <1>1, <1>2, <1>3, SubscriptionsDropped

LEMMA IndexStep == IndexInv /\ [Next]_vars => IndexInv'
<1> SUFFICES ASSUME IndexInv, [Next]_vars
             PROVE  IndexInv'
  OBVIOUS
<1>1. ASSUME NEW c \in Conns, Open(c) \/ Upgraded(c) \/ SessionEnds(c) \/ SessionTakes(c)
      PROVE  IndexInv'
  <2>1. ConnTypes'
    BY <1>1 DEF Open, Upgraded, SessionEnds, SessionTakes, IndexInv, ConnTypes, Sessions
  <2>2. index' = index
    BY <1>1 DEF Open, Upgraded, SessionEnds, SessionTakes
  <2>3. \A d \in Conns : /\ conns'[d].subs = conns[d].subs /\ conns'[d].next = conns[d].next
                         /\ \/ conns'[d].session = conns[d].session
                            \/ conns[d].session \in {"new", "joined"}
                            \/ conns'[d].session \in {"open", "ending"}
    BY <1>1 DEF Open, Upgraded, SessionEnds, SessionTakes, IndexInv, ConnTypes
  <2> QED BY <2>1, <2>2, <2>3, SubscriptionsKept
<1>2. ASSUME NEW c \in Conns, Discard(c) \/ Close(c)
      PROVE  IndexInv'
  BY <1>2, RemoveKeepsIndex DEF Discard, Close
<1>3. ASSUME NEW c \in Conns, NEW f \in Filters, Subscribe(c, f)
      PROVE  IndexInv'
  <2> DEFINE n == conns[c].next
  <2>1. /\ n \in 1..SubLimit /\ n < SubLimit /\ conns[c].session = "open"
        /\ \A s \in conns[c].subs : s.n < n
    BY <1>3 DEF Subscribe, IndexInv, ConnTypes, IndexIsSubscriptions
  <2>2. index' = {i \in index : ~(i.conn = c /\ i.n = n)}
                   \cup {[conn |-> c, n |-> n, filter |-> f]}
    BY <1>3 DEF Subscribe, Place
  <2>3. conns' = [conns EXCEPT ![c].subs = @ \cup {[n |-> n, filter |-> f]}, ![c].next = @ + 1]
    BY <1>3 DEF Subscribe
  <2>4. /\ conns'[c].session = "open" /\ conns'[c].next = n + 1
        /\ conns'[c].subs = conns[c].subs \cup {[n |-> n, filter |-> f]}
        /\ conns'[c].record = conns[c].record
        /\ \A d \in Conns \ {c} : conns'[d] = conns[d]
    BY <2>1, <2>3 DEF IndexInv, ConnTypes
  <2>5. conns'[c].subs = {s \in conns[c].subs : s.n # n} \cup {[n |-> n, filter |-> f]}
    <3>1. \A s \in conns[c].subs : s.n \in Nat /\ s.n # n
      BY <2>1 DEF IndexInv, ConnTypes, Sub
    <3> QED BY <2>4, <3>1
  <2>6. [n |-> n, filter |-> f] \in Sub /\ n + 1 \in 1..SubLimit
    BY <2>1, LimitAssumption DEF Sub
  <2>7. ConnTypes'
    BY <2>3, <2>6 DEF IndexInv, ConnTypes
  <2>8. conns'[c].next >= conns[c].next /\ n < conns'[c].next
    BY <2>1, <2>4
  <2> HIDE DEF n
  <2> QED BY <2>1, <2>2, <2>4, <2>5, <2>7, <2>8, SubscriptionPlaced
<1>4. ASSUME NEW c \in Conns, NEW f \in Filters, Update(c, f)
      PROVE  IndexInv'
  <2>1. PICK s \in conns[c].subs :
          /\ Place(c, s.n, f)
          /\ conns' = [conns EXCEPT ![c].subs = (@ \ {s}) \cup {[n |-> s.n, filter |-> f]}]
    BY <1>4 DEF Update
  <2>2. /\ conns[c].session = "open"
        /\ s.n \in 1..SubLimit /\ s.n < conns[c].next /\ conns[c].next \in Nat
        /\ \A t \in conns[c].subs : t.n = s.n => t = s
    BY <1>4 DEF Update, IndexInv, ConnTypes, IndexIsSubscriptions, Sub
  <2>3. index' = {i \in index : ~(i.conn = c /\ i.n = s.n)}
                   \cup {[conn |-> c, n |-> s.n, filter |-> f]}
    BY <2>1 DEF Place
  <2>4. /\ conns'[c].session = "open" /\ conns'[c].next = conns[c].next
        /\ conns'[c].subs = (conns[c].subs \ {s}) \cup {[n |-> s.n, filter |-> f]}
        /\ \A d \in Conns \ {c} : conns'[d] = conns[d]
    BY <2>1, <2>2 DEF IndexInv, ConnTypes
  <2>5. conns'[c].subs = {t \in conns[c].subs : t.n # s.n} \cup {[n |-> s.n, filter |-> f]}
    BY <2>2, <2>4
  <2>6. [n |-> s.n, filter |-> f] \in Sub
    BY <2>2 DEF Sub
  <2>7. ConnTypes'
    BY <2>1, <2>6 DEF IndexInv, ConnTypes
  <2> QED BY <2>2, <2>3, <2>4, <2>5, <2>7, SubscriptionPlaced
<1>5. ASSUME NEW c \in Conns, Unsubscribe(c)
      PROVE  IndexInv'
  <2>1. PICK s \in conns[c].subs :
          /\ index' = {i \in index : ~(i.conn = c /\ i.n = s.n)}
          /\ conns' = [conns EXCEPT ![c].subs = @ \ {s}]
    BY <1>5 DEF Unsubscribe
  <2>2. \A t \in conns[c].subs : t.n = s.n => t = s
    BY DEF IndexInv, IndexIsSubscriptions
  <2>3. /\ conns'[c].subs = conns[c].subs \ {s} /\ conns'[c].next = conns[c].next
        /\ conns'[c].session = conns[c].session
        /\ \A d \in Conns \ {c} : conns'[d] = conns[d]
    BY <2>1 DEF IndexInv, ConnTypes
  <2>4. ConnTypes'
    BY <2>1 DEF IndexInv, ConnTypes
  <2>5. index' = IndexEntries'
    <3>1. ASSUME NEW i \in index'
          PROVE  i \in IndexEntries'
      <4>1. PICK d \in Conns : \E t \in conns[d].subs : i = InIndex(d, t)
        BY <2>1, IndexByEntry DEF IndexInv
      <4>2. PICK t \in conns[d].subs : i = InIndex(d, t)
        BY <4>1
      <4>3. t \in conns'[d].subs
        <5>1. d = c => t # s
          BY <2>1, <4>2 DEF InIndex
        <5> QED BY <2>3, <4>2, <5>1
      <4> QED BY <4>2, <4>3 DEF IndexEntries, InIndex
    <3>2. ASSUME NEW d \in Conns, NEW t \in conns'[d].subs
          PROVE  InIndex(d, t) \in index'
      <4>1. t \in conns[d].subs /\ (d = c => t.n # s.n)
        BY <2>2, <2>3
      <4> QED BY <2>1, <4>1, IndexByEntry DEF IndexInv, InIndex
    <3> QED BY <3>1, <3>2 DEF IndexEntries, InIndex
  <2>6. IndexIsSubscriptions'
    BY <2>3, <2>5 DEF IndexInv, IndexIsSubscriptions, IndexEntries, InIndex
  <2> QED BY <2>4, <2>6 DEF IndexInv
<1>6. CASE Recheck
  <2>1. /\ index' = {i \in index : i.conn \notin Outdated}
        /\ conns' = [c \in Conns |-> IF c \in Outdated THEN [conns[c] EXCEPT !.subs = {}]
                                                       ELSE conns[c]]
    BY <1>6 DEF Recheck, EndAll
  <2>2. ConnTypes'
    BY <2>1 DEF IndexInv, ConnTypes
  <2>3. \A c \in Conns : /\ conns'[c].subs = IF c \in Outdated THEN {} ELSE conns[c].subs
                         /\ conns'[c].next = conns[c].next
                         /\ c \notin Outdated => conns'[c].session = conns[c].session
    BY <2>1 DEF IndexInv, ConnTypes
  <2>4. Outdated \in SUBSET Conns
    BY DEF Outdated, OpenConns
  <2> QED BY <2>1, <2>2, <2>3, <2>4, SubscriptionsDropped
<1>7. CASE UNCHANGED <<conns, index>>
  BY <1>7 DEF IndexInv, ConnTypes, IndexIsSubscriptions
<1>8. CASE \/ Reload \/ Live \/ Refuse \/ Gap \/ Apply
           \/ (\E e \in Entities, d \in Doc : Change(e, d))
           \/ Snapshot \/ UNCHANGED vars
  <2>1. UNCHANGED <<conns, index>>
    BY <1>8 DEF Reload, Live, Refuse, Gap, Apply, Change, Snapshot, NotNow, StartSnapshot,
                ReadPage, FailSnapshot, NextPage, EndSnapshot, Seed, clientVars, vars
  <2> QED BY <1>7, <2>1
<1> QED BY <1>1, <1>2, <1>3, <1>4, <1>5, <1>6, <1>8 DEF Next, Client, Upstream

(* The index holds exactly the subscriptions of the connections (hub.rs,      *)
(* subscribe, update, unsubscribe, close and recheck): none is left behind,   *)
(* lost, or numbered twice.                                                   *)
THEOREM IndexKept == Spec => []IndexIsSubscriptions
<1>1. IndexInv => IndexIsSubscriptions
  BY DEF IndexInv
<1> QED BY <1>1, IndexStart, IndexStep, PTL DEF Spec

-----------------------------------------------------------------------------
(* The table and the index. *)

LEMMA TableStart == Init => TableFollowsFilters
  BY DEF Init, TableFollowsFilters

(* A step that leaves the filters `left`, and forgets a table they do not     *)
(* watch.                                                                     *)
LEMMA ForgottenWhenUnwatched ==
    ASSUME TableFollowsFilters, ForgetUnwatched(index'), index' \subseteq index,
           UNCHANGED <<wanted, unread, started>>
    PROVE  TableFollowsFilters'
  BY DEF ForgetUnwatched, TableFollowsFilters

LEMMA TableStep == TableFollowsFilters /\ [Next]_vars => TableFollowsFilters'
<1> SUFFICES ASSUME TableFollowsFilters, [Next]_vars
             PROVE  TableFollowsFilters'
  OBVIOUS
<1>1. ASSUME NEW c \in Conns, Open(c) \/ Upgraded(c) \/ SessionEnds(c) \/ SessionTakes(c)
      PROVE  TableFollowsFilters'
  BY <1>1 DEF Open, Upgraded, SessionEnds, SessionTakes, TableFollowsFilters, tableVars, upVars
<1>2. ASSUME NEW c \in Conns, Discard(c) \/ Close(c) \/ Unsubscribe(c)
      PROVE  TableFollowsFilters'
  <2>1. index' \subseteq index /\ ForgetUnwatched(index') /\ UNCHANGED <<wanted, unread, started>>
    BY <1>2 DEF Discard, Close, Unsubscribe, Remove, upVars
  <2> QED BY <2>1, ForgottenWhenUnwatched
<1>3. ASSUME NEW c \in Conns, NEW f \in Filters, Subscribe(c, f) \/ Update(c, f)
      PROVE  TableFollowsFilters'
  <2>1. index' # {} /\ (due => wanted') /\ ~unread' /\ UNCHANGED <<due, started>>
    BY <1>3 DEF Subscribe, Update, Place, upVars
  <2> QED BY <2>1 DEF TableFollowsFilters
<1>4. CASE Recheck
  <2>1. index' \subseteq index /\ ForgetUnwatched(index') /\ UNCHANGED <<wanted, unread, started>>
    BY <1>4 DEF Recheck, EndAll, upVars
  <2> QED BY <2>1, ForgottenWhenUnwatched
<1>5. CASE Reload \/ Live \/ Refuse \/ Gap \/ \E e \in Entities, d \in Doc : Change(e, d)
  <2>1. CASE Reload \/ \E e \in Entities, d \in Doc : Change(e, d)
    <3>1. UNCHANGED <<index, tableVars, started>>
      BY <2>1 DEF Reload, Change, clientVars, upVars
    <3> QED BY <3>1 DEF TableFollowsFilters, tableVars
  <2>2. CASE Live
    BY <2>2 DEF Live, TableFollowsFilters, clientVars
  <2>3. CASE Refuse
    BY <2>3 DEF Refuse, TableFollowsFilters, tableVars
  <2>4. CASE Gap
    <3>1. /\ UNCHANGED <<index, table, recency>> /\ due'
          /\ wanted' \/ unread'
          /\ unread' => ~wanted'
      BY <2>4 DEF Gap, LooksAfterGap
    <3> QED BY <3>1 DEF TableFollowsFilters
  <2> QED BY <1>5, <2>1, <2>2, <2>3, <2>4
<1>6. CASE Apply
  <2>1. /\ UNCHANGED <<index, due, wanted, unread, started>>
        /\ index = {} => UNCHANGED <<table, recency>>
    BY <1>6 DEF Apply, upVars
  <2> QED BY <2>1 DEF TableFollowsFilters
<1>7. CASE Snapshot
  <2>1. CASE NotNow
    BY <2>1 DEF NotNow, TableFollowsFilters, clientVars, upVars
  <2>2. ASSUME NEW s \in Snapshots, StartSnapshot(s)
        PROVE  TableFollowsFilters'
    BY <2>2 DEF StartSnapshot, TableFollowsFilters, clientVars, upVars
  <2>3. ASSUME NEW s \in Snapshots,
               ReadPage(s) \/ FailSnapshot(s) \/ NextPage(s) \/ EndSnapshot(s)
        PROVE  TableFollowsFilters'
    BY <2>3 DEF ReadPage, FailSnapshot, NextPage, EndSnapshot, TableFollowsFilters,
                clientVars, tableVars, upVars
  <2>4. ASSUME NEW s \in Snapshots, NEW e \in Entities, Seed(s, e)
        PROVE  TableFollowsFilters'
    <3>1. /\ UNCHANGED <<index, due, wanted, unread, started>>
          /\ index = {} => UNCHANGED <<table, recency>>
      BY <2>4 DEF Seed, clientVars, upVars
    <3> QED BY <3>1 DEF TableFollowsFilters
  <2> QED BY <1>7, <2>1, <2>2, <2>3, <2>4 DEF Snapshot
<1>8. CASE UNCHANGED vars
  BY <1>8 DEF vars, clientVars, tableVars, upVars, TableFollowsFilters
<1> QED BY <1>1, <1>2, <1>3, <1>4, <1>5, <1>6, <1>7, <1>8 DEF Next, Client, Upstream

(* hub.rs, forget_unwatched and want_snapshot: an unwatched hub holds no      *)
(* table, and a filter on a due table has the upstream look at it, however    *)
(* snapshots, gaps, refusals and late changes fall between.                   *)
THEOREM TableKept == Spec => []TableFollowsFilters
  BY TableStart, TableStep, PTL DEF Spec

-----------------------------------------------------------------------------
(* The queues and their permits. *)

(* Of every connection, also one that is not open. *)
Woken ==
    /\ queue = [c \in Conns |-> queue[c]] /\ ready = [c \in Conns |-> ready[c]]
    /\ \A c \in Conns : queue[c] # EmptyQueue => ready[c]

LEMMA WokenStart == Init => Woken
  BY DEF Init, Woken

(* A signal comes with a permit. *)
LEMMA WokenBySignals ==
    ASSUME Woken, NEW C \in SUBSET Conns, NEW kind, Signals(C, kind)
    PROVE  Woken'
  BY DEF Woken, Signals

LEMMA WokenStep == Woken /\ [Next]_vars => Woken'
<1> SUFFICES ASSUME Woken, [Next]_vars
             PROVE  Woken'
  OBVIOUS
<1>1. ASSUME NEW c \in Conns, Discard(c) \/ Close(c) \/ SessionTakes(c)
      PROVE  Woken'
  <2>1. queue' = [queue EXCEPT ![c] = EmptyQueue] /\ ready' = [ready EXCEPT ![c] = FALSE]
    BY <1>1 DEF Discard, Close, Remove, SessionTakes
  <2> QED BY <2>1 DEF Woken
<1>2. CASE Recheck \/ Refuse \/ Gap
  <2>1. Outdated \in SUBSET Conns /\ OpenConns \in SUBSET Conns
    BY DEF Outdated, OpenConns
  <2>2. CASE Recheck
    BY <2>1, <2>2, WokenBySignals, Zenon DEF Recheck, EndAll
  <2>3. CASE Refuse
    BY <2>1, <2>3, WokenBySignals, Zenon DEF Refuse
  <2>4. CASE Gap
    BY <2>1, <2>4, WokenBySignals, Zenon DEF Gap
  <2> QED BY <1>2, <2>2, <2>3, <2>4
<1>3. CASE Apply
  <2>1. CASE UNCHANGED <<queue, ready>>
    BY <2>1 DEF Woken
  <2>2. CASE ~UNCHANGED <<queue, ready>>
    <3>1. PICK told \in SUBSET Conns :
            /\ queue' = [c \in Conns |-> queue'[c]]
            /\ \A c \in Conns \ told : queue'[c] = queue[c]
            /\ ready' = [c \in Conns |-> c \in told \/ ready[c]]
      <4> DEFINE e == Head(stream).entity
                 d == Head(stream).doc
                 told == {c \in Conns : DOMAIN Notifications(c, e, d) # {}}
      <4>1. /\ queue' = [c \in Conns |-> IF c \in told
                                        THEN PushAll(queue[c], Notifications(c, e, d))
                                        ELSE queue[c]]
            /\ ready' = [c \in Conns |-> c \in told \/ ready[c]]
        BY <1>3, <2>2 DEF Apply
      <4> HIDE DEF told
      <4>2. told \in SUBSET Conns
        BY DEF told
      <4> QED BY <4>1, <4>2
    <3> QED BY <3>1 DEF Woken
  <2> QED BY <2>1, <2>2
<1>4. CASE UNCHANGED <<queue, ready>>
  BY <1>4 DEF Woken
<1>5. ASSUME \/ \E c \in Conns : \/ Open(c) \/ Upgraded(c) \/ SessionEnds(c) \/ Unsubscribe(c)
                                 \/ \E f \in Filters : Subscribe(c, f) \/ Update(c, f)
             \/ Reload \/ Live \/ (\E e \in Entities, d \in Doc : Change(e, d))
             \/ Snapshot \/ UNCHANGED vars
      PROVE  Woken'
  <2>1. UNCHANGED <<queue, ready>>
    BY <1>5 DEF Open, Upgraded, SessionEnds, Unsubscribe, Subscribe, Update, Reload, Live, Change,
                Snapshot, NotNow, StartSnapshot, ReadPage, FailSnapshot, NextPage, EndSnapshot,
                Seed, clientVars, vars
  <2> QED BY <1>4, <2>1
<1> QED BY <1>1, <1>2, <1>3, <1>5 DEF Next, Client, Upstream

(* hub.rs, Queue::push and Notify: what is queued, or was dropped for want of *)
(* room, has a permit that wakes the session.                                 *)
THEOREM NoWakeupLost == Spec => []NoLostWakeup
<1>1. Woken => NoLostWakeup
  BY DEF Woken, NoLostWakeup, OpenConns
<1> QED BY <1>1, WokenStart, WokenStep, PTL DEF Spec

-----------------------------------------------------------------------------
(* The table and the view. *)

(* From place i of the stream st on, a view v that had document d of entity e *)
(* first loses it by a change made from d, or still has it.                   *)
MadeFrom(st, v, e, i, d) ==
    /\ \A k \in (i + 1)..Len(st) :
         st[k].entity = e /\ (\A j \in (i + 1)..(k - 1) : st[j].entity # e) => st[k].was = d
    /\ (\A k \in (i + 1)..Len(st) : st[k].entity # e) => v[e] = d

(* The changes on their way follow each other, up to the view. *)
Chained(st, v) == \A i \in 1..Len(st) : MadeFrom(st, v, st[i].entity, i, st[i].doc)

ChangeOf == [entity : Entities, doc : Doc, was : Doc, live : SUBSET (Conns \X (1..SubLimit))]

PageOf == [st : {"idle", "waiting", "seeding"}, left : SUBSET Entities, docs : [Entities -> Doc]]

StreamTypes ==
    /\ stream \in Seq(ChangeOf) /\ view \in [Entities -> Doc]
    /\ table = [e \in Entities |-> table[e]]
    /\ page \in [Snapshots -> PageOf]

(* What a snapshot has read and not seeded is the view: no change is made     *)
(* while it seeds, and none was on its way when it read.                      *)
PagesAreTheView ==
    \A s \in Snapshots :
        /\ page[s].left # {} => stream = <<>> /\ page[s].docs = view
        /\ page[s].st \in {"idle", "waiting"} => page[s].left = {}

(* Before the first subscription is accepted nothing was read. *)
NothingBefore ==
    /\ stream # <<>> => started
    /\ ~started /\ ~refused =>
         /\ \A e \in Entities : table[e] = NoDoc
         /\ \A s \in Snapshots : page[s].st = "idle"

(* The documents the next change of each entity is made from. *)
TableIsMadeFrom ==
    started => \A e \in Entities : table[e] # NoDoc => MadeFrom(stream, view, e, 0, table[e])

ViewInv ==
    /\ StreamTypes /\ Chained(stream, view) /\ PagesAreTheView /\ NothingBefore
    /\ TableIsMadeFrom /\ TableFollowsFilters

LEMMA MadeFromTail ==
    ASSUME NEW st \in Seq(ChangeOf), st # <<>>, NEW v, NEW e, NEW d, NEW i \in 0..Len(Tail(st)),
           MadeFrom(st, v, e, i + 1, d)
    PROVE  MadeFrom(Tail(st), v, e, i, d)
<1>1. /\ Len(st) \in Nat \ {0} /\ Len(Tail(st)) = Len(st) - 1
      /\ \A k \in 1..Len(Tail(st)) : Tail(st)[k] = st[k + 1]
  BY HeadTailProperties, EmptySeq, LenProperties
<1>2. ASSUME NEW k \in (i + 1)..Len(Tail(st)), Tail(st)[k].entity = e,
             \A j \in (i + 1)..(k - 1) : Tail(st)[j].entity # e
      PROVE  Tail(st)[k].was = d
  <2>1. k + 1 \in (i + 2)..Len(st) /\ Tail(st)[k] = st[k + 1]
    BY <1>1
  <2>2. ASSUME NEW j \in (i + 2)..k PROVE st[j].entity # e
    <3>1. j - 1 \in (i + 1)..(k - 1) /\ j - 1 \in 1..Len(Tail(st)) /\ (j - 1) + 1 = j
      BY <1>1
    <3> QED BY <1>1, <1>2, <3>1
  <2> QED BY <1>2, <2>1, <2>2 DEF MadeFrom
<1>3. ASSUME \A k \in (i + 1)..Len(Tail(st)) : Tail(st)[k].entity # e
      PROVE  v[e] = d
  <2>1. ASSUME NEW k \in (i + 2)..Len(st) PROVE st[k].entity # e
    <3>1. k - 1 \in (i + 1)..Len(Tail(st)) /\ k - 1 \in 1..Len(Tail(st)) /\ (k - 1) + 1 = k
      BY <1>1
    <3> QED BY <1>1, <1>3, <3>1
  <2> QED BY <2>1 DEF MadeFrom
<1> QED BY <1>2, <1>3 DEF MadeFrom

(* A change is made from what the view has. *)
LEMMA MadeFromAppend ==
    ASSUME NEW st \in Seq(ChangeOf), NEW v \in [Entities -> Doc], NEW c \in ChangeOf,
           c.was = v[c.entity], NEW e \in Entities, NEW d, NEW i \in 0..Len(st),
           MadeFrom(st, v, e, i, d)
    PROVE  MadeFrom(Append(st, c), [v EXCEPT ![c.entity] = c.doc], e, i, d)
<1> DEFINE n == Len(st) + 1
           new == Append(st, c)
<1>1. /\ Len(st) \in Nat /\ Len(new) = n /\ new[n] = c
      /\ \A k \in 1..Len(st) : new[k] = st[k]
  BY AppendProperties, LenProperties
<1> HIDE DEF new
<1>2. ASSUME NEW k \in (i + 1)..n, new[k].entity = e,
             \A j \in (i + 1)..(k - 1) : new[j].entity # e
      PROVE  new[k].was = d
  <2>1. \A j \in (i + 1)..(k - 1) : j \in 1..Len(st) /\ st[j].entity # e
    BY <1>1, <1>2
  <2>2. CASE k = n
    <3>1. (\A j \in (i + 1)..Len(st) : st[j].entity # e) => v[e] = d
      BY DEF MadeFrom
    <3> QED BY <1>1, <1>2, <2>1, <2>2, <3>1
  <2>3. CASE k # n
    <3>1. k \in (i + 1)..Len(st) /\ new[k] = st[k]
      BY <1>1, <2>3
    <3> QED BY <1>2, <2>1, <3>1 DEF MadeFrom
  <2> QED BY <2>2, <2>3
<1>3. ASSUME \A k \in (i + 1)..n : new[k].entity # e
      PROVE  [v EXCEPT ![c.entity] = c.doc][e] = d
  <2>1. \A k \in (i + 1)..Len(st) : st[k].entity # e
    BY <1>1, <1>3
  <2>2. c.entity # e
    BY <1>1, <1>3
  <2> QED BY <2>1, <2>2 DEF MadeFrom
<1> QED BY <1>1, <1>2, <1>3 DEF MadeFrom, new

LEMMA ChainedTail ==
    ASSUME NEW st \in Seq(ChangeOf), st # <<>>, NEW v, Chained(st, v)
    PROVE  /\ Chained(Tail(st), v) /\ Head(st) \in ChangeOf /\ Tail(st) \in Seq(ChangeOf)
           /\ MadeFrom(Tail(st), v, Head(st).entity, 0, Head(st).doc)
<1>1. /\ Len(st) \in Nat \ {0} /\ Len(Tail(st)) = Len(st) - 1 /\ Tail(st) \in Seq(ChangeOf)
      /\ \A k \in 1..Len(Tail(st)) : Tail(st)[k] = st[k + 1]
      /\ Head(st) = st[1] /\ st[1] \in ChangeOf
  BY HeadTailProperties, EmptySeq, LenProperties, ElementOfSeq
<1>2. ASSUME NEW i \in 1..Len(Tail(st))
      PROVE  MadeFrom(Tail(st), v, Tail(st)[i].entity, i, Tail(st)[i].doc)
  <2>1. i + 1 \in 1..Len(st) /\ i \in 0..Len(Tail(st)) /\ Tail(st)[i] = st[i + 1]
    BY <1>1
  <2>2. MadeFrom(st, v, st[i + 1].entity, i + 1, st[i + 1].doc)
    BY <2>1 DEF Chained
  <2> QED BY <2>1, <2>2, MadeFromTail
<1>3. MadeFrom(st, v, st[1].entity, 0 + 1, st[1].doc)
  BY <1>1 DEF Chained
<1>4. MadeFrom(Tail(st), v, st[1].entity, 0, st[1].doc)
  <2>1. 0 \in 0..Len(Tail(st))
    BY <1>1
  <2> QED BY <1>3, <2>1, MadeFromTail
<1> QED BY <1>1, <1>2, <1>4 DEF Chained

LEMMA ChainedAppend ==
    ASSUME NEW st \in Seq(ChangeOf), NEW v \in [Entities -> Doc], NEW c \in ChangeOf,
           c.was = v[c.entity], Chained(st, v)
    PROVE  Chained(Append(st, c), [v EXCEPT ![c.entity] = c.doc])
<1> DEFINE n == Len(st) + 1
           new == Append(st, c)
           w == [v EXCEPT ![c.entity] = c.doc]
<1>1. /\ Len(st) \in Nat /\ Len(new) = n /\ new[n] = c
      /\ \A k \in 1..Len(st) : new[k] = st[k] /\ st[k] \in ChangeOf
  BY AppendProperties, LenProperties, ElementOfSeq
<1>2. c.entity \in Entities /\ w[c.entity] = c.doc
  BY DEF ChangeOf
<1>3. ASSUME NEW i \in 1..n PROVE MadeFrom(new, w, new[i].entity, i, new[i].doc)
  <2>1. CASE i = n
    BY <1>1, <1>2, <2>1 DEF MadeFrom
  <2>2. CASE i # n
    <3>1. i \in 1..Len(st) /\ i \in 0..Len(st) /\ new[i] = st[i]
      BY <1>1, <2>2
    <3>2. MadeFrom(st, v, st[i].entity, i, st[i].doc) /\ st[i].entity \in Entities
      BY <1>1, <3>1 DEF Chained, ChangeOf
    <3>3. MadeFrom(new, w, st[i].entity, i, st[i].doc)
      BY <3>1, <3>2, MadeFromAppend
    <3> QED BY <3>1, <3>3
  <2> QED BY <2>1, <2>2
<1> QED BY <1>1, <1>3 DEF Chained

LEMMA ViewStart == Init => ViewInv
<1> SUFFICES ASSUME Init PROVE ViewInv
  OBVIOUS
<1>1. StreamTypes
  <2>1. Idle \in PageOf
    BY DEF Idle, PageOf, Doc
  <2>2. stream \in Seq(ChangeOf)
    BY DEF Init
  <2> QED BY <2>1, <2>2 DEF Init, StreamTypes
<1>2. Chained(stream, view) /\ PagesAreTheView /\ NothingBefore /\ TableIsMadeFrom
  BY DEF Init, Chained, PagesAreTheView, NothingBefore, TableIsMadeFrom, Idle
<1> QED BY <1>1, <1>2, TableStart DEF ViewInv

(* The view, and what is on its way from it, stay; the table may lose         *)
(* documents.                                                                 *)
LEMMA ViewKept ==
    ASSUME ViewInv, TableFollowsFilters', UNCHANGED <<refused, started, brokerVars>>,
           table' = [e \in Entities |-> table'[e]],
           \A e \in Entities : table'[e] \in {NoDoc, table[e]}
    PROVE  ViewInv'
<1>1. UNCHANGED <<view, stream, page>>
  BY DEF brokerVars
<1>2. StreamTypes'
  BY <1>1 DEF ViewInv, StreamTypes
<1>3. Chained(stream, view)' /\ PagesAreTheView' /\ NothingBefore'
  BY <1>1 DEF ViewInv, Chained, MadeFrom, PagesAreTheView, NothingBefore
<1>4. TableIsMadeFrom'
  <2>1. ASSUME started, NEW e \in Entities, table'[e] # NoDoc
        PROVE  MadeFrom(stream, view, e, 0, table[e]) /\ table'[e] = table[e]
    BY <2>1 DEF ViewInv, TableIsMadeFrom
  <2> QED BY <1>1, <2>1 DEF TableIsMadeFrom
<1> QED BY <1>2, <1>3, <1>4 DEF ViewInv

LEMMA KeepsTable ==
    ASSUME NEW e, NEW d, Keep(e, d)
    PROVE  /\ table' = [x \in Entities |-> table'[x]]
           /\ \A x \in Entities : table'[x] \in {NoDoc, IF x = e THEN d ELSE table[x]}
<1> DEFINE order == Append(Without(recency, e), e)
           n     == IF Len(order) > Bound THEN Batch ELSE 0
           gone  == {order[i] : i \in 1..n}
<1>1. table' = [x \in Entities |-> IF x \in gone THEN NoDoc ELSE IF x = e THEN d ELSE table[x]]
  BY DEF Keep
<1> HIDE DEF gone
<1> QED BY <1>1

LEMMA ClientView ==
    ASSUME ViewInv, TableFollowsFilters', Client \/ Recheck \/ Reload \/ UNCHANGED vars
    PROVE  ViewInv'
<1>1. UNCHANGED <<refused, started, brokerVars>>
  BY DEF Client, Open, Discard, Upgraded, SessionEnds, Close, SessionTakes, Unsubscribe, Subscribe,
         Update, Remove, Recheck, Reload, upVars, vars
<1>2. ForgetUnwatched(index') \/ UNCHANGED table
  BY DEF Client, Open, Discard, Upgraded, SessionEnds, Close, SessionTakes, Unsubscribe, Subscribe,
         Update, Remove, Recheck, EndAll, Reload, tableVars, vars
<1>3. /\ table' = [e \in Entities |-> table'[e]]
      /\ \A e \in Entities : table'[e] \in {NoDoc, table[e]}
  BY <1>2 DEF ForgetUnwatched, ViewInv, StreamTypes
<1> QED BY <1>1, <1>3, ViewKept

LEMMA UpstreamView ==
    ASSUME ViewInv, TableFollowsFilters', Live \/ Refuse
    PROVE  ViewInv'
<1>1. CASE Live
  <2>1. stream = <<>> /\ \A e \in Entities : table[e] = NoDoc
    BY <1>1 DEF Live, ViewInv, NothingBefore, TableFollowsFilters
  <2>2. UNCHANGED <<table, view, stream, page>> /\ started'
    BY <1>1 DEF Live, brokerVars
  <2>3. StreamTypes' /\ Chained(stream, view)' /\ PagesAreTheView' /\ NothingBefore'
    BY <2>2 DEF ViewInv, StreamTypes, Chained, MadeFrom, PagesAreTheView, NothingBefore
  <2>4. TableIsMadeFrom'
    BY <2>1, <2>2 DEF TableIsMadeFrom
  <2> QED BY <2>3, <2>4 DEF ViewInv
<1>2. CASE Refuse
  <2>1. UNCHANGED <<table, view, page>> /\ stream' = <<>> /\ ~started' /\ refused'
    BY <1>2 DEF Refuse, tableVars
  <2>2. StreamTypes' /\ Chained(stream, view)' /\ PagesAreTheView' /\ NothingBefore' /\ TableIsMadeFrom'
    BY <2>1 DEF ViewInv, StreamTypes, Chained, PagesAreTheView, NothingBefore, TableIsMadeFrom
  <2> QED BY <2>2 DEF ViewInv
<1> QED BY <1>1, <1>2

(* What the index and the view make of a change. *)
LEMMA ChangeTyped ==
    ASSUME IndexInv, view \in [Entities -> Doc], NEW e \in Entities, NEW d \in Doc
    PROVE  [entity |-> e, doc |-> d, was |-> view[e], live |-> {<<i.conn, i.n>> : i \in index}] \in ChangeOf
<1>1. ASSUME NEW i \in index PROVE i.conn \in Conns /\ i.n \in 1..SubLimit
  <2>1. PICK x \in Conns : \E t \in conns[x].subs : i = InIndex(x, t)
    BY IndexByEntry DEF IndexInv
  <2>2. PICK t \in conns[x].subs : i = InIndex(x, t)
    BY <2>1
  <2>3. t \in Sub
    BY DEF IndexInv, ConnTypes
  <2> QED BY <2>2, <2>3 DEF InIndex, Sub
<1>2. {<<i.conn, i.n>> : i \in index} \in SUBSET (Conns \X (1..SubLimit))
  BY <1>1
<1> QED BY <1>2 DEF ChangeOf

(* The view changes while no snapshot seeds.                                  *)
LEMMA ChangeView ==
    ASSUME ~SnapshotRaces, IndexInv, ViewInv, TableFollowsFilters',
           NEW e \in Entities, NEW d \in Doc, Change(e, d)
    PROVE  ViewInv'
<1>1. /\ \A s \in Snapshots : page[s].left = {}
      /\ view' = [view EXCEPT ![e] = d]
      /\ UNCHANGED <<table, started, refused, page>>
  BY DEF Change, tableVars, upVars
<1>2. PagesAreTheView'
  BY <1>1 DEF PagesAreTheView, ViewInv
<1>3. CASE started
  <2> DEFINE c == [entity |-> e, doc |-> d, was |-> view[e],
                   live |-> {<<i.conn, i.n>> : i \in index}]
    <2>1. stream' = Append(stream, c)
    BY <1>3 DEF Change
  <2>2. c \in ChangeOf
    BY ChangeTyped DEF ViewInv, StreamTypes
  <2>3. c.entity = e /\ c.was = view[e] /\ c.doc = d
    OBVIOUS
  <2> HIDE DEF c
  <2>4. StreamTypes'
    BY <1>1, <2>1, <2>2, AppendProperties DEF StreamTypes, ViewInv
  <2>5. Chained(stream, view)'
    BY <1>1, <2>1, <2>2, <2>3, ChainedAppend DEF ViewInv, StreamTypes
  <2>6. TableIsMadeFrom'
    <3>1. ASSUME NEW x \in Entities, table[x] # NoDoc
          PROVE  MadeFrom(stream', view', x, 0, table[x])
      <4>1. MadeFrom(stream, view, x, 0, table[x])
        BY <1>3, <3>1 DEF ViewInv, TableIsMadeFrom
      <4>2. stream \in Seq(ChangeOf) /\ view \in [Entities -> Doc] /\ 0 \in 0..Len(stream)
        BY LenProperties DEF ViewInv, StreamTypes
      <4> QED BY <1>1, <2>1, <2>2, <2>3, <4>1, <4>2, MadeFromAppend
    <3> QED BY <1>1, <3>1 DEF TableIsMadeFrom
  <2> QED BY <1>1, <1>2, <1>3, <2>4, <2>5, <2>6 DEF ViewInv, NothingBefore
<1>4. CASE ~started
  <2>1. stream = <<>> /\ stream' = stream
    BY <1>4 DEF Change, ViewInv, NothingBefore
  <2>2. StreamTypes' /\ Chained(stream, view)' /\ NothingBefore' /\ TableIsMadeFrom'
    BY <1>1, <1>4, <2>1 DEF ViewInv, StreamTypes, Chained, NothingBefore, TableIsMadeFrom
  <2> QED BY <1>2, <2>2 DEF ViewInv
<1> QED BY <1>3, <1>4

(* The hub applies the first change.                                         *)
LEMMA ApplyView ==
    ASSUME ViewInv, TableFollowsFilters', Apply
    PROVE  ViewInv'
<1> DEFINE h == Head(stream)
<1>1. /\ stream # <<>> /\ stream' = Tail(stream)
      /\ UNCHANGED <<index, started, refused, view, page>>
  BY DEF Apply, upVars
<1>2. stream \in Seq(ChangeOf)
  BY DEF ViewInv, StreamTypes
<1>3. /\ Chained(Tail(stream), view) /\ h \in ChangeOf /\ Tail(stream) \in Seq(ChangeOf)
      /\ MadeFrom(Tail(stream), view, h.entity, 0, h.doc)
  BY <1>1, <1>2, ChainedTail DEF ViewInv
<1>4. /\ table' = [x \in Entities |-> table'[x]]
      /\ \A x \in Entities : table'[x] # NoDoc =>
           IF x = h.entity THEN table'[x] = h.doc ELSE table'[x] = table[x]
  <2>1. CASE index = {}
    BY <2>1 DEF Apply, ViewInv, TableFollowsFilters, StreamTypes
  <2>2. CASE index # {} /\ h.doc = NoDoc
    BY <2>2 DEF Apply, RemoveEntity, ViewInv, StreamTypes
  <2>3. CASE index # {} /\ h.doc # NoDoc
    <3>1. Keep(h.entity, h.doc)
      BY <2>3 DEF Apply
    <3> QED BY <3>1, KeepsTable
  <2> QED BY <2>1, <2>2, <2>3
<1>5. StreamTypes'
  BY <1>1, <1>3, <1>4 DEF ViewInv, StreamTypes
<1>6. PagesAreTheView' /\ NothingBefore'
  BY <1>1 DEF ViewInv, PagesAreTheView, NothingBefore
<1>7. TableIsMadeFrom'
  <2>1. ASSUME started, NEW x \in Entities, table'[x] # NoDoc
        PROVE  MadeFrom(Tail(stream), view, x, 0, table'[x])
    <3>1. CASE x = h.entity
      BY <1>3, <1>4, <2>1, <3>1
    <3>2. CASE x # h.entity
      <4>1. table'[x] = table[x] /\ MadeFrom(stream, view, x, 0, table[x])
        BY <1>4, <2>1, <3>2 DEF ViewInv, TableIsMadeFrom
      <4>2. /\ Len(stream) \in Nat \ {0} /\ stream[1] = h /\ Len(Tail(stream)) \in Nat
        BY <1>1, <1>2, <1>3, EmptySeq, LenProperties, HeadTailProperties
      <4>3. MadeFrom(stream, view, x, 0 + 1, table[x])
        <5>1. ASSUME NEW k \in 2..Len(stream), stream[k].entity = x,
                     \A j \in 2..(k - 1) : stream[j].entity # x
              PROVE  stream[k].was = table[x]
          <6>1. \A j \in 1..(k - 1) : stream[j].entity # x
            BY <3>2, <4>2, <5>1
          <6> QED BY <4>1, <5>1, <6>1 DEF MadeFrom
        <5>2. ASSUME \A k \in 2..Len(stream) : stream[k].entity # x
              PROVE  view[x] = table[x]
          <6>1. \A k \in 1..Len(stream) : stream[k].entity # x
            BY <3>2, <4>2, <5>2
          <6> QED BY <4>1, <6>1 DEF MadeFrom
        <5> QED BY <5>1, <5>2 DEF MadeFrom
      <4>4. 0 \in 0..Len(Tail(stream))
        BY <4>2
      <4> QED BY <1>1, <1>2, <4>1, <4>3, <4>4, MadeFromTail
    <3> QED BY <3>1, <3>2
  <2> QED BY <1>1, <2>1 DEF TableIsMadeFrom
<1> QED BY <1>1, <1>3, <1>5, <1>6, <1>7 DEF ViewInv

(* A snapshot reads, and seeds what the table lacks.                         *)
LEMMA SnapshotView ==
    ASSUME ~SnapshotRaces, ViewInv, TableFollowsFilters', Snapshot
    PROVE  ViewInv'
<1>1. UNCHANGED <<refused, started, view, stream>>
  BY DEF Snapshot, NotNow, StartSnapshot, ReadPage, FailSnapshot, NextPage, EndSnapshot, Seed,
         clientVars, upVars, brokerVars
<1>2. CASE NotNow
  <2>1. UNCHANGED <<page, table>>
    BY <1>2 DEF NotNow, brokerVars
  <2> QED BY <1>1, <2>1, ViewKept DEF brokerVars, ViewInv, StreamTypes
<1>3. ASSUME NEW s \in Snapshots, NEW p, page' = [page EXCEPT ![s] = p],
             p \in PageOf,
             p.left # {} => stream = <<>> /\ p.docs = view,
             p.st \in {"idle", "waiting"} => p.left = {},
             started \/ page[s].st # "idle",
             table' = [e \in Entities |-> table'[e]],
             started => \A e \in Entities : table'[e] # NoDoc => MadeFrom(stream, view, e, 0, table'[e])
      PROVE  ViewInv'
  <2>1. page'[s] = p /\ \A t \in Snapshots \ {s} : page'[t] = page[t]
    BY <1>3 DEF ViewInv, StreamTypes
  <2>2. StreamTypes'
    BY <1>1, <1>3, <2>1 DEF ViewInv, StreamTypes
  <2>3. Chained(stream, view)'
    BY <1>1 DEF ViewInv, Chained, MadeFrom
  <2>4. PagesAreTheView'
    BY <1>1, <1>3, <2>1 DEF ViewInv, PagesAreTheView
  <2>5. NothingBefore'
    BY <1>1, <1>3 DEF ViewInv, NothingBefore
  <2>6. TableIsMadeFrom'
    BY <1>1, <1>3 DEF TableIsMadeFrom
  <2> QED BY <2>2, <2>3, <2>4, <2>5, <2>6 DEF ViewInv
<1>4. table = [e \in Entities |-> table[e]]
      /\ (started => \A e \in Entities : table[e] # NoDoc => MadeFrom(stream, view, e, 0, table[e]))
  BY DEF ViewInv, StreamTypes, TableIsMadeFrom
<1>5. ASSUME NEW s \in Snapshots, StartSnapshot(s) PROVE ViewInv'
  <2> DEFINE p == [page[s] EXCEPT !.st = "waiting"]
  <2>1. page' = [page EXCEPT ![s] = p] /\ table' = table /\ started /\ page[s].st = "idle"
    BY <1>5 DEF StartSnapshot
  <2>2. p \in PageOf /\ p.left = {}
    <3>1. page[s] \in PageOf /\ page[s].left = {}
      BY <2>1 DEF ViewInv, PagesAreTheView, StreamTypes
    <3> QED BY <3>1 DEF PageOf
  <2> HIDE DEF p
  <2> QED BY <1>3, <1>4, <2>1, <2>2
<1>6. ASSUME NEW s \in Snapshots, ReadPage(s) PROVE ViewInv'
  <2>1. PICK P \in SUBSET {e \in Entities : view[e] # NoDoc} :
          page' = [page EXCEPT ![s] = [st |-> "seeding", left |-> P, docs |-> view]]
    BY <1>6 DEF ReadPage
  <2> DEFINE p == [st |-> "seeding", left |-> P, docs |-> view]
  <2>2. p \in PageOf /\ p.docs = view /\ p.st = "seeding"
    BY DEF PageOf, ViewInv, StreamTypes
  <2>3. stream = <<>> /\ table' = table /\ page[s].st # "idle" /\ page' = [page EXCEPT ![s] = p]
    BY <1>6, <2>1 DEF ReadPage, tableVars
  <2> HIDE DEF p
  <2> QED BY <1>3, <1>4, <2>2, <2>3
<1>7. ASSUME NEW s \in Snapshots, FailSnapshot(s) \/ EndSnapshot(s) PROVE ViewInv'
  <2>1. page' = [page EXCEPT ![s] = Idle] /\ table' = table /\ page[s].st # "idle"
    BY <1>7 DEF FailSnapshot, EndSnapshot, tableVars
  <2>2. Idle \in PageOf /\ Idle.left = {}
    BY DEF Idle, PageOf, Doc
  <2> QED BY <1>3, <1>4, <2>1, <2>2
<1>8. ASSUME NEW s \in Snapshots, NextPage(s) PROVE ViewInv'
  <2> DEFINE p == [Idle EXCEPT !.st = "waiting"]
  <2>1. page' = [page EXCEPT ![s] = p] /\ table' = table /\ page[s].st # "idle"
    BY <1>8 DEF NextPage, tableVars
  <2>2. p \in PageOf /\ p.left = {}
    BY DEF Idle, PageOf, Doc
  <2> HIDE DEF p
  <2> QED BY <1>3, <1>4, <2>1, <2>2
<1>9. ASSUME NEW s \in Snapshots, NEW e \in Entities, Seed(s, e) PROVE ViewInv'
  <2> DEFINE p == [page[s] EXCEPT !.left = @ \ {e}]
  <2>1. page' = [page EXCEPT ![s] = p] /\ e \in page[s].left
    BY <1>9 DEF Seed
  <2>2. stream = <<>> /\ page[s].docs = view /\ page[s].st \notin {"idle", "waiting"}
    BY <2>1 DEF ViewInv, PagesAreTheView
  <2>3. p.left = page[s].left \ {e} /\ p.docs = page[s].docs /\ p.st = page[s].st
        /\ p \in PageOf
    <3>1. page[s] \in PageOf
      BY DEF ViewInv, StreamTypes
    <3> QED BY <3>1 DEF PageOf
  <2> HIDE DEF p
  <2>4. CASE index # {} /\ table[e] = NoDoc
    <3>1. Keep(e, view[e])
      BY <1>9, <2>2, <2>4 DEF Seed
    <3>2. /\ table' = [x \in Entities |-> table'[x]]
          /\ \A x \in Entities : table'[x] \in {NoDoc, IF x = e THEN view[e] ELSE table[x]}
      BY <3>1, KeepsTable
    <3>3. MadeFrom(stream, view, e, 0, view[e])
      BY <2>2 DEF MadeFrom
    <3>4. started => \A x \in Entities : table'[x] # NoDoc => MadeFrom(stream, view, x, 0, table'[x])
      BY <1>4, <3>2, <3>3
    <3> QED BY <1>3, <2>1, <2>2, <2>3, <3>2, <3>4
  <2>5. CASE ~(index # {} /\ table[e] = NoDoc)
    <3>1. table' = table
      BY <1>9, <2>5 DEF Seed
    <3> QED BY <1>3, <1>4, <2>1, <2>2, <2>3, <3>1
  <2> QED BY <2>4, <2>5
<1> QED BY <1>2, <1>5, <1>6, <1>7, <1>8, <1>9 DEF Snapshot

LEMMA ViewStep ==
    ~SnapshotRaces /\ ~Gaps /\ IndexInv /\ ViewInv /\ [Next]_vars => ViewInv'
<1> SUFFICES ASSUME ~SnapshotRaces, ~Gaps, IndexInv, ViewInv, [Next]_vars
             PROVE  ViewInv'
  OBVIOUS
<1>1. TableFollowsFilters'
  BY TableStep DEF ViewInv
<1>2. CASE Client \/ Recheck \/ Reload \/ UNCHANGED vars
  BY <1>1, <1>2, ClientView
<1>3. CASE Live \/ Refuse
  BY <1>1, <1>3, UpstreamView
<1>4. ~Gap
  BY DEF Gap
<1>5. CASE Apply
  BY <1>1, <1>5, ApplyView
<1>6. CASE \E e \in Entities, d \in Doc : Change(e, d)
  BY <1>1, <1>6, ChangeView
<1>7. CASE Snapshot
  BY <1>1, <1>7, SnapshotView
<1> QED BY <1>2, <1>3, <1>4, <1>5, <1>6, <1>7 DEF Next, Upstream

(* fanout/hub.rs:251: a live table that was read, with no change on its way,  *)
(* agrees with the view, whatever subscriptions, refusals, evictions and      *)
(* several snapshots at once do, where no snapshot races a change and nothing *)
(* is lost upstream.                                                          *)
THEOREM TableIsTheView == ~SnapshotRaces /\ ~Gaps => (Spec => []ReadTableIsTheView)
<1> SUFFICES ASSUME ~SnapshotRaces, ~Gaps PROVE Spec => []ReadTableIsTheView
  OBVIOUS
<1>1. ViewInv => ReadTableIsTheView
  <2> SUFFICES ASSUME ViewInv, started, stream = <<>>, NEW e \in Entities, table[e] # NoDoc
               PROVE  table[e] = view[e]
    BY DEF ReadTableIsTheView
  <2> QED BY DEF ViewInv, TableIsMadeFrom, MadeFrom
<1>2. Init => IndexInv /\ ViewInv
  BY IndexStart, ViewStart
<1>3. IndexInv /\ ViewInv /\ [Next]_vars => (IndexInv /\ ViewInv)'
  BY IndexStep, ViewStep
<1> QED BY <1>1, <1>2, <1>3, PTL DEF Spec

(* fanout/hub.rs, apply: under the same conditions no change is taken for     *)
(* none: every filter that was to hear of it does.                            *)
THEOREM EveryChangeIsJudged == ~SnapshotRaces /\ ~Gaps => (Spec => []EveryChangeJudged)
<1> SUFFICES ASSUME ~SnapshotRaces, ~Gaps PROVE Spec => []EveryChangeJudged
  OBVIOUS
<1>1. ViewInv => EveryChangeJudged
  <2> SUFFICES ASSUME ViewInv, stream # <<>>, NEW i \in index, Head(stream).doc # NoDoc,
                      Decides(i.filter, Head(stream).was, Head(stream).doc)
               PROVE  Decides(i.filter, table[Head(stream).entity], Head(stream).doc)
    BY DEF EveryChangeJudged
  <2> DEFINE h == Head(stream)
  <2>1. /\ Len(stream) \in Nat \ {0} /\ stream[1] = h /\ h \in ChangeOf
    BY EmptySeq, LenProperties, HeadTailProperties, ElementOfSeq DEF ViewInv, StreamTypes
  <2>2. table[h.entity] # NoDoc => h.was = table[h.entity]
    <3>1. started /\ h.entity \in Entities
      BY <2>1 DEF ViewInv, NothingBefore, ChangeOf
    <3>2. ASSUME table[h.entity] # NoDoc PROVE MadeFrom(stream, view, h.entity, 0, table[h.entity])
      BY <3>1, <3>2 DEF ViewInv, TableIsMadeFrom
    <3> QED BY <2>1, <3>2 DEF MadeFrom
  <2>3. CASE table[h.entity] # NoDoc
    BY <2>2, <2>3
  <2>4. CASE table[h.entity] = NoDoc
    <3>1. changed(h.was, h.doc) \subseteq changed(NoDoc, h.doc)
      BY DEF changed
    <3> QED BY <2>4, <3>1 DEF Decides
  <2> QED BY <2>3, <2>4
<1>2. Init => IndexInv /\ ViewInv
  BY IndexStart, ViewStart
<1>3. IndexInv /\ ViewInv /\ [Next]_vars => (IndexInv /\ ViewInv)'
  BY IndexStep, ViewStep
<1> QED BY <1>1, <1>2, <1>3, PTL DEF Spec

-----------------------------------------------------------------------------
(* The eviction order and the queues. *)

(* The queue after each number: PushAll names the last. *)
LEMMA PushAllIn ==
    ASSUME NEW Q, NEW q \in Q, NEW outs,
           \A p \in Q : \A n \in 1..SubLimit : n \in DOMAIN outs => Push(p, outs[n]) \in Q
    PROVE  PushAll(q, outs) \in Q
<1>0. SubLimit \in Nat \ {0}
  BY LimitAssumption
<1> DEFINE Body(g, n) == IF n = 0 THEN q
                         ELSE IF n \in DOMAIN outs THEN Push(g[n - 1], outs[n]) ELSE g[n - 1]
           UpTo(g, k) == g = [n \in 0..k |-> Body(g, n)]
           After == CHOOSE g : g = [n \in 0..SubLimit |-> Body(g, n)]
<1>1. \E g : UpTo(g, SubLimit)
  <2> DEFINE T == {k \in 0..SubLimit : ~ \E g : UpTo(g, k)}
  <2> SUFFICES ASSUME T # {} PROVE FALSE
    <3>1. SubLimit \in 0..SubLimit
      BY <1>0
    <3> QED BY <3>1
  <2>0. T \subseteq Nat
    BY <1>0
  <2> HIDE DEF T
  <2>1. PICK x \in T : \A y \in T : ~(y < x)
    BY <2>0, LeastOf
  <2> USE DEF T
  <2>2. x # 0
    <3>1. UpTo([n \in 0..0 |-> q], 0)
      OBVIOUS
    <3> QED BY <2>1, <3>1
  <2>3. x \in 1..SubLimit /\ x - 1 \in 0..SubLimit /\ x - 1 < x
    BY <1>0, <2>1, <2>2
  <2>4. PICK g : UpTo(g, x - 1)
    BY <2>1, <2>3
  <2> DEFINE h == [n \in 0..x |-> Body(g, n)]
  <2>5. \A n \in 0..(x - 1) : h[n] = g[n]
    BY <2>3, <2>4
  <2>6. \A n \in 0..x : Body(h, n) = Body(g, n)
    <3>1. \A n \in 1..x : n - 1 \in 0..(x - 1)
      BY <2>3
    <3> HIDE DEF h
    <3> QED BY <2>3, <2>5, <3>1
  <2>7. UpTo(h, x)
    BY <2>6
  <2> QED BY <2>1, <2>7
<1>2. UpTo(After, SubLimit)
  BY <1>1
<1>3. PushAll(q, outs) = After[SubLimit]
  BY DEF PushAll
<1> HIDE DEF After
<1>4. /\ After[0] = q
      /\ \A n \in 1..SubLimit :
           After[n] = IF n \in DOMAIN outs THEN Push(After[n - 1], outs[n]) ELSE After[n - 1]
  BY <1>0, <1>2
<1>5. \A n \in 0..SubLimit : After[n] \in Q
  <2> DEFINE T == {k \in 0..SubLimit : After[k] \notin Q}
  <2> SUFFICES ASSUME T # {} PROVE FALSE
    OBVIOUS
  <2>0. T \subseteq Nat
    BY <1>0
  <2> HIDE DEF T
  <2>1. PICK x \in T : \A y \in T : ~(y < x)
    BY <2>0, LeastOf
  <2> USE DEF T
  <2>2. x \in 1..SubLimit /\ x - 1 \in 0..SubLimit /\ x - 1 < x
    BY <1>0, <1>4, <2>1
  <2>3. After[x - 1] \in Q
    BY <2>1, <2>2
  <2>4. After[x] \in Q
    BY <1>4, <2>2, <2>3
  <2> QED BY <2>1, <2>4
<1> QED BY <1>0, <1>3, <1>5

(* The queues that hold each pair of subscription and entity once. *)
Queues ==
    {q \in [items : Seq(Outs), overflowed : BOOLEAN] :
        \A i, j \in DOMAIN q.items : SamePair(q.items[i], q.items[j]) => i = j}

LEMMA HeldPlace ==
    ASSUME NEW q \in [items : Seq(Outs), overflowed : BOOLEAN], NEW out
    PROVE  /\ Held(q, out) # 0 => /\ Held(q, out) \in 1..Len(q.items)
                                  /\ SamePair(q.items[Held(q, out)], out)
           /\ Held(q, out) = 0 => \A i \in 1..Len(q.items) : ~SamePair(q.items[i], out)
<1> DEFINE I == q.items
           P == {i \in 1..Len(I) : SamePair(I[i], out)}
<1>1. I \in Seq(Outs) /\ Len(I) \in Nat /\ DOMAIN I = 1..Len(I)
  BY LenProperties
<1>2. CASE P = {}
  BY <1>1, <1>2 DEF Held
<1>3. CASE P # {}
  <2>1. P \subseteq Nat
    BY <1>1
  <2> HIDE DEF P
  <2>2. PICK x \in P : \A y \in P : ~(y < x)
    BY <1>3, <2>1, LeastOf
  <2> USE DEF P
  <2>3. /\ x \in DOMAIN I /\ SamePair(I[x], out)
        /\ \A j \in 1..(x - 1) : ~SamePair(I[j], out)
    BY <1>1, <2>2
  <2>4. Held(q, out) = CHOOSE i \in DOMAIN I :
           SamePair(I[i], out) /\ \A j \in 1..(i - 1) : ~SamePair(I[j], out)
    BY <2>3 DEF Held
  <2>5. Held(q, out) \in DOMAIN I /\ SamePair(I[Held(q, out)], out)
    BY <2>3, <2>4
  <2> QED BY <1>1, <2>5
<1> QED BY <1>2, <1>3

LEMMA PushKeepsPairs ==
    ASSUME NEW q \in Queues, NEW out \in Outs
    PROVE  Push(q, out) \in Queues
<1> DEFINE I == q.items
           h == Held(q, out)
<1>1. /\ q \in [items : Seq(Outs), overflowed : BOOLEAN]
      /\ I \in Seq(Outs) /\ Len(I) \in Nat /\ DOMAIN I = 1..Len(I)
      /\ \A i, j \in 1..Len(I) : SamePair(I[i], I[j]) => i = j
  BY LenProperties DEF Queues
<1> HIDE DEF h
<1>2. CASE h # 0
  <2>1. h \in 1..Len(I) /\ SamePair(I[h], out)
    BY <1>1, <1>2, HeldPlace DEF h
  <2> DEFINE J == [I EXCEPT ![h] = out]
  <2>2. /\ J \in Seq(Outs) /\ Len(J) = Len(I)
        /\ \A j \in 1..Len(I) : J[j] = IF j = h THEN out ELSE I[j]
    BY <1>1, <2>1, ExceptSeq
  <2>3. Push(q, out) = [q EXCEPT !.items[h] = out]
    BY <1>2 DEF Push, h
  <2>4. Push(q, out) = [items |-> J, overflowed |-> q.overflowed]
    BY <1>1, <2>3
  <2> HIDE DEF J
  <2>5. DOMAIN J = 1..Len(I)
    BY <2>2, LenProperties
  <2>6. ASSUME NEW i \in 1..Len(I), NEW j \in 1..Len(I), SamePair(J[i], J[j]) PROVE i = j
    <3>1. SamePair(I[i], I[j])
      BY <2>1, <2>2, <2>6 DEF SamePair
    <3> QED BY <1>1, <3>1
  <2> QED BY <1>1, <2>2, <2>4, <2>5, <2>6 DEF Queues
<1>3. CASE h = 0 /\ Len(I) >= MAX_QUEUED
  <2>1. Push(q, out) = [items |-> I, overflowed |-> TRUE]
    BY <1>1, <1>3 DEF Push, h
  <2> QED BY <1>1, <2>1 DEF Queues
<1>4. CASE h = 0 /\ ~(Len(I) >= MAX_QUEUED)
  <2> DEFINE J == Append(I, out)
  <2>1. Push(q, out) = [items |-> J, overflowed |-> q.overflowed]
    BY <1>1, <1>4 DEF Push, h
  <2>2. /\ J \in Seq(Outs) /\ Len(J) = Len(I) + 1
        /\ \A j \in 1..Len(I) : J[j] = I[j]
        /\ J[Len(I) + 1] = out
    BY <1>1, AppendProperties
  <2> HIDE DEF J
  <2>3. DOMAIN J = 1..(Len(I) + 1)
    BY <2>2, LenProperties
  <2>4. \A j \in 1..Len(I) : ~SamePair(I[j], out)
    BY <1>1, <1>4, HeldPlace DEF h
  <2>5. ASSUME NEW i \in 1..(Len(I) + 1), NEW j \in 1..(Len(I) + 1), SamePair(J[i], J[j]) PROVE i = j
    <3>1. CASE i \in 1..Len(I) /\ j \in 1..Len(I)
      BY <1>1, <2>2, <2>5, <3>1
    <3>2. CASE i \in 1..Len(I) /\ j = Len(I) + 1
      BY <2>2, <2>4, <2>5, <3>2
    <3>3. CASE i = Len(I) + 1 /\ j \in 1..Len(I)
      BY <2>2, <2>4, <2>5, <3>3 DEF SamePair
    <3> QED BY <1>1, <3>1, <3>2, <3>3
  <2> QED BY <1>1, <2>1, <2>2, <2>3, <2>5 DEF Queues
<1> QED BY <1>2, <1>3, <1>4

(* The table and its eviction order name the same entities, Bound at most.   *)
OrderOf(tab, s) ==
    /\ s \in Seq(Entities) /\ Len(s) <= Bound
    /\ \A e \in Entities : tab[e] # NoDoc <=> \E i \in 1..Len(s) : s[i] = e
    /\ \A i, j \in 1..Len(s) : s[i] = s[j] => i = j

(* An entity is taken out of the order. *)
LEMMA WithoutEntity ==
    ASSUME NEW s \in Seq(Entities), \A i, j \in 1..Len(s) : s[i] = s[j] => i = j, NEW e
    PROVE  /\ Without(s, e) \in Seq(Entities)
           /\ Len(Without(s, e)) <= Len(s)
           /\ \A i, j \in 1..Len(Without(s, e)) : Without(s, e)[i] = Without(s, e)[j] => i = j
           /\ \A x : (\E i \in 1..Len(Without(s, e)) : Without(s, e)[i] = x)
                    <=> x # e /\ \E i \in 1..Len(s) : s[i] = x
<1>1. Members(Without(s, e)) = Members(s) \ {e}
  BY WithoutOrder
<1>2. \A x : x \in Members(Without(s, e)) <=> x # e /\ x \in Members(s)
  BY <1>1
<1>3. \A t, x : x \in Members(t) <=> \E i \in 1..Len(t) : t[i] = x
  BY DEF Members
<1> QED BY <1>2, <1>3, WithoutOrder

LEMMA KeepOrder ==
    ASSUME table \in [Entities -> Doc], OrderOf(table, recency),
           NEW e \in Entities, NEW d \in Doc, d # NoDoc, Keep(e, d)
    PROVE  table' \in [Entities -> Doc] /\ OrderOf(table', recency')
<1>a. recency \in Seq(Entities) /\ \A i, j \in 1..Len(recency) : recency[i] = recency[j] => i = j
  BY DEF OrderOf
<1> DEFINE kept == Without(recency, e)
<1>b. /\ kept \in Seq(Entities) /\ Len(kept) <= Len(recency)
      /\ \A i, j \in 1..Len(kept) : kept[i] = kept[j] => i = j
      /\ \A x : (\E i \in 1..Len(kept) : kept[i] = x)
              <=> x # e /\ \E i \in 1..Len(recency) : recency[i] = x
  BY <1>a, WithoutEntity
<1> DEFINE order == Append(kept, e)
           n     == IF Len(order) > Bound THEN Batch ELSE 0
           gone  == {order[i] : i \in 1..n}
<1>1. /\ table' = [x \in Entities |-> IF x \in gone THEN NoDoc ELSE IF x = e THEN d ELSE table[x]]
      /\ recency' = SubSeq(order, n + 1, Len(order))
  BY DEF Keep
<1>2. /\ recency \in Seq(Entities) /\ Len(recency) \in Nat /\ Len(recency) <= Bound
      /\ \A i, j \in 1..Len(recency) : recency[i] = recency[j] => i = j
      /\ \A x \in Entities : table[x] # NoDoc <=> \E i \in 1..Len(recency) : recency[i] = x
  BY LenProperties DEF OrderOf
<1>3. /\ kept \in Seq(Entities) /\ Len(kept) \in Nat /\ Len(kept) <= Len(recency)
      /\ \A i, j \in 1..Len(kept) : kept[i] = kept[j] => i = j
      /\ \A x : (\E i \in 1..Len(kept) : kept[i] = x) <=> x # e /\ \E i \in 1..Len(recency) : recency[i] = x
  <2> HIDE DEF kept
  <2> QED BY <1>b, LenProperties
<1> HIDE DEF kept
<1>4. /\ order \in Seq(Entities) /\ Len(order) = Len(kept) + 1
      /\ order[Len(kept) + 1] = e /\ \A i \in 1..Len(kept) : order[i] = kept[i]
      /\ \A i \in 1..Len(order) : order[i] \in Entities
  BY <1>3, AppendProperties, ElementOfSeq
<1> HIDE DEF order
<1>5. ASSUME NEW i \in 1..Len(order), NEW j \in 1..Len(order), order[i] = order[j] PROVE i = j
  <2>1. \A k \in 1..Len(kept) : kept[k] # e
    BY <1>3
  <2>2. /\ i \in 1..Len(kept) \/ i = Len(kept) + 1
        /\ j \in 1..Len(kept) \/ j = Len(kept) + 1
    BY <1>3, <1>4
  <2>3. CASE i \in 1..Len(kept) /\ j \in 1..Len(kept)
    BY <1>3, <1>4, <1>5, <2>3
  <2>4. CASE i \in 1..Len(kept) /\ j = Len(kept) + 1
    BY <1>4, <1>5, <2>1, <2>4
  <2>5. CASE i = Len(kept) + 1 /\ j \in 1..Len(kept)
    BY <1>4, <1>5, <2>1, <2>5
  <2> QED BY <2>2, <2>3, <2>4, <2>5
<1>6. \A x \in Entities : (\E i \in 1..Len(order) : order[i] = x) <=> x = e \/ table[x] # NoDoc
  <2>1. ASSUME NEW x \in Entities, NEW i \in 1..Len(order), order[i] = x
        PROVE  x = e \/ table[x] # NoDoc
    <3>1. i \in 1..Len(kept) \/ i = Len(kept) + 1
      BY <1>3, <1>4
    <3>2. ASSUME i \in 1..Len(kept) PROVE table[x] # NoDoc
      <4>1. kept[i] = x
        BY <1>4, <2>1, <3>2
      <4>2. \E k \in 1..Len(recency) : recency[k] = x
        BY <1>3, <3>2, <4>1
      <4> QED BY <1>2, <4>2
    <3> QED BY <1>4, <2>1, <3>1, <3>2
  <2>2. Len(order) \in 1..Len(order)
    BY <1>3, <1>4
  <2>3. ASSUME NEW x \in Entities, x # e, table[x] # NoDoc
        PROVE  \E i \in 1..Len(order) : order[i] = x
    <3>1. PICK i \in 1..Len(kept) : kept[i] = x
      BY <1>2, <1>3, <2>3
    <3>2. i \in 1..Len(order) /\ order[i] = x
      BY <1>3, <1>4, <3>1
    <3> QED BY <3>2
  <2> QED BY <1>4, <2>1, <2>2, <2>3
<1>7. Bound \in Nat \ {0} /\ Batch \in 1..Bound
  <2>1. Bound \in Nat \ {0}
    BY LimitAssumption
  <2>2. Bound \div 100 \in Nat /\ Bound \div 100 <= Bound
    BY <2>1
  <2> QED BY <2>1, <2>2 DEF Batch
<1>8. n \in Nat /\ n <= Len(order) /\ Len(order) - n <= Bound /\ Len(order) \in Nat
  BY <1>2, <1>3, <1>4, <1>7
<1> HIDE DEF n
<1>9. /\ recency' \in Seq(Entities) /\ Len(recency') = Len(order) - n
      /\ \A i \in 1..(Len(order) - n) : recency'[i] = order[n + i]
  <2>1. /\ n + 1 \in Int /\ Len(order) \in Int
        /\ \A i \in (n + 1)..Len(order) : order[i] \in Entities
    BY <1>4, <1>8
  <2>2. /\ SubSeq(order, n + 1, Len(order)) \in Seq(Entities)
        /\ Len(SubSeq(order, n + 1, Len(order))) =
             IF n + 1 <= Len(order) THEN Len(order) - (n + 1) + 1 ELSE 0
        /\ \A i \in 1..(Len(order) - (n + 1) + 1) :
             SubSeq(order, n + 1, Len(order))[i] = order[(n + 1) + i - 1]
    BY <2>1, SubSeqProperties
  <2>3. \A i \in 1..(Len(order) - n) : (n + 1) + i - 1 = n + i /\ i \in 1..(Len(order) - (n + 1) + 1)
    BY <1>8
  <2> QED BY <1>1, <1>8, <2>2, <2>3
<1>10. \A i, j \in 1..Len(recency') : recency'[i] = recency'[j] => i = j
  <2> SUFFICES ASSUME NEW i \in 1..Len(recency'), NEW j \in 1..Len(recency'), recency'[i] = recency'[j]
               PROVE  i = j
    OBVIOUS
  <2>1. i \in 1..(Len(order) - n) /\ j \in 1..(Len(order) - n)
    BY <1>9
  <2>2. n + i \in 1..Len(order) /\ n + j \in 1..Len(order)
    BY <1>8, <2>1
  <2>3. order[n + i] = order[n + j]
    BY <1>9, <2>1
  <2>4. n + i = n + j
    BY <1>5, <2>2, <2>3
  <2> QED BY <1>8, <2>4
<1>11. \A x : x \in gone <=> \E i \in 1..n : order[i] = x
  OBVIOUS
<1> HIDE DEF gone
<1>12. table' \in [Entities -> Doc] /\ \A x \in Entities : table'[x] # NoDoc <=> x \notin gone /\ (x = e \/ table[x] # NoDoc)
  BY <1>1 DEF Doc
<1>13. ASSUME NEW x \in Entities
       PROVE  table'[x] # NoDoc <=> \E i \in 1..Len(recency') : recency'[i] = x
  <2>1. ASSUME table'[x] # NoDoc PROVE \E i \in 1..Len(recency') : recency'[i] = x
    <3>1. PICK k \in 1..Len(order) : order[k] = x
      BY <1>6, <1>12, <2>1
    <3>2. ~(k \in 1..n)
      BY <1>11, <1>12, <2>1, <3>1
    <3>3. k - n \in 1..Len(recency') /\ n + (k - n) = k
      BY <1>8, <1>9, <3>2
    <3> QED BY <1>9, <3>1, <3>3
  <2>2. ASSUME NEW i \in 1..Len(recency'), recency'[i] = x PROVE table'[x] # NoDoc
    <3>1. n + i \in 1..Len(order) /\ order[n + i] = x /\ ~(n + i \in 1..n)
      BY <1>8, <1>9, <2>2
    <3>2. x \notin gone
      <4>1. ASSUME NEW j \in 1..n, order[j] = x PROVE FALSE
        <5>1. j \in 1..Len(order)
          BY <1>8
        <5> QED BY <1>5, <3>1, <4>1, <5>1
      <4> QED BY <1>11, <4>1
    <3> QED BY <1>6, <1>12, <3>1, <3>2
  <2> QED BY <2>1, <2>2
<1> QED BY <1>8, <1>9, <1>10, <1>12, <1>13 DEF OrderOf

LEMMA RemovedOrder ==
    ASSUME table \in [Entities -> Doc], OrderOf(table, recency), NEW e \in Entities, RemoveEntity(e)
    PROVE  table' \in [Entities -> Doc] /\ OrderOf(table', recency')
<1>1. /\ recency \in Seq(Entities) /\ Len(recency) \in Nat /\ Len(recency) <= Bound /\ Bound \in Nat
      /\ \A i, j \in 1..Len(recency) : recency[i] = recency[j] => i = j
      /\ \A x \in Entities : table[x] # NoDoc <=> \E i \in 1..Len(recency) : recency[i] = x
  BY LenProperties, LimitAssumption DEF OrderOf
<1>2. /\ recency' \in Seq(Entities) /\ Len(recency') \in Nat /\ Len(recency') <= Len(recency)
      /\ \A i, j \in 1..Len(recency') : recency'[i] = recency'[j] => i = j
      /\ \A x : (\E i \in 1..Len(recency') : recency'[i] = x)
              <=> x # e /\ \E i \in 1..Len(recency) : recency[i] = x
  <2> DEFINE w == Without(recency, e)
  <2>1. recency' = w
    BY DEF RemoveEntity
  <2>2. /\ w \in Seq(Entities) /\ Len(w) <= Len(recency)
        /\ \A i, j \in 1..Len(w) : w[i] = w[j] => i = j
        /\ \A x : (\E i \in 1..Len(w) : w[i] = x) <=> x # e /\ \E i \in 1..Len(recency) : recency[i] = x
    BY <1>1, WithoutEntity
  <2>3. Len(w) \in Nat
    BY <2>2, LenProperties
  <2> HIDE DEF w
  <2> QED BY <2>1, <2>2, <2>3
<1>3. table' \in [Entities -> Doc] /\ \A x \in Entities : table'[x] # NoDoc <=> x # e /\ table[x] # NoDoc
  BY DEF RemoveEntity, Doc
<1>4. Len(recency') <= Bound
  BY <1>1, <1>2
<1>5. ASSUME NEW x \in Entities
      PROVE  table'[x] # NoDoc <=> \E i \in 1..Len(recency') : recency'[i] = x
  BY <1>1, <1>2, <1>3
<1> QED BY <1>2, <1>3, <1>4, <1>5 DEF OrderOf

QueueTypes == queue \in [Conns -> Queues] /\ ready \in [Conns -> BOOLEAN]

TableTypes == table \in [Entities -> Doc] /\ OrderOf(table, recency)

FlagTypes ==
    /\ due \in BOOLEAN /\ wanted \in BOOLEAN /\ unread \in BOOLEAN
    /\ refused \in BOOLEAN /\ started \in BOOLEAN
    /\ record \in Records

(* A page names the entities it read. *)
BrokerTypes ==
    /\ view \in [Entities -> Doc] /\ stream \in Seq(ChangeOf) /\ page \in [Snapshots -> PageOf]
    /\ \A s \in Snapshots : \A e \in page[s].left : page[s].docs[e] # NoDoc

HubInv == IndexInv /\ QueueTypes /\ TableTypes /\ FlagTypes /\ BrokerTypes

LEMMA HubStart == Init => HubInv
<1> SUFFICES ASSUME Init PROVE HubInv
  OBVIOUS
<1>1. QueueTypes
  <2>1. EmptyQueue \in Queues
    BY DEF EmptyQueue, Queues
  <2> QED BY <2>1 DEF Init, QueueTypes
<1>2. TableTypes
  <2>1. recency = <<>> /\ recency \in Seq(Entities) /\ Len(recency) = 0 /\ 0 <= Bound
    BY LimitAssumption DEF Init
  <2> QED BY <2>1 DEF Init, TableTypes, OrderOf, Doc
<1>3. FlagTypes
  BY SetAssumption DEF Init, FlagTypes
<1>4. BrokerTypes
  <2>1. Idle \in PageOf /\ Idle.left = {}
    BY DEF Idle, PageOf, Doc
  <2>2. stream \in Seq(ChangeOf)
    BY DEF Init
  <2> QED BY <2>1, <2>2 DEF Init, BrokerTypes
<1> QED BY <1>1, <1>2, <1>3, <1>4, IndexStart DEF HubInv

LEMMA SignalTyped == \A kind \in {"gap", "closing", "refused"} : Signal(kind) \in Outs
BY LimitAssumption DEF Signal, Outs, Doc

LEMMA SignalsTyped ==
    ASSUME QueueTypes, NEW C, NEW kind \in {"gap", "closing", "refused"}, Signals(C, kind)
    PROVE  QueueTypes'
<1>1. \A c \in Conns : Push(queue[c], Signal(kind)) \in Queues
  BY SignalTyped, PushKeepsPairs DEF QueueTypes
<1> QED BY <1>1 DEF Signals, QueueTypes

LEMMA NotificationsTyped ==
    ASSUME IndexInv, NEW c \in Conns, NEW e \in Entities, NEW d \in Doc
    PROVE  \A n \in DOMAIN Notifications(c, e, d) :
             n \in 1..SubLimit /\ Notifications(c, e, d)[n] = Notification(n, e, d)
             /\ Notification(n, e, d) \in Outs
<1>1. ASSUME NEW i \in index PROVE i.n \in 1..SubLimit
  <2>1. PICK x \in Conns : \E t \in conns[x].subs : i = InIndex(x, t)
    BY IndexByEntry DEF IndexInv
  <2>2. PICK t \in conns[x].subs : i = InIndex(x, t)
    BY <2>1
  <2>3. t \in Sub
    BY DEF IndexInv, ConnTypes
  <2> QED BY <2>2, <2>3 DEF InIndex, Sub
<1> DEFINE D == {i.n : i \in {j \in FiltersOf(c) : Decides(j.filter, table[e], d)}}
<1>2. Notifications(c, e, d) = [n \in D |-> Notification(n, e, d)]
  BY DEF Notifications
<1>3. D \subseteq 1..SubLimit
  BY <1>1 DEF FiltersOf
<1> HIDE DEF D
<1> SUFFICES ASSUME NEW n \in D PROVE Notification(n, e, d) \in Outs
  BY <1>2, <1>3
<1>4. n \in 0..SubLimit
  BY <1>3, LimitAssumption
<1> QED BY <1>4 DEF Notification, Outs

LEMMA QueueTypesStep == HubInv /\ [Next]_vars => QueueTypes'
<1> SUFFICES ASSUME HubInv, [Next]_vars PROVE QueueTypes'
  OBVIOUS
<1>1. QueueTypes
  BY DEF HubInv
<1>2. ASSUME NEW c \in Conns, Discard(c) \/ Close(c) \/ SessionTakes(c)
      PROVE  QueueTypes'
  <2>1. queue' = [queue EXCEPT ![c] = EmptyQueue] /\ ready' = [ready EXCEPT ![c] = FALSE]
    BY <1>2 DEF Discard, Close, Remove, SessionTakes
  <2>2. EmptyQueue \in Queues
    BY DEF EmptyQueue, Queues
  <2> QED BY <1>1, <2>1, <2>2 DEF QueueTypes
<1>3. CASE Recheck \/ Refuse \/ Gap
  <2>1. CASE Recheck
    BY <1>1, <2>1, SignalsTyped DEF Recheck, EndAll
  <2>2. CASE Refuse
    BY <1>1, <2>2, SignalsTyped DEF Refuse
  <2>3. CASE Gap
    BY <1>1, <2>3, SignalsTyped DEF Gap
  <2> QED BY <1>3, <2>1, <2>2, <2>3
<1>4. CASE Apply
  <2>1. CASE UNCHANGED <<queue, ready>>
    BY <1>1, <2>1 DEF QueueTypes
  <2>2. CASE ~UNCHANGED <<queue, ready>>
    <3> DEFINE h == Head(stream)
               outs(c) == Notifications(c, h.entity, h.doc)
               told == {c \in Conns : DOMAIN outs(c) # {}}
    <3>1. h \in ChangeOf
      BY <1>4, HeadTailProperties DEF Apply, HubInv, BrokerTypes
    <3>2. h.entity \in Entities /\ h.doc \in Doc
      BY <3>1 DEF ChangeOf
    <3>3. /\ queue' = [c \in Conns |-> IF c \in told THEN PushAll(queue[c], outs(c)) ELSE queue[c]]
          /\ ready' = [c \in Conns |-> c \in told \/ ready[c]]
      BY <1>4, <2>2 DEF Apply
    <3>4. ASSUME NEW c \in Conns PROVE PushAll(queue[c], outs(c)) \in Queues
      <4>1. \A n \in DOMAIN outs(c) : outs(c)[n] \in Outs
        BY <3>2, NotificationsTyped DEF HubInv
      <4>2. queue[c] \in Queues
        BY <1>1 DEF QueueTypes
      <4> HIDE DEF outs
      <4> QED BY <4>1, <4>2, PushAllIn, PushKeepsPairs
    <3> HIDE DEF told, outs
    <3> QED BY <1>1, <3>3, <3>4 DEF QueueTypes
  <2> QED BY <2>1, <2>2
<1>5. ASSUME \/ \E c \in Conns : \/ Open(c) \/ Upgraded(c) \/ SessionEnds(c) \/ Unsubscribe(c)
                                 \/ \E f \in Filters : Subscribe(c, f) \/ Update(c, f)
             \/ Reload \/ Live \/ (\E e \in Entities, d \in Doc : Change(e, d))
             \/ Snapshot \/ UNCHANGED vars
      PROVE  QueueTypes'
  <2>1. UNCHANGED <<queue, ready>>
    BY <1>5 DEF Open, Upgraded, SessionEnds, Unsubscribe, Subscribe, Update, Reload, Live, Change,
                Snapshot, NotNow, StartSnapshot, ReadPage, FailSnapshot, NextPage, EndSnapshot,
                Seed, clientVars, vars
  <2> QED BY <1>1, <2>1 DEF QueueTypes
<1> QED BY <1>2, <1>3, <1>4, <1>5 DEF Next, Client, Upstream

LEMMA TableTypesStep == HubInv /\ [Next]_vars => TableTypes'
<1> SUFFICES ASSUME HubInv, [Next]_vars PROVE TableTypes'
  OBVIOUS
<1>1. TableTypes
  BY DEF HubInv
<1>2. CASE UNCHANGED <<table, recency>>
  BY <1>1, <1>2 DEF TableTypes, OrderOf
<1>3. ASSUME NEW left, ForgetUnwatched(left) PROVE TableTypes'
  <2>1. CASE left = {}
    <3>1. table' = [e \in Entities |-> NoDoc] /\ recency' = <<>>
      BY <1>3, <2>1 DEF ForgetUnwatched
    <3>2. recency' \in Seq(Entities) /\ Len(recency') = 0 /\ 0 <= Bound
      BY <3>1, LimitAssumption
    <3> QED BY <3>1, <3>2 DEF TableTypes, OrderOf, Doc
  <2>2. CASE left # {}
    BY <1>2, <1>3, <2>2 DEF ForgetUnwatched
  <2> QED BY <2>1, <2>2
<1>4. CASE Apply
  <2> DEFINE h == Head(stream)
  <2>1. h \in ChangeOf
    BY <1>4, HeadTailProperties DEF Apply, HubInv, BrokerTypes
  <2>2. h.entity \in Entities /\ h.doc \in Doc
    BY <2>1 DEF ChangeOf
  <2>3. CASE index = {}
    BY <1>2, <1>4, <2>3 DEF Apply
  <2>4. CASE index # {} /\ h.doc = NoDoc
    BY <1>1, <1>4, <2>2, <2>4, RemovedOrder DEF Apply, TableTypes
  <2>5. CASE index # {} /\ h.doc # NoDoc
    BY <1>1, <1>4, <2>2, <2>5, KeepOrder DEF Apply, TableTypes
  <2> QED BY <2>3, <2>4, <2>5
<1>5. ASSUME NEW s \in Snapshots, NEW e \in Entities, Seed(s, e) PROVE TableTypes'
  <2>1. page[s].docs[e] \in Doc /\ page[s].docs[e] # NoDoc
    BY <1>5 DEF Seed, HubInv, BrokerTypes, PageOf
  <2>2. CASE index # {} /\ table[e] = NoDoc
    BY <1>1, <1>5, <2>1, <2>2, KeepOrder DEF Seed, TableTypes
  <2>3. CASE ~(index # {} /\ table[e] = NoDoc)
    BY <1>2, <1>5, <2>3 DEF Seed
  <2> QED BY <2>2, <2>3
<1>6. ASSUME Client \/ Recheck PROVE TableTypes'
  <2>1. UNCHANGED <<table, recency>> \/ \E left : ForgetUnwatched(left)
    BY <1>6 DEF Client, Open, Discard, Upgraded, SessionEnds, Close, SessionTakes, Unsubscribe,
         Subscribe, Update, Remove, Recheck, EndAll, tableVars
  <2> QED BY <1>2, <1>3, <2>1
<1>7. ASSUME Reload \/ Live \/ Refuse \/ Gap \/ (\E e \in Entities, d \in Doc : Change(e, d)) \/ UNCHANGED vars
      PROVE  TableTypes'
  <2>1. UNCHANGED <<table, recency>>
    BY <1>7 DEF Reload, Live, Refuse, Gap, Change, tableVars, vars
  <2> QED BY <1>2, <2>1
<1>8. ASSUME NotNow \/ \E s \in Snapshots : StartSnapshot(s) \/ ReadPage(s) \/ FailSnapshot(s)
                                             \/ NextPage(s) \/ EndSnapshot(s)
      PROVE  TableTypes'
  <2>1. UNCHANGED <<table, recency>>
    BY <1>8 DEF NotNow, StartSnapshot, ReadPage, FailSnapshot, NextPage, EndSnapshot, tableVars
  <2> QED BY <1>2, <2>1
<1> QED BY <1>4, <1>5, <1>6, <1>7, <1>8 DEF Next, Upstream, Snapshot

LEMMA FlagTypesStep == HubInv /\ [Next]_vars => FlagTypes'
<1> SUFFICES ASSUME HubInv, [Next]_vars PROVE FlagTypes'
  OBVIOUS
<1>1. FlagTypes
  BY DEF HubInv
<1>2. CASE Client
  <2>1. PICK c \in Conns :
          \/ Open(c) \/ Discard(c) \/ Upgraded(c) \/ SessionEnds(c) \/ Close(c) \/ SessionTakes(c)
          \/ Unsubscribe(c)
          \/ \E f \in Filters : Subscribe(c, f) \/ Update(c, f)
    BY <1>2 DEF Client
  <2>2. CASE Open(c) \/ Discard(c) \/ Upgraded(c) \/ SessionEnds(c) \/ SessionTakes(c)
    BY <1>1, <2>2 DEF FlagTypes, Open, Discard, Upgraded, SessionEnds, SessionTakes, Remove,
         ForgetUnwatched, tableVars, upVars
  <2>3. CASE Close(c) \/ Unsubscribe(c)
    BY <1>1, <2>3 DEF FlagTypes, Close, Unsubscribe, Remove, ForgetUnwatched, tableVars, upVars
  <2>4. ASSUME NEW f \in Filters, Subscribe(c, f) \/ Update(c, f) PROVE FlagTypes'
    BY <1>1, <2>4 DEF FlagTypes, Subscribe, Update, Place, upVars
  <2> QED BY <2>1, <2>2, <2>3, <2>4
<1>3. CASE Upstream
  BY <1>1, <1>3 DEF FlagTypes, Upstream, Reload, Recheck, EndAll, ForgetUnwatched, Live, Refuse,
       Gap, LooksAfterGap, Apply, Change, tableVars, upVars
<1>4. CASE Snapshot
  BY <1>1, <1>4 DEF FlagTypes, Snapshot, NotNow, StartSnapshot, ReadPage, FailSnapshot, NextPage,
       EndSnapshot, Seed, tableVars, upVars
<1>5. CASE UNCHANGED vars
  BY <1>1, <1>5 DEF FlagTypes, tableVars, upVars, vars
<1> QED BY <1>2, <1>3, <1>4, <1>5 DEF Next

LEMMA BrokerTypesStep == HubInv /\ [Next]_vars => BrokerTypes'
<1> SUFFICES ASSUME HubInv, [Next]_vars PROVE BrokerTypes'
  OBVIOUS
<1>1. BrokerTypes
  BY DEF HubInv
<1>2. CASE UNCHANGED brokerVars
  BY <1>1, <1>2 DEF BrokerTypes, brokerVars
<1>3. ASSUME Client \/ Reload \/ Recheck \/ Live \/ NotNow \/ UNCHANGED vars PROVE BrokerTypes'
  <2>1. UNCHANGED brokerVars
    BY <1>3 DEF Client, Open, Discard, Upgraded, SessionEnds, Close, SessionTakes, Unsubscribe,
         Subscribe, Update, Remove, Recheck, Reload, Live, NotNow, vars
  <2> QED BY <1>2, <2>1
<1>4. CASE Refuse \/ Gap
  <2>1. stream' = <<>> /\ UNCHANGED <<view, page>> /\ <<>> \in Seq(ChangeOf)
    BY <1>4 DEF Refuse, Gap
  <2> QED BY <1>1, <2>1 DEF BrokerTypes
<1>5. CASE Apply
  <2>1. stream # <<>> /\ stream' = Tail(stream) /\ UNCHANGED <<view, page>>
    BY <1>5 DEF Apply
  <2> QED BY <1>1, <2>1, HeadTailProperties DEF BrokerTypes
<1>6. ASSUME NEW e \in Entities, NEW d \in Doc, Change(e, d) PROVE BrokerTypes'
  <2> DEFINE c == [entity |-> e, doc |-> d, was |-> view[e], live |-> {<<i.conn, i.n>> : i \in index}]
  <2>1. view' = [view EXCEPT ![e] = d] /\ UNCHANGED page /\ (stream' = Append(stream, c) \/ stream' = stream)
    BY <1>6 DEF Change
  <2>2. c \in ChangeOf
    BY <1>1, ChangeTyped DEF HubInv, BrokerTypes
  <2> HIDE DEF c
  <2> QED BY <1>1, <2>1, <2>2, AppendProperties DEF BrokerTypes
<1>7. ASSUME NEW s \in Snapshots, NEW p \in PageOf, page' = [page EXCEPT ![s] = p],
             \A e \in p.left : p.docs[e] # NoDoc, UNCHANGED <<view, stream>>
      PROVE  BrokerTypes'
  <2>1. page'[s] = p /\ \A t \in Snapshots \ {s} : page'[t] = page[t]
    BY <1>1, <1>7 DEF BrokerTypes
  <2> QED BY <1>1, <1>7, <2>1 DEF BrokerTypes
<1>8. Idle \in PageOf /\ Idle.left = {} /\ [Idle EXCEPT !.st = "waiting"] \in PageOf
      /\ [Idle EXCEPT !.st = "waiting"].left = {}
  BY DEF Idle, PageOf, Doc
<1>9. ASSUME NEW s \in Snapshots, FailSnapshot(s) \/ EndSnapshot(s) \/ NextPage(s) PROVE BrokerTypes'
  <2>1. UNCHANGED <<view, stream>>
    BY <1>9 DEF FailSnapshot, EndSnapshot, NextPage
  <2>2. CASE page' = [page EXCEPT ![s] = Idle]
    BY <1>7, <1>8, <2>1, <2>2
  <2>3. CASE page' = [page EXCEPT ![s] = [Idle EXCEPT !.st = "waiting"]]
    BY <1>7, <1>8, <2>1, <2>3
  <2> QED BY <1>9, <2>2, <2>3 DEF FailSnapshot, EndSnapshot, NextPage
<1>10. ASSUME NEW s \in Snapshots, StartSnapshot(s) PROVE BrokerTypes'
  <2> DEFINE p == [page[s] EXCEPT !.st = "waiting"]
  <2>1. p \in PageOf /\ p.left = page[s].left /\ p.docs = page[s].docs
    <3>1. page[s] \in PageOf
      BY <1>1 DEF BrokerTypes
    <3> QED BY <3>1 DEF PageOf
  <2>2. \A e \in p.left : p.docs[e] # NoDoc
    BY <1>1, <2>1 DEF BrokerTypes
  <2>3. page' = [page EXCEPT ![s] = p] /\ UNCHANGED <<view, stream>>
    BY <1>10 DEF StartSnapshot
  <2> HIDE DEF p
  <2> QED BY <1>7, <2>1, <2>2, <2>3
<1>11. ASSUME NEW s \in Snapshots, ReadPage(s) PROVE BrokerTypes'
  <2>1. PICK P \in SUBSET {e \in Entities : view[e] # NoDoc} :
          page' = [page EXCEPT ![s] = [st |-> "seeding", left |-> P, docs |-> view]]
    BY <1>11 DEF ReadPage
  <2> DEFINE p == [st |-> "seeding", left |-> P, docs |-> view]
  <2>2. p \in PageOf /\ p.docs = view /\ p.left = P
    BY <1>1 DEF PageOf, BrokerTypes
  <2>3. UNCHANGED <<view, stream>>
    BY <1>11 DEF ReadPage
  <2> HIDE DEF p
  <2> QED BY <1>7, <2>1, <2>2, <2>3 DEF p
<1>12. ASSUME NEW s \in Snapshots, NEW e \in Entities, Seed(s, e) PROVE BrokerTypes'
  <2> DEFINE p == [page[s] EXCEPT !.left = @ \ {e}]
  <2>1. p \in PageOf /\ p.left = page[s].left \ {e} /\ p.docs = page[s].docs
    <3>1. page[s] \in PageOf
      BY <1>1 DEF BrokerTypes
    <3> QED BY <3>1 DEF PageOf
  <2>2. \A x \in p.left : p.docs[x] # NoDoc
    BY <1>1, <2>1 DEF BrokerTypes
  <2>3. page' = [page EXCEPT ![s] = p] /\ UNCHANGED <<view, stream>>
    BY <1>12 DEF Seed
  <2> HIDE DEF p
  <2> QED BY <1>7, <2>1, <2>2, <2>3
<1> QED BY <1>3, <1>4, <1>5, <1>6, <1>9, <1>10, <1>11, <1>12 DEF Next, Upstream, Snapshot

LEMMA HubStep == HubInv /\ [Next]_vars => HubInv'
BY IndexStep, QueueTypesStep, TableTypesStep, FlagTypesStep, BrokerTypesStep DEF HubInv

(* hub.rs, State and Queue: the table and its eviction order name the same    *)
(* entities, at most the bound of them, and no queue holds a pair of          *)
(* subscription and entity twice, for any bound, queue and filters.           *)
THEOREM HubKeepsItsBounds == Spec => []TypeOK
<1>1. HubInv => TypeOK
  <2> SUFFICES ASSUME HubInv PROVE TypeOK
    OBVIOUS
  <2>1. index \subseteq [conn : Conns, n : 1..SubLimit, filter : Filters]
    <3>1. ASSUME NEW i \in index PROVE i \in [conn : Conns, n : 1..SubLimit, filter : Filters]
      <4>1. PICK x \in Conns : \E t \in conns[x].subs : i = InIndex(x, t)
        BY IndexByEntry DEF HubInv, IndexInv
      <4>2. PICK t \in conns[x].subs : i = InIndex(x, t)
        BY <4>1
      <4>3. t \in Sub
        BY DEF HubInv, IndexInv, ConnTypes
      <4> QED BY <4>2, <4>3 DEF InIndex, Sub
    <3> QED BY <3>1
  <2>2. /\ queue \in [Conns -> [items : Seq(Outs), overflowed : BOOLEAN]]
        /\ \A c \in Conns : \A i, j \in DOMAIN queue[c].items :
             SamePair(queue[c].items[i], queue[c].items[j]) => i = j
    BY DEF HubInv, QueueTypes, Queues
  <2>3. /\ recency \in Seq(Entities) /\ DOMAIN recency = 1..Len(recency) /\ Len(recency) <= Bound
        /\ \A e \in Entities : table[e] # NoDoc <=> \E i \in DOMAIN recency : recency[i] = e
        /\ \A i, j \in DOMAIN recency : recency[i] = recency[j] => i = j
    <3>1. recency \in Seq(Entities)
      BY DEF HubInv, TableTypes, OrderOf
    <3>2. DOMAIN recency = 1..Len(recency)
      BY <3>1, LenProperties
    <3> QED BY <3>1, <3>2 DEF HubInv, TableTypes, OrderOf
  <2> QED BY <2>1, <2>2, <2>3 DEF TypeOK, HubInv, IndexInv, ConnTypes, Sessions, QueueTypes,
             TableTypes, FlagTypes, BrokerTypes, ChangeOf, PageOf
<1> QED BY <1>1, HubStart, HubStep, PTL DEF Spec

-----------------------------------------------------------------------------
(* A closing connection. *)

(* The queues of a connection whose subscriptions have numbers below `next`,  *)
(* where a filter that is still in the index, under a number of L, has no     *)
(* notification in front of a close.                                          *)
Muted(L, next) ==
    {q \in Queues :
        /\ \A i \in DOMAIN q.items : q.items[i].kind = "notification" => q.items[i].sub < next
        /\ \A k \in DOMAIN q.items : \A i \in 1..(k - 1) :
             q.items[k].kind = "closing" /\ q.items[i].kind = "notification"
                => q.items[i].sub \notin L}

(* The numbers under which the index holds the filters of connection c. *)
Numbers(c) == {i.n : i \in FiltersOf(c)}

ClosedIsMuted == \A c \in Conns : queue[c] \in Muted(Numbers(c), conns[c].next)

Closed(q) == \E k \in DOMAIN q.items : q.items[k].kind = "closing"

(* A signal is queued behind everything. *)
LEMMA PushSignal ==
    ASSUME NEW q \in Queues, NEW kind \in {"gap", "closing", "refused"}
    PROVE  \/ Push(q, Signal(kind)) = [q EXCEPT !.items = Append(@, Signal(kind))]
           \/ Push(q, Signal(kind)) = [q EXCEPT !.overflowed = TRUE]
BY DEF Push, Held, SamePair, Signal

LEMMA MutedSignal ==
    ASSUME NEW L, NEW next \in Nat, NEW q \in Muted(L, next), NEW kind \in {"gap", "closing", "refused"},
           kind = "closing" => L = {}
    PROVE  Push(q, Signal(kind)) \in Muted(L, next)
<1> DEFINE I == q.items
           out == Signal(kind)
<1>1. q \in Queues /\ Push(q, out) \in Queues /\ out \in Outs /\ out.kind = kind
  BY PushKeepsPairs, SignalTyped DEF Muted, Signal
<1>2. q \in [items : Seq(Outs), overflowed : BOOLEAN] /\ I \in Seq(Outs) /\ Len(I) \in Nat
      /\ DOMAIN I = 1..Len(I)
  BY <1>1, LenProperties DEF Queues
<1>3. CASE Push(q, out) = [q EXCEPT !.overflowed = TRUE]
  <2>1. Push(q, out).items = I
    BY <1>2, <1>3
  <2> QED BY <1>1, <2>1 DEF Muted
<1>4. CASE Push(q, out) = [q EXCEPT !.items = Append(@, out)]
  <2> DEFINE J == Append(I, out)
  <2>1. Push(q, out).items = J
    BY <1>2, <1>4
  <2>2. /\ J \in Seq(Outs) /\ Len(J) = Len(I) + 1
        /\ \A j \in 1..Len(I) : J[j] = I[j]
        /\ J[Len(I) + 1] = out
    BY <1>1, <1>2, AppendProperties
  <2> HIDE DEF J, out
  <2>3. DOMAIN J = 1..(Len(I) + 1)
    BY <2>2, LenProperties
  <2>4. ASSUME NEW j \in DOMAIN J, J[j].kind = "notification" PROVE J[j].sub < next
    <3>1. j \in 1..Len(I)
      BY <1>1, <1>2, <2>2, <2>3, <2>4
    <3> QED BY <1>2, <2>2, <2>4, <3>1 DEF Muted
  <2>5. ASSUME NEW k \in DOMAIN J, NEW j \in 1..(k - 1), J[k].kind = "closing", J[j].kind = "notification"
        PROVE  J[j].sub \notin L
    <3>1. j \in 1..Len(I) /\ J[j] = I[j]
      BY <1>2, <2>2, <2>3
    <3>2. CASE k \in 1..Len(I)
      BY <1>2, <2>2, <2>5, <3>1, <3>2 DEF Muted
    <3>3. CASE k = Len(I) + 1
      BY <1>1, <2>2, <2>5, <3>3
    <3> QED BY <1>2, <2>3, <3>2, <3>3
  <2> USE DEF out
  <2> QED BY <1>1, <2>1, <2>4, <2>5 DEF Muted
<1> QED BY <1>1, <1>3, <1>4, PushSignal

(* A notification of a filter that is still in the index leaves what is in    *)
(* front of a close.                                                          *)
LEMMA MutedPush ==
    ASSUME NEW L, NEW next \in Nat, NEW q \in Muted(L, next), NEW out \in Outs,
           out.kind = "notification", out.sub \in L, out.sub < next
    PROVE  /\ Push(q, out) \in Muted(L, next)
           /\ Closed(q) => Closed(Push(q, out)) /\ Visible(Push(q, out)) = Visible(q)
<1> DEFINE I == q.items
           h == Held(q, out)
<1>1. q \in Queues /\ Push(q, out) \in Queues
  BY PushKeepsPairs DEF Muted
<1>2. q \in [items : Seq(Outs), overflowed : BOOLEAN] /\ I \in Seq(Outs) /\ Len(I) \in Nat
      /\ DOMAIN I = 1..Len(I)
  BY <1>1, LenProperties DEF Queues
<1>3. /\ \A i \in 1..Len(I) : I[i].kind = "notification" => I[i].sub < next
      /\ \A k \in 1..Len(I) : \A i \in 1..(k - 1) :
           I[k].kind = "closing" /\ I[i].kind = "notification" => I[i].sub \notin L
  BY <1>2 DEF Muted
<1> HIDE DEF h
<1>4. CASE h # 0
  <2>1. h \in 1..Len(I) /\ SamePair(I[h], out)
    BY <1>2, <1>4, HeldPlace DEF h
  <2> DEFINE J == [I EXCEPT ![h] = out]
  <2>2. /\ J \in Seq(Outs) /\ Len(J) = Len(I)
        /\ \A j \in 1..Len(I) : J[j] = IF j = h THEN out ELSE I[j]
    BY <1>2, <2>1, ExceptSeq
  <2>3. Push(q, out) = [q EXCEPT !.items[h] = out]
    BY <1>4 DEF Push, h
  <2>4. Push(q, out).items = J
    BY <1>2, <2>3
  <2> HIDE DEF J
  <2>5. DOMAIN J = 1..Len(I)
    BY <2>2, LenProperties
  <2>6. \A j \in 1..Len(I) : J[j].kind = I[j].kind /\ J[j].sub = I[j].sub
    BY <2>1, <2>2 DEF SamePair
  <2>7. \A k \in 1..Len(I) : I[k].kind = "closing" => k < h
    BY <1>2, <1>3, <2>1 DEF SamePair
  <2>8. Push(q, out) \in Muted(L, next)
    <3>1. ASSUME NEW j \in 1..Len(I), J[j].kind = "notification" PROVE J[j].sub < next
      BY <1>3, <2>6, <3>1
    <3>2. ASSUME NEW k \in 1..Len(I), NEW j \in 1..(k - 1), J[k].kind = "closing",
                 J[j].kind = "notification"
          PROVE  J[j].sub \notin L
      <4>1. j \in 1..Len(I)
        BY <1>2
      <4> QED BY <1>3, <2>6, <3>2, <4>1
    <3> QED BY <1>1, <2>4, <2>5, <3>1, <3>2 DEF Muted
  <2>9. ASSUME Closed(q) PROVE Closed(Push(q, out)) /\ Visible(Push(q, out)) = Visible(q)
    <3>1. PICK k \in 1..Len(I) : I[k].kind = "closing"
      BY <1>2, <2>9 DEF Closed
    <3> DEFINE before == {j \in 1..Len(I) : \A m \in 1..j : I[m].kind # "closing"}
    <3>2. k < h /\ h \notin before
      BY <2>1, <2>7, <3>1
    <3>3. before = {j \in 1..Len(I) : \A m \in 1..j : J[m].kind # "closing"}
      BY <1>2, <2>6
    <3> HIDE DEF before
    <3>4. Visible(q) = {I[j] : j \in before}
      BY <1>2 DEF Visible, before
    <3>5. Visible(Push(q, out)) = {J[j] : j \in before}
      BY <2>4, <2>5, <3>3 DEF Visible
    <3>6. \A j \in before : J[j] = I[j]
      BY <2>2, <3>2 DEF before
    <3>7. Closed(Push(q, out))
      BY <2>4, <2>5, <2>6, <3>1 DEF Closed
    <3> QED BY <3>4, <3>5, <3>6, <3>7
  <2> QED BY <2>8, <2>9
<1>5. CASE h = 0 /\ Len(I) >= MAX_QUEUED
  <2>1. Push(q, out) = [q EXCEPT !.overflowed = TRUE]
    BY <1>5 DEF Push, h
  <2>2. Push(q, out).items = I
    BY <1>2, <2>1
  <2> QED BY <1>1, <1>2, <1>3, <2>2 DEF Muted, Closed, Visible
<1>6. CASE h = 0 /\ ~(Len(I) >= MAX_QUEUED)
  <2> DEFINE J == Append(I, out)
  <2>1. Push(q, out) = [q EXCEPT !.items = Append(@, out)]
    BY <1>6 DEF Push, h
  <2>2. Push(q, out).items = J
    BY <1>2, <2>1
  <2>3. /\ J \in Seq(Outs) /\ Len(J) = Len(I) + 1
        /\ \A j \in 1..Len(I) : J[j] = I[j]
        /\ J[Len(I) + 1] = out
    BY <1>2, AppendProperties
  <2> HIDE DEF J
  <2>4. DOMAIN J = 1..(Len(I) + 1)
    BY <2>3, LenProperties
  <2>5. ASSUME NEW j \in 1..(Len(I) + 1), J[j].kind = "notification" PROVE J[j].sub < next
    BY <1>2, <1>3, <2>3, <2>5
  <2>6. ASSUME NEW k \in 1..(Len(I) + 1), NEW j \in 1..(k - 1), J[k].kind = "closing", J[j].kind = "notification"
        PROVE  J[j].sub \notin L
    <3>1. k \in 1..Len(I) /\ j \in 1..Len(I)
      BY <1>2, <2>3, <2>6
    <3> QED BY <1>3, <2>3, <2>6, <3>1
  <2>7. Push(q, out) \in Muted(L, next)
    BY <1>1, <2>2, <2>4, <2>5, <2>6 DEF Muted
  <2>8. ASSUME Closed(q) PROVE Closed(Push(q, out)) /\ Visible(Push(q, out)) = Visible(q)
    <3>1. PICK k \in 1..Len(I) : I[k].kind = "closing"
      BY <1>2, <2>8 DEF Closed
    <3> DEFINE before == {j \in 1..Len(I) : \A m \in 1..j : I[m].kind # "closing"}
               after == {j \in 1..(Len(I) + 1) : \A m \in 1..j : J[m].kind # "closing"}
    <3>2. \A j \in 1..Len(I) : J[j] = I[j]
      BY <2>3
    <3>3. after = before
      <4>1. Len(I) + 1 \notin after
        BY <1>2, <2>3, <3>1
      <4>2. \A j \in 1..(Len(I) + 1) : j # Len(I) + 1 => j \in 1..Len(I)
        BY <1>2
      <4>3. \A j \in 1..Len(I) : \A m \in 1..j : m \in 1..Len(I) /\ J[m] = I[m]
        BY <1>2, <3>2
      <4> QED BY <1>2, <4>1, <4>2, <4>3, SMTT(20)
    <3> HIDE DEF before, after
    <3>4. Visible(q) = {I[j] : j \in before}
      BY <1>2 DEF Visible, before
    <3>5. Visible(Push(q, out)) = {J[j] : j \in after}
      BY <2>2, <2>4 DEF Visible, after
    <3>6. \A j \in before : J[j] = I[j]
      BY <3>2 DEF before
    <3>7. Closed(Push(q, out))
      <4>1. k \in 1..(Len(I) + 1) /\ J[k].kind = "closing"
        BY <1>2, <2>3, <3>1
      <4> QED BY <2>2, <2>4, <4>1 DEF Closed
    <3> QED BY <3>3, <3>4, <3>5, <3>6, <3>7
  <2> QED BY <2>7, <2>8
<1> QED BY <1>4, <1>5, <1>6

LEMMA ClosedStart == Init => ClosedIsMuted
<1> SUFFICES ASSUME Init, NEW c \in Conns PROVE queue[c] \in Muted(Numbers(c), conns[c].next)
  BY DEF ClosedIsMuted
<1>1. queue[c] = EmptyQueue /\ EmptyQueue \in Queues
  BY DEF Init, EmptyQueue, Queues
<1> QED BY <1>1 DEF Muted, EmptyQueue

(* Fewer filters, and later numbers, mute no less.                           *)
LEMMA MutedGrows ==
    ASSUME NEW L, NEW K, NEW next \in Nat, NEW later \in Nat, next <= later,
           NEW q \in Muted(L, next), \A n \in K : n \in L \/ n >= next
    PROVE  q \in Muted(K, later)
<1>1. q \in Queues /\ q.items \in Seq(Outs) /\ DOMAIN q.items = 1..Len(q.items) /\ Len(q.items) \in Nat
  BY LenProperties DEF Muted, Queues
<1>2. ASSUME NEW i \in DOMAIN q.items PROVE q.items[i].sub \in Nat
  <2>1. q.items[i] \in Outs
    BY <1>1, ElementOfSeq
  <2> QED BY <2>1, LimitAssumption DEF Outs
<1>3. ASSUME NEW i \in DOMAIN q.items, q.items[i].kind = "notification" PROVE q.items[i].sub < later
  <2>1. q.items[i].sub < next
    BY <1>3 DEF Muted
  <2> QED BY <1>2, <2>1
<1>4. ASSUME NEW k \in DOMAIN q.items, NEW i \in 1..(k - 1),
             q.items[k].kind = "closing", q.items[i].kind = "notification"
      PROVE  q.items[i].sub \notin K
  <2>1. i \in DOMAIN q.items
    BY <1>1
  <2>2. q.items[i].sub < next /\ q.items[i].sub \notin L
    BY <1>4, <2>1 DEF Muted
  <2> QED BY <1>2, <2>1, <2>2
<1> QED BY <1>1, <1>3, <1>4 DEF Muted

LEMMA EmptyIsMuted == \A L, next : EmptyQueue \in Muted(L, next)
BY DEF EmptyQueue, Muted, Queues

(* Between the two halves of a step: the filters that go, then the signals.  *)
LEMMA ClosedBySignals ==
    ASSUME HubInv, NEW C, NEW kind \in {"gap", "closing", "refused"}, Signals(C, kind),
           NEW c \in Conns, NEW L, NEW next \in Nat, queue[c] \in Muted(L, next),
           kind = "closing" /\ c \in C => L = {}
    PROVE  queue'[c] \in Muted(L, next)
<1>1. queue'[c] = IF c \in C THEN Push(queue[c], Signal(kind)) ELSE queue[c]
  BY DEF Signals
<1> QED BY <1>1, MutedSignal

LEMMA AppliedIsMuted ==
    ASSUME HubInv, ClosedIsMuted, Apply, NEW c \in Conns
    PROVE  /\ queue'[c] \in Muted(Numbers(c), conns[c].next)
           /\ Closed(queue[c]) => Visible(queue'[c]) = Visible(queue[c])
<1> DEFINE h == Head(stream)
           outs == Notifications(c, h.entity, h.doc)
           L == Numbers(c)
           next == conns[c].next
           V == Visible(queue[c])
           Q == {q \in Muted(L, next) : Closed(queue[c]) => Closed(q) /\ Visible(q) = V}
<1>1. h \in ChangeOf
  BY HeadTailProperties DEF Apply, HubInv, BrokerTypes
<1>2. h.entity \in Entities /\ h.doc \in Doc
  BY <1>1 DEF ChangeOf
<1>3. queue[c] \in Q
  BY DEF ClosedIsMuted
<1>4. next \in Nat
  BY LimitAssumption DEF HubInv, IndexInv, ConnTypes
<1>5. ASSUME NEW n \in DOMAIN outs
      PROVE  /\ outs[n] \in Outs /\ outs[n].kind = "notification" /\ outs[n].sub = n
             /\ n \in L /\ n < next
  <2>1. outs[n] = Notification(n, h.entity, h.doc) /\ outs[n] \in Outs
    BY <1>2, NotificationsTyped DEF HubInv
  <2>2. n \in L
    BY DEF Notifications, Numbers
  <2>3. PICK i \in index : i.conn = c /\ i.n = n
    BY <2>2 DEF Numbers, FiltersOf
  <2>4. PICK x \in Conns : \E t \in conns[x].subs : i = InIndex(x, t)
    BY IndexByEntry DEF HubInv, IndexInv
  <2>5. PICK t \in conns[x].subs : i = InIndex(x, t)
    BY <2>4
  <2>6. x = c /\ t.n = n
    BY <2>3, <2>5 DEF InIndex
  <2>7. n < next
    BY <2>5, <2>6 DEF HubInv, IndexInv, IndexIsSubscriptions
  <2> QED BY <2>1, <2>2, <2>7 DEF Notification
<1>6. ASSUME NEW q \in Q, NEW n \in DOMAIN outs PROVE Push(q, outs[n]) \in Q
  <2> HIDE DEF outs, L, next, V
  <2>1. q \in Muted(L, next) /\ outs[n].sub \in L /\ outs[n].sub < next
    BY <1>5
  <2>2. /\ Push(q, outs[n]) \in Muted(L, next)
        /\ Closed(q) => Closed(Push(q, outs[n])) /\ Visible(Push(q, outs[n])) = Visible(q)
    BY <1>4, <1>5, <2>1, MutedPush
  <2> QED BY <2>2
<1>7. queue'[c] = queue[c] \/ queue'[c] = PushAll(queue[c], outs)
  BY DEF Apply
<1> HIDE DEF Q, outs
<1>8. PushAll(queue[c], outs) \in Q
  BY <1>3, <1>6, PushAllIn
<1>9. queue'[c] \in Q
  BY <1>3, <1>7, <1>8
<1> QED BY <1>9 DEF Q

LEMMA ClosedStep == HubInv /\ HubInv' /\ ClosedIsMuted /\ [Next]_vars => ClosedIsMuted'
<1> SUFFICES ASSUME HubInv, HubInv', ClosedIsMuted, [Next]_vars, NEW c \in Conns
             PROVE  queue'[c] \in Muted(Numbers(c)', conns'[c].next)
  BY DEF ClosedIsMuted
<1>1. /\ queue[c] \in Muted(Numbers(c), conns[c].next)
      /\ conns[c].next \in Nat /\ conns'[c].next \in Nat
  BY LimitAssumption DEF ClosedIsMuted, HubInv, IndexInv, ConnTypes
<1>2. ASSUME conns'[c].next >= conns[c].next, \A n \in Numbers(c)' : n \in Numbers(c) \/ n >= conns[c].next
      PROVE  queue[c] \in Muted(Numbers(c)', conns'[c].next)
  <2> DEFINE L == Numbers(c)
             K == Numbers(c)'
  <2>1. conns[c].next <= conns'[c].next
    BY <1>1, <1>2
  <2>2. \A n \in K : n \in L \/ n >= conns[c].next
    BY <1>2
  <2> HIDE DEF L, K
  <2>3. queue[c] \in Muted(L, conns[c].next)
    BY <1>1 DEF L
  <2>4. queue[c] \in Muted(K, conns'[c].next)
    BY <1>1, <2>1, <2>2, <2>3, MutedGrows
  <2> QED BY <2>4 DEF K
<1>3. ASSUME UNCHANGED <<conns, index>> PROVE conns'[c].next = conns[c].next /\ Numbers(c)' = Numbers(c)
  BY <1>3 DEF Numbers, FiltersOf
<1>4. CASE Apply
  <2>1. UNCHANGED <<conns, index>>
    BY <1>4 DEF Apply
  <2> QED BY <1>3, <1>4, <2>1, AppliedIsMuted
<1>5. CASE Refuse \/ Gap
  <2>1. UNCHANGED <<conns, index>> /\ \E kind \in {"gap", "refused"} : Signals(OpenConns, kind)
    BY <1>5 DEF Refuse, Gap
  <2> QED BY <1>1, <1>3, <2>1, ClosedBySignals
<1>6. CASE Recheck
  <2>1. /\ Signals(Outdated, "closing")
        /\ index' = {i \in index : i.conn \notin Outdated}
        /\ conns' = [d \in Conns |-> IF d \in Outdated THEN [conns[d] EXCEPT !.subs = {}] ELSE conns[d]]
    BY <1>6 DEF Recheck, EndAll
  <2>2. conns'[c].next = conns[c].next
    BY <2>1 DEF HubInv, IndexInv, ConnTypes
  <2>3. Numbers(c)' \subseteq Numbers(c) /\ (c \in Outdated => Numbers(c)' = {})
    BY <2>1 DEF Numbers, FiltersOf
  <2>4. queue[c] \in Muted(Numbers(c)', conns'[c].next)
    BY <1>1, <1>2, <2>2, <2>3
  <2> DEFINE K == Numbers(c)'
             n == conns'[c].next
  <2>5. n \in Nat /\ queue[c] \in Muted(K, n) /\ (c \in Outdated => K = {})
    BY <1>1, <2>3, <2>4
  <2> HIDE DEF K, n
  <2>6. queue'[c] \in Muted(K, n)
    BY <2>1, <2>5, ClosedBySignals
  <2> QED BY <2>6 DEF K, n
<1>7. ASSUME NEW d \in Conns, Client, queue' = [queue EXCEPT ![d] = EmptyQueue],
             index' \subseteq index, \A x \in Conns : conns'[x].next = conns[x].next
      PROVE  queue'[c] \in Muted(Numbers(c)', conns'[c].next)
  <2>1. Numbers(c)' \subseteq Numbers(c)
    BY <1>7 DEF Numbers, FiltersOf
  <2>2. queue'[c] = IF c = d THEN EmptyQueue ELSE queue[c]
    BY <1>7 DEF HubInv, QueueTypes
  <2>3. queue[c] \in Muted(Numbers(c)', conns'[c].next)
    BY <1>1, <1>2, <1>7, <2>1
  <2> QED BY <2>2, <2>3, EmptyIsMuted
<1>8. ASSUME NEW d \in Conns, Discard(d) \/ Close(d) \/ SessionTakes(d)
      PROVE  queue'[c] \in Muted(Numbers(c)', conns'[c].next)
  <2>1. queue' = [queue EXCEPT ![d] = EmptyQueue] /\ index' \subseteq index /\ Client
    BY <1>8 DEF Discard, Close, Remove, SessionTakes, Client
  <2>2. \A x \in Conns : conns'[x].next = conns[x].next
    <3>1. conns \in [Conns -> [session : Sessions, record : Records \cup {0}, subs : SUBSET Sub,
                               next : 1..SubLimit]]
      BY DEF HubInv, IndexInv, ConnTypes
    <3>2. CASE Remove(d)
      BY <3>1, <3>2 DEF Remove
    <3>3. CASE SessionTakes(d)
      BY <3>1, <3>3 DEF SessionTakes
    <3> QED BY <1>8, <3>2, <3>3 DEF Discard, Close
  <2> QED BY <1>7, <2>1, <2>2
<1>9. ASSUME NEW d \in Conns, NEW f \in Filters, Subscribe(d, f)
      PROVE  queue'[c] \in Muted(Numbers(c)', conns'[c].next)
  <2>1. /\ queue' = queue
        /\ \A i \in index' : i \in index \/ (i.conn = d /\ i.n = conns[d].next)
    BY <1>9 DEF Subscribe, Place
  <2>2. conns'[c].next >= conns[c].next
    BY <1>1, <1>9 DEF Subscribe, HubInv, IndexInv, ConnTypes
  <2>3. \A n \in Numbers(c)' : n \in Numbers(c) \/ n >= conns[c].next
    BY <1>1, <2>1 DEF Numbers, FiltersOf
  <2> QED BY <1>2, <2>1, <2>2, <2>3
<1>10. ASSUME NEW d \in Conns, NEW f \in Filters, Update(d, f)
      PROVE  queue'[c] \in Muted(Numbers(c)', conns'[c].next)
  <2>1. PICK s \in conns[d].subs :
          /\ Place(d, s.n, f)
          /\ conns' = [conns EXCEPT ![d].subs = (@ \ {s}) \cup {[n |-> s.n, filter |-> f]}]
    BY <1>10 DEF Update
  <2>2. queue' = queue /\ \A i \in index' : i \in index \/ (i.conn = d /\ i.n = s.n)
    BY <1>10, <2>1 DEF Update, Place
  <2>3. InIndex(d, s) \in index
    BY IndexByEntry DEF HubInv, IndexInv
  <2>4. conns'[c].next = conns[c].next
    BY <2>1 DEF HubInv, IndexInv, ConnTypes
  <2>5. \A n \in Numbers(c)' : n \in Numbers(c)
    BY <2>2, <2>3 DEF Numbers, FiltersOf, InIndex
  <2> QED BY <1>1, <1>2, <2>2, <2>4, <2>5
<1>11. ASSUME NEW d \in Conns, Unsubscribe(d) \/ Open(d) \/ Upgraded(d) \/ SessionEnds(d)
      PROVE  queue'[c] \in Muted(Numbers(c)', conns'[c].next)
  <2>1. queue' = queue /\ index' \subseteq index
    BY <1>11 DEF Unsubscribe, Open, Upgraded, SessionEnds
  <2>2. conns'[c].next = conns[c].next
    <3>1. conns \in [Conns -> [session : Sessions, record : Records \cup {0}, subs : SUBSET Sub,
                               next : 1..SubLimit]]
      BY DEF HubInv, IndexInv, ConnTypes
    <3>2. CASE Unsubscribe(d)
      <4>1. PICK s \in conns[d].subs : conns' = [conns EXCEPT ![d].subs = @ \ {s}]
        BY <3>2 DEF Unsubscribe
      <4> QED BY <3>1, <4>1
    <3>3. CASE Open(d)
      <4>1. PICK r \in Records \ {0} :
              conns' = [conns EXCEPT ![d].session = "joined", ![d].record = r]
        BY <3>3 DEF Open
      <4> QED BY <3>1, <4>1
    <3>4. CASE Upgraded(d) \/ SessionEnds(d)
      BY <3>1, <3>4 DEF Upgraded, SessionEnds
    <3> QED BY <1>11, <3>2, <3>3, <3>4
  <2>3. Numbers(c)' \subseteq Numbers(c)
    BY <2>1 DEF Numbers, FiltersOf
  <2> QED BY <1>1, <1>2, <2>1, <2>2, <2>3
<1>12. CASE \/ Reload \/ Live \/ (\E e \in Entities, d \in Doc : Change(e, d)) \/ Snapshot \/ UNCHANGED vars
  <2>1. UNCHANGED <<conns, index, queue>>
    BY <1>12 DEF Reload, Live, Change, Snapshot, NotNow, StartSnapshot, ReadPage, FailSnapshot,
                 NextPage, EndSnapshot, Seed, clientVars, vars
  <2> QED BY <1>1, <1>3, <2>1
<1> QED BY <1>4, <1>5, <1>6, <1>8, <1>9, <1>10, <1>11, <1>12 DEF Next, Client, Upstream

(* hub.rs, recheck: once a reload queued the close of a connection, no change *)
(* applied after it adds to what that connection is still sent, nor rewrites  *)
(* it, also when the client subscribes again before it is told.               *)
THEOREM ClosedIsSentNoMore == Spec => ClosedHearsNothing
<1>1. Init => HubInv /\ ClosedIsMuted
  BY HubStart, ClosedStart
<1>2. HubInv /\ ClosedIsMuted /\ [Next]_vars => (HubInv /\ ClosedIsMuted)'
  BY HubStep, ClosedStep
<1>3. HubInv /\ ClosedIsMuted /\ [Next]_vars =>
        [Apply => \A c \in OpenConns :
           (\E i \in DOMAIN queue[c].items : queue[c].items[i].kind = "closing")
              => Visible(queue'[c]) = Visible(queue[c])]_vars
  <2> SUFFICES ASSUME HubInv, ClosedIsMuted, Apply, NEW c \in OpenConns,
                      \E i \in DOMAIN queue[c].items : queue[c].items[i].kind = "closing"
               PROVE  Visible(queue'[c]) = Visible(queue[c])
    OBVIOUS
  <2>1. c \in Conns /\ Closed(queue[c])
    BY DEF OpenConns, Closed
  <2> QED BY <2>1, AppliedIsMuted
<1> QED BY <1>1, <1>2, <1>3, PTL DEF Spec, ClosedHearsNothing

=============================================================================
