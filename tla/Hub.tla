-------------------------------- MODULE Hub ---------------------------------
(***************************************************************************)
(* One hub of the fan-out, fanout/hub.rs: the entity table, the index of   *)
(* every client's filters, and one queue per connection.                   *)
(*                                                                         *)
(* Every operation of Hub is one critical section of its mutex, so it is   *)
(* one action.  Around it run the sessions that drain the queues, the      *)
(* upstream that applies the changes of the view in their order, and the   *)
(* snapshot tasks that read the view over REST.  A document is a value per *)
(* attribute; a filter is the attributes it watches and the documents the  *)
(* matcher (antares-matcher, outside the repository) accepts.              *)
(***************************************************************************)
EXTENDS Naturals, Sequences, FiniteSets, Orders

CONSTANTS
    Conns,          \* the connections, each opened once
    Entities,
    Attrs,
    Values,
    Filters,        \* the filters clients subscribe with
    Records,        \* the Endpoint's records, 0 when it is removed
    Snapshots,      \* the snapshot tasks that may run at once
    MAX_QUEUED,
    MAX_FILTERS,
    SubLimit,       \* 1 << SUB_BITS, the numbers a connection's subscriptions get
    Bound,          \* the entities the table holds
    MaxStream,      \* bound: the changes on their way from the broker
    SnapshotRaces,  \* a page may be read and seeded while changes are on their way
    Gaps,           \* the upstream may lose changes
    NoDoc           \* no document

Docs == [Attrs -> Values]

ASSUME SetAssumption ==
    /\ IsFiniteSet(Conns) /\ IsFiniteSet(Entities)
    /\ NoDoc \notin Docs
    /\ Filters \subseteq [watched : SUBSET Attrs, matches : SUBSET Docs]
    /\ Records \subseteq Nat /\ 1 \in Records

ASSUME LimitAssumption ==
    /\ MAX_QUEUED \in Nat \ {0}
    /\ MAX_FILTERS \in Nat \ {0}
    /\ SubLimit \in Nat \ {0}
    /\ Bound \in Nat \ {0}
    /\ MaxStream \in Nat

VARIABLES
    conns,      \* the connections: session, record, subscriptions, next number
    index,      \* the filters of the index, under connection and number
    queue,      \* each connection's queue
    ready,      \* the Notify of each queue holds a permit
    table,      \* the latest document of an entity
    recency,    \* the entities of the table, the least recently changed first
    due,        \* the table is to be read before it judges a change
    wanted,     \* the upstream will look whether the table is to be read
    unread,     \* history: a gap left the table due, and nobody was asked to look
    refused,    \* the broker refuses the upstream subscription
    started,    \* the upstream runs with an accepted subscription
    record,     \* the Endpoint's record in the resolver's table
    view,       \* the broker's view
    stream,     \* the changes on their way to the hub
    page        \* what each snapshot task has read and not seeded yet

clientVars == <<conns, index, queue, ready>>
tableVars == <<table, recency, due, wanted, unread>>
upVars == <<refused, started, record>>
brokerVars == <<view, stream, page>>
vars == <<clientVars, tableVars, upVars, brokerVars>>

Doc == Docs \cup {NoDoc}

Sub == [n : 1..SubLimit, filter : Filters]

EmptyQueue == [items |-> <<>>, overflowed |-> FALSE]

NewConn == [session |-> "new", record |-> 0, subs |-> {}, next |-> 1]

Idle == [st |-> "idle", left |-> {}, docs |-> [e \in Entities |-> NoDoc]]

Init ==
    /\ conns = [c \in Conns |-> NewConn]
    /\ index = {}
    /\ queue = [c \in Conns |-> EmptyQueue]
    /\ ready = [c \in Conns |-> FALSE]
    /\ table = [e \in Entities |-> NoDoc]
    /\ recency = <<>>
    /\ due = TRUE
    /\ wanted = FALSE
    /\ unread = FALSE
    /\ refused = FALSE
    /\ started = FALSE
    /\ record = 1
    /\ view \in [Entities -> Doc]
    /\ stream = <<>>
    /\ page = [s \in Snapshots |-> Idle]

-----------------------------------------------------------------------------
(* Queue. *)

Notification(n, e, d) == [kind |-> "notification", sub |-> n, entity |-> e, doc |-> d]

Signal(kind) == [kind |-> kind, sub |-> 0, entity |-> NoDoc, doc |-> NoDoc]

SamePair(a, b) ==
    a.kind = "notification" /\ b.kind = "notification" /\ a.sub = b.sub /\ a.entity = b.entity

(* The place of the queued notification `out` replaces, 0 for none. *)
Held(q, out) ==
    IF \E i \in DOMAIN q.items : SamePair(q.items[i], out)
    THEN CHOOSE i \in DOMAIN q.items :
           /\ SamePair(q.items[i], out)
           /\ \A j \in 1..(i - 1) : ~SamePair(q.items[j], out)
    ELSE 0

(* Queue::push: the newest document takes the place of the one that waits,  *)
(* and a full queue overflows instead of growing.                           *)
Push(q, out) ==
    IF Held(q, out) # 0 THEN [q EXCEPT !.items[Held(q, out)] = out]
    ELSE IF Len(q.items) >= MAX_QUEUED THEN [q EXCEPT !.overflowed = TRUE]
    ELSE [q EXCEPT !.items = Append(@, out)]

(* The queue after the notifications `outs`, by subscription number. *)
PushAll(q, outs) ==
    LET after[n \in 0..SubLimit] ==
          IF n = 0 THEN q
          ELSE IF n \in DOMAIN outs THEN Push(after[n - 1], outs[n]) ELSE after[n - 1]
    IN after[SubLimit]

(* Mutant: a signal is queued and nobody is woken. *)
SignalsQuietly(C, kind) ==
    /\ queue' = [c \in Conns |-> IF c \in C THEN Push(queue[c], Signal(kind)) ELSE queue[c]]
    /\ UNCHANGED ready

(* The same signal to every connection of C. *)
Signals(C, kind) ==
    /\ queue' = [c \in Conns |-> IF c \in C THEN Push(queue[c], Signal(kind)) ELSE queue[c]]
    /\ ready' = [c \in Conns |-> IF c \in C THEN TRUE ELSE ready[c]]

-----------------------------------------------------------------------------
(* The table and the index. *)

Batch == IF Bound \div 100 > 1 THEN Bound \div 100 ELSE 1

(* State::keep: the document is the latest, and beyond the bound the least   *)
(* recently changed entities go.                                             *)
Keep(e, d) ==
    LET order == Append(Without(recency, e), e)
        n     == IF Len(order) > Bound THEN Batch ELSE 0
        gone  == {order[i] : i \in 1..n}
    IN /\ table' = [x \in Entities |->
                      IF x \in gone THEN NoDoc ELSE IF x = e THEN d ELSE table[x]]
       /\ recency' = SubSeq(order, n + 1, Len(order))

(* Mutant: the table stays when the last filter leaves. *)
KeepUnwatched(left) == UNCHANGED <<table, recency, due>>

(* State::forget_unwatched, with the filters `left` in the index. *)
ForgetUnwatched(left) ==
    IF left = {}
    THEN table' = [e \in Entities |-> NoDoc] /\ recency' = <<>> /\ due' = TRUE
    ELSE UNCHANGED <<table, recency, due>>

(* The filters of connection c in the index. *)
FiltersOf(c) == {i \in index : i.conn = c}

OpenConns == {c \in Conns : conns[c].session \in {"joined", "open", "ending"}}

changed(previous, d) ==
    {a \in Attrs : previous = NoDoc \/ previous[a] # d[a]}

(* Filter::fires_on and the matcher. *)
Decides(f, previous, d) ==
    /\ changed(previous, d) # {}
    /\ f.watched = {} \/ f.watched \cap changed(previous, d) # {}
    /\ d \in f.matches

-----------------------------------------------------------------------------
(* Connections. *)

(* Hub::open, on a record the request was admitted on. *)
Open(c) ==
    /\ conns[c].session = "new"
    /\ \E r \in Records \ {0} :
         conns' = [conns EXCEPT ![c].session = "joined", ![c].record = r]
    /\ UNCHANGED <<index, queue, ready, tableVars, upVars, brokerVars>>

(* The connection, its queue and its filters leave the hub. *)
Remove(c) ==
    /\ conns' = [conns EXCEPT ![c] = [@ EXCEPT !.session = "closed", !.subs = {}]]
    /\ index' = index \ FiltersOf(c)
    /\ ForgetUnwatched(index \ FiltersOf(c))
    /\ queue' = [queue EXCEPT ![c] = EmptyQueue]
    /\ ready' = [ready EXCEPT ![c] = FALSE]
    /\ UNCHANGED <<wanted, unread, upVars, brokerVars>>

(* The upgrade failed: Joined drops the connection. *)
Discard(c) == conns[c].session = "joined" /\ Remove(c)

Upgraded(c) ==
    /\ conns[c].session = "joined"
    /\ conns' = [conns EXCEPT ![c].session = "open"]
    /\ UNCHANGED <<index, queue, ready, tableVars, upVars, brokerVars>>

(* The client closes, stalls, floods, or its lifetime ends. *)
SessionEnds(c) ==
    /\ conns[c].session = "open"
    /\ conns' = [conns EXCEPT ![c].session = "ending"]
    /\ UNCHANGED <<index, queue, ready, tableVars, upVars, brokerVars>>

(* Hub::close, after the close frame. *)
Close(c) == conns[c].session = "ending" /\ Remove(c)

(* The session takes what is queued; a close, a refusal or an overflow ends   *)
(* it.                                                                        *)
Ends(q) ==
    q.overflowed \/ \E i \in DOMAIN q.items : q.items[i].kind \in {"closing", "refused"}

SessionTakes(c) ==
    /\ conns[c].session = "open" /\ ready[c]
    /\ ready' = [ready EXCEPT ![c] = FALSE]
    /\ queue' = [queue EXCEPT ![c] = EmptyQueue]
    /\ conns' = [conns EXCEPT ![c].session = IF Ends(queue[c]) THEN "ending" ELSE @]
    /\ UNCHANGED <<index, tableVars, upVars, brokerVars>>

-----------------------------------------------------------------------------
(* Subscriptions. *)

(* Mutant: an update leaves the old filter in the index. *)
PlaceTwice(c, n, f) ==
    /\ index' = index \cup {[conn |-> c, n |-> n, filter |-> f]}
    /\ wanted' = (wanted \/ due)
    /\ unread' = FALSE

(* Mutant: a filter that finds the table due wakes nobody. *)
PlaceQuietly(c, n, f) ==
    /\ index' = {i \in index : ~(i.conn = c /\ i.n = n)} \cup {[conn |-> c, n |-> n, filter |-> f]}
    /\ UNCHANGED <<wanted, unread>>

(* Filter n of connection c is f, replacing the one held there; a table that *)
(* is due is wanted now.                                                     *)
Place(c, n, f) ==
    /\ index' = {i \in index : ~(i.conn = c /\ i.n = n)} \cup {[conn |-> c, n |-> n, filter |-> f]}
    /\ wanted' = (wanted \/ due)
    /\ unread' = FALSE

(* x-subscribe, 201.  A refused one changes nothing the hub reads again. *)
Subscribe(c, f) ==
    /\ conns[c].session = "open" /\ ~refused
    /\ Cardinality(conns[c].subs) < MAX_FILTERS
    /\ conns[c].next < SubLimit
    /\ Place(c, conns[c].next, f)
    /\ conns' = [conns EXCEPT ![c].subs = @ \cup {[n |-> conns[c].next, filter |-> f]},
                              ![c].next = @ + 1]
    /\ UNCHANGED <<queue, ready, table, recency, due, upVars, brokerVars>>

(* x-update of a held subscription, 204. *)
Update(c, f) ==
    /\ conns[c].session = "open" /\ ~refused
    /\ \E s \in conns[c].subs :
         /\ Place(c, s.n, f)
         /\ conns' = [conns EXCEPT ![c].subs = (@ \ {s}) \cup {[n |-> s.n, filter |-> f]}]
    /\ UNCHANGED <<queue, ready, table, recency, due, upVars, brokerVars>>

(* x-unsubscribe, 204. *)
Unsubscribe(c) ==
    /\ conns[c].session = "open"
    /\ \E s \in conns[c].subs :
         LET left == {i \in index : ~(i.conn = c /\ i.n = s.n)}
         IN /\ index' = left
            /\ ForgetUnwatched(left)
            /\ conns' = [conns EXCEPT ![c].subs = @ \ {s}]
    /\ UNCHANGED <<queue, ready, wanted, unread, upVars, brokerVars>>

-----------------------------------------------------------------------------
(* The upstream. *)

Reload ==
    /\ record' \in Records \ {record}
    /\ UNCHANGED <<clientVars, tableVars, refused, started, brokerVars>>

(* The connections whose record is not the current one. *)
Outdated == {c \in OpenConns : conns[c].record # record}

(* Mutant: a closing connection stays in the index. *)
RecheckSignals(C) == Signals(C, "closing") /\ UNCHANGED <<conns, index, table, recency, due>>

(* A closing connection leaves the index now. *)
EndAll(C) ==
    /\ Signals(C, "closing")
    /\ conns' = [c \in Conns |-> IF c \in C THEN [conns[c] EXCEPT !.subs = {}] ELSE conns[c]]
    /\ index' = {i \in index : i.conn \notin C}
    /\ ForgetUnwatched({i \in index : i.conn \notin C})

(* Hub::recheck. *)
Recheck ==
    /\ Outdated # {}
    /\ EndAll(Outdated)
    /\ UNCHANGED <<wanted, unread, upVars, brokerVars>>

(* The broker accepts the subscription: Hub::live, and the table is read if  *)
(* it is wanted.  After a refusal the upstream waits MAX_BACKOFF or for a    *)
(* changed record; by then the sessions sent away are closed (two STALLs).   *)
Live ==
    /\ ~started
    /\ refused => index = {}
    /\ started' = TRUE
    /\ refused' = FALSE
    /\ wanted' = TRUE
    /\ unread' = FALSE
    /\ UNCHANGED <<clientVars, table, recency, due, record, brokerVars>>

(* Hub::refuse: every connection ends. *)
Refuse ==
    /\ refused' = TRUE
    /\ started' = FALSE
    /\ Signals(OpenConns, "refused")
    /\ stream' = <<>>
    /\ UNCHANGED <<conns, index, tableVars, record, view, page>>

(* After a gap the upstream looks at the table; where the gap is a refused   *)
(* resume it subscribes anew first, and when that cannot be sent it does not *)
(* look, nor does the next connection, whose subscription is one of a hub    *)
(* that started.  Then nobody looks, unless a filter asked for it already.   *)
LooksAfterGap ==
    \/ wanted' = TRUE /\ unread' = FALSE
    \/ ~wanted /\ unread' = TRUE /\ UNCHANGED wanted

(* Hub::gap: the upstream lost what was on its way. *)
Gap ==
    /\ Gaps /\ started
    /\ due' = TRUE
    /\ LooksAfterGap
    /\ Signals(OpenConns, "gap")
    /\ stream' = <<>>
    /\ UNCHANGED <<conns, index, table, recency, upVars, view, page>>

(* A change of the view: the broker sends it while the hub is subscribed.    *)
(* `was` and `live` are what it was made from and who was subscribed then.   *)
Change(e, d) ==
    /\ view[e] # d
    /\ SnapshotRaces \/ \A s \in Snapshots : page[s].left = {}
    /\ view' = [view EXCEPT ![e] = d]
    /\ IF started
       THEN /\ Len(stream) < MaxStream
            /\ stream' = Append(stream, [entity |-> e, doc |-> d, was |-> view[e],
                                         live |-> {<<i.conn, i.n>> : i \in index}])
       ELSE UNCHANGED stream
    /\ UNCHANGED <<clientVars, tableVars, upVars, page>>

(* What the filters of connection c make of document d of entity e. *)
Notifications(c, e, d) ==
    [n \in {i.n : i \in {j \in FiltersOf(c) : Decides(j.filter, table[e], d)}} |->
        Notification(n, e, d)]

(* Mutant: a deletion is not applied. *)
RemoveNothing(e) == UNCHANGED <<table, recency>>

(* A deletion takes the entity from the table. *)
RemoveEntity(e) ==
    /\ table' = [table EXCEPT ![e] = NoDoc]
    /\ recency' = Without(recency, e)

(* Hub::apply of the next change. *)
Apply ==
    /\ stream # <<>>
    /\ stream' = Tail(stream)
    /\ LET e == Head(stream).entity
           d == Head(stream).doc
       IN IF index = {}
          THEN UNCHANGED <<queue, ready, table, recency>>
          ELSE IF d = NoDoc
          THEN RemoveEntity(e) /\ UNCHANGED <<queue, ready>>
          ELSE LET told == {c \in Conns : DOMAIN Notifications(c, e, d) # {}}
               IN /\ Keep(e, d)
                  /\ queue' = [c \in Conns |-> IF c \in told
                                              THEN PushAll(queue[c], Notifications(c, e, d))
                                              ELSE queue[c]]
                  /\ ready' = [c \in Conns |-> c \in told \/ ready[c]]
    /\ UNCHANGED <<conns, index, due, wanted, unread, upVars, view, page>>

-----------------------------------------------------------------------------
(* Snapshots. *)

(* read_if_wanted: a snapshot task starts when the table is due and a filter *)
(* needs it (Hub::snapshot_now).                                             *)
StartSnapshot(s) ==
    /\ wanted /\ started
    /\ due /\ index # {}
    /\ page[s].st = "idle"
    /\ due' = FALSE
    /\ wanted' = FALSE
    /\ page' = [page EXCEPT ![s].st = "waiting"]
    /\ UNCHANGED <<clientVars, table, recency, unread, upVars, view, stream>>

NotNow ==
    /\ wanted /\ started
    /\ ~(due /\ index # {})
    /\ wanted' = FALSE
    /\ UNCHANGED <<clientVars, table, recency, due, unread, upVars, brokerVars>>

(* Its turn came and the broker answered a page: some entities of the view, *)
(* in the broker's order; offsets move when entities come and go.           *)
ReadPage(s) ==
    /\ page[s].st = "waiting"
    /\ SnapshotRaces \/ stream = <<>>
    /\ \E P \in SUBSET {e \in Entities : view[e] # NoDoc} :
         page' = [page EXCEPT ![s] = [st |-> "seeding", left |-> P, docs |-> view]]
    /\ UNCHANGED <<clientVars, tableVars, upVars, view, stream>>

(* The broker refused the page, or did not answer it. *)
FailSnapshot(s) ==
    /\ page[s].st = "waiting"
    /\ page' = [page EXCEPT ![s] = Idle]
    /\ UNCHANGED <<clientVars, tableVars, upVars, view, stream>>

(* Hub::seed of one entity of the page. *)
Seed(s, e) ==
    /\ e \in page[s].left
    /\ page' = [page EXCEPT ![s].left = @ \ {e}]
    /\ IF index # {} /\ table[e] = NoDoc
       THEN Keep(e, page[s].docs[e])
       ELSE UNCHANGED <<table, recency>>
    /\ UNCHANGED <<clientVars, due, wanted, unread, upVars, view, stream>>

(* A full page is followed by the next one. *)
NextPage(s) ==
    /\ page[s].st = "seeding" /\ page[s].left = {}
    /\ page' = [page EXCEPT ![s] = [Idle EXCEPT !.st = "waiting"]]
    /\ UNCHANGED <<clientVars, tableVars, upVars, view, stream>>

(* A short page, or the bound, ends it. *)
EndSnapshot(s) ==
    /\ page[s].st = "seeding" /\ page[s].left = {}
    /\ page' = [page EXCEPT ![s] = Idle]
    /\ UNCHANGED <<clientVars, tableVars, upVars, view, stream>>

Client ==
    \E c \in Conns :
        \/ Open(c) \/ Discard(c) \/ Upgraded(c) \/ SessionEnds(c) \/ Close(c) \/ SessionTakes(c)
        \/ Unsubscribe(c)
        \/ \E f \in Filters : Subscribe(c, f) \/ Update(c, f)

Upstream ==
    \/ Reload \/ Recheck \/ Live \/ Refuse \/ Gap \/ Apply
    \/ \E e \in Entities, d \in Doc : Change(e, d)

Snapshot ==
    \/ NotNow
    \/ \E s \in Snapshots :
        \/ StartSnapshot(s) \/ ReadPage(s) \/ FailSnapshot(s) \/ NextPage(s) \/ EndSnapshot(s)
        \/ \E e \in Entities : Seed(s, e)

Next == Client \/ Upstream \/ Snapshot

Spec == Init /\ [][Next]_vars

-----------------------------------------------------------------------------

Outs ==
    [kind : {"notification", "gap", "closing", "refused"},
     sub : 0..SubLimit, entity : Entities \cup {NoDoc}, doc : Doc]

(* The table's documents and its eviction order name the same entities, at   *)
(* most Bound of them; a pair of subscription and entity is queued once, a   *)
(* newer document replaces the one that waits.                               *)
TypeOK ==
    /\ conns \in [Conns -> [session : {"new", "joined", "open", "ending", "closed"},
                            record : Records \cup {0}, subs : SUBSET Sub, next : 1..SubLimit]]
    /\ index \subseteq [conn : Conns, n : 1..SubLimit, filter : Filters]
    /\ queue \in [Conns -> [items : Seq(Outs), overflowed : BOOLEAN]]
    /\ ready \in [Conns -> BOOLEAN]
    /\ table \in [Entities -> Doc]
    /\ recency \in Seq(Entities)
    /\ due \in BOOLEAN /\ wanted \in BOOLEAN /\ unread \in BOOLEAN
    /\ refused \in BOOLEAN /\ started \in BOOLEAN
    /\ record \in Records
    /\ view \in [Entities -> Doc]
    /\ stream \in Seq([entity : Entities, doc : Doc, was : Doc,
                       live : SUBSET (Conns \X (1..SubLimit))])
    /\ page \in [Snapshots -> [st : {"idle", "waiting", "seeding"},
                              left : SUBSET Entities, docs : [Entities -> Doc]]]
    /\ Len(recency) <= Bound
    /\ \A e \in Entities : table[e] # NoDoc <=> \E i \in DOMAIN recency : recency[i] = e
    /\ \A i, j \in DOMAIN recency : recency[i] = recency[j] => i = j
    /\ \A c \in Conns : \A i, j \in DOMAIN queue[c].items :
         SamePair(queue[c].items[i], queue[c].items[j]) => i = j

(* The index holds exactly the subscriptions of the connections: a filter    *)
(* left behind by a close, an update or a reload would keep the table alive  *)
(* and be judged for nobody.  No subscription outlives its connection, and   *)
(* none is numbered twice.                                                   *)
IndexIsSubscriptions ==
    /\ index = UNION {{[conn |-> c, n |-> s.n, filter |-> s.filter] : s \in conns[c].subs} :
                        c \in Conns}
    /\ \A c \in Conns :
         /\ conns[c].subs # {} => conns[c].session \in {"open", "ending"}
         /\ \A s, t \in conns[c].subs : s.n = t.n => s = t
         /\ \A s \in conns[c].subs : s.n < conns[c].next

(* A hub without a filter holds no table, whatever a snapshot or a late      *)
(* change brings (T-5182), and its table is due for the next filter.  A      *)
(* filter on a hub whose table is due has the upstream look at it, but for   *)
(* one case: a gap after which the new subscription could not be sent, until *)
(* the next filter, gap or refusal; then at least the table is still due.    *)
TableFollowsFilters ==
    /\ index = {} => due /\ recency = <<>> /\ \A e \in Entities : table[e] = NoDoc
    /\ due /\ index # {} /\ started => wanted \/ unread
    /\ unread => due /\ ~wanted

(* Whatever is queued, or was dropped for want of room, has a permit that    *)
(* wakes the session.                                                        *)
NoLostWakeup ==
    \A c \in OpenConns : queue[c] # EmptyQueue => ready[c]

(* What the session will send of a queue. *)
Visible(q) ==
    {q.items[i] : i \in {j \in DOMAIN q.items : \A k \in 1..j : q.items[k].kind # "closing"}}

(* Once a reload queued the close of a connection, no change applied after   *)
(* it adds to what that connection is still sent, nor rewrites it.           *)
ClosedHearsNothing ==
    [][Apply => \A c \in OpenConns :
         (\E i \in DOMAIN queue[c].items : queue[c].items[i].kind = "closing")
            => Visible(queue'[c]) = Visible(queue[c])]_vars

(* A change notifies every filter that was there when it was made, that      *)
(* accepts the new document and watches an attribute that differs from the   *)
(* document before: the table never makes a change look like none.           *)
EveryChangeJudged ==
    stream # <<>> =>
      LET f == Head(stream)
      IN \A i \in index :
           /\ <<i.conn, i.n>> \in f.live
           /\ f.doc # NoDoc
           /\ Decides(i.filter, f.was, f.doc)
           => Decides(i.filter, table[f.entity], f.doc)

(* fanout/hub.rs:251: "The table is to be read from the view before it judges *)
(* a change: never read, lost by a gap, or dropped with the last filter": a   *)
(* live table that was read, with no change on its way, agrees with the view. *)
ReadTableIsTheView ==
    \A s \in Snapshots :
        started /\ page[s].st = "seeding" /\ page[s].left = {} /\ stream = <<>> /\ ~due =>
            \A e \in Entities : table[e] \in {NoDoc, view[e]}

=============================================================================
