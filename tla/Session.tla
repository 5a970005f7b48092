------------------------------ MODULE Session -------------------------------
(***************************************************************************)
(* One client of the fan-out and the chain of connections it resumes:      *)
(* session, answer and resume of fanout/socket.rs, and close and           *)
(* take_closed of fanout/hub.rs.                                           *)
(*                                                                         *)
(* A connection numbers what it writes (x-seq) and keeps the last KEPT     *)
(* notifications.  When it ends, the hub holds them with its subscription  *)
(* as a place; the client names the place and the last x-seq it has seen   *)
(* on its next connection.  A socket may break at any moment, losing what  *)
(* is on the wire, and the gateway may notice it late.  A notification is  *)
(* the number of the change it tells and the entity it is about; the       *)
(* client holds one subscription.                                          *)
(***************************************************************************)
EXTENDS Naturals, Sequences, FiniteSets, Orders

CONSTANTS
    MaxConns,       \* bound: the connections of the chain
    Entities,
    NoEntity,
    KEPT,           \* notifications a connection keeps for a resume
    MAX_QUEUED,
    MaxChanges,     \* bound: changes the hub tells
    Events,         \* bound: the kinds of hub events that may happen, each once
    MaxEvents       \* bound: how many of them

Conns == 1..MaxConns

ASSUME LimitAssumption ==
    /\ MaxConns \in Nat \ {0}
    /\ NoEntity \notin Entities
    /\ KEPT \in Nat \ {0}
    /\ MAX_QUEUED \in Nat \ {0}
    /\ MaxChanges \in Nat /\ MaxEvents \in Nat
    /\ Events \subseteq {"gap", "reload", "refusal"}

VARIABLES
    conn,       \* the gateway's side of each connection
    wire,       \* the frames on their way to the client, per connection
    refused,    \* the hub answers x-subscribe with 503
    change,     \* the changes told so far
    used,       \* the hub events that happened
    client,     \* the client: its connection, the place it holds, its x-seq
    heard,      \* the last change the client was told, per entity
    owed        \* the notifications sent it has neither seen nor been told to read again

hubVars == <<refused, change, used>>
clientVars == <<client, heard, owed>>
vars == <<conn, wire, hubVars, clientVars>>

-----------------------------------------------------------------------------
(* Frames and queue items. *)

Item(e, k) == [kind |-> "notification", entity |-> e, change |-> k]

Notification(n, e, k) == [kind |-> "notification", seq |-> n, to |-> n, entity |-> e, change |-> k]

gap(from, to) == [kind |-> "gap", seq |-> from, to |-> to, entity |-> NoEntity, change |-> 0]

Result(status) == [kind |-> "result", seq |-> status, to |-> status, entity |-> NoEntity, change |-> 0]

SignalItem(kind) == [kind |-> kind, entity |-> NoEntity, change |-> 0]

(* Queue::push. *)
Push(c, out) ==
    LET same == {i \in DOMAIN c.items :
                   /\ out.kind = "notification" /\ c.items[i].kind = "notification"
                   /\ c.items[i].entity = out.entity}
    IN IF same # {} THEN [c EXCEPT !.items = [i \in DOMAIN @ |-> IF i \in same THEN out ELSE @[i]]]
       ELSE IF Len(c.items) >= MAX_QUEUED THEN [c EXCEPT !.overflowed = TRUE]
       ELSE [c EXCEPT !.items = Append(@, out)]

(* The connection with nothing queued. *)
Drained(c) == [c EXCEPT !.items = <<>>, !.overflowed = FALSE]

Unused == [st |-> "unused", sub |-> FALSE, items |-> <<>>, overflowed |-> FALSE,
           seq |-> 0, sent |-> <<>>, first |-> TRUE]

(* The connections the hub holds. *)
Held == {c \in Conns : conn[c].st \in {"open", "ending"}}

(* A client that subscribed on its first connection. *)
Init ==
    /\ conn = [c \in Conns |-> IF c = 1 THEN [Unused EXCEPT !.st = "open", !.sub = TRUE] ELSE Unused]
    /\ wire = [c \in Conns |-> <<>>]
    /\ refused = FALSE
    /\ change = 0
    /\ used = {}
    /\ client = [on |-> 1, place |-> 1, at |-> 0]
    /\ heard = [e \in Entities |-> 0]
    /\ owed = {}

-----------------------------------------------------------------------------
(* The session. *)

(* What is queued before a close, without the refusal. *)
Told(c) ==
    Picked(c.items, {i \in DOMAIN c.items : /\ c.items[i].kind # "refused"
                                            /\ \A j \in 1..i : c.items[j].kind # "closing"})

(* The frames of what is queued, numbered on. *)
Frames(c) ==
    LET told == Told(c)
    IN [i \in 1..Len(told) |->
          IF told[i].kind = "gap" THEN gap(c.seq + i, c.seq + i)
          ELSE Notification(c.seq + i, told[i].entity, told[i].change)]

OverflowGap(c) ==
    IF c.overflowed THEN LET n == c.seq + Len(Told(c)) + 1 IN <<gap(n, n)>> ELSE <<>>

(* Mutant: nothing more is kept once KEPT notifications are. *)
FirstKept(s) == SubSeq(s, 1, IF Len(s) < KEPT THEN Len(s) ELSE KEPT)

(* The last KEPT notifications. *)
LastKept(s) == SubSeq(s, IF Len(s) > KEPT THEN Len(s) - KEPT + 1 ELSE 1, Len(s))

IsNotification(f) == f.kind = "notification"

Notifications(s) == {i \in DOMAIN s : IsNotification(s[i])}

(* Frames for the client of connection c: lost when its socket broke. *)
Write(c, frames) ==
    /\ wire' = [wire EXCEPT ![c] = IF c = client.on THEN @ \o frames ELSE @]
    /\ owed' = IF c \in {client.on, client.place}
               THEN owed \cup {frames[i] : i \in Notifications(frames)}
               ELSE owed

Ends(c) ==
    c.overflowed \/ \E i \in DOMAIN c.items : c.items[i].kind \in {"closing", "refused"}

(* The session takes its queue and writes it; a close, a refusal or an       *)
(* overflow ends it.                                                         *)
Take(c) ==
    LET q == conn[c]
    IN /\ q.st = "open" /\ (q.items # <<>> \/ q.overflowed)
       /\ conn' = [conn EXCEPT ![c] = [Drained(q) EXCEPT
             !.seq = IF Ends(q) THEN 0 ELSE @ + Len(Told(q)),
             !.sent = LastKept(@ \o Picked(Frames(q), Notifications(Frames(q)))),
             !.st = IF Ends(q) THEN "ending" ELSE "open"]]
       /\ Write(c, Frames(q) \o OverflowGap(q))
       /\ UNCHANGED <<hubVars, client, heard>>

(* The client is gone, too slow, too loud or silent, or its lifetime ended. *)
SessionEnds(c) ==
    /\ conn[c].st = "open"
    /\ conn' = [conn EXCEPT ![c] = [Drained(@) EXCEPT !.st = "ending", !.seq = 0]]
    /\ UNCHANGED <<wire, hubVars, clientVars>>

(* Hub::close: the place is held for a resume. *)
Close(c) ==
    /\ conn[c].st = "ending"
    /\ conn' = [conn EXCEPT ![c].st = "closed"]
    /\ UNCHANGED <<wire, hubVars, clientVars>>

(* RESUME_WINDOW passes, or the caps of the closed connections are met. *)
Forget(c) ==
    /\ conn[c].st = "closed"
    /\ conn' = [conn EXCEPT ![c] = [Unused EXCEPT !.st = "gone"]]
    /\ UNCHANGED <<wire, hubVars, clientVars>>

(* Mutant: the notification the client has is sent again too. *)
MissedAndLast(p, after) == Picked(conn[p].sent, {i \in DOMAIN conn[p].sent : conn[p].sent[i].seq >= after})

(* What of a closed connection was sent after x-seq `after`. *)
Missed(p, after) == Picked(conn[p].sent, {i \in DOMAIN conn[p].sent : conn[p].sent[i].seq > after})

LastSeq(p, after) ==
    LET sent == conn[p].sent
    IN IF sent # <<>> /\ sent[Len(sent)].seq > after THEN sent[Len(sent)].seq ELSE after

(* The gap that stands for what is no longer held. *)
Lead(p, after) ==
    LET missed == Missed(p, after)
    IN IF missed # <<>> /\ missed[1].seq > after + 1 THEN <<gap(after + 1, missed[1].seq - 1)>>
       ELSE IF missed = <<>> /\ LastSeq(p, after) > after
       THEN <<gap(after + 1, LastSeq(p, after))>>
       ELSE <<>>

(* Mutant: the resumed connection numbers anew. *)
ResumedFromZero(c, p) ==
    [conn[c] EXCEPT !.first = FALSE, !.sub = conn[p].sub /\ ~refused, !.seq = 0,
                    !.sent = Missed(p, client.at)]

(* Mutant: the subscriptions stay behind. *)
ResumedUnsubscribed(c, p) ==
    [conn[c] EXCEPT !.first = FALSE, !.seq = LastSeq(p, client.at), !.sent = Missed(p, client.at)]

(* Connection c after it took over place p; a refused subscribe is ignored. *)
Resumed(c, p) ==
    [conn[c] EXCEPT !.first = FALSE, !.sub = conn[p].sub /\ ~refused,
                    !.seq = LastSeq(p, client.at), !.sent = Missed(p, client.at)]

(* x-resume as the first message of connection c, 200: the place moves. *)
Resume(c) ==
    LET p == client.place
    IN /\ client.on = c /\ p \notin {0, c}
       /\ conn[c].st = "open" /\ conn[c].first
       /\ conn[p].st = "closed"
       /\ conn' = [conn EXCEPT ![c] = Resumed(c, p), ![p] = [Unused EXCEPT !.st = "gone"]]
       /\ Write(c, <<Result(200)>> \o Lead(p, client.at) \o Missed(p, client.at))
       /\ UNCHANGED <<hubVars, client, heard>>

(* The hub holds no such place, 404. *)
ResumeRefused(c) ==
    /\ client.on = c /\ client.place \notin {0, c}
    /\ conn[c].st = "open" /\ conn[c].first
    /\ conn[client.place].st # "closed"
    /\ conn' = [conn EXCEPT ![c].first = FALSE]
    /\ Write(c, <<Result(404)>>)
    /\ UNCHANGED <<hubVars, client, heard>>

(* x-subscribe of a client that holds no place, 201; it reads the view then. *)
Subscribe(c) ==
    /\ client.on = c /\ client.place = 0
    /\ conn[c].st = "open" /\ ~refused
    /\ conn' = [conn EXCEPT ![c].sub = TRUE, ![c].first = FALSE]
    /\ client' = [client EXCEPT !.place = c]
    /\ owed' = {}
    /\ UNCHANGED <<wire, hubVars, heard>>

-----------------------------------------------------------------------------
(* The hub. *)

(* The connections of C with `out` queued; nothing reads the queue of one    *)
(* that is ending.                                                           *)
PushTo(C, out) ==
    [c \in Conns |-> IF c \in C /\ conn[c].st = "open" THEN Push(conn[c], out) ELSE conn[c]]

(* Hub::apply of a change the client's filter accepts. *)
Change(e) ==
    LET subscribed == {c \in Held : conn[c].sub}
    IN /\ change < MaxChanges /\ subscribed # {}
       /\ change' = change + 1
       /\ conn' = PushTo(subscribed, Item(e, change + 1))
       /\ UNCHANGED <<wire, refused, used, clientVars>>

(* A hub event within the bounds. *)
Happens(kind) ==
    /\ kind \in Events \ used /\ Cardinality(used) < MaxEvents
    /\ used' = used \cup {kind}

(* Hub::gap. *)
HubGap ==
    /\ Happens("gap")
    /\ conn' = PushTo(Held, SignalItem("gap"))
    /\ UNCHANGED <<wire, refused, change, clientVars>>

(* Hub::recheck after the Endpoint's record changed. *)
Recheck ==
    /\ Happens("reload")
    /\ conn' = [c \in Conns |-> IF c \in Held
                                THEN [PushTo(Held, SignalItem("closing"))[c] EXCEPT !.sub = FALSE]
                                ELSE conn[c]]
    /\ UNCHANGED <<wire, refused, change, clientVars>>

(* Hub::refuse. *)
Refuse ==
    /\ Happens("refusal")
    /\ refused' = TRUE
    /\ conn' = PushTo(Held, SignalItem("refused"))
    /\ UNCHANGED <<wire, change, clientVars>>

(* Hub::live. *)
Live ==
    /\ refused
    /\ refused' = FALSE
    /\ UNCHANGED <<conn, wire, change, used, clientVars>>

-----------------------------------------------------------------------------
(* The client and the network. *)

(* The next frame.  A place is the client's once its resume was answered; a  *)
(* gap and a refused resume make it read again over REST.                    *)
Receive(c) ==
    /\ client.on = c /\ wire[c] # <<>>
    /\ wire' = [wire EXCEPT ![c] = Tail(@)]
    /\ LET f == Head(wire[c])
           counts == client.place \in {0, c}
       IN \/ /\ f = Result(200)
             /\ client' = [client EXCEPT !.place = c]
             /\ UNCHANGED <<heard, owed>>
          \/ /\ f = Result(404)
             /\ client' = [client EXCEPT !.place = 0, !.at = 0]
             /\ owed' = {}
             /\ UNCHANGED heard
          \/ /\ f.kind = "notification"
             /\ client' = [client EXCEPT !.at = f.seq]
             /\ heard' = [heard EXCEPT ![f.entity] = f.change]
             /\ owed' = owed \ {f}
          \/ /\ f.kind = "gap"
             /\ client' = IF counts THEN [client EXCEPT !.at = f.to] ELSE client
             /\ owed' = {}
             /\ UNCHANGED heard
    /\ UNCHANGED <<conn, hubVars>>

(* The socket breaks and the client notices; the gateway may not yet. *)
Break(c) ==
    /\ client.on = c
    /\ wire' = [wire EXCEPT ![c] = <<>>]
    /\ client' = [client EXCEPT !.on = 0]
    /\ UNCHANGED <<conn, hubVars, heard, owed>>

(* The client read the close frame. *)
ReadClose(c) ==
    /\ client.on = c /\ wire[c] = <<>> /\ conn[c].st # "open"
    /\ client' = [client EXCEPT !.on = 0]
    /\ UNCHANGED <<conn, wire, hubVars, heard, owed>>

(* The next connection; its x-welcome reached the client.  Without a place,  *)
(* the client counts from its start.                                         *)
Connect(c) ==
    /\ client.on = 0
    /\ conn[c].st = "unused" /\ \A d \in 1..(c - 1) : conn[d].st # "unused"
    /\ conn' = [conn EXCEPT ![c].st = "open"]
    /\ client' = [client EXCEPT !.on = c, !.at = IF client.place = 0 THEN 0 ELSE @]
    /\ UNCHANGED <<wire, hubVars, heard, owed>>

Gateway ==
    \/ \E c \in Conns :
        \/ Take(c) \/ SessionEnds(c) \/ Close(c) \/ Forget(c)
        \/ Resume(c) \/ ResumeRefused(c) \/ Subscribe(c)
    \/ \E e \in Entities : Change(e)
    \/ HubGap \/ Recheck \/ Refuse \/ Live

Client == \E c \in Conns : Receive(c) \/ Break(c) \/ ReadClose(c) \/ Connect(c)

Next == Gateway \/ Client

Spec == Init /\ [][Next]_vars

-----------------------------------------------------------------------------

Frame == [kind : {"notification", "gap", "result"}, seq : Nat, to : Nat,
          entity : Entities \cup {NoEntity}, change : 0..MaxChanges]

TypeOK ==
    /\ conn \in [Conns ->
         [st : {"unused", "open", "ending", "closed", "gone"}, sub : BOOLEAN,
          items : Seq([kind : {"notification", "gap", "closing", "refused"},
                       entity : Entities \cup {NoEntity}, change : 0..MaxChanges]),
          overflowed : BOOLEAN, seq : Nat, sent : Seq(Frame), first : BOOLEAN]]
    /\ \A c \in Conns : Len(conn[c].sent) <= KEPT
    /\ wire \in [Conns -> Seq(Frame)]
    /\ refused \in BOOLEAN
    /\ change \in 0..MaxChanges
    /\ used \subseteq Events
    /\ client \in [on : Conns \cup {0}, place : Conns \cup {0}, at : Nat]
    /\ heard \in [Entities -> 0..MaxChanges]
    /\ owed \subseteq Frame

(* The client's connection, served and quiet. *)
Settled ==
    /\ client.on # 0 /\ client.place = client.on
    /\ conn[client.on].st = "open" /\ wire[client.on] = <<>>

(* fanout/socket.rs resume: "what it sent after the client's x-seq is sent   *)
(* again, an x-gap first when some of it is no longer held": whatever broke  *)
(* and however often, no notification that was sent is silently lost to a    *)
(* client that resumed, from a memory that never holds more than KEPT        *)
(* (TypeOK).                                                                 *)
SentReaches ==
    /\ TypeOK
    /\ Settled => owed = {}

(* The notifications of an entity reach the client in the order of its       *)
(* changes and none twice, across resumes and coalescing.                    *)
HeardInOrder ==
    [][\A c \in Conns : Receive(c) /\ Head(wire[c]).kind = "notification" =>
         Head(wire[c]).change > heard[Head(wire[c]).entity]]_vars

(* Without a gap of the upstream, the numbers a client reads go on by one,   *)
(* or an x-gap starts right after the last one: x-seq never skips silently.  *)
NumbersGoOn ==
    [][\A c \in Conns :
         Receive(c) /\ "gap" \notin used /\ client.place = c /\ Head(wire[c]).kind # "result" =>
             Head(wire[c]).seq = client.at + 1]_vars

(* fanout/socket.rs:927: "the closed connection's subscriptions move to this *)
(* one": a client whose resume was answered 200 is subscribed, until the     *)
(* gateway queued its close.                                                 *)
SubscriptionsMove ==
    Settled /\ ~Ends(conn[client.on]) => conn[client.on].sub

(* The same while no reload and no refusal came in between, through broken   *)
(* sockets, lost answers and repeated resumes.                               *)
QuietResumeMoves == used \cap {"reload", "refusal"} = {} => SubscriptionsMove

=============================================================================
