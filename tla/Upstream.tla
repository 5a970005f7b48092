------------------------------ MODULE Upstream ------------------------------
(***************************************************************************)
(* The one upstream of a hub, fanout/socket.rs: connect, subscribe or      *)
(* resume, apply every notification, reconnect, wait out a refusal, stop   *)
(* with the hub.                                                           *)
(*                                                                         *)
(* The broker is not in the repository.  It is modelled by the protocol    *)
(* the upstream speaks: a welcome first, one x-result per message,         *)
(* notifications numbered by x-seq, an x-gap when it dropped some, and a   *)
(* place held for a while after a connection ends.  A change of the view   *)
(* is its number; x-seq counts from the subscription.                      *)
(***************************************************************************)
EXTENDS Naturals, Sequences

CONSTANTS
    Places,         \* the broker's connections, reused once it forgot them
    Statuses,       \* what the broker may answer a subscription with
    MaxChanges,     \* bound: the changes of the view
    Records,        \* bound: the records the Endpoint may have, 0 when removed
    NoPlace         \* no connection

ASSUME PlacesAssumption == NoPlace \notin Places

ASSUME StatusAssumption == Statuses \subseteq 100..599

ASSUME BoundAssumption == MaxChanges \in Nat /\ 1 \in Records /\ Records \subseteq Nat

VARIABLES
    log,        \* the changes of the view so far
    place,      \* what the broker holds under a connection name
    socket,     \* the broker's connection behind the open socket
    toBroker,   \* the frames on their way to the broker
    fromBroker, \* the frames on their way to the gateway
    pc,         \* where the upstream task is
    resume,     \* what the next connection resumes, of upstream()
    first,      \* what this connection's first message resumes, of run()
    started,    \* the broker has accepted the subscription
    name,       \* the connection name of the last x-welcome
    seq,        \* the last x-seq
    sent_first, \* the first message is out
    refused,    \* Hub.refused: the broker's status, 0 for none
    clients,    \* whether the hub has clients, has none, or has lingered
    warned,     \* every client was sent view-removed
    registered, \* the registry holds the hub
    record,     \* the Endpoint's record in the table, 0 when removed
    reloading,  \* the tables are swapped, the hubs not rechecked yet
    refused_on, \* the record a hold waits on
    answered,   \* the first message of this socket was answered with success
    pos,        \* history: the last change the live hub applied, or its first that it need not
    told,       \* history: every client was told of a gap, or sent away, since then
    forgotten   \* history: a connection ended unanswered since the last one applied

broker == <<log, place, socket, toBroker, fromBroker>>
task == <<pc, resume, first, started, name, seq, sent_first, refused_on, answered>>
feed == <<pos, told, forgotten>>
registry == <<clients, warned, registered, record, reloading>>
vars == <<broker, task, refused, feed, registry>>

-----------------------------------------------------------------------------

Nowhere == [at |-> NoPlace, seq |-> 0]

Empty == [st |-> "free", subscribed |-> FALSE, next |-> 0, base |-> 0]

Success(status) == status \in 200..299

lasting(status) == status \in 403..405

Frame(op, id, n) == [op |-> op, id |-> id, n |-> n]

Init ==
    /\ log = 0
    /\ place = [p \in Places |-> Empty]
    /\ socket = NoPlace
    /\ toBroker = <<>>
    /\ fromBroker = <<>>
    /\ pc = "top"
    /\ resume = Nowhere
    /\ first = Nowhere
    /\ started = FALSE
    /\ name = NoPlace
    /\ seq = 0
    /\ sent_first = FALSE
    /\ refused = 0
    /\ clients = "some"
    /\ warned = FALSE
    /\ registered = TRUE
    /\ record = 1
    /\ reloading = FALSE
    /\ refused_on = 0
    /\ answered = FALSE
    /\ pos = 0
    /\ told = TRUE
    /\ forgotten = FALSE

-----------------------------------------------------------------------------
(* The broker and the network. *)

Change ==
    /\ log < MaxChanges
    /\ log' = log + 1
    /\ UNCHANGED <<place, socket, toBroker, fromBroker, task, refused, feed, registry>>

Open == socket \in Places /\ place[socket].st = "open"

Send(f) == fromBroker' = Append(fromBroker, f)

(* x-subscribe: accepted, with every change from now on numbered from 1, or  *)
(* refused with a status.                                                    *)
BrokerSubscribes ==
    /\ Open /\ toBroker # <<>> /\ Head(toBroker).op = "x-subscribe"
    /\ toBroker' = Tail(toBroker)
    /\ \E s \in Statuses :
         /\ Send([op |-> "x-result", id |-> "up", n |-> s, base |-> log])
         /\ place' = IF Success(s)
                     THEN [place EXCEPT ![socket] =
                             [@ EXCEPT !.subscribed = TRUE, !.next = log + 1, !.base = log]]
                     ELSE place
    /\ UNCHANGED <<log, socket, task, refused, feed, registry>>

(* x-resume: the held connection's subscription moves to this one and goes  *)
(* on after the x-seq the gateway names; a place no longer held is a 404.   *)
BrokerResumes ==
    /\ Open /\ toBroker # <<>> /\ Head(toBroker).op = "x-resume"
    /\ toBroker' = Tail(toBroker)
    /\ LET from == Head(toBroker).id
           old  == place[from]
       IN IF old.st = "held"
          THEN /\ Send(Frame("x-result", "resume", 200))
               /\ place' = [place EXCEPT
                    ![from] = Empty,
                    ![socket] = [old EXCEPT !.st = "open",
                                            !.next = old.base + Head(toBroker).n + 1]]
          ELSE Send(Frame("x-result", "resume", 404)) /\ UNCHANGED place
    /\ UNCHANGED <<log, socket, task, refused, feed, registry>>

BrokerNotifies ==
    /\ Open /\ place[socket].subscribed /\ place[socket].next <= log
    /\ Send(Frame("x-notification", place[socket].next, place[socket].next - place[socket].base))
    /\ place' = [place EXCEPT ![socket].next = @ + 1]
    /\ UNCHANGED <<log, socket, toBroker, task, refused, feed, registry>>

(* The broker dropped what it had not sent yet. *)
BrokerDrops ==
    /\ Open /\ place[socket].subscribed /\ place[socket].next <= log
    /\ Send(Frame("x-gap", 0, 0))
    /\ place' = [place EXCEPT ![socket].next = log + 1]
    /\ UNCHANGED <<log, socket, toBroker, task, refused, feed, registry>>

(* The broker ends the connection (x-closing), or the network cuts it: what  *)
(* the gateway has not received yet may be lost, what is on its way to the   *)
(* broker is, and the broker holds the place.                                *)
SocketEnds ==
    /\ Open
    /\ \E k \in 0..Len(fromBroker) :
         fromBroker' = Append(SubSeq(fromBroker, 1, k), Frame("x-closing", 0, 0))
    /\ toBroker' = <<>>
    /\ place' = [place EXCEPT ![socket].st = "held"]
    /\ UNCHANGED <<log, socket, task, refused, feed, registry>>

(* The broker forgets a place it held for its 30 s. *)
PlaceExpires(p) ==
    /\ place[p].st = "held"
    /\ place' = [place EXCEPT ![p] = Empty]
    /\ UNCHANGED <<log, socket, toBroker, fromBroker, task, refused, feed, registry>>

Broker ==
    \/ Change \/ BrokerSubscribes \/ BrokerResumes \/ BrokerNotifies \/ BrokerDrops \/ SocketEnds
    \/ \E p \in Places : PlaceExpires(p)

-----------------------------------------------------------------------------
(* The registry, the clients and the Endpoint table, as the upstream sees     *)
(* them.  A client joins under the registry's lock; its request may have been *)
(* admitted on the table before a reload.                                     *)

Join ==
    /\ registered /\ clients # "some"
    /\ clients' = "some"
    /\ warned' = FALSE
    /\ UNCHANGED <<broker, task, refused, feed, registered, record, reloading>>

AnotherJoins ==
    /\ registered /\ clients = "some" /\ warned
    /\ warned' = FALSE
    /\ UNCHANGED <<broker, task, refused, feed, clients, registered, record, reloading>>

LastClientLeaves ==
    /\ clients = "some"
    /\ clients' = "none"
    /\ UNCHANGED <<broker, task, refused, feed, warned, registered, record, reloading>>

Lingers ==
    /\ clients = "none"
    /\ clients' = "lingered"
    /\ UNCHANGED <<broker, task, refused, feed, warned, registered, record, reloading>>

(* make_room takes an idle hub out of the registry for another one. *)
MakeRoom ==
    /\ registered /\ clients # "some"
    /\ registered' = FALSE
    /\ UNCHANGED <<broker, task, refused, feed, clients, warned, record, reloading>>

(* Hub::recheck: the clients of a removed Endpoint are sent view-removed. *)
Recheck == warned' = (warned \/ record = 0)

(* The reaper swaps the tables, then rechecks every hub of the registry. *)
Reload ==
    /\ ~reloading
    /\ record' \in Records \ {record}
    /\ reloading' = TRUE
    /\ UNCHANGED <<broker, task, refused, feed, clients, warned, registered>>

Reloaded ==
    /\ reloading
    /\ reloading' = FALSE
    /\ IF registered THEN Recheck ELSE UNCHANGED warned
    /\ UNCHANGED <<broker, task, refused, feed, clients, registered, record>>

Registry ==
    Join \/ AnotherJoins \/ LastClientLeaves \/ Lingers \/ MakeRoom \/ Reload \/ Reloaded

-----------------------------------------------------------------------------
(* upstream(). *)

(* Hubs::leave: what it answers, and the registry after it. *)
Leave(done) ==
    /\ registered => done
    /\ registered' = FALSE

LeaveIfIdle == Leave(clients = "lingered")

Stops ==
    /\ pc = "top"
    /\ LeaveIfIdle
    /\ pc' = "stopped"
    /\ UNCHANGED <<broker, resume, first, started, name, seq, sent_first, refused_on, answered,
                   refused, feed, clients, warned, record, reloading>>

Stays ==
    /\ pc = "top"
    /\ registered /\ clients # "lingered"
    /\ pc' = "connecting"
    /\ UNCHANGED <<broker, resume, first, started, name, seq, sent_first, refused_on, answered,
                   refused, feed, registry>>

ConnectFails ==
    /\ pc = "connecting"
    /\ pc' = "sleep"
    /\ UNCHANGED <<broker, resume, first, started, name, seq, sent_first, refused_on, answered,
                   refused, feed, registry>>

(* The broker takes the connection under a name nobody refers to, and run()  *)
(* begins with what there is to resume.                                      *)
Connects ==
    /\ pc = "connecting"
    /\ \E p \in Places \ {resume.at} :
         /\ place[p].st = "free"
         /\ place' = [place EXCEPT ![p].st = "open"]
         /\ socket' = p
    /\ toBroker' = <<>>
    /\ fromBroker' = <<Frame("x-welcome", 0, 0)>>
    /\ pc' = "run"
    /\ first' = resume
    /\ resume' = Nowhere
    /\ name' = NoPlace
    /\ seq' = resume.seq
    /\ sent_first' = FALSE
    /\ answered' = FALSE
    /\ UNCHANGED <<log, started, refused_on, refused, feed, registry>>

Slept ==
    /\ pc = "sleep"
    /\ pc' = "top"
    /\ UNCHANGED <<broker, resume, first, started, name, seq, sent_first, refused_on, answered,
                   refused, feed, registry>>

(* A tick of hold(): the clients are rechecked, then the table is asked again: *)
(* the hub leaves the registry when its record is gone or it has lingered, a   *)
(* changed record opens the upstream again, and the same one is waited on.     *)
HoldRecheck ==
    /\ pc = "hold"
    /\ Recheck
    /\ pc' = "hold_look"
    /\ UNCHANGED <<broker, resume, first, started, name, seq, sent_first, refused_on, answered,
                   refused, feed, clients, registered, record, reloading>>

(* Mutant: a held hub does not look whether it has lingered. *)
HoldForGood == record = 0

HoldDone == record = 0 \/ clients = "lingered"

HoldLook ==
    /\ pc = "hold_look"
    /\ \/ Leave(HoldDone) /\ pc' = "top"
       \/ /\ registered /\ ~HoldDone
          /\ pc' = IF record = refused_on THEN "hold" ELSE "top"
          /\ UNCHANGED registered
    /\ refused_on' = IF pc' = "hold" THEN refused_on ELSE 0
    /\ UNCHANGED <<broker, resume, first, started, name, seq, sent_first, answered,
                   refused, feed, clients, warned, record, reloading>>

-----------------------------------------------------------------------------
(* run(). *)

(* The socket is dropped: the broker holds the place if it still had it open. *)
DropSocket ==
    /\ place' = IF Open THEN [place EXCEPT ![socket].st = "held"] ELSE place
    /\ socket' = NoPlace
    /\ toBroker' = <<>>
    /\ fromBroker' = <<>>

(* run() returned `what`, its locals are gone, and upstream() looks at the   *)
(* refusal: it waits it out, or holds while the record stays.                *)
Return(what, status) ==
    /\ resume' = what
    /\ pc' = IF status = 0 THEN "top" ELSE IF lasting(status) THEN "hold" ELSE "sleep"
    /\ refused_on' = IF pc' = "hold" THEN record ELSE 0
    /\ DropSocket
    /\ first' = Nowhere
    /\ name' = NoPlace
    /\ seq' = 0
    /\ sent_first' = FALSE
    /\ answered' = FALSE
    /\ UNCHANGED log

Running(op) == pc = "run" /\ fromBroker # <<>> /\ Head(fromBroker).op = op

hub_gap == told' = TRUE /\ UNCHANGED <<pos, forgotten>>

(* A connection ends before its first message was answered with success. *)
Forgets == forgotten' = (forgotten \/ ~answered) /\ UNCHANGED <<pos, told>>

(* Mutant: a lost connection is resumed from the start. *)
lost_from_zero == IF name = NoPlace THEN Nowhere ELSE [at |-> name, seq |-> 0]

lost == IF name = NoPlace THEN Nowhere ELSE [at |-> name, seq |-> seq]

(* The message the connection begins with: resume, or subscribe. *)
FirstMessage ==
    IF first = Nowhere THEN Frame("x-subscribe", NoPlace, 0)
    ELSE Frame("x-resume", first.at, first.seq)

Welcome ==
    /\ Running("x-welcome")
    /\ fromBroker' = Tail(fromBroker)
    /\ name' = socket
    /\ sent_first' = TRUE
    /\ toBroker' = IF Open /\ ~sent_first THEN Append(toBroker, FirstMessage) ELSE toBroker
    /\ UNCHANGED <<log, place, socket, pc, resume, first, started, seq, refused_on, answered,
                   refused, feed, registry>>

(* The first message finds the socket closed: run() ends with nothing to     *)
(* resume.                                                                   *)
SendFails ==
    /\ Running("x-welcome")
    /\ ~Open /\ ~sent_first
    /\ Return(Nowhere, refused)
    /\ Forgets
    /\ UNCHANGED <<started, refused, registry>>

(* Mutant: a refused resume tells nobody. *)
ResumeRefusedQuietly(status) ==
    /\ Head(fromBroker).id = "resume" /\ ~(Success(status) /\ started)
    /\ seq' = 0
    /\ fromBroker' = Tail(fromBroker)
    /\ toBroker' = Append(toBroker, Frame("x-subscribe", NoPlace, 0))
    /\ UNCHANGED <<log, place, socket, pc, resume, first, started, name, sent_first, refused_on,
                   answered, refused, feed, registry>>

(* Mutant: a resume the broker refuses counts as one it accepted. *)
AcceptedAnything(status) ==
    /\ started
    /\ fromBroker' = Tail(fromBroker)
    /\ answered' = TRUE
    /\ UNCHANGED <<log, place, socket, toBroker, pc, resume, first, started, name, seq, sent_first,
                   refused_on, refused, feed, registry>>

(* ("resume", 2xx) or ("up", 2xx) once the fan-out has started. *)
Accepted(status) ==
    /\ Success(status) /\ started
    /\ fromBroker' = Tail(fromBroker)
    /\ answered' = TRUE
    /\ UNCHANGED <<log, place, socket, toBroker, pc, resume, first, started, name, seq, sent_first,
                   refused_on, refused, feed, registry>>

(* ("up", 2xx) of the first subscription: Hub::live. *)
FirstAccepted(status) ==
    /\ Head(fromBroker).id = "up" /\ Success(status) /\ ~started
    /\ started' = TRUE
    /\ refused' = 0
    /\ answered' = TRUE
    /\ fromBroker' = Tail(fromBroker)
    /\ pos' = Head(fromBroker).base
    /\ told' = FALSE
    /\ UNCHANGED <<log, place, socket, toBroker, pc, resume, first, name, seq, sent_first,
                   refused_on, forgotten, registry>>

(* ("resume", _): the place is lost; every client is told and the hub        *)
(* subscribes again.                                                         *)
ResumeRefused(status) ==
    /\ Head(fromBroker).id = "resume" /\ ~(Success(status) /\ started)
    /\ hub_gap
    /\ \/ /\ Open
          /\ seq' = 0
          /\ fromBroker' = Tail(fromBroker)
          /\ toBroker' = Append(toBroker, Frame("x-subscribe", NoPlace, 0))
          /\ UNCHANGED <<log, place, socket, pc, resume, first, name, sent_first, refused_on,
                         answered>>
       \/ ~Open /\ Return(Nowhere, refused)
    /\ UNCHANGED <<started, refused, registry>>

(* Any other answer: Hub::refuse sends every client away. *)
Refused(status) ==
    /\ Head(fromBroker).id = "up" /\ ~Success(status)
    /\ refused' = status
    /\ hub_gap
    /\ started' = FALSE
    /\ Return(Nowhere, status)
    /\ UNCHANGED registry

Result ==
    /\ Running("x-result")
    /\ LET status == Head(fromBroker).n
       IN Accepted(status) \/ FirstAccepted(status) \/ ResumeRefused(status) \/ Refused(status)

Notification ==
    /\ Running("x-notification")
    /\ seq' = Head(fromBroker).n
    /\ IF started
       THEN pos' = Head(fromBroker).id /\ told' = FALSE /\ forgotten' = FALSE
       ELSE UNCHANGED feed
    /\ fromBroker' = Tail(fromBroker)
    /\ UNCHANGED <<log, place, socket, toBroker, pc, resume, first, started, name, sent_first,
                   refused_on, answered, refused, registry>>

Gap ==
    /\ Running("x-gap")
    /\ hub_gap
    /\ fromBroker' = Tail(fromBroker)
    /\ UNCHANGED <<log, place, socket, toBroker, task, refused, registry>>

Closing ==
    /\ Running("x-closing")
    /\ Return(lost, refused)
    /\ Forgets
    /\ UNCHANGED <<started, refused, registry>>

(* A tick: the clients are rechecked, and a hub that has lingered, or that    *)
(* make_room dropped, ends its upstream.                                      *)
Tick ==
    /\ pc = "run"
    /\ Recheck
    /\ \/ LeaveIfIdle /\ Return(Nowhere, refused)
       \/ registered /\ clients # "lingered" /\ UNCHANGED <<broker, task, registered>>
    /\ UNCHANGED <<started, refused, feed, clients, record, reloading>>

Run == Welcome \/ SendFails \/ Result \/ Notification \/ Gap \/ Closing \/ Tick

Task == Stops \/ Stays \/ ConnectFails \/ Connects \/ Slept \/ HoldRecheck \/ HoldLook \/ Run

Next == Broker \/ Registry \/ Task

Spec == Init /\ [][Next]_vars

(* The runtime runs the upstream task while it can step, a connect resolves,   *)
(* its timers fire, and a hub without clients comes to the end of its linger.  *)
FairSpec ==
    /\ Spec
    /\ WF_vars(Stops \/ Stays)
    /\ WF_vars(ConnectFails \/ Connects)
    /\ WF_vars(Slept)
    /\ WF_vars(HoldRecheck)
    /\ WF_vars(HoldLook)
    /\ WF_vars(Tick)
    /\ WF_vars(Lingers)

-----------------------------------------------------------------------------

TypeOK ==
    /\ log \in 0..MaxChanges
    /\ \A p \in Places : place[p].st \in {"free", "open", "held"}
    /\ socket \in Places \cup {NoPlace}
    /\ pc \in {"top", "connecting", "sleep", "run", "hold", "hold_look", "stopped"}
    /\ pc = "run" <=> socket # NoPlace
    /\ refused \in Statuses \cup {0}
    /\ record \in Records
    /\ clients \in {"some", "none", "lingered"}

(* The hub's feed keeps what Feed promises: no change twice or out of order, *)
(* none skipped unless the clients were told since the last one, or a        *)
(* connection ended before its first message was answered (EndedIsResumed).  *)
F == INSTANCE Feed WITH told <- told \/ forgotten
ImplementsFeed == F!Spec

(* Once a socket's first message is answered with success, the broker holds  *)
(* the hub's subscription on it: a hub that believes it listens does, except *)
(* after a connection that ended unanswered.                                 *)
HearsItsView ==
    /\ TypeOK
    /\ answered /\ Open => place[socket].subscribed \/ forgotten

(* A hub that stays without clients, or that make_room dropped, ends its     *)
(* upstream, whatever the broker does and wherever the upstream waits.       *)
IdleUpstreamStops == <>[](clients # "some") => <>(pc = "stopped")

(* fanout/socket.rs:522: "The upstream ended: a later connection resumes it." *)
(* A started fan-out whose socket ends keeps its place, or tells the clients. *)
EndedIsResumed ==
    [][pc = "run" /\ pc' # "run" /\ started' /\ registered' => resume' # Nowhere \/ told']_vars

=============================================================================
