------------------------------ MODULE Registry ------------------------------
(***************************************************************************)
(* The hubs of a gateway and the sockets of its callers,                   *)
(* context-gateway/src/fanout/socket.rs (Hubs, make_room, the end of       *)
(* upstream) and handlers/ws.rs (Open, Held, endpoint_ws).                 *)
(*                                                                         *)
(* A socket is counted under one lock, joins its hub under another, and is *)
(* taken off each in a step of its own.  A hub dropped to make room for    *)
(* another stops its upstream only at that task's next tick.  Refused      *)
(* hubs, which wait without a socket, are left to Upstream.                *)
(***************************************************************************)
EXTENDS Naturals, Sequences, FiniteSets, Orders

CONSTANTS
    Sockets, People, CallerOf,      \* the callers of upgrades
    Views, ViewOf,                  \* hub_key(): an Endpoint and an identity
    Spaces, SpaceOf,
    HubIds, NoHub,                  \* the hubs in turn; none
    PER_CALLER, PER_SPACE, HUBS, HUBS_PER_SPACE

ASSUME RegistryAssumption ==
    /\ IsFiniteSet(Sockets) /\ IsFiniteSet(Views)
    /\ CallerOf \in [Sockets -> People] /\ ViewOf \in [Sockets -> Views]
    /\ SpaceOf \in [Views -> Spaces] /\ NoHub \notin HubIds
    /\ {PER_CALLER, PER_SPACE, HUBS, HUBS_PER_SPACE} \subseteq Nat \ {0}

VARIABLES
    opened,     \* Open: the sockets a caller holds
    upgrade,    \* where a socket's upgrade stands, and its hub
    registry,   \* Hubs: the hub of a view
    clients,    \* the connections of a hub
    idle,       \* the hubs without a connection, the longest first (idle_since)
    task        \* the upstream of a hub

registryVars == <<opened, upgrade, registry, clients, idle, task>>

Space(s) == SpaceOf[ViewOf[s]]

At(s, place) == upgrade' = [upgrade EXCEPT ![s].at = place]

Besides(h) == Without(idle, h)

-----------------------------------------------------------------------------

RegistryInit ==
    /\ opened = [p \in People |-> 0]
    /\ upgrade = [s \in Sockets |-> [at |-> "new", hub |-> NoHub]]
    /\ registry = [v \in Views |-> NoHub]
    /\ clients = [h \in HubIds |-> {}]
    /\ idle = <<>>
    /\ task = [h \in HubIds |-> "none"]

(* Open::take. *)
TakeSocket(s) ==
    /\ upgrade[s].at = "new"
    /\ IF opened[CallerOf[s]] >= PER_CALLER
       THEN At(s, "gone") /\ UNCHANGED opened
       ELSE At(s, "counted") /\ opened' = [opened EXCEPT ![CallerOf[s]] = @ + 1]
    /\ UNCHANGED <<registry, clients, idle, task>>

(* Hub::open, within the join. *)
Opens(s, h) ==
    /\ upgrade' = [upgrade EXCEPT ![s] = [at |-> "joined", hub |-> h]]
    /\ clients' = [clients EXCEPT ![h] = @ \cup {s}]
    /\ idle' = Besides(h)
    /\ UNCHANGED opened

(* make_room(): the views that are counted against a cap, and of those the   *)
(* one whose hub is idle longest, unless each has a client.                  *)
Counted(reg, space) == {v \in Views : reg[v] # NoHub /\ SpaceOf[v] = space}
CountedInAll(reg) == {v \in Views : reg[v] # NoHub}

(* Mutant: the hub with the fewest clients makes room. *)
FewestClients(reg, views) ==
    {v \in views : \A w \in views : Cardinality(clients[reg[v]]) <= Cardinality(clients[reg[w]])}

Idlest(reg, views) ==
    {v \in views : \E i \in 1..Len(idle) :
        idle[i] = reg[v] /\ \A j \in 1..(i - 1) : \A w \in views : idle[j] # reg[w]}

Dropped(reg, views, cap) ==
    IF Cardinality(views) < cap THEN {reg}
    ELSE {[reg EXCEPT ![v] = NoHub] : v \in Idlest(reg, views)}

(* The registry with room for one more, or nothing: once a hub of the space  *)
(* was dropped there is room in all.                                         *)
make_room(space) ==
    UNION {Dropped(reg, CountedInAll(reg), HUBS) :
             reg \in Dropped(registry, Counted(registry, space), HUBS_PER_SPACE)}

InSpace(space) ==
    UNION {clients[registry[v]] : v \in Counted(registry, space)}

SpaceIsFull(s) == Cardinality(InSpace(Space(s))) >= PER_SPACE

(* Hubs::join, under the registry's lock. *)
JoinHub(s) ==
    /\ upgrade[s].at = "counted" /\ ~SpaceIsFull(s)
    /\ registry[ViewOf[s]] # NoHub
    /\ Opens(s, registry[ViewOf[s]])
    /\ UNCHANGED <<registry, task>>

NewHub(s) ==
    /\ upgrade[s].at = "counted" /\ ~SpaceIsFull(s)
    /\ registry[ViewOf[s]] = NoHub
    /\ \E h \in HubIds, reg \in make_room(Space(s)) :
        /\ task[h] = "none" /\ \A g \in HubIds : task[g] = "none" => h <= g
        /\ registry' = [reg EXCEPT ![ViewOf[s]] = h]
        /\ task' = [task EXCEPT ![h] = "runs"]
        /\ Opens(s, h)

(* SpaceFull and HubsFull. *)
RefuseJoin(s) ==
    /\ upgrade[s].at = "counted"
    /\ SpaceIsFull(s) \/ (registry[ViewOf[s]] = NoHub /\ make_room(Space(s)) = {})
    /\ At(s, "closing")
    /\ UNCHANGED <<opened, registry, clients, idle, task>>

(* WebSocketUpgrade refuses the request. *)
RejectUpgrade(s) ==
    /\ upgrade[s].at = "counted"
    /\ At(s, "closing")
    /\ UNCHANGED <<opened, registry, clients, idle, task>>

(* Hub::close at the end of the session, or Hub::discard of a failed upgrade. *)
CloseSocket(s) ==
    /\ upgrade[s].at = "joined"
    /\ LET h == upgrade[s].hub
       IN /\ clients' = [clients EXCEPT ![h] = @ \ {s}]
          /\ idle' = IF clients[h] = {s} THEN Append(idle, h) ELSE idle
    /\ At(s, "closing")
    /\ UNCHANGED <<opened, registry, task>>

(* Held::drop. *)
GiveBack(s) ==
    /\ upgrade[s].at = "closing"
    /\ At(s, "gone")
    /\ opened' = [opened EXCEPT ![CallerOf[s]] = @ - 1]
    /\ UNCHANGED <<registry, clients, idle, task>>

(* leave_if_idle() at an upstream's tick or before it connects: the hub was  *)
(* dropped, or has been idle for the linger.                                 *)
Stops(h) ==
    /\ task[h] = "runs"
    /\ LET held == {v \in Views : registry[v] = h}
       IN /\ held # {} => clients[h] = {}
          /\ registry' = [v \in Views |-> IF v \in held THEN NoHub ELSE registry[v]]
    /\ task' = [task EXCEPT ![h] = "stopped"]
    /\ idle' = Besides(h)
    /\ UNCHANGED <<opened, upgrade, clients>>

RegistryNext ==
    \/ \E s \in Sockets : \/ TakeSocket(s) \/ JoinHub(s) \/ NewHub(s) \/ RefuseJoin(s)
                          \/ RejectUpgrade(s) \/ CloseSocket(s) \/ GiveBack(s)
    \/ \E h \in HubIds : Stops(h)

RegistrySpec == RegistryInit /\ [][RegistryNext]_registryVars

-----------------------------------------------------------------------------

RegistryTypeOK ==
    /\ opened \in [People -> Nat]
    /\ upgrade \in [Sockets -> [at : {"new", "counted", "joined", "closing", "gone"},
                                hub : HubIds \cup {NoHub}]]
    /\ registry \in [Views -> HubIds \cup {NoHub}]
    /\ clients \in [HubIds -> SUBSET Sockets]
    /\ task \in [HubIds -> {"none", "runs", "stopped"}]

Connected == {s \in Sockets : upgrade[s].at = "joined"}

(* socket.rs, Hubs::join: "a hub never stops between the join and the open": *)
(* whoever is connected is on the registered hub of its view, whose upstream *)
(* runs; so no connection escapes the count of its space, and the caps hold. *)
(* ws.rs, Held: a socket is "counted against its caller until it ends,       *)
(* however it ends".                                                         *)
EveryClientIsServed ==
    /\ RegistryTypeOK
    /\ \A s \in Connected :
         registry[ViewOf[s]] = upgrade[s].hub /\ task[upgrade[s].hub] = "runs"
    /\ \A space \in Spaces :
         /\ Cardinality({s \in Connected : Space(s) = space}) <= PER_SPACE
         /\ Cardinality(Counted(registry, space)) <= HUBS_PER_SPACE
    /\ Cardinality(CountedInAll(registry)) <= HUBS
    /\ \A p \in People :
         /\ opened[p] = Cardinality({s \in Sockets : CallerOf[s] = p
                                        /\ upgrade[s].at \in {"counted", "joined", "closing"}})
         /\ opened[p] <= PER_CALLER

=============================================================================
