# TLA+ models of the joinedcontext platform

The platform publishes views of an NGSI-LD context broker through
*endpoints*. Its Rust programs live under `src/crates`. This directory models
the parts of them in which state is shared between requests, tasks, processes
or pods: first of all the `context-gateway`, the process in front of the
broker, and of the programs around it the budgets and grants of the `agent-proxy`, the job
scheduler of the `wasm-host`, and the crawls of the knowledge `assistant`.

| File | What it is |
|---|---|
| `Admission.tla` | what admission promises, as one atomic step per request |
| `InFlight.tla`, `InFlightProofs.tla` | admission as the code does it: semaphores, a mutex, two timers, drops; its inductive invariant, and that it implements `Admission` |
| `RateLimiter.tla` | the token buckets |
| `Feed.tla` | what an upstream promises: each change once, in order, or a gap told first |
| `Upstream.tla`, `UpstreamProofs.tla` | the upstream task of a hub, with the broker, the network and the registry; that it implements `Feed` |
| `Orders.tla`, `OrdersProofs.tla` | sequences of which members are taken out or picked, and lemmas about them |
| `Hub.tla`, `HubProofs.tla` | one hub: entity table, filter index, connections, queues, snapshots; all its safety properties proved |
| `Session.tla` | one client's chain of connections: numbering, resume, gaps |
| `Registry.tla` | the hubs of a gateway under their caps, and the sockets of its callers |
| `SocketsProofs.tla` | what is proved of the two modules above: all properties of a session, and that whoever is connected is served |
| `Creates.tla` | the daily creates of a public form around midnight |
| `Downloads.tla` | the single-flight cache of anonymous downloads across reloads |
| `Counts.tla` | the tallies of usage and activity and their posts |
| `Pollers.tla` | the revocation list and the domain gate |
| `Reload.tla` | the preview mirror, the reaper, and what the gateway serves |
| `Decision.tla` | the policy decision |
| `Filters.tla` | the filter index of an Endpoint's fan-out |
| `GatewayProofs.tla` | what is proved of `RateLimiter` and of the seven modules above, from `Creates` to `Filters` |
| `RunBudgets.tla` | the budgets of one agent run under parallel calls |
| `Grants.tla` | the tokens of their persons that agent runs read with |
| `Jobs.tla` | the minutes of a scheduled job |
| `CrawlQueue.tla` | the crawl jobs of several pods |
| `CrawlSite.tla` | what crawls of a website write to the assistant's store |
| `WorkersProofs.tla` | what is proved of the five modules above |
| `PartsProofs.tla` | that the run of the parts that share no state checks each of them, and its properties for every instance |
| `MC*.tla`, `MC*.cfg` | the instances TLC checks |
| `PROJECT.json` | components, runs, mutants, source map, findings, hazards, theorems |

`tlc -config MCHub.cfg MCHub` checks an instance; `tlapm InFlightProofs.tla`
checks the proofs of a module.

## 1. Inventory

Paths without `src/` are below `src/crates/context-gateway/src`.

| Component | State it keeps | Operations | What is hard | What makes it correct |
|---|---|---|---|---|
| Admission, `middleware/in_flight.rs` | semaphores (total, anonymous, reads, slow, anonymous slow), a count per caller, download slots | `enforce`, `admit`, `timed`, `weigh`, `make_slow`, `Ticket::drop`, `download_slot` | acquisitions are separate steps; slow timer, deadline, answer and disconnect race; slots outlive an answer | no permit lost or doubled; class and caller shares hold; a handler never runs without its slots; admission never waits |
| Rate limiter, `middleware/rate_limit.rs` | sharded map of buckets, last sweep | `spend`, `sweep`, overflow buckets | the clock is read before two locks; sweeps run between other requests' steps | neither more nor fewer tokens than an exact bucket; `Retry-After` is enough; the map is bounded |
| Hub registry, `fanout/hub.rs` `Hubs`, `fanout/socket.rs`, `handlers/ws.rs` | hubs by endpoint, caps on sockets per caller | `join`, `leave_if`, `make_room`, `recheck`, `Open` | a hub leaves while a client joins; a reload sees only registered hubs | no client on a hub nobody serves; an idle hub ends |
| Upstream, `fanout/socket.rs` | place to resume, first message, started, last sequence number, refusal | `upstream`, `run`, `hold`, `first_message` | sockets end anywhere; places expire; refusals; reloads | `Feed`; a hub that believes it listens is subscribed; the task stops when idle |
| Hub, `fanout/hub.rs` | entity table with recency, index, connections with queues, `due`, `refused` | `open`, `subscribe`, `update`, `unsubscribe`, `remove`, `apply`, `seed`, `gap`, `recheck`, `refuse`, `live` | a snapshot is read while changes arrive; queues overflow; a reload ends clients in the middle | every change is judged against what preceded it; nothing is sent after a close; no wake-up is lost |
| Session, `fanout/socket.rs`, `hub.rs` `close`/`take_closed` | next `x-seq`, the kept notifications, places of closed connections | `session`, `answer`, `resume`, `close` | a client resumes before its old socket is seen to end; frames are lost with sockets | what was sent is heard once and in order, or a gap stands for it |
| Fan-out filters, `fanout.rs` | compiled filters, seven maps of the terms they are indexed by | compile, `insert`, `remove`, `candidates` | a filter is looked up by one of its terms only; cells at their edges, replaced filters | every filter that matches is a candidate |
| Creates quota, `creates.rs` | per form, and per caller of it, the day and its count | `reserve`, `release`, around the broker's answer | midnight passes between reading the day, reserving and giving back; callers leave | no more than `perDay` on a day, no caller more than a tenth |
| Download cache, `handlers/download_cache.rs`, `files.rs` | entries with a build cell and an age | `entry`, build, `forget` | one build for many waiters; reloads; failed, large or abandoned builds | an answer is fresh and of the reader's table; one build at a time |
| Endpoint tables, `pdp/reaper.rs` | twelve tables, the fingerprint | poll, load, swap | what is read changes during the load; tables are swapped one by one | a quiet tick serves what is there; a failed load keeps the old tables |
| Previews, `previews.rs` | the mirrored directory, an ETag, a digest | poll, write, remove | the reaper reads the directory meanwhile; a removal fails half way | an unchanged preview is the one in the directory |
| Revocations and domain gate, `revocations.rs`, `domain_gate.rs` | the last list, its tag and time | poll, decide | failed and unreadable answers; age | the list that decides is the Portal's last answer; the gate's is not too old |
| Usage and activity, `usage.rs`, `activity.rs` | a bounded tally each | count, take, post, put back | counts arrive during a post; a post fails, or is taken and not answered | a count arrives once, or is given up where the code says so |
| Policy decision, `pdp/evaluator.rs`, `mod.rs`, `grants.rs` | none | intersect, withhold, hide, project, drop, split | the empty set is "everything" in every field | no type or attribute passes that no grant gives, none is withheld without a reason, and a read pairs what one grant gives |
| Agent proxy: budgets, `src/crates/agent-proxy/src/limits.rs`, `llm.rs`, `fetch.rs`, `runs.rs` | usage per run, cached run records | check, charge, end | checked before a call, charged after it, in parallel; the end races all of it | a live run stays within its budgets but for what was under way |
| Agent proxy: grants, `src/crates/agent-proxy/src/delegation.rs`, `main.rs` | a grant of each run, behind a lock of its own | `bind`, `token`, `retire`, `end_finished` | the realm is asked with no lock held; a revocation ends a whole session at the realm | the last grant of a session is revoked with it, and one a run holds is not |
| WASM host: jobs, `src/crates/wasm-host/src/jobs.rs` | the running keys, the records | `tick`, run, `store` | a run overlaps later minutes; outcome and skips write one record | one run at a time; failures in a row are counted |
| Assistant: crawl queue, `src/crates/assistant/src/crawl/queue.rs`, `worker.rs` | `crawl_jobs` in PostgreSQL | `enqueue`, `claim`, `finish`, `fail`, a pod's minute | statements of several pods interleave; pods stop with a lease; old snapshots | one reader; every job ends; the index catches up |
| Assistant: website crawl, `crawl/mod.rs`, `extract.rs`, `chat/admin.rs` | pages, documents, chunks, links | visit, revisit, upsert, index, age, forget, include | one transaction after another; capped, blind and cut runs; an administrator in between | a page that is there is kept and indexed as it is |
| Authentication, MCP, federation, OGC and file surfaces, write checks, MQTT check | none or per request | translate, check | — | — |
| Reconciler, `src/crates/jcctl` | desired and actual objects | plan, apply in waves | failure in the middle of an apply | a second apply finishes the first |

A request passes the rate limiter and admission, then a handler, which asks the
policy decision and the broker; a WebSocket request becomes a *session* of a
*hub*. A hub has one *upstream* task with one subscription at the broker. The
upstream applies each notification to the hub, which queues it for every session
whose filter fires; each session drains its queue onto its socket. The reaper
reloads the tables from the repository and the mirrored previews and asks the
registry to recheck every hub; downloads under way keep the table they were
admitted on. Pollers and tallies connect a gateway to the Portal. The agent
proxy asks the Portal for a run's record and caches it; the assistant's pods
share PostgreSQL and nothing else. Hub, queues, tallies and maps are guarded by
mutexes, wake-ups are `tokio::sync::Notify`, so the interleavings that matter
are between lock acquisitions, between awaits, between transactions, and
between the programs, the broker and the clients.

`PROJECT.json` lists the hazards at their lines with the properties that would
catch them; those without a property name the reason.

## 2. Modules and the code

Each definition is mapped to its lines in `PROJECT.json`. Per module:

**InFlight** (`middleware/in_flight.rs`). `pc[r]` is where the task of request
`r` stands; `free[s]` and `held[s]` a semaphore's permits and its holders;
`count` the mutex-guarded map per caller; `tickets` and `weighed` the tickets
that are out and those at slow weight; `answer` what the client got. Every
`try_acquire` is an action (`TakeSlot`, `RefuseSlot`, `TakeSlow`,
`RefuseSlow`, `StartDownload`, `RefuseDownload`), as is every critical section
(`Admit`, `RefuseCaller`, `Weigh`, `RefuseWeigh`, `DropTicket`). `Abandon` is
the client going away at an await; what a dropped future returns follows in the
order of its fields (`DropTicket`, `DropSlot`). `Deadline` is the timer
of a plain read. A handler is modelled by when it answers. In **Admission**,
the abstract specification, a request is admitted, made slow and ended in one
step each, with the shares as guards.

**RateLimiter** (`middleware/rate_limit.rs`). `req[r]` walks from `Arrive`
(which reads the clock) through the sweep (`SkipSweep`, or `StartSweep`, and
`Measure` and `Retain` for each shard) to `Allow` or `Refuse` under the shard's
lock. `held`, `tokens`, `last` are the map; overflow buckets are the pair of a
shard and a slug. Tokens are integers in units of `1/ONE`. `ideal`, `late` and
`promise` are history variables: what an exact bucket would hold, the time by
which requests moved `last` backwards, and the wait a refusal named.

**Upstream** (`fanout/socket.rs`, with `Hubs` of `fanout/hub.rs`).
`pc`, `resume`, `first`, `started`, `name`, `seq`, `sent_first`,
`refused_on`, `answered` are the task's locals. `Welcome`,
`Result`, `Notification`, `Gap`, `Closing`, `Tick` are the arms of `run`;
`HoldRecheck` and `HoldLook` the two halves of `hold`'s loop, which another
task may come between. The broker and its connection (`log`, `place`,
`socket`, the two channels) are external: modelled from the messages the
upstream sends and expects. `clients`, `registered`, `record`, `warned`,
`reloading` are the registry as this hub sees it. **Feed** is the abstract
specification: `pos` moves to the next change, or further only when `told`.

**Hub** (`fanout/hub.rs`, snapshots of `fanout/socket.rs`). One action
per locked operation. `table`/`recency` are the bounded entity table, `index`
the filters, `conns` the sessions with their subscriptions, `queue` the
coalescing queues, `ready` the stored permits of `Notify`, `due`/`wanted` the
snapshot that is owed and its wake-up, `unread` that a gap left it owed and
nobody was asked (`LooksAfterGap`), `page` the snapshot tasks. `view` and
`stream` are the broker's truth and the notifications under way. What a filter
accepts is a set of documents.

**Session** (`fanout/socket.rs` `session`, `answer`, `resume`; `hub.rs`
`close`, `take_closed`). `conn[c]` is the gateway's side of the client's
`c`-th connection, with its queue, next number, kept notifications and
whether its place is held; `wire[c]` what is on the socket; `client` the
client, which is external: it notes numbers, reconnects after a break, and
resumes its last place. A client without a place has no number to resume from, so
`Connect` forgets it. `owed` and `heard` are histories.

**Registry** (`fanout/socket.rs` `Hubs` and `make_room`; `handlers/ws.rs`
`Open`, `Held`, `endpoint_ws`). `opened` counts a caller's sockets, `upgrade[s]`
is where the upgrade of socket `s` stands, `registry` the hub of each view (an
Endpoint and an identity), `clients` and `idle` the hubs' connections and the
order in which hubs ran empty, `task` their upstreams. What holds one lock is
one action: `JoinHub` or `NewHub` (with `make_room`) under the registry's,
`CloseSocket` under the hub's, `TakeSocket` and `GiveBack` under the count's; a
hub that made room stops its upstream in a step of its own (`Stops`).

`Upstream`, `Hub` and `Session` split one subsystem along its mutexes and
channels: what `Upstream` calls `Notification` and `Gap` are `Hub`'s `Apply` and
`Gap`, and `Hub`'s queue per connection is `Session`'s. A composition of the
three would multiply their states beyond TLC's reach; `Feed` is the interface on
which `Hub` relies: its `stream` delivers in order, and gaps are told.

**Creates** (`creates.rs`, `handlers/ngsi_ld.rs` `reserve_create` and
`send_reserved`). `ReadClock`, `Reserve` (or `RefuseCaller`, `RefuseForm`), the
broker's making the entity (`Makes`, unseen) and its answer (`Keeps`, `Release`) are
steps; `Midnight` may fall between any two. Any answer but a success gives the slot
back, whether the entity was made or not: such a create is *doubted*. `counts` and `callers` are the two maps, whose entries carry their day.
`latest` is the last day a reservation was judged for, and `overtook` counts the
reservations judged after one of a later day. `DayIsCapped` allows for both.

**Downloads** (`handlers/download_cache.rs`, `file_csv` of `handlers/files.rs`).
`Admit` and `Ask` are separate because the key reads the table a second time.
An entry is named by the caller that added it; `Build`, `Built`, `BuildFails`,
`Take`, `Answered` and `GoesAway` are what its `OnceCell` allows; `Replaced` is
the reaper's swap. `excused` notes what the code's comments allow to be built
twice.

**Counts** (`usage.rs`, `activity.rs`). `CountCall` is a critical section, as
is the taking of a tally; the post, its answer and what is put back or dropped
follow, and calls are counted in between. `received` is the other side's sum.

**Pollers** (`revocations.rs`, `domain_gate.rs`). A poll is sent with the tag of
the list that is held; the Portal answers 304, the list, or neither, and the
answer may be unreadable. `holding` and `held_at` are the list that decides and
its time.

**Reload** (`previews.rs`, `pdp/reaper.rs`, the start in `main.rs`). The mirror
polls, and writes or removes a directory step by step; the reaper takes the
fingerprint, reads the repository and then the previews, and swaps tables one
after another. `tables.readers` and `tables.others` stand for the twelve
tables: the one that previews fill, and the rest.

**Decision** (`pdp/evaluator.rs`, `pdp/mod.rs`, `pdp/grants.rs`). `Intersect`,
`Withhold`, `Hide`, `Project` and `DropTypes` are the rewrites in the order of
the code, over sets in which the empty set is everything; `Refused`,
`Exhausted` and `Unprojected` its refusals. The constraints carry the views of the
grants (`GrantView`), by which the broker shows of an entity only what the grants it
matches show; `per_grant` splits a read into one for each view, as
`handlers/writes.rs` does. There are two references. `May` asks for one grant that gives
the type and, of it, the attribute; the reads of the grants serve exactly that
(`ReadsAreTheGrants`). `MayApart` is the weaker claim that the sets of a rewrite can keep by themselves:
a grant for the type and a grant, maybe another, for the attribute. Both ask
of a write that every attribute is a slot of a type it may be of.

**Filters** (`fanout.rs`). `KeysOf` is `compile()`: the entries a filter may go
under, an equality before a bound before an area before the types. `Insert`
(which removes first) and `Remove` are the operations; `index` is the seven maps
as one set of entries, `Probed` what `candidates` looks up. The matcher is
external: `Matches` says what it asks of types, comparisons and areas, and
leaves the rest of a subscription to any set of documents (`also`).

**RunBudgets** (`agent-proxy/src/limits.rs`, `llm.rs`, `fetch.rs`, `packages.rs`,
`runs.rs`).
Each check and each charge is a critical section; between them a call is with
the model or the internet. `EndFinished`, `ResolveFresh` and `Drop` are the
minute that forgets finished runs. `used` is the history of the live run, `past` that of
the tokens its calls were counted for past what they had left to ask for (`HeldTo`).

**Grants** (`agent-proxy/src/delegation.rs`, the Portal's hand-over in
`routes/identity.rs`, the minute's loop of `main.rs`). `grant_of` is the map, `task[t]` a hand-over
or the sweep, `reading[c]` a data call. Every question to the realm or the Portal is a
step that may fail, and its caller may be gone before it is answered (`Abandon`, `CallEnds`).
`retire` is three steps: the look at the map, the grant's own lock, which a
refresh may hold, and the revocation. The realm is external, modelled from what the
code's comments say of it: `alive` are the grants it would refresh, and a revocation ends
all of a session. `unrevoked` and `overtaken` are histories.

**Jobs** (`wasm-host/src/jobs.rs`). `running` and `records` are two maps under
two mutexes: a tick that finds the key taken records a skip in a second step,
and a run stores its outcome before it gives its key back. A panic leaves the
key; a restart clears both maps.

**CrawlQueue** (`assistant/src/crawl/queue.rs`, `worker.rs`, `Minute::work` of
`bin/jc-assistant.rs`, `recrawl` of `chat/admin.rs`). Every SQL statement is a step.
`line` is the order of `run_after`. A pod reads the manifests once a minute (`snap`)
and works the queue with them; it may stop at any step and keeps `seen` until then.
A request of the administrator asks and queues like a pod, between any two
statements of theirs (`AskRecrawl`, `QueueRecrawl`, `RecrawlEnds`).

**CrawlSite** (`assistant/src/crawl/mod.rs`, `extract.rs`, `chat/admin.rs`).
Every transaction is a step of the crawl's `walk`: what is stored of an address
is read, the site is asked, the row is written, the text is indexed, the links
are stored. `row`, `passages` and `links` are the tables. The site is external:
it serves a version, fails, or says the address is gone. A crawl has the manifest of its
pod's snapshot, whose patterns, PDF policy and off-domain rule may leave an address out
(`omits`, chosen where the address is visited, which a crawl does once): such a document
is skipped, such a page is read and stored but not handed to
the Indexer. The column `included`, which only counts and the administrator's lists read,
is left out. `behind` names the addresses whose text was stored and not indexed.

**MCParts** puts twelve modules (RateLimiter, Creates to Filters, RunBudgets,
Grants, Jobs and CrawlSite) side by side. They share no state, so a
behaviour is one of one of them while the others stay as they start; the states
of the parts add up and one run checks them all. **MCSession** puts Registry
beside Session likewise.

## 3. Runs

| Run | Instance | What it shows |
|---|---|---|
| `in_flight` | 2 anonymous reads of 2 addresses, a read, a write and a load-generator write of one subject; 3 slots (2 for reads, 1 anonymous), caller share 2, slow weight 2 | permits and counts balance, a live handler holds its slots and an ended one nothing; `InFlight` implements `Admission`, whose guards are the shares |
| `in_flight_live` | a write and a download of one subject, a share of 1; a plain read and a download of its load generator, a share of 2; 1 download slot, a broker that may not answer | two caps over one count, each smaller than what may ask under it; admission never waits; every plain read ends |
| `upstream` | 2 places, statuses 201 and 403, 2 changes, the record may be replaced or removed; sockets end at any time | `Upstream` implements `Feed`, but for connections that end before their first answer; a hub that believes it listens is subscribed; an idle upstream stops from every place it waits in |
| `upstream_ended` | a reconnection may end before its welcome | **violation**, see 5 |
| `hub` | 2 clients, 2 filters, a reload, refusals, gaps, a racing snapshot, queue of 1 | index, subscriptions, table, wake-ups and the owed snapshot agree, but for the snapshot after a gap whose new subscription could not be sent |
| `hub_queue` | 1 client, 2 entities, 2 values, queue of 2, a table of 1 | coalescing and overflow; a closed connection hears nothing; eviction; no change swallowed and the table is the view, when nothing is lost and the view is quiet during a snapshot |
| `hub_overtaken` | a snapshot races one change | **violation**, see 5 |
| `session` | 3 connections, queue and memory of 1, 2 changes, 2 entities, one gap, reload or refusal | what was sent is heard or stands in a gap, once and in order; numbers go on; the subscription moves |
| `session`, registry | 5 sockets of 3 callers of one socket each, 4 views of 3 spaces; 2 hubs in all, one a space, 2 connections a space; 3 hubs in turn | whoever is connected is on a registered hub whose upstream runs; no cap is exceeded; a caller's count is its sockets |
| `parts` | the twelve modules of `MCParts`, one at a time (below) | the properties of each |
| `crawl_queue` | 2 pods and a request of the administrator, one source of 2 versions and its absence, 2 attempts, 3 upsets; one slot more than rows may be | no more rows than askers; one reader of a job; every job ends; the index catches up |
| `crawl_stale` | `crawl_queue` without fairness, 2 upsets | **violation**, see 5 |
| `crawl_lost` | a page and a document, crawls that are cut off | **violation**, see 5 |

The instances of `parts`:

| Part | Instance | Properties |
|---|---|---|
| buckets | 3 calls costing 1 or 2, two keys of slugs with different limits in one shard that holds one caller, 3 ticks | `WithinRate`, `NotShortchanged`, `WaitIsEnough`, the map is bounded |
| creates | 3 creates of 3 senders, a form of 2 a day, one midnight | `DayIsCapped` |
| downloads | 2 downloads, one reload, room for one answer, 2 ticks | `OneFreshAnswer` |
| budgets | 2 calls at once; one step, one token, one byte; a call may be counted for two tokens | `LiveRunWithinBudgets` |
| grants | 2 runs of a person in one session, a hand-over and a data call at a time beside the sweep, 2 grants | `LastRevokesAll`, `HeldIsLive` |
| site | a start page that links a document in one version of two, a document that may go away; one crawl at a time, gone after two runs; cuts, failures to index, one inclusion, manifests with and without the start page | `KeptUntilGone`, `IndexedUnlessBehind` |
| counts | the anonymous row and another, a tally of one, 3 calls of each | `CountsAddUp` |
| pollers | a list that has the domain verified and one that has not, 4 ticks | `PortalIsFollowed` |
| reload | a preview that is listed, withdrawn and listed again; one change of the repository, as a link or as files | `QuietIsServed` |
| jobs | 4 minutes, a restart, panics | `FailuresInARow`, at most one run |
| decision | one or two grants, none or one prohibition, over two types with two attributes; all questions; hidden attributes or a projection | `KeepsToGrants` |
| filters | 2 filters of no, one or two comparisons, of an area or none, of types; documents on no cell, one, two and over the limit of 4 | `IndexIsAFullScan` |

*Why the bounds are enough.* Each limit is as small as lets it be both met and
exceeded: one request more than slots, a queue of one or two that
overflows, a table that must evict, a memory of one that forgets, a shard
already full, a tally of one row. Three connections give a resume of a resume. Three requests give a
late request, one that overtakes it, and one that profits; three creates one
that is late, one that resets its day, one that profits; two downloads are a
builder and a waiter that rebuilds, or callers of one table and of the next, and
of more than two `OneAnswerIsServed` is proved. Two places
give one expiring while another is used. The total of 3 slots is the least
in which the write reserve, the anonymous share and the slow budget differ from
the total. Two calls are enough for each to check before the other charges.
Two pods interleave every statement of the queue, and with two attempts a job
is handed on once and ended once. Two grants are one that
replaces, or outlives, another of its session. In `decision` two grants are what
intersections, unions and the split into reads tell apart, and two types with
two attributes give every set that is empty, part or whole.
Named bounds (`MaxChanges`, `MaxConns`, `MaxEvents`, `MaxStream`,
`SubLimit`, `MaxClock`, `MaxCalls`, `MaxNow`, `MaxMoves`, `MaxStamp`,
`MaxUpsets`, `LastTick`, `LastMinute`, `Days`, `Tables`) appear only in guards.
`CHECK_DEADLOCK FALSE` stands where such a bound, or a stopped task, ends the
behaviour; `in_flight`, `in_flight_live`, `crawl_queue` and `crawl_stale` are
checked for deadlock. Symmetry is used only in runs that check no liveness.

*Fairness.* `InFlight!FairSpec` has weak fairness of the layer's own steps, of
the slow timer and of the deadline: the runtime polls ready tasks and timers
fire. The broker's answer, the client's leaving and new requests are not fair.
`Upstream!FairSpec` has weak fairness of the task's steps, of the connection
attempt being resolved, and of the linger after the last client. The code sets
no timeout on the connection attempt, so that it ends is an assumption
about the network.
`CrawlQueue!QueueFair` has weak fairness of each pod's minute and of its
restart (its orchestrator starts it again), and of backoffs and leases passing;
strong fairness says that a schedule which names minutes names one again and
again in which some pod looks. Reads and statements may fail, bounded by
`MaxUpsets` so that a job's attempts are not all spent on faults for ever.

## 4. Theorems

All hold for every value of the constants that satisfies the named assumptions
in the component's module.

**InFlightProofs.** Assumed: finitely many requests, a class and a caller for
each, slot counts that the constructor can produce. The shares do not follow
from themselves: that a class stays within its share needs that permits are
conserved, and that a ticket's holder stands in the semaphores of its class.
`IndInv` is therefore the conjunction of `TypeOK`, `PermitsConserved` (free
and held permits are the capacity), `CallerCountExact` (the count is the weight
of the tickets), `HoldersPlaced` and `SlotsHeld` (which places of the task hold
which semaphores, both ways), `TicketsPlaced` and `CallerWithinShare`. The
lemmas `TypeStep`, `PermitsStep`, `PlacesStep` and `CountsStep` show each is
kept by one task's step; `OthersUnchanged` frames the other tasks. From
`InFlightInvariant` follow `PermitsAreConserved`, `CountsAreExact`,
`CallersKeepToTheirShare`, `SharesAreKept` and `SlotsOutliveHandlers`.
`InFlightImplementsAdmission` maps the tickets that are out to admitted
requests: `Admit` is the abstract admission, `Weigh` the abstract turn to slow,
`DropTicket` the end, everything else stutters.

**UpstreamProofs.** Assumed: `NoPlace` is no place, statuses are those of HTTP.
Between a frame's being sent and its being heard the task and the broker
disagree, so the invariant speaks of the frames. `Now` is what the task has
heard; `Hears` is what it is after one more frame; `Course` says that from `Now`,
frame by frame, each finds a state it may be applied to (`Legal`), and that after
each the task knows of its place what a resume needs (`Sound`), because a
socket may end after any of them. Behind the last frame stands what the
broker may do next (`Ready`, or `Asks` while a question is under way). Between two
connections `Continues` says what the next may resume. `UpstreamInv` is these with
the types; each action of the task takes the first step of a course
(`Listens`), each of the broker adds one at its end. `TheHubIsHeard` follows, and
`UpstreamKeepsTheFeed`: every step is a step of `Feed` or leaves its variables.

**HubProofs.** Assumed: finitely many connections and entities, limits of at least
one. `IndexKept` shows
that the index holds exactly the subscriptions of the connections; the lemmas
`SubscriptionsKept`, `SubscriptionsDropped` and `SubscriptionPlaced` say what
each kind of operation does to that set. `TableKept` (an unwatched hub holds no
table, a filter on a due table has the upstream look at it, or the table is
`unread`) is inductive as it stands. `NoLostWakeup` speaks of the open connections; `Woken` states it for all
of them, which is inductive and gives `NoWakeupLost`. `TableIsTheView` and
`EveryChangeIsJudged` have the hypotheses of `hub_queue`: no snapshot races a
change and nothing is lost upstream (without them both fail, as `hub_overtaken`
shows). `ViewInv` says of every entity of a table that was read that it is the
document the next change under way was made from (`TableIsMadeFrom`), that the
changes follow each other up to the view (`Chained`), and that what a snapshot
has still to seed is the view (`PagesAreTheView`). `HubKeepsItsBounds` goes through the lemmas on
the eviction order and on coalescing. `ClosedIsSentNoMore` needs
`ClosedIsMuted`: behind a queued close stands nothing a filter of the index could
still rewrite, for subscription numbers are never used again.

**SocketsProofs**, *Session.* Assumed: at least one connection, limits of at least one.
The code looks at one connection at a time; the promise is about the client, so
the invariant follows the connection that has the client's place, or will have it
when the client reads the answer that is on its wire (`Carrier`). `WireInv` says that
a wire is gaps, then at most one answer, then numbers that go on from what the
client has seen, and that any other connection the client is on never had a
subscription (`Fresh`). `ConnsInOrder` says that what a connection keeps, has on its
wire and has queued is in the order of the changes, entity by entity, which the
rewriting of a queued notification in its place could break. `HeardInv` puts all of
that after what the client heard; `NothingIsToldTwice` follows. `OwedInv` is the
resume's promise before it is due: what is owed is kept, or older than all that is kept, so that
a resume would start with a gap; and while it is under way it stands on the
wire, or a gap or a 404 comes before the next notification. From it follows
`SentIsNotLost`, from `MovesInv` `SubscriptionsMoveAlong`. `NumbersInv` is the same wire with
numbers that go on by one, kept apart because the gap of an upstream breaks it; it
needs that the memory holds consecutive numbers up to the last (`KeptByOne`), and
gives `NumbersAreWhole`. The work is in the resume (`ResumedWire`, `AgainFacts`):
what is sent again, laid behind the answer, goes on from the client's own number. The
memory is a filtered sequence: `PickedOrder` of `OrdersProofs` says what a filter leaves
and in which order.

*Registry.* Assumed: finitely many sockets and views, caps of at least one.
`RegistryInv` says of the hubs that wait that they have no connection and wait
once (`IdleHaveNone`), of a connection that its hub is the registered one of its
view (`OnTheirHub`), of a registered hub that its upstream runs, and of the counts
that they are cardinalities. A hub makes room only from the idle ones, so
nobody's hub leaves the registry under him; `ClientsAreServed` follows. Both this and
`HubProofs` use `OrdersProofs`: what removing a member leaves of an order
(`WithoutOrder`), and that a set of numbers has a least one.

**GatewayProofs** holds the proofs of the eight smaller modules, each from its
own specification; no lemma of one is used by another. Beside the safety
properties each has its type theorem, with the bounds the code sets.

*RateLimiter.* Assumed: rates and bursts are positive, keys have a slug
and a shard. `WithinRate` brackets what a bucket offers from above by
`ideal` and `late` times the rate, `NotShortchanged` from below by `ideal`; with
`TypeOK` the two are inductive (`Inductive`). The argument rests on `LateRefill`
(a request that is late by *d* adds at most the refill of *d*), on `RefillTwice`
(refilling in two steps is refilling once) and on a sweep dropping only
buckets that are full again. `RateIsKept`, `NothingIsLost` and `TypeCorrect`
follow. `MapStaysBounded` is a separate induction over cardinalities.

*Creates.* Assumed: every part is positive. That a day's creates stay within the
part needs to know what each entry has counted: exactly the creates of
its day, unless a reservation came after one of a later day (`Within`). A create the broker made without saying so is counted beside what the entry holds.
`JudgedWithin` is one
reservation, for the form's entry and the caller's alike; a caller's entry is swept only
when its day is over.

*Downloads.* `Keyed` ties a caller to its entry and the entry to its key, `AnswersKept`
what the callers of an entry have to what its builder built, and `OneEntry` says
that who may build for a key shares one entry, unless the key is excused.

*Reload.* A fingerprint is of a moment, and no later write makes it again:
`WriteNo` numbers the repository's states, `stamp` the directory's (`OfThen`).
`LoadedSince` then says, stage by stage, that what a load has read is there
still if the fingerprint is; `Mirrored` is what the mirror knows.

*Decision.* Assumed: every class of a projection has its slots, and the
policies, questions and Endpoints are sets of them. There is one step, so the
work is in the operators. `NarrowMeans` and `IdentityMeans` say what the two
narrowings mean when the empty set is everything; `AfterHide`, `AfterProject`
and `AfterDrop` carry that through the rewrites in the order of the code, one
fact per field of the constraints. `TypesConsidered` and `AttributesShown` read
the result (a write's attributes are slots of a type it may be of, `InSlots`),
`MayMeans` says what the references mean in the same terms, and `Granted` and
`Reasoned` compare the two in both directions. `ViewsCarried` says that the views reach
the end of the rewrites as they began, `ReadsSplit` and `ReadFields` what a read of one
view has, so that `ReadsFind` and `ReadsServe` follow: a read pairs types and attributes
of one grant only. `DecisionKeepsToGrants` follows for all sets of policies, types and attributes. `DecisionTyped` carries the
types through the same rewrites (`ProjectedTyped`, `RewriteTyped`).

*Filters.* Assumed: documents and subscriptions are what their records
say, extents are not empty, the edge of a cell is positive. `MatchIsProbed` goes
through the keys of `KeysOf`: a match shows in one of its entries. For an area
that is `CellShared`, two intervals on the grid at a time (`StepShared`, from
`CellsGrow`). `Indexed`, that the entries are those of the filters' keys, is
inductive; `OneReplaced` says what one filter's change leaves of the others.

*Pollers.* The invariant speaks of what decides now; a step needs what a
poll under way will bring. `PollersInv` adds that a poll ends within `TIMEOUT`
(`InTime`), that its tag is the list held when it was sent (`Tagged`), and that
the answer it carries was the Portal's at that time (`LearntInTime`).

*Counts.* `CountsAddUp` is inductive with the types. `Split` says what
taking a tally leaves and posts, `Merged` what putting a failed post back into a
tally that may be full by then keeps. That a tally never exceeds `MAX_KEYS` is an
induction over cardinalities: `TallyStaysSmall` for a call, `RestoredTallyIsSmall`
for what is put back (`CountsTyped`).

**WorkersProofs.** *Jobs.* `JobsInv` is that at most one run has a key (`OneRun`) and that
the failures in a row are the record's, with the outcome of the run that has
ended and is not stored yet (`FailuresCounted`). `JobsCountFailures` and `JobRunsOnce`
follow for any number of minutes. That the record stays within the minutes that
passed (`JobsTyped`) needs `JobsBounds`: the failures in a row are at most the
minutes so far, and fewer while a run is going.

*RunBudgets.* Assumed: finitely many calls and at least one. The steps are charged when
they are checked. Tokens and bytes are charged after the call, so the invariant counts
what the calls that are past a check may still add: for bytes their number (`EgressSpread`), for tokens
bounds over the calls in some order (`TokenSpread`), as a sum over a set
would need an induction over data. The first charge past what its call had left uses
the tokens up, so that only the calls under way by then can add another (`PastSpread`). `ActiveIsCounted` says that the count of an active run is never dropped.

*CrawlQueue.* Assumed: pods, requests and jobs are finite, and every source has a version.
That a source has no more jobs than there are pods and requests of the administrator at
once is not inductive: each asks whether a job
is pending and queues one in another statement, and a late `fail` puts a row back that
had ended. `TableBounded` therefore counts the rows that count or may be put back
(`RowsOf`) together with those that found nothing pending and have not queued yet (`Asking`,
of which `AskedOfNone` adds one and `RowIsQueued` turns one into a row).
One starts asking only when no row counts; every row that may be put back then
has a reader of its own, and a reader does not ask (`ReadersAreOthers`). `ReadAsNamed`
says that what a pod reads is of its row's source, `LeaseHeld` that a reader's
row runs under its lease while no read outlasts it, from which `OneReader` follows.

*CrawlSite.* Assumed: an address has a version to be served in, and a version links
addresses of the site. `KeptUntilGone` needs that a row's `failed_runs` is at most the
runs in a row that missed it (`RunsCounted`), and that needs that one run misses an address
once: what a crawl missed it had queued and has taken from its frontier, and what it
ages it never queued (`WalkOk`). `AgesKeep` is a miss with the deletions that come with it,
for the one address that could not be read and for all that were not reached.
`IndexedUnlessBehind` is inductive with the types, address by address (`IndexedAt`).
Both hold for any number of crawls at once, where the run has one.

*Grants.* Assumed: each run's person has a session. The realm makes a grant once, and the
types carry what each task knows of the grant it has in hand (`TaskKnows`).
`LastRevokesAll` says of every grant that is alive where its session is looked
after; it is inductive with the types, because a retirement gives its session up only
to a run it saw holding one (`SeenTo`, `ComesIntoUse`). `HeldIsLive` needs to look ahead: a grant on its
way into the map is in use already (`InUse`), is live (`InUseIsLive`), and, from
the moment a retirement finds its session free, counts as overtaken
(`LateIsOvertaken`, `RevocationBegins`).

**PartsProofs.** The run `parts` checks twelve components that share no variable, one
at a time. `EachSteps` says that a step of one leaves the others' variables alone,
so a behaviour of the parts is one of each component (`PartsRunAlone`), and what
is proved of each holds of the parts: their types and bounds (`PartsAreTyped`, from
the type theorem of each) and every property the run checks (`PartsAreSafe`). Assumed
are the components' own assumptions and nothing else.

**Only model-checked.** Liveness (`PlainReadEnds`, `IdleUpstreamStops`, `JobEnds`,
`CatchesUp`) and anything about `ENABLED` is out of TLAPS's reach; every safety
property of a passing run is proved.

## 5. Where code and documentation disagree

Four runs end in a counterexample of something the code's comments say. Files
without a path are the gateway's.

- `upstream_ended`: *"a later connection resumes it"* (`socket.rs:522`). The
  place to resume is consumed by the next connection; if that ends before its
  welcome, or cannot send its first message, the one after subscribes
  anew and nobody is told of a gap.
- `hub_overtaken`: a filter that watches nothing fires on *"any change"*
  (`fanout.rs:85`). A page that already holds a change and is seeded before the
  change's notification makes the notification look like no change.
- `crawl_stale`: *"a change to an Endpoint or a model reaches the index within a
  minute"* (`worker.rs:502`). A pod marks the changed source as seen although
  it queued nothing, because the job of an older snapshot was pending; the
  change waits for the next schedule.
- `crawl_lost`: the sink is *"Invoked for an included page whose content is new
  or changed"* (`crawl/mod.rs:117`). The hash is committed before the text is
  indexed; a stop in between leaves a page that every later crawl takes for
  unchanged.

Seen while modelling, without a run of their own.

*Fan-out.* A client that joins between `hold`'s recheck and its look at the
table stays on a hub that left the registry (`hub.rs:512`). A connection sent
away by a reload has no subscription to move; the resume answers 200
(`socket.rs:927`, `hub.rs:548`). A notification of the old subscription that
arrives before the new one's answer leaves an old number to resume from. A gap
is told before the new subscription is accepted (`socket.rs:478`); after a gap
the table keeps its documents and the snapshot does not replace them
(`hub.rs:568`). After a refused resume the code promises to *"read again"*
(`socket.rs:475`); it marks the table due, and when the new subscription cannot
be sent it returns before it looks (`479`), and the next connection's accepted
subscription does not look either, because the hub started before (`468`): the
filters that are there go on over a table with a gap until a new filter, another
gap or a refusal. `TableFollowsFilters` exempts this (`unread`). Gap frames are not kept for a resume (`socket.rs:732`, `743`); a
place dropped at `MAX_CLOSED` answers 404 where the comment says a gap
(`hub.rs:26`). A hub that made room leaves the registry while its
upstream keeps its socket at the broker until its next tick (`socket.rs:202`,
`185`), so a gateway may for five seconds hold more broker connections than the
caps of hubs that are said to be those of broker connections (`socket.rs:33`,
`37`, `50`).

*Filters.* The index tells −0 from 0 (`fanout.rs:272`, `383`): a filter
`speed==0` or `speed>=0` is not tried on a speed of −0.0, which a numeric
comparison accepts. Cells end at the antimeridian and `dlon` is taken at 89° at
most (`fanout.rs:315`), so `near` beside the one or beyond the other may have
cells that miss a neighbour.

*Admission, limits, creates.* The slow budget of anonymous callers is half the
slow budget where the comment says a quarter (`in_flight.rs:30`, `193`); `busy`
may be answered after a handler started although it says nothing ran (`296`,
`406`); a read holds a slot of the write reserve for a moment before its class
refuses it (`242`); a late request refills the same time twice
(`rate_limit.rs:157`), by the amount `WithinRate` allows. A reservation that
comes after one of the next day resets the day and may drop that day's callers
(`creates.rs:74`–`76`); a caller that leaves while the broker is asked never
gives its slot back. The slot of a create the broker did not answer with success is
given back also when the broker took the write, because the connection was lost or
the answer was an error of its own (`ngsi_ld.rs:655`–`660`), where `creates.rs:79` and
`131` speak of a broker that refused or did not make it: a day may see that many
creates more than `perDay`.

*Downloads.* `file_csv` reads the table again for its key, after admission
(`files.rs:62`), so an answer may be of a table the caller was not admitted on
(`download_cache.rs:65`); after a failed build the waiters build one by one.

*Reload and previews.* A removal removes file by file although the comment says
the reaper never reads half of a preview (`previews.rs:137`); one that fails half
way leaves a directory which counts as written when the same content is listed
again. What changes between the load of the start and the reaper's first
fingerprint is taken as loaded. A link that moves and moves back within one load
leaves the tables at the other commit with an unchanged fingerprint
(`reaper.rs:91`, `235`).

*Counts and pollers.* A post of usage that was taken and not answered is counted
again (`usage.rs:154`); tallies are lost with their gateway. The domain gate
stamps the receipt, so its list may be older than `MAX_AGE` by a request's time.

*Policy decision.* With a projection a filter is judged against the attributes
narrowed by what the caller asked, where `evaluator.rs:101` says `served`:
`?attrs=a&q=b>1` drops the type (`mod.rs:147`, `250`). A grant over every type
beside one that names types is narrowed by the other's types. A policy with an
entry that names attributes and one that names none grants only the named. All
of these narrow. The sets of a rewrite do not: of grants over `{X: a}` and `{Y: b}` they let
`X.b` through, and a filter on `b` selects among entities of `X`, which no grant gives
(`evaluator.rs:62`, `152`). Only the views that the rewrite carries tell such a pair from what
is granted, and in this repository nothing reads the attributes of a view: that an entity is judged by
them is left to the broker. So it is for writes, where `write_guard.rs:3`
speaks of *one* grant; the sets, if they were asked, would hold a write to the union of the
grants and of the slots.

*Agent proxy and jobs.* "At most one answer" above a budget (`limits.rs:144`,
`fetch.rs:134`) is one of every call under way. What a call is counted for is not
always held to what was left: a stream without a count stands for its `max_tokens`
alone, so one that was lowered in `max_completion_tokens` is counted for 8192
(`llm.rs:189`–`195`); a body that asks for several choices has the limit for each, and
one that is no JSON object is sent as it is (`llm.rs:69`). Packages are read from the
allow-listed hosts without a check or a charge (`packages.rs:38`–`54`), where
`runs.rs:43` calls the egress budget what the run may read from them in total: what is
bounded is what the fetch route reads. An ended run's usage is dropped
while `runs.rs` may still hold it as active for seconds (`llm.rs:619`).
A revocation spares the grants that share its session (`delegation.rs:304`) as far as
the map showed before the realm was asked: a grant of the session that is handed over in
between is ended with it (`307`, `318`), and its run can read until the token it was given
expires. A refused refresh drops what the run holds by then, which may be a new grant of
another session; that one is dropped without a revocation (`275`, `276`).
A hand-over whose caller leaves between the exchange and the map leaves a grant that
nobody revokes (`delegation.rs:211`–`235`), as a restart does with every grant; any 4xx, a 429 as
well, counts as the realm's refusal (`delegation.rs:274`).
A job's notice, said once at the third failure and every third, is repeated by a
skip recorded while the count is three (`jobs.rs:67`); a run that panics leaves
its key, so its job does not run again until a restart; an older run's outcome
overwrites a skip's later record.

*Crawls.* A page the manifest leaves out has its hash stored like any other
(`crawl/mod.rs:696`, `718`), so a manifest that takes it in again leaves it unindexed, or
indexed as of an older text, until the text changes (`714`); a 304 leaves it so as well
(`594`). `IndexedUnlessBehind` exempts such pages. Stored links are only added, never removed (`crawl/mod.rs:628`). A job
is tried five times by the comment and claimed a sixth (`queue.rs:75`–`81`); pods and
requests of the administrator ask and insert in two statements (`52`, `chat/admin.rs:964`),
so a source may have as many rows as there are of them; `finish` and `fail` name a job by its id
after its lease passed; a crawl longer than its lease is read twice; a pod whose
queue never runs dry keeps its snapshot, and one with an old snapshot finishes a
job its snapshot lacks (`worker.rs:549`–`556`). An administrator's exclusion is
lost when the row is deleted; retries count a failing page several times a day.

## 6. Assumptions and what is left out

- *Upstream.* A subscription on a resumed broker connection takes the place
  of the one that was resumed. A socket that ends is seen to end: half-open
  sockets are not modelled. A refused hub retries after `MAX_BACKOFF` (30 s),
  longer than a session sent away takes to close (two `STALL`s of 10 s), so
  `Hub!Live` after a refusal finds an empty index.
- *Hub.* Throttling windows and projections do not change who is told of
  what and are left out. `hub_queue` assumes a view that is quiet while a
  snapshot reads, and no gaps; without either assumption its properties do not
  hold, as `hub_overtaken` shows.
- *Session.* One subscription per client. The client resumes the place whose
  resume was answered 200, or its own, and ignores numbers before the result. Ping and idle
  timers appear as breaks.
- *Registry.* Hubs the broker refused, which wait without a socket, are `Upstream`'s;
  what stops when is left open, the linger included. An identity that is no header
  value is refused before anything is counted as a hub and is left out.
- *RateLimiter.* Exact units stand for `f64`; limits do not change under a
  bucket; response headers are left out.
- *InFlight.* Handlers are opaque: they answer, never answer, or are abandoned.
- *Downloads.* One Endpoint and one query, so a key is a table; type lists and
  catalogue records are left out.
- *RunBudgets.* A call whose body does not cap it is counted for `Largest` at
  most: a provider has a longest answer, and 8192 and a quarter of the longest body
  are finite. Daily budgets and requests per minute are checked in the same way and
  left out, and so is a `stepsPerRun` of 0, which counts nothing.
- *Grants.* The realm revokes and signs out by session, makes no grant in a session that is
  closed, and refuses only a grant that ended. It refreshes a grant under the same
  session. The proxy is not restarted: it keeps nothing over a restart. That the Portal and the
  assistant are who they say is authentication.
- *Pollers.* A list's tag is the list itself.
- *Reload.* One preview stands for all. Checkouts of projects are part of the
  repository. A link that moves there and back within one load is excluded, as
  section 5 says.
- *Jobs.* The wall clock does not step back; whether a cron expression names a
  minute is an input.
- *Decision.* Which policies apply to a caller is an input. A view merges the entries of a
  policy, as the code's does, so what one grant gives is said of a policy, not of each
  entry. That the broker shows of an entity what the views it matches show is an
  assumption about the broker. A projection has at
  least one class, as the validation of `jc-core` demands. What an answer shows
  of a rewrite follows the contract at `evaluator.rs:84`–`97`.
- *Filters.* Numbers are integers, so 0 is one number, and a comparison with a
  number holds of numbers only. A value that is no scalar, and a term that is
  neither an equality with a scalar nor a bound, are part of `also`. Areas lie
  away from the antimeridian and the poles. The matcher is antares-matcher, whose
  source is not in the repository.
- *CrawlQueue.* Catalogue and guide sources; a row that ended is no row.
- *CrawlSite.* A content is its version. Robots rules, chunk caps and the CKAN
  and upload sources are left out.

Not modelled: authentication (signed tokens, verified without state); the
translation between representations, the MCP, federation and file surfaces,
write checks, the MQTT check and response coalescing (one request, nothing
shared); retrieval and chat (prompts and answers of one request); placement and
limits of the WASM host; functions and the token sidecar; manifest types,
validation and rendering; vendored and generated code. `jcctl`, and the tickets
and daily budgets of the agent proxy, keep state worth a module; they are the
plan.

## 7. Plan

Done, in this order: `Admission`/`InFlight` with proofs, `Feed`/`Upstream`,
`Hub` with proofs, `Session`, `RateLimiter` with proofs, the parts that share no
state with proofs, the crawl queue, `Registry` with proofs, the proof that `Upstream`
implements `Feed`, the proofs about `Session`, the crawl queue and the website crawl, `Grants` with proofs.

Next modules, most important first:

1. The agent proxy's tickets, data credentials and daily budgets.
2. `jcctl`'s plan and its waves, once they write to a platform: `jcctl apply` runs
   them against an empty store today (`main.rs:1268`).
3. `Registry` composed with the registry part of `Upstream`.
