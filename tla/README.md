# ClawDB in TLA+

A verification project for ClawDB: TLA+ modules translated from its Rust source, TLC
runs that check them on small instances, and theorems about them with proofs checked by
TLAPS. Paths below are relative to the repository (`clawdb/`, `clawdb-server/`,
`clawdb-cli/`); `engine.rs` is `clawdb/src/engine.rs` and `service.rs` is
`clawdb-server/src/grpc/service.rs`.

`PROJECT.json` maps every definition to the lines it models, and lists the runs, the
mutants (for every property a plausible bug of the code that breaks it), the hazards, the
findings and the theorems.

## 1. The system

ClawDB wraps six external crates (claw-core: the store of memories; claw-vector: the
semantic index; claw-guard: sessions and policies; claw-branch; claw-sync;
claw-reflect-client) behind one type, `ClawDB`. `clawdb-server` serves it over gRPC and
HTTP, `clawdb-cli` is a client of the HTTP API.

**Which code runs.** `clawdb/src/lib.rs` declares `api`, `config`, `engine`, `error`,
`lifecycle` (with `shutdown` only), `plugins` (with `events`, `interface`, `manager`),
`prelude`, `telemetry` and `types`. The directories `transaction/`, `session/`, `events/`,
`query/` and the rest of `lifecycle/`, `plugins/` and `api/` are in the repository and in
`docs/ARCHITECTURE.md`, but no `mod` reaches them: they are not compiled. What runs in
their place is in `engine.rs` and `clawdb-server`. This project models the code that runs,
and of the rest the one design with a protocol of its own, the transaction manager
(`TwoPhaseCommit`), labelled as such.

| component | state it keeps | operations | who calls it, what is hard | what makes it correct |
|---|---|---|---|---|
| server transactions (`state.rs`, `service.rs`, `router.rs`) | map from transaction id to session and staged memories, in memory, behind one async mutex | begin, stage, commit, rollback, over two protocols | every request is a task; gRPC stage, commit and rollback carry no session token; a handler may be dropped at any await; crash | all or nothing, at most once, what was acknowledged is durable, what was rolled back never appears |
| engine transaction (`ClawTransaction`) | a core transaction, queued vector upserts | transaction, remember_typed, commit, rollback (by drop) | two stores without a common commit | the index never runs ahead of the store |
| engine memory operations | none of its own; claw-core and claw-vector | remember, update, delete, recall, list, search | an await before each store call; the second of two writes fails | index within store, honest `indexed` flag, reads not stale |
| plugin events (`plugins/manager.rs`, dispatcher task of `ClawDB::new`) | broadcast channel of 256, mutex of the manager, list of plugins | emit, dispatch, load | calls and dispatcher share the mutex; the channel overwrites; the task must end | plugins see a true, gapless, ordered prefix; calls return |
| sessions and authorization (`engine.rs` authorize, `http/auth.rs`, interceptors) | in claw-guard; the active-sessions gauge | create, validate, revoke, expire, count | validity is checked at several moments of one request; lifetimes are cast and clamped | only a valid session with the scope has an effect; nobody is given a session that is over |
| branch, sync, reflect operations and their handlers (`engine.rs`, `service.rs`, `router.rs`) | in claw-branch, claw-sync, claw-reflect | one or two external calls each after authorize, an event | a call or the encoding of its result fails after the effect; two protocols | what is answered, emitted and done agree |
| server start-up (`main.rs`, `clawdb-server/src/lib.rs`, `config.rs`) | configuration, three listeners | load, open, bind, install the signal handler | first error returns; a signal before its handler | a server serves with all its ports and a secret that was given, or ends |
| server shutdown (`clawdb-server/src/lib.rs`, `main.rs`) | cancellation token, three tasks | shutdown with grace, task exit | timeout against draining handlers; first error returns | success means everything was closed |
| `clawdb start`, `clawdb stop` | the pid file | spawn and write the pid; read, signal and remove | commands are processes that interleave and are interrupted; pids are reused | stop finds what start started, and nobody else's process |
| CLI client | none | request with up to three retries | a retry of what was already done | what users are told stays true |
| transaction manager (`clawdb/src/transaction/`, not compiled) | transactions, write sets, a mutex each, a log | begin, buffer, commit in two phases, rollback, stale sweep | calls queue on the mutex; phase two fails half-way; a call is dropped | one outcome; committed means everywhere |
| telemetry, deployment | only written, or files | - | - | - |

Interactions: a handler of `clawdb-server` authenticates, then calls one operation of
`ClawDB`; each operation calls `authorize` (claw-guard), then its stores, then `emit`,
which awaits the mutex that the dispatcher holds while plugins run. `commit` is the one
operation that spans the map of the server, an engine transaction and both stores.
The CLI reaches the server through HTTP, and through the operating system: the process it
spawned, its pid in a file, SIGTERM.

## 2. The modules

| module | models | extends / uses |
|---|---|---|
| `AtomicTx` | what the transaction API promises: opened once, collects, closed once by storing everything it collected in one step or nothing | - |
| `ServerTx` | the server's transaction requests and the engine transaction, down to every await | instance of `AtomicTx` under a refinement mapping |
| `ServerTxInv` | the inductive invariant of `ServerTx` | `ServerTx` |
| `ServerTxProofs` | safety theorems, and that `ServerTx` implements `AtomicTx` | `ServerTxInv`, `TLAPS` |
| `PluginEvents` | loading, emit, broadcast channel, dispatcher, dispatch | - |
| `MemoryIndex` | memory operations over two stores that share nothing | - |
| `CliRetry` | the retry loop of the command line client, over connections that break, against the server's transactions | instance of `AtomicTx` as its server |
| `ServerShutdown` | the end of a server process: signal, draining, grace period, close, exit of a task | - |
| `Gateway` | every other handler over gRPC and HTTP, with the operations of `ClawDB` it calls: sessions, branches, sync, reflect, health, metrics | - |
| `ServerConfig` | where the configuration of a server comes from, as operators | - |
| `ServerLifecycle` | server processes from start to end, `clawdb start` and `clawdb stop` | `ServerConfig` |
| `TwoPhaseCommit` | the uncompiled transaction manager, coordinator and log | - |
| `MemoryIndexProofs`, `PluginEventsProofs`, `CliRetryProofs`, `GatewayProofs`, `ServerLifecycleProofs`, `ServerShutdownProofs`, `TwoPhaseCommitProofs` | inductive invariant and safety theorems of the module they are named after | that module, `TLAPS` |
| `MCServerTx`, `MCMemoryIndex`, `MCCliRetry`, `MCGateway`, `MCServerLifecycle`, `MCTwoPhaseCommit` | symmetry sets and values of constants for TLC | the above |

### ServerTx

A *request* is served once by one handler. Its local variables are `pc`, `op`, `caller`,
`tx`, `batch` (the entry it moved out of the map), `wrote` (inserted, not committed) and
`upserts` (`pending_vector_upserts`). `open`, `owner`, `staged` are
`AppState::transactions`; `core` and `vector` are rows of the stores; `live` is what
claw-guard validates. One action is the code between two awaits of a handler:

| actions | code |
|---|---|
| `ArriveHttp`, `ArriveGrpc` | the routes and RPCs; gRPC stage, commit and rollback carry no session |
| `Authenticate`, `RateLimit` | `auth_middleware`, `begin_tx`'s validation, both limiters; an error of guard is answered like a session that ended |
| `BeginTx`, `TxRemember`, `TxNotFound`, `TakeTx` | one critical section of the map's mutex each; commit and rollback *remove* the entry |
| `Transaction`, `TransactionError` | `ClawDB::transaction`, on the session kept in the entry |
| `InsertMemory`, `InsertError` | `ClawTransaction::remember_typed` |
| `CoreCommit`, `CoreCommitError`, `FlushUpsert`, `FlushDone` | `ClawTransaction::commit`: core first, then one upsert per memory whose failure is logged |
| `Rollback` | `rollback_tx`, after its entry is gone |
| `EndSession`, `Disconnect`, `Crash` | revocation or expiry; the handler's future is dropped; the process dies, the stores stay |

Abstracted: payloads (a memory is the request that staged it, a row is the memory with the
commit that inserted it, since every insert draws a fresh row id), order within a batch,
metrics, unparsable requests (they change nothing). Two rows for one staged memory are
representable, so `AtMostOnce` can fail, and does when `TakeTx` keeps the entry.

### PluginEvents

A *call* applies its effect (or is denied, which also sends an event, or fails), queues for
the tokio mutex, sends, returns. The mutex is fair (`waiters` is its queue). `Push` is
`broadcast::Sender::send`: at capacity the oldest event is overwritten. The dispatcher is
`Receive`, `Lock`, one `OnEvent` per plugin, `Unlock`; `Lag` is `recv` returning
`Err(Lagged)`, which ends the `while let` for good. `LoadFromDir` stops at the first library
that is no plugin and keeps those before it, an error `ClawDB::new` ignores. `close` cancels a
token that nobody reads, so that it has no action.
`Deny` and `Apply` are both followed by the same emission because `authorize` emits
`PolicyDenied` through the same function.

### MemoryIndex

A memory is the request that remembered it; a content is the request that wrote it, so
"which version did this read see" is data of the model. `known` remembers deleted memories
(the index still has them); `past` records what was acknowledged before a request was sent,
for the properties about stale reads. Which memories a query selects is open
(`SUBSET index`, `SUBSET Stored`): ranking, `top_k` and filters are not modelled here.
A crash needs no action: requests leave nothing in memory, so it is a disconnection of all.

### CliRetry

A command is one POST of `clawdb-cli`, sent again up to three times (`RETRY_DELAYS`) after a
connection error or a 5xx answer. `sent` holds every request that may still be served, now or
after its command has ended: a broken connection says nothing about its request. The server's
transactions are the actions of `AtomicTx` (what `ServerTx` is proved to implement); `taken`
adds what a client can tell apart and `AtomicTx` cannot, that a transaction is not found
while a commit or rollback of it is still undecided. `told` are the transactions whose id a
user knows: at first any that commands which ended before have begun, so that a small
instance can start with an open one.

### ServerShutdown

`main` is the thread of `main.rs`, `task` and `requests` the three servers, `next` and `joined`
the body of `RunningServers::shutdown`, whose result is looked at only after `close`. A panic
(JoinError) ends the joining at once, an error of a server after all three joins. `Return`
drops the requests that are left (`cut`).

### Gateway

All these handlers have one shape: authenticate (or be public), be limited, read the input,
make one operation of `ClawDB`, encode, answer, and over HTTP pass `metrics_middleware`. What
differs is data, in three tables read off the code: what a handler may refuse before its call
and fail to encode after it (`Grpc`, `Http`), the routes without a session (`Public`), and per
operation the scopes, whether it changes something and the event (`Engine`). The actions are
the steps between awaits; each works for every operation.

| actions | code |
|---|---|
| `Arrive`, `Authenticate`, `RateLimit`, `ReadInput`, `Encode`, `Disconnect` | the shape of a handler; the limiter runs before the token is validated over gRPC, after it over HTTP |
| `CreateSession`, `RevokeSession`, `CountSessions`, `Whoami`, `Health` | operations that authorize nothing: the check at the edge is all there is |
| `Authorize`, `Call`, `CallError`, `WithoutEngine`, `Emit` | operations of branch, sync and reflect; an error of guard in `authorize` is passed on as internal; an engine call that fails may have had its effect (sync pushes, then pulls) |
| `Observe`, `Measure`, `Scrape`, `ScrapeSet`, `Render` | the active-sessions gauge, counted in one step and set in another |

`Lifetime` keeps the width of `ttl_secs` (`TtlBits`): cast to signed, then at least one second.
Time advances by half seconds, because `active_session_count` compares with whole ones.
Abstracted: what a change consists of (`applied` holds the requests that made theirs).

Three histories serve the properties. `late` marks a request whose session ended before it was
checked for the last time, wherever the request was: still to come, at the edge, or between the
edge and `authorize` (`Tick` and `RevokeSession` overtake it there). `beside` are the HTTP
requests that were in flight together with one, `setter` is who set the gauge last: a metrics
page may show the count of a request beside it, and never one left behind by a request that was
over before (`PageIsFresh`).

### ServerConfig and ServerLifecycle

`ServerConfig` has one operator per function of `config.rs`, over the settings that decide
whether a server starts and where its data lies. In `ServerLifecycle` a process goes through
`Load`, `Open`, `Bind` (once per listener), `Install`, and serves; each step may fail and ends
it, with its ports and pid given back. `RunForCertificate` is the process that only generates
a certificate. A command goes through `StartSpawns`, `StartEmptiesFile`, `StartWritesPid`, or
`StopReadsFile`, `StopSignals`, `StopRemovesFile`, or `ForegroundSpawns`, `ForegroundEnds`;
`Interrupt` ends one anywhere. `Intrude` gives a free pid to a stranger. `Stopped` stands for
all of `ServerShutdown`, whose `ShutdownEnds` is what makes its fairness fair.
Four histories tell what got in the way of whom: `died` are the detached servers that ended
before anybody signalled them, `overlapped` the commands at work at the same time as another,
`unfinished` the stops that signalled and left the file, `struck` the commands that sent SIGTERM
to a stranger. The properties of `stop` are stated per command. `StopFindsIt`: the server of
the last start, if no command overlapped *that* start, is where the file leads while it lives,
whatever mess came before and whatever stops do later: the next start heals. `StrangersAreSafe`: a stop that
nothing overlaps strikes a stranger only when the server of the last start before it had died by
itself, or when a stop between the two left the file. What they leave out is real: of two
overlapping starts, or after a second start, a server can be lost to `stop` for good, and a stop
that overlaps another command can strike anybody. TLC finds each of these when the condition that
excludes it is dropped.

### TwoPhaseCommit

This code is not compiled; the module is the design its source states. A *call* takes a
handle from the map, waits for the mutex of the transaction (`Locks`) and keeps it, over
awaits, until it returns. `Prepared`, `Registered`, `Extended` are the coordinator;
`CommitPrepares` is phase one with its critical section; `Upsert`, `CommitCore`,
`CommitDropsSnapshot`, `Committed` phase two; the `Rollback` and `Timeout` actions the rest.
claw-core has one connection, so that BEGIN fails while a transaction is open and COMMIT ends
whichever is. `Prepared` compares with everybody who is registered, so a transaction that stays
there blocks others until it is ended; that it can be, whatever failed or was dropped in it, is
`BlockersCanBeEnded`, one of the two parts of `OpenCanBeEnded`. `Deployments` are the components the lifecycle manager has: with claw-vector
alone transactions overlap, with claw-core they exclude each other. `Drop` drops a call at
an await (one begin and one other call at most, if they were at work); `slips` remembers which,
since a dropped begin leaves the connection of claw-core open for good and a dropped commit or
rollback does not (`CoreIsReleased`, the other part).

## 3. The runs

| run | instance | what it shows |
|---|---|---|
| `tx_safety` | 2 sessions (one may write), 1 transaction, 4 requests | no interleaving of begin, stage, commit, rollback, failures, revocation and crash breaks the transaction promises; the inductive invariant holds |
| `tx_refines` | 2 transactions, 3 requests, fair | everything is a behaviour of `AtomicTx`; every request is answered |
| `tx_indexed` (violation) | 3 requests | a commit answered as done may be missing from the index |
| `events` | 4 calls, 2 libraries of which none, one or both load, channel of 1, fair | plugins see a gapless prefix of the events in load order (`PluginsSeePrefix`), what they and the clients are told happened (`EventsAreTrue`); every call returns although it shares a mutex with dispatch |
| `events_dispatched` (violation) | 3 calls, channel of 1, fair | after an overflow, plugins never see another event |
| `memory_safety` | 4 requests, index on or off (`enabled`) | index within store, honest flag, current store reads; without an index, semantic search is one of those reads |
| `memory_stale_search` (violation) | 3 requests | a search sent after an acknowledged update or delete finds the old content |
| `retry_safety` | 3 commands, 1 transaction (begun before or by one of them), 1 retry | what users were told of stage, commit and rollback stays true, with late, lost and repeated requests |
| `shutdown` | 3 servers of up to 2 requests, fair | success means drained and closed; a signalled process ends |
| `gateway` | 2 requests of any of 12 operations over both protocols and the metrics port, a session with some scopes that may end, one that may be created; time in half seconds; local-only sync, no reflect | effects, events and answers agree; a session that ends before its last check, also between the edge and `authorize`, gets nothing, nor does one without the scope; no session is born dead; a metrics page shows the count taken for it or that of a request beside it |
| `lifecycle` | 2 server processes, 3 commands, 2 pids, 2 sets of ports that share one, fair | a server serves whole or ends; after any crash, second server and overlap, stop finds the server of the last start that was left in peace; when a stop strikes a stranger, that server had died or a stop had left the file; start-up and stop come to an end |
| `two_phase` | 2 transactions, 2 writes each, 2 keys, 2 calls at a time; all components, or claw-vector alone | committed means everywhere, rolled back nowhere, one outcome; no two writers in phase two; claw-core is not left open, dropped commits included; whoever blocks others can be ended |

Each passing run checks one type invariant besides. `IInv`, in `tx_safety`, also holds
`ErrorStoresNothing`: a commit answered with an error has stored nothing.

**Bounds and why they are enough.** Every run bounds the sets of names. Counters are capped:
`MaxRequests` of `ServerShutdown`, where only none, one and several differ; `MaxTick` of
`Gateway`, where two half seconds are before, within and after the second that a count
truncates to; `MaxServers` and `MaxCommands` of `ServerLifecycle`: two servers are enough to
lose one to the other, three commands are a start, another start or an interrupted one, and
the stop that meets what they left; `MaxWrites` and `MaxLog` of `TwoPhaseCommit`: with two
writes an upsert can fail half-way, and a log of one already rolls over; at most one begin and
one other call that was at work are dropped there. `TtlBits` is 4 instead of 64, with a lifetime (9) whose
signed value is negative. Two requests of `Gateway` are a reader or writer and the one that
ends its session, or two that race for the gauge. `IdLeft` (at most as many begins as transaction ids) stands for the freshness of
`Uuid::new_v4`. Four requests are a begin, a
stage and two that race for the entry (commit with commit, with rollback, or with a late
stage); with a batch of two memories (begin, two stages, commit) an insert can fail
halfway. Two transactions appear in `tx_refines`, where non-interference is the question.
For every safety property the proofs of section 4 remove these bounds; for liveness they
stand. Four calls fill
a channel of one and the hands of the dispatcher, and overflow it with one call in between. The real capacity is
256: what is specific to it is only how far the dispatcher must fall behind. Four memory
requests are a remember, an update or delete of it, a second writer, and a reader. Three
commands are a stage, a commit and a rollback of one transaction, and one retry already
gives a late first attempt next to a second one. Deadlock checking is off in every run because a finite set of
requests is served and then nothing is left to do; that a handler does not get stuck is
checked as liveness instead (`EveryRequestAnswered`, `EveryCallReturns`).

**Symmetry.** Requests, commands, transactions, calls and keys are permuted in runs of safety
only; never in a run that checks liveness. `ServerLifecycle` checks both: there servers and
commands are numbers in the order of use, and the first pid is a fixed one, which removes the
same duplicates in the specification itself.

**Fairness.** `ServerTx!FairSpec`: weak fairness of each handler's own steps. The tokio
runtime polls a task whose await is ready, the map's mutex is held for a bounded critical
section, and the embedded databases return from each call with a result or an error. Nothing
is assumed of arrivals, clients, revocations or crashes. `PluginEvents!FairSpec`: weak
fairness of each call and of the dispatcher; it assumes that plugin handlers return, which
the code takes for granted (a handler that never returns blocks every call, because
`dispatch` has no timeout). `ServerShutdown!FairSpec`: the grace timer and the engine's
close calls return; nothing of requests, servers or signals. `ServerLifecycle!Spec`: weak
fairness of each process's own progress through start-up and, once signalled, through its end
(`ShutdownEnds` is why that ends); nothing of commands, users or crashes. `Gateway` and
`TwoPhaseCommit` are checked for safety only: the first has no waiting that another request
must end, and the second is not run by anything whose scheduling could justify fairness. No liveness is claimed of `CliRetry`: the client sets no timeout, so a command whose connection
stays silent need not end, and no fairness the code justifies says otherwise.

## 4. What is proved

Every invariant and every action property that a passing run checks, and the refinement, is a
theorem, for every value of the constants that the named assumptions admit. Each proof has the
same shape: an inductive invariant `IInv`, which TLC checked on the instance of the run before
it was proved; that the initial states satisfy it; a lemma for each action, or for each kind of
step, that it is preserved; and the properties as its consequences. The theorem of `IInv` is
called `Invariance`, that of the type invariant `TypeCorrect`.

| module | theorems besides `Invariance` and `TypeCorrect` | assumptions |
|---|---|---|
| `ServerTxProofs` | `CommitsAreAtomic`, `NoDoubleInsert`, `AcknowledgedCommitIsDurable`, `AcknowledgedRollbackIsFinal`, `IndexAndErrorsAreHonest`, `StoresNeedScope`, `EndedSessionsAreInert` (action property), `ServerImplementsAtomicTx` (refinement) | `Writer \subseteq Session`; `None` is neither a session nor a transaction; `VectorEnabled` is Boolean; sets may be infinite |
| `GatewayProofs` | `OnlyTheEntitledHolds`, `AnswersAreTrueHolds`, `NeverBornDeadHolds` (action property), `GaugeInvariance`, `GaugeIsTrueHolds` | `Session` is finite, scopes are pairs of strings, `ttl_secs` fits its width, operations are in the tables; `None` is no session and no kind of event |
| `MemoryIndexProofs` | `IndexFollowsStoreHolds`, `RememberIsTrueHolds`, `StoreReadsCurrentHolds` | `None` is no request |
| `PluginEventsProofs` | `PluginsSeePrefixHolds`, `EventsAreTrueHolds` | the dispatcher is no call, `None` neither; `Plugins` is a natural number, `Capacity` a positive one |
| `CliRetryProofs` | `ToldIsTrueHolds`, `SettledIsFinalHolds` (action property) | `None` is no transaction; `MaxRetries` is a natural number |
| `ServerLifecycleProofs` | `ServesWholeHolds`, `StopFindsItHolds`, `StrangersAreSafeHolds` | `None`, `Stranger` and `Blank` are no server, no pid and no word of the commands; the bounds are natural numbers |
| `ServerShutdownProofs` | `OkMeansStoppedHolds` | `MaxRequests` is a natural number |
| `TwoPhaseCommitProofs` | `OneOutcomeHolds`, `OutcomesAreTrueHolds`, `OpenCanBeEndedHolds`, `NoTwoWritersHolds` | `None` is no transaction; deployments are sets of the three components; `MaxLog` is positive |

A theorem `XHolds` states the property `X` of the run; those of `ServerTxProofs` state
`AtomicCommit`, `AtMostOnce`, `CommitDurable`, `RollbackFinal`, `IndexFollowsCore` with
`ErrorStoresNothing`, `OnlyWritersStore`, `EndedSessionStoresNothing` and `ImplementsAtomicTx`,
in this order. The assumptions on `None` and its like say that a marker of absence is not
also a value, what `Option` gives in Rust.

**`ServerTx`.** No property is inductive alone. A staged memory cannot become two rows
because at most one request ever *took* its transaction (`OneTaker`): taking means
removing the entry, a taken transaction is not in the map (`TakersShape`), and ids are
not reused. For the same reason an acknowledged rollback, itself a taker, excludes rows.
A commit's rows are its batch because nothing leaves the core transaction before
`CoreCommit`, which requires `wrote = batch` (`WorkShape`, `RowsShape`). An acknowledged
staging is in the entry, or in the batch of whoever took the entry (`StagedKept`); after a
crash the transaction has no entry and can have no taker. `tx_safety` checks `IInv` as one of
its invariants. For the refinement, a transaction of `AtomicTx` is open while its entry is in
the map *or* a handler that took it can still commit it, and what it has collected is in
whichever of the two holds it: `TakeTx` stutters, `CoreCommit` is `Commit`, and errors,
disconnections, rollbacks and crashes are `Discard` (`ShrinkRefines`).

**`Gateway`.** The invariant says of each request what is known where its handler is
(`Sound`): before the call nothing was done, emitted or answered; past `authorized` its session
was allowed; with an event to emit, the answer is settled and the event is of it; after that the
three agree (`Told`). A request that is late has a check of its session still ahead of it, or
is on its way out (`TurnedAway`); that check fails because no session comes back to life
(`Buried`), and a session that ends makes late only requests that are not past it (`Overtaken`).
Another request disturbs none of this (`SoundStays`), so that each action has to be looked at
for its own request only. The tables enter through lemmas: what authorizes nothing is in none of
them (`NotOfEngine`), an operation with an event changes something (`EventsOfChanges`), metrics
are served over HTTP without a session (`MetricsAreHttp`).
The gauge has an invariant of its own, `GaugeInv`, on top of `IInv`: while a page renders, the
gauge is its own count or was set by a request beside it (`Page`). Only a request over HTTP sets
the gauge, and of two of them in flight each has the other beside it (`Besides`), so that who
sets it in between is beside the page.

**`MemoryIndex`.** A content that an effective update or delete was to replace never comes
back to the store (`CoreIsFresh`): every content is written by one request, once. Reads follow,
since `past` of a reader is among what the writers it knows of replaced. Only a delete takes a
memory out (`LostByDelete`). A step changes the progress of one request (`Frame`).

**`PluginEvents`.** For each plugin, what it was handed, what the dispatcher has in hand
for it, and the channel are together what was sent, in order, as long as nothing was
overwritten; after that the first two are still a prefix (`InOrder`). No plugin is ahead by more
than the event in hand (`InStep`). The types need that who awaits the mutex is in its queue
(`Queue`): the mutex is only ever taken by the first of it.

**`CliRetry`.** What the server keeps was put there by an attempt that asked for it
(`Kept`), and an answer of "ok", on its way or told, settles what it is about (`Heard`): a
closed transaction collects nothing more and is never opened again, so that attempts served
late or twice change nothing. Only the four actions that serve a stage, commit, rollback or
discard have to be looked at; the others are `Calm`.

**`ServerLifecycle` and `ServerShutdown`.** A process holds its pid while it lives and a port
from when it binds it (`ServerInv`), and what it has loaded was accepted by `validate`, from
which the secret follows (`SecretIsChosen`). `Found` and `Safe` extend the two properties of
`stop` to commands in the middle of their work. They rest on `Turns`: commands begin in their
order, and while a start that nothing overlaps is at work, nobody else is, so that the pid it
writes is in the file when it answers, and every stop that reads it later finds that pid. For
`StrangersAreSafe`, a pid in the file (`FileLeads`), or read there by a stop (`ReadLeads`), is
that of the server of the last start as long as that server neither died nor was signalled. A stop
that has signalled it is at work until the file is removed, so that another one overlaps it, or
leaves the file, which `unfinished` records. Who is struck then was preceded by one or the other (`Blamed`).
In `ServerShutdown` a server that has ended has no request left, and what was joined as well
stays so (`Underway`).

**`TwoPhaseCommit`.** The mutex of a transaction is held by one call at most (`OneAtWork`),
and what that call is doing says which status it finds (`Working`). While no call was dropped,
each transaction agrees with the maps, with what was answered of it, with claw-core and with
claw-vector (`MapsOf`, `AnswersOf`, `CoreOf`, `WritesOf`); `OneOutcome`, `NoTwoWriters` and
`BlockersCanBeEnded` need no such proviso, and `CoreIsReleased` only that no begin was dropped
and no ROLLBACK failed.
Two writers of a key exclude each other because a write set holds all that
was buffered, and prepare compares it with those of the transactions in phase two
(`PhaseTwoStep`).

**Only model-checked.** The liveness properties (`EveryRequestAnswered`, `EveryCallReturns`,
`ShutdownEnds`, `StartAndStopEnd`): they need fairness and `ENABLED`, which the prover does not
handle. What the three runs that expect a violation show are counterexamples, not theorems.

## 5. Where code and documentation differ

Three runs expect a violation:

1. `tx_indexed`: `docs/ARCHITECTURE.md` describes a two-phase-commit style across core and
   vector, with compensation on error. The code commits core and then indexes best effort.
2. `events_dispatched`: a dispatcher that lags ends silently; plugins hear nothing until a
   restart.
3. `memory_stale_search`: update and delete never reach the index; semantic search returns
   replaced and deleted content.

What follows was met while modelling and is described here, without a run of its own.

*Transactions.* A commit whose first answer was lost ends, after the retry, as "not found"
although it was done; a begin whose answer was lost leaves a transaction nobody knows; open
transactions that nobody closes stay in memory. A commit or rollback that fails after the
entry was removed cannot be retried. The id that `TxRemember` answers names no stored memory;
commits send no `MemoryWritten` event.

*Plugins.* One library that does not load leaves out those read after it, and the server
serves without them.

*Memories.* A `remember` that is retried after a connection error is stored twice and reports
one id (`client.rs:126`). A semantic hit is named by the id of its vector record, a full-text
hit by its memory id.

*Sessions.* `ttl_secs` 0 is the default over gRPC and one second over HTTP; a value of 2^63 or
more is one second. `active_session_count` truncates to seconds, so that it still counts a
session for up to a second after it expired. Creating (over gRPC), revoking and counting
sessions call no `authorize`: the check of the token at the edge is the only one.

*Branch, sync, reflect.* Discarding, archiving, pushing, pulling, reconciling and revoking
emit no event. "internal" may be answered of what was done (its result could not be encoded,
or the second of two calls failed); no property asks otherwise, because nothing in the repository
says what it means. In local-only mode `sync` is skipped, while push, pull and
reconcile go to the engine all the same. An unknown merge strategy is "theirs".

*Start and stop.* `start` answers when it has spawned and written the pid, not when the server
serves. A second server with the same metrics port opens its stores and binds its other ports
before it ends, and the pid file then names a dead process; the first server, still serving, is
out of the reach of `stop`. So is one of two servers whose starts overlap. `stop` calls itself a command that stops a
clawdb-server process (`stop.rs:1`), and answers that it did (`stop.rs:33`), but signals whatever
process has the pid in the file: after a crash of the server, any program's
(`StrangersAreSafe` says when). SIGTERM before the handler is
installed kills the process without a close; a handler that cannot be installed starts a
graceful shutdown. `stop` ignores a pid file it cannot remove. `start`'s default ports
override those of the configuration file. `--data-dir`, and `CLAW_DATA_DIR` next to a file,
move the certificate directory but none of the stores (`docs/configuration.md:29` calls it the
root state directory). An empty or "change-me" secret passes when it comes from the
environment, and is refused with a file.

*Shutdown.* `close` returns at the first error, so that claw-sync is never closed when
claw-branch fails. It cancels a token that the dispatcher of plugin events does not listen to;
that task keeps its own sender alive and waits for ever, where `engine.rs:999` says that
background tasks are closed.

*The uncompiled transaction manager.* Its comments call the vector writes atomic, discarded on
rollback (`manager.rs:10`, `manager.rs:92`, `manager.rs:413`). They are sent one by one, and when
one of them, or the COMMIT after them, fails, `do_rollback` takes none back: a commit answered
with an error leaves vectors (`RolledBackMeansNothing` says what is left). A call
dropped after COMMIT and before its bookkeeping lets a later rollback answer "rolled back" of
what is committed, and its ROLLBACK may end another transaction: `OutcomesAreTrue` therefore
excludes dropped calls, `OneOutcome` does not. A begin dropped after BEGIN, or a failed
ROLLBACK, leaves the connection open and begin fails from then on. A failing restore leaves
the transaction RollingBack until somebody rolls it back again. The log records an empty write
set, the check of dimensions compares with zero, and an error is announced as
`ShutdownInitiated`.

## 6. Not modelled

The external crates beyond their use in the code; wire formats and conversions;
presentation code of the CLI, `clawdb status` (one GET) and its configuration file; metrics
other than the active-sessions gauge, logs; deployment files;
the ranking, filter and `top_k` of searches, which the external index decides; reading the
transaction log back and the older `begin_simple`/`commit_simple` of the transaction manager.

Of the code that is not compiled, `TwoPhaseCommit` models the part with a protocol of its
own. The others (session manager, event bus, query pipeline, component lifecycle, plugin
registry, loader and sandbox, older API servers) are drafts that no binary, test or example
reaches; what runs in the place of each is modelled, and `PROJECT.json` names it.

## 7. Plan

The modules of the plan are written, and the safety properties they check are proved. What is
left:

1. Lemmas that make the proofs shorter where one lemma per action repeats an argument
   (`TwoPhaseCommitProofs`, `ServerLifecycleProofs`).
2. The parts of `ServerLifecycle!StartAndStopEnd` that are safety: a process that is signalled
   takes no step but towards its end.
3. A refinement between `ServerShutdown` and the one step `Stopped` that stands for it in
   `ServerLifecycle`.
