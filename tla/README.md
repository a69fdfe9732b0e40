# TLA+ models and proofs of the LINE OpenChat reply bot

The repository runs reply bots for LINE OpenChat (Square): it hears a message
as early as it can, matches it against a set of rules, and sends at most one
reply. The worker process (`apps/worker`) is the system; `apps/web` is static
and `vendor/linejs` is the third-party client it talks to LINE through. This
directory holds TLA+ modules of that process, TLC configurations that check
them on small instances, and proofs checked by TLAPS.

Paths below are relative to `apps/worker/src/` unless they start with another
directory.

## 1. Inventory

One Deno process, one event loop. Everything between two `await`s is atomic;
every `await` is a place where other callbacks run. Most of what can go wrong
here is therefore an interleaving at an `await`, a timer racing an answer, or a
bounded map that forgets.

| Component | State it keeps | Operations | What must be true of it |
|---|---|---|---|
| Inbound race (`adapters/racing.ts`, `adapters/linejs/racing-inbound.ts`) | `#children`, `#liveChildren`, output queue, seen ids, sink; map room -> poll | `start`, `addChild`, `removeChild`, `#pump`, `#offer`, `stop`, `setRooms` | the pump count is exact; the output closes only when it should; no more polls than the slot budget; one copy of a message reaches the worker; a kept room keeps its poll |
| Push inbound (`adapters/linejs/inbound.ts`) | stream, drain window | `start`, `stop`, abort listener | history of the drain window is not answered; ends when stopped |
| Dedicated room poll (`square-poll.ts`, `square-fetcher.ts`) | sync token, `#drained`, seen ids, fetches in flight, controller | drain, racing rounds, staggered fetches, backoff, `stop` | no live message skipped, none emitted again while it is remembered, calls at LINE bounded, history silent, nothing but pages in hand emitted after stop |
| Reply quiet gate (`poll-quiet.ts`) | quiet-until per room | `noteReply`, `waitMs` | a poll does not compete with its own reply |
| Reply pipeline (`pipeline/process-inbound.ts`) | none of its own | `processInbound` | gates in order, one answer, never throws |
| Correctness core (`core/`) | three claim stores, job registry, token buckets | `tryClaim`, `ensure`, `markEligible`, `tryAcquire` | a message is answered once, a job dispatched once, the rate holds, maps are bounded |
| Worker (`worker/worker.ts`) | `#inFlight`, rules, selected rooms | `run`, `#handle`, `drain`, `setRules`, `setSelectedRooms`, `monitorTick` | `run` ends when its stream ends, after the sends in flight |
| Sender (`adapters/linejs/sender.ts`) | - | `send` | one request for one job |
| Lane pool (`transport/lane-pool.ts`, `lane.ts`) | lanes with generation, requests in flight, parking, RTT samples | `#pick`, `#pickSend`, `#afterSend`, `#afterFailure`, `maintain`, `close` | no lane is lost; replies stay on the lane that is fast and queue last; receive traffic keeps off the reply lanes |
| Push transport (`transport/h2-transport.ts`, `transport/node-h2-sidecar.mjs`) | `#pushes`, `#pushHealth`, the child process and its `activeStreams` | `fetchPush`, abort and cancel, the lines both ways, exit of the process | PUSH is called ready only while a stream is there or its end is on the way; a stream that loses its owner is cancelled |
| Bot host (`bots/bot-host.ts`, `connect.ts`, `connection-warmup-gate.ts`) | runtime, controller, `#ready`, `#restartInFlight`, `#closed` | `start`, `restart`, `close`, `#connect`, `#run`, `#teardown` | at most one client held, none once closed; the newest session is the one used; close ends |
| Bot registry (`bots/bot-registry.ts`, `connection-warmup-gate.ts`, `tenant-routes.ts`, `admin/users-store.ts`, `cli/serve.ts`) | hosts, assignment turn, gate queue, accounts file | `hostFor`, `startOwned`, `release`, `closeAll`, `create`, `setRole`, `setBotId`, `remove` | accounts change whole and at once; one owner and one host for each bot; a removed person's bot stops; owned bots come back; nobody waits for ever |
| Sessions and login (`session/store.ts`, `admin/login-flow.ts`, `adapters/linejs/buffered-storage.ts`, `login.ts`) | session file, storage file with debounced writes, login state | `load`, `save`, `clear`, `set`, `flush`, QR login | request sequence numbers never go back; a new login is not overwritten by the old client |
| Monitoring, recovery, readiness (`monitoring/`, `readiness/state.ts`, `worker/recovery-executor.ts`) | `#pending` alerts, rung, time on it, clean checks, readiness state | `monitorTick`, `evaluate`, `decide`, `execute` | a restart is earned; a lost PUSH is repaired; calm ends armed |
| Warm-up (`warm/`) | timer, cursor over lanes | `start`, `stop`, tick | keeps lanes warm without using a busy one |
| Persistence (`persistence/`) | bounded queue, timer, flush flag | `enqueue`, `flushNow`, `close` | what is accepted is written or counted as lost; nothing waits with nothing to wake it |
| Admin console (`admin/server.ts`, `rules-store.ts`, `config/bot-config.ts`) | configuration file, requests between their reads and writes | rule edits, room selection, restart | the file always loads; the worker acts on what the file says |
| Rules (`core/rules/`) | compiled set, match cache | `compileRules`, `match` | the best rule wins; no remembered answer of old rules |
| Experiments (`experiments/registry.ts`) | state and evidence of each technique | `start`, `conclude`, `rollback`, `block` | techniques that interact are not on together; adoption is measured |
| Sharding (`sharding/topology.ts`) | shards | `create`, `workerFor`, `belongsTo`, `ownersOf` | one process for each owner, whatever the order of the shards |
| Metrics, logging, status; admin pages; acceptance; contracts | counters, text, constants | - | presentation and measurement, off the reply path |

How they interact: `BotHost` connects a bot and makes a `Worker` with an inbound
stack and a sender; the admin console calls `BotHost.restart`, `setRules`,
`setSelectedRooms` and `setRooms` on the running bot from HTTP handlers; the
push adapter and each poll emit into the racer, which hands each new message
synchronously to `Worker.#handle` through a sink; `#handle` starts
`processInbound`, and the sender's request goes through the lane pool. The
monitor reads the worker's numbers and may ask the host to restart. With
`--multi-bot` the registry makes a host for each person who signs in, and every
console request waits for the host of the person who sends it.

The hard behaviours, each with its line, are listed under `hazards` in
`PROJECT.json`: room switches that overlap a start or one another, staggered
fetches that answer out of order, time-outs whose call goes on, claims that
lapse before the record they protect, restarts that meet a login, storage
writes that outlive their client, lanes recycled under a request, people removed
while their bot is being made, edits of one file that overlap, cancels that cross
a session's opening, flushes that meet a close.

## 2. Modules

| Module | Models | Composes |
|---|---|---|
| `RacingInbound` | the racer, the room switch and the read loop of the worker | racer + `setRooms` + `Worker.run` |
| `RacingInbound_proofs` | theorems about it | |
| `SquarePoll` | one dedicated poll against a room at LINE | poll + fetcher + `firstFulfilled` |
| `SquarePoll_proofs` | theorems about it | |
| `ReplyPipeline` | `Worker.#handle`, `processInbound` and the core, across restarts | pipeline + core + worker drain |
| `ReplyPipeline_proofs` | theorems about it | |
| `BotHost` | connect, teardown, restart and close of one bot, its logins and logouts, and the files they share | host + login flow + admin routes + session store + key/value file, implements `Connection` |
| `Connection` | the abstract specification of a bot's connection | |
| `BotHost_proofs` | theorems about it, the refinement of `Connection` among them | |
| `LanePool` | the HTTP/2 lanes and the choice among them | pool + lanes |
| `LanePool_proofs` | theorems about it | |
| `PushStream` | the PUSH request between LINEJS, `NodeH2Sidecar` and the sidecar process | transport + process + pusher loop |
| `Supervision` | readiness, alerts, the recovery ladder and the restart on top of it | `EXTENDS PushStream` |
| `Supervision_proofs` | theorems about both | |
| `Accounts` | the abstract specification of the accounts | |
| `UsersStore` | the accounts file under `#exclusive` | |
| `Fleet` | registry, gate, console requests, start and stop of a process with several bots | `EXTENDS UsersStore`, implements `Accounts` |
| `Fleet_proofs` | theorems about it, the refinement among them | |
| `RuleMatch` | what `compileRules` accepts and a compiled set decides | |
| `BotConfig` | the configuration file and what `parseBotConfig` accepts | `EXTENDS RuleMatch` |
| `Console` | the requests that edit one bot's file, its host and its worker | `EXTENDS BotConfig` |
| `WriteBehind` | the queue in front of the database | |
| `Experiments` | the experiment registry | |
| `Services_proofs` | theorems about the five above | `EXTENDS Console`, `INSTANCE WriteBehind`, `INSTANCE Experiments` |
| `Topology` | which worker process serves an owner; evaluated by `MCFleet` | |
| `MC...` | the small instances | |

Beyond what a module extends, the modules are not composed into one state space;
each pair meets at a narrow interface that one module assumes and another shows.
`BotHost` takes it that a stopped adapter ends its run, which is
`TeardownEndsWorker` of `RacingInbound` with `DrainTerminates` of
`ReplyPipeline`. `ReplyPipeline` may get a message again at any time, which
includes whatever `RacingInbound` and `SquarePoll` let through; its `Restart` is
a reconnect of `BotHost`. `Fleet` sees a `BotHost` as a promise that becomes
ready and a close that ends (`RestartReconnects`, `CloseEnds`), and
`Supervision` as a connection that is made, is up or is off, and a restart that is
asked for and then happens, which is what `BotHost` implements (`HostIsConnection`). `Console` assumes that a restart reads the file once.

### RacingInbound

An atomic step is the code between two awaits. `children`, `liveChildren`,
`outOpen` are the racer's `#children`, `#liveChildren` and `#out`; `pumps[c]`
counts the `#pump` loops reading child `c`'s stream, which is state of the
runtime rather than a field. `polls` is the map in `racing-inbound.ts`.
`call[k]` is one `setRooms` call with its program counter: rooms left to remove,
rooms left to add, and the poll whose `start` is awaited (`adding`).

`Start` is `Worker.run` up to the await in the racer's `start`; `StartResolves`
is the continuation, after the push adapter's drain window. `SetRooms`,
`RemoveRoom`, `AddRoom`, `PumpAdded`, `SetRoomsReturns` are `setRooms` from await
to await. `Offer` is `#offer` with the worker's sink; a stopped poll may still
offer the page it had in hand (`Speaks`), as its sink stays set. `Abort`,
`StopAdapter`, `WorkerEnds` are the host's teardown as the inbound stack sees it.

Poll objects are recycled: an id nothing refers to any more stands for the next
object made (`Fresh`), so three ids are enough for a budget of two.

### SquarePoll

The room at LINE is a log of events, a sync token a position in it. `stage` is
where the loop stands: between rounds, in a round, with a racer answered
(`won`), waiting for the losers of a round (`settleStragglers`), in the staggered
loop, ended. `inFlight` holds the real calls in launch order, each with the
cursor it was sent with, whether anyone still waits for it (`late`), whether it
is answered and its page not yet taken (`got`), and whether a later launch has
already moved the cursor (`fresh`), which is the comparison of launch times in
the code. `Answer` settles the call; `Win` and `Deliver` take the page up to
`#emit`. In the code a few microtasks lie between (`with-timeout.ts:74`,
`firstFulfilled`, the awaits at 286 and 372), and in the model anything may, a
stop too: neither looks at the signal again. LINE may answer with any page that
was the right one at some time between the call and the answer, with a sync
token or without; a page without one leaves the cursor where it is. Sleeps (interval, backoff, quiet window) are one flag, `hold`,
that `Wake` clears at any time.

### ReplyPipeline

One action per way through the gates: `RoomNotSelected`, `SenderNotAllowed`,
`DedupedIncoming`, `NoRuleMatches`, `DedupedReply`, `DedupedRoom`, `RateLimited`,
`Throws`, `Sends`. Gates and the start of the send are synchronous in the code
and one step here. A `BoundedTtlMap` is a function from keys to insertion times;
`Sets` is its `set` with the eviction of the oldest entry, `Has` its expiry.
`Refilled` is the token bucket's refill, in integer units. `SetRules` and
`SetSelectedRooms` may come at any time, `Restart` is a new `Worker` with an
empty core. `decided`, `sent` and `admits` are histories for the properties.

### BotHost

`job` is where the chain that `#ready` stands for has got to: a start, or a
restart's teardown and connect, await by await. `restart` is
`#restartInFlight`, and `closing` the progress of `close`. `RestartRequested` is
the body of `restart()` up to its first await and is used by everything that
calls it: the admin page and the recovery ladder (`RequestRestart`), a run loop
that died (`Respawn`), a login that succeeded and a logout.

A client is a LINEJS client with its `BufferedFileStorage`: `cache` is read from
the file when the client is made, `Send` and a login change it, `timer` is the
debounce and `writes` the chain of `writeFile`s. Of the file the model keeps the
next request sequence number and the refresh token. A client id that nothing
holds and that has nothing to write stands for the next client. `owed` states
the one fact about time the model uses: a restart settles for 250 ms before it
tears down, as long as the debounce, so a write that some other client owed when
the restart was asked for is done by then.

`high`, `doubled`, `folded`, `removed` and `issued` are histories. A file that is
removed starts the sequence numbers again (`FileRemoved`), as a new login does
at LINE. A run stops sending when its teardown begins. A client that is torn down
has left the host; that its pusher loop lives on and may open PUSH again through
a new sidecar process (finding 10) is outside this module, and `OneClientHeld`
and `Connection` speak of the client the host holds.

`Connection` is the same host without its awaits: whether there is a connection,
a restart that is asked for, how far a close has got, and the sessions stored and
in use. Its steps are what users of the host may rely on: a restart begins only
where nothing is under way and is not forgotten, a connect reads what is stored
and keeps it, a login is followed by a restart unless one is under way, and no
connect begins after `close`. The mapping is `Link`, `Asked`, `session` and
`Using`; flushes, debounces, pairing and the key/value file are stutters.

### LanePool

Requests are counts per lane and kind, since two of one kind on one lane are
told apart by nothing. The kind says whether a reply had company at its start,
which with the load at its end decides whether its time says anything about the
route. `samples` are the lane's reply profile, `streak`, `bypass`, `cooldown` and
`pin` the pool's fields. The branches of `#pickSend` are actions of their own,
in their order: each repeats the negation of what the earlier ones need.

Times are classes around the thresholds (fast, above the slow threshold, above
the tail limit) and a timer may have run out whenever it is looked at, so the
model has every behaviour of the code's clock and more. Where only the times of
probes or polls tell lanes apart, the choice is free. `Maintain` may come at any
time, not only after 15 minutes. A request that began before its lane got a new
transport ends on the new one's account, as in the code. `MaintainEnds` is one
step where the code has a few microtasks: the end of the request (`lane.ts:265`),
`#afterFailure` or the cancel of the body, and the end of the cooldown
(`lane-pool.ts:785-795`).

### PushStream and Supervision

A PUSH request is an id with four pieces of state: `entry` (its place in
`#pushes`), `wire` (lines to the process), `stream` (the HTTP/2 stream there)
and `lines` (lines back). The actions are the callbacks of the three programs:
`OpenPush`, `AbortPush`, `PumpFails`, `CancelPush`, `ReadHeaders`, `ReadRefusal`,
`ReadEnd`, `ReadError`, `NoticeExit` of the client; `TakeStart`, `TakeCancel`,
`SessionOpens`, `Respond`, `StreamEnds`, `ChildExits` of the process; `GiveUp` of
LINEJS's loop (`push/conn.ts`, `polling/mod.ts`), which sleeps, opens and reads. Lines of one request keep their
order, lines of different requests come in any order, a superset of the pipe.
`deaf` remembers the streams whose cancel came while they awaited their session,
which the process forgets. A stream that LINE refuses is `refused` until LINE
ends it: the client drops its entry and sends no cancel.

`Supervision` adds the host as four phases and counts time in ticks of the
monitor. `Tick` is `monitorTick`: readiness, `AlertEvaluator.evaluate`
(`Evaluated`, `Firing`), `RecoveryPlanner.decide` (`NextRung`) and the executor
(`Restarts`) in one step, as in the code. What the metrics and the lanes say at
a tick is free: any set of the watched conditions. `AlertsAsked` is
`GET /api/alerts`, which goes through the same evaluator between two ticks and so
starts or clears what the ladder waits for. `MaxTrouble` bounds how often LINE,
the network, the process or the operator interferes, and afterwards it is `Calm`.
A restart replaces everything (`Replaced`); what a torn down client leaves
running (section 5) is outside.

### Fleet, UsersStore and Accounts

`procs` are the requests of the console and the workers of `startOwned`; `call`
is where each has got to, await by await: the wait for the turn, `#resolve`,
`#assign`, `setBotId`, `#ensureConfig` and `createHost`, the wait for the host,
the handler, the write of its change, `release`. `turn` is `#serialised` and
`draft` a transaction between its read and its write under `#exclusive`; who
waits for either gets it in any order, a superset of the queue in the code. A
`BotHost` is its `ready` promise (`queued` at the gate, `connecting`, `ready`) and
its close; its restarts are in `BotHost` and `Console`. `Drained` is the gate's
`#drain`. `Boot`, `Serve`, `Stop`, `AllClosed`, `Exit` are `main` of
`cli/serve.ts`, and `Crash` loses everything but the file. `ServeUnlisted` is a
start whose `startOwned` cannot read the accounts, and `ResolveFails` any file
that cannot be read or written in `#resolve`, which ends a worker of the restore.
Requests come in until the hosts are closed: the server is shut down after
`closeAll`.

`astray` and `unlucky` are histories and name the cases the code gives up: the
bot of a removed person that was made, or became theirs, too late for `release`
to know of it, and people whose bot could not be found, made or listed. The properties except them
by name, so that everything else is covered.

`Accounts` has one variable and changes it in one step per call. `Fleet`
implements it with `accounts <- Contents`, the accounts as a reader of the file
finds them: a read that seeds the first admin, a transaction that is still to be
written and a write that fails are stutters.

### RuleMatch, BotConfig and Console

Texts are values; normalisation and the relations "begins" and "occurs in" are
constants, so that nothing depends on characters. `Decision` goes through the
exact-match buckets as the compiled set does, `Winner` is the definition it is
compared with. `Parses` is `parseBotConfig` for the fields the console edits and
the knobs it relates to each other; fields that get a default and the allowlist
are left out.

A request of `Console` goes through the steps of its handler: `ReadRules` or
`ReadConfig`, `Directory` (`loadJoinedGroups`, whatever LINE reports),
`ReadAgain`, `Write`, `ReadConfig` of the updated list, `ApplyRules` or
`ApplyRooms`. `worker` says whether the worker its handler was built over is
still the live one. Requests that only read pages change nothing and are left
out, as are the cap of 100 rooms heard of and the order of dedicated rooms beyond
that of the selection. `disturbed` is a history: since the worker's last start a
request has overlapped another or a restart, or has failed after its write.

### WriteBehind, Experiments, Topology

`WriteBehind` counts records, since nothing looks at them: `queued`, `batch` (the
flush in flight), written, dropped and lost. `CloseLoop` is the loop in `close`
up to its next await, `overtaken` the history that it met a flush that was not
its own. One caller closes.

`Experiments` has one action per method; a refused start changes nothing and is
not a step. `leapt` is the history of experiments adopted without being on.

`Topology` is `validateTopology` as a fold over the shards, and the lookups.
Its three properties compare it with what it is for: a topology is accepted
exactly when names and owners are disjoint and there is one default at most,
`ownersOf` and `belongsTo` agree, and processes that list the shards in another
order agree on who serves an owner.

## 3. Runs

| Run | Shows | Bounds |
|---|---|---|
| `fleet` | the accounts implement `Accounts`; one host for each bot; a removed person's bot stops; owned bots come back unless all workers of the restore have failed; the gate is used; nobody waits for ever. Also every topology of up to 3 shards (`TopologyIsSound`) | 2 people, 2 requests at a time, 2 restores, gate of 1, 3 hosts; 2 requests in all and 1 trouble, or 1 and 2 where both own a bot |
| `racing_inbound` | exact pump count, output open while push lives, slot budget in mid-switch, one copy to the worker, kept rooms, every switch and teardown ends | 3 rooms, 2 slots, 3 poll objects, 1 message, 1 switch at a time, any number of switches |
| `racing_inbound_start` | the output closes under a live push stream when a switch arrives in the drain window (finding 1) | the same |
| `square_poll` | nothing live skipped, nothing emitted twice but by a page without a token or beyond the seen ids, calls bounded, history in one case only, only pages in hand after a stop, live messages come out, a stopped poll ends | backlog 3, log of 4, pages of 2, 2 faults, width 2 |
| `square_poll_history` | old messages are answered (finding 2) | the same with a log of 5, safety only |
| `reply_pipeline` | one answer, one dispatch, the rate, drain ends | 3 messages, 2 rooms, clock to 5, maps of 1 or 2 entries, TTLs 1 < 2 < 3 < 4 |
| `reply_pipeline_throws` | `processInbound` rejects (finding 3) | the same, safety only |
| `bot_host` | one client held, the stored session, sequence numbers and refresh token carried across, logouts that stick, the host implements `Connection`, restarts that reconnect, a close that ends | 2 clients at a time, 2 tokens, 1 sequence number, any number of restarts |
| `bot_host_session` | a restart folded into a connect leaves the bot on a replaced or removed session (finding 4) | the same, safety only |
| `bot_host_sequence` | a login's write takes the sequence number back (finding 5) | the same, safety only |
| `supervision` | readiness rests on a stream; orphaned streams are cancelled but in two cases; a restart is earned; the last rung is not reached; a loss is repaired; calm ends armed | 2 request ids, thresholds of 1 and 2 ticks, cooldown 2, 2 clean checks, 2 troubles |
| `lane_pool` | hidden lanes are being tried out; congestion leaves the pin; replies queue last and receive keeps off while there is room | 2 primary lanes, a spare and a receive lane, 3 requests at a time, 4 replies, window of 1 |

Some checks are run by hand, to keep the routine ones short. They pass, with the
one exception each names:

| Command | Shows | States |
|---|---|---|
| `tlc -config MCConsole.cfg MCConsole` | types, the file loads, polled rooms are answered, remembered decisions are current, the worker runs the file: two overlapping requests, restarts, failures and a crash | 1,317,237 |
| `tlc -config MCWriteBehind.cfg MCWriteBehind` | types, records are accounted for, a waiting queue is scheduled, close leaves nothing unless overtaken; `CloseFlushesEverything` in their place fails (section 5) | 6,405 |
| `tlc -config MCExperiments.cfg MCExperiments` | types, no conflict, the ceiling, evidence; `InteractingNeverOn` in their place fails (section 5) | 5,567 |
| `tlc -config MCSquarePollLarge.cfg MCSquarePoll` | types and safety of `SquarePoll` with a log of 5 | 514,186 |
| `tlc -config MCFleetRestore.cfg MCFleetRestore` | `OwnedBotsRun` with three owners and two workers of the restore, of which both may fail | 996,925 |
| `tlc -config MCFleetGivesUp.cfg MCFleetRestore` | `OwnedBotsComeBack`, without the exception, fails: two bots that cannot be resolved leave the third owner's without a start (section 5) | |
| `tlc -config MCReplyPipelineTypes.cfg MCReplyPipeline` | types of `ReplyPipeline` | 544,592 |

All that passes here is also proved (section 4), and so are the types of the other
modules, which are not run.

Why these bounds are enough. Three rooms and two slots are the least with a
switch that removes one room, keeps one and adds one, and that has to drop a
room of the selection; three poll objects are two that run and one that is being
added or is still ending. A log of four with a backlog of three and pages of two
has a history of more than one page, a page that mixes history and live
messages, and overlapping staggered pages. `SeenMax` of 1 makes the eviction of
seen ids happen. In the pipeline the maps are so small that eviction, expiry in
each order, and a job record that outlives its claims all happen; the order of
the TTLs is the one of `config/constants.ts`. Two clients are what meets in the
host: the connection and a login, or a client that still writes and its
successor; two tokens are an old session and a new one; one sequence number is
enough to go back. The lane pool has every role and, with three requests, a
reply that meets another while a third request occupies or leaves a lane; four
replies are two slow samples in a row on a lane and two replies that react. In
the fleet two people are the least who can want the same bot, be each other's
last admin, or remove each other; two requests and a restore meet at the turn, at
the store and at a host; a gate of one makes a host wait, and three hosts are one
that closes, its successor and the primary. One trouble is one failed read
or write or one reboot, at every point. Where both people own a bot the restore has two workers and
two troubles, a reboot and a failure or a failure of each worker, and one request
(`Spent` takes from the bounds by how the process starts). Three owners are one
more than the workers; that instance is run by hand. Two PUSH requests are one that
ends late and its successor; two troubles break a stream and then its repair, or
a stream and the process under it; a cooldown of two ticks is the least for
which the top rung is claimed (with one tick it is reached).

The properties of `BotHost` exclude two cases the code does not get right, and
each exclusion is a violation run of its own: `RunsOnStoredUnlessFolded` a
restart folded into a connect that had read the session (`folded`), and
`SoleClientContinues` and `LogoutSticks` a key/value file that a login and
another client had open at once (`doubled`).

Bounds that are artificial: `MaxTime`, `MaxLog`, `MaxFaults`, the number of poll
objects (`PollIds`), `MaxTokens`, `MaxSeq`, the number of `Clients`,
`MaxRequests`, `MaxReplies`, `MaxHosts`, `MaxTroubles`, `Spent`, `MaxTrouble`, `Ids`, `MaxRecords`,
`MaxSamples`. `SlotBudget` is checked with one switch at a time: two that overlap
can break it (section 4), which is listed as a hazard.

Deadlock is not checked (`CHECK_DEADLOCK FALSE`) for the inbound race and the
poll, which stop for good after a teardown, for the host, which may be closed,
for the lane pool, which is, for a bot whose connect has failed, for the fleet
once its bounds are spent, and for a queue that is closed.

### Fairness

Weak fairness on the continuations of the event loop (`PumpAdded`,
`RemoveRoom`, `AddRoom`, `RoundEnds`, `Launch`, ...): a resolved promise's
continuation runs, and a timer that is set fires. `AddRoom` additionally waits
for a fresh poll object, which fair `PumpEnds` frees. `Settles` in `SquarePoll`
assumes that every real call to LINE settles; the code has no other way out of
`settleStragglers` (a hazard of its own). In `ReplyPipeline` a send settles by
its deadline, and a stopped adapter ends its stream only after an abort. Nobody
is obliged to post, to switch rooms, to log in, to deliver a message or to stop a
bot. In `BotHost` timers fire, files are written, a connect attempt ends one way
or the other, and a teardown proceeds; a QR login need never end.
`LanePool` has safety properties only.

In `Supervision` a connect and the drain window end, a restart that is asked for
happens, the monitor ticks and the PUSH machinery moves; LINE owes an answer only
when it is `Calm`. The one assumption about time is in `Tick`: once nothing
interferes any more PUSH settles within a tick, since the monitor's interval is
far longer than LINEJS's sleep and a request. In `Fleet` what the process has
begun goes on (`GoesOn`): files are read and written or fail, connects end,
promises settle. A request, a signal, a crash and the restart after it need not
come.

## 4. Proofs

Every invariant and every action property of the passing runs is a theorem, for
all values of the constants, and so are the types of every module with a state.
The proof modules are arranged alike: lemmas about the operators, the inductive
invariant in named parts, one lemma for each action or group of actions that
disturbs a part, then the theorems.

### RacingInbound_proofs

For every set of rooms, poll objects, callers and messages and every budget:

- `TypeCorrect`: `Spec => []TypeOK`, from `RacingAssumption` alone.
- `InductiveInvariant`: under `~AdmitDuringStart`, `Spec => []IInv`.
- `LiveCountIsExact` and `OutputStaysOpen`: the two safety invariants
  `LiveCountExact` and `OutputOpenWhilePushLives`, from `IInv`.
- `AcceptedIsHandled`: under `~AdmitDuringStart`, `AcceptedReachesWorkerOnce`.
- `BudgetHolds` and `KeptPollSurvives`: under `OneSwitch` (all callers are one),
  `SlotBudget` and `KeptRoomKeepsItsPoll`.

`LiveCountExact` is not inductive: that a pump ends one child only, and that
`addChild` never pumps a child twice, needs to know which children are pumped
and which are about to be. `IInv` is the conjunction of `TypeOK`, `NotRunning`
and `BeforeStart` (before `start` has resolved nothing is pumped and nothing is
being added; before it is called nothing is live), `AddingAlone` (a poll that a
call is adding is not yet read, and no other call adds it), `PushIsRead` (a
running racer pumps its push child while it lives), and the two properties. With
this the pumped and the added children are disjoint, `#liveChildren` is the
cardinality of two sets of which each action changes one by one element, and the
output stays open since a live push child is pumped and the count positive. The
assumption `~AdmitDuringStart` cannot be dropped: the run `racing_inbound_start`
is the counterexample.

`AcceptedIsHandled` rests on `IInv` and `Delivering`: until the abort nobody
stops the adapter, push lives, so the output is open, and the worker has its
sink. The budget needs two facts: `Mapped` (the map in `racing-inbound.ts`, the
racer's children and the poll objects agree on who polls what) and `Planned`
(what is polled is wanted or about to be removed, and a switch adds only what it
wants and nobody polls). `OneSwitch` is what these two theorems are about. The route
does not serialise switches, but every `await` in `setRooms` is of a promise that
is already resolved, so two overlap only when both handlers go on in one turn of
the event loop. They then compute their differences from one map and break both
properties, which is listed as a hazard; the other theorems hold for any number
of switches at once.

### SquarePoll_proofs

For any log, page size, window of seen ids, number of faults and options:

- `InductiveInvariant`: `Spec => []PollInv`, and `TypeCorrect` from it.
- `NothingSkipped`, `EmittedOnceHolds`, `CallsAreBounded`, `HistoryIsRare`: the
  four invariants of the run, and `OnlyPagesInHand` its action property
  `OnlyPagesInHandAfterStop`.

`PollInv` has four parts. `Room` says where the poll stands in the room, and that
the drain ended past the backlog or at a silent page. `Flight` says which stages
go with which options. `Asked` is what makes late answers harmless: a staggered
call asks from a place up to which everything has been emitted (`Covered`), so
that a page which arrives when the cursor has moved on emits nothing that leaves
a hole. `Output` says that a racing poll repeats only what came in a page without a
token (`Told`), and that a staggered one
remembers exactly the last `SeenMax` messages it emitted, or all of them while
they are fewer, so that a repeat lies further back (`Sighted`).

The lemmas are about pages: a page is a sequence of exactly its messages in
order, and what the loop emits of one is a fold whose value at each step is a
recursive function. That the function exists for every page, and that the fold
is it, is proved by the least place at which it would fail.

### ReplyPipeline_proofs

For any finite sets of messages and rooms, any rules, TTLs, limits and rates
under `PipelineAssumption` and `IdleAssumption`:

- `InductiveInvariant`: `Spec => []IInv`, and `TypeCorrect` from it, which has
  the bounds of the maps.
- `RateIsBounded`: `RateBound`, for every window at once.
- `MessagesAnsweredOnce` and `JobsDispatchedOnce`: `AnsweredOnce` and
  `JobDispatchedOnce`.

`RateBound` speaks of windows, the bucket only of now. `Spent` joins them: what a
room has spent since any of its admissions, together with what its bucket has
left, is at most the burst and the refill since that admission. A bucket that is
dropped for being idle is one that would be full (`IdleAssumption`).
`Remembers` is for the maps: a `BoundedTtlMap` whose entries have one TTL gives
the time of the last decision on a key until the TTL is over or `maxEntries`
other keys were decided on later, since the entry evicted is always the oldest.

### BotHost_proofs

For every finite set of clients and every bound:

- `InductiveInvariant`: `Spec => []IInv`, `TypeCorrect` and `OneClientIsHeld`
  from it.
- `SoundHolds`: `Spec => []Sound`; from it `RunsOnStored`
  (`RunsOnStoredUnlessFolded`), `SoleContinues` (`SoleClientContinues`) and
  `LogoutHolds` (`LogoutSticks`).
- `HostImplements`: `Spec => C!Spec`, the refinement of `Connection`.

`OneClientHeld` alone says nothing of the moment before a connect. `IInv` adds
`StageOfClient` (a client runs only while `job` is settled and leaves only while
it stops or flushes, and by `TypeOK` connects only while `job` does: nothing is
open while the host is torn down or about to connect),
`OneOpen` (two open clients are one) and `StageOfClose` (a host that is closed
has nothing open and starts nothing). A connect makes a client only where
`StageOfClient` says that there is none, and `restart` and `close` begin a
teardown only where the chain has settled.

`Sound` adds `Current` (a restart that was asked for, and not folded, has still to
read the session), `Numbered` (no token is ahead of those issued) and, unless two
clients ever had the file open at once (`doubled`), `Single`: of the one client
alive, what the file will hold once it has written (`Latest`: its debounced
write, the last of its write chain, or the file) is as new as anything sent and
stored (`Holds`) and has no token that a logout removed (`Clean`).

The refinement has a lemma, `HostStep`, with a case for each action. It rests on
both invariants and on `Used`: before the start nothing is asked for, and every
teardown belongs to a restart or to the close, so that it is known how it ends.
`UsingIs` makes the session in use that of the one client which connects or runs.

### LanePool_proofs

For any number of lanes, requests and replies, any thresholds and any window:

- `TypeCorrect` and `HiddenLanesAreTriedOut`: `IInv`, the conjunction of
  `TypeOK` and `HiddenLaneIsTriedOut`, is inductive. Only `Maintain` hides a
  lane, and it starts the request that `IInv` asks for; a request of that kind
  ends by an action that shows the lane, and no other kind of end lowers its
  count (`EndedTypes`, `EndStep`).
- `PinIsKept`: `Spec => PinKept`. A reply that works around a busy pin leaves it
  (`PickSendSends`, `Take`), maintenance spares a fast pin, and all else that
  clears the pin is the end of a request of the pinned lane, which lowers its
  load.
- `OverloadIsKeptApart`: `Spec => OverloadKeepsBands`. A step that starts a
  request starts one, on one lane (`SentAlone`), so the branch of `#pickSend` or
  the receive choice that took the lane is the one that answers for it; each
  branch carries the negation of those before it.

### Supervision_proofs

For every finite set of requests, every subset of the alerts and all thresholds:

- `TypeCorrect`.
- `TopRungIsUnreached`: under `CooldownTicks > 1`. `LadderSafe` adds what makes
  it inductive: on a rung that restarts, a restart has been asked for and no tick
  has passed since, or it is due before the next one. So the ladder is replaced
  before the cooldown is over. With a cooldown of one tick the property is false:
  TLC finds the rung reached.
- `ReadyStreamIsThere`: `ReadyHasStream` is not inductive, since it says nothing of
  the order of lines. `Attended` adds that what LINEJS waits for or reads is a
  request, and that a known request whose last line on the way is not its end has
  a stream, unless the process is gone.
- `StreamsAreOwned`: `NoOrphanStream`. `Traces` follows each request through both
  pipes: a stream, and a start on its way to become one, has its entry, or a
  cancel behind it, or its cancel came while the session opened (`deaf`), or LINE
  refused it. The last two are the exceptions the property names.
- `RestartsAreEarned`: `RestartIsEarned`. `Timed` compares the clocks: an alert is
  no older than its problem and its worker, and a worker is older than the time
  spent on a lane rung by at least what the alert before it took.

### Fleet_proofs

For all finite sets of people, requests and restores and all bounds:

- `TypeCorrect`, from `Types`, which also says which fields a call has set at
  which step.
- `AccountsAreImplemented`: `Spec => A!Spec`. A step that changes what a reader
  finds is the write of a transaction, and `Accounted` says of every draft that it
  is one allowed change of the contents *as they are now*: by `Drafting` nobody
  else is between a read and a write. `Turned` (who is inside `#resolve` has the
  turn) and the rest of `Accounted` (what `#assign` has seen of the accounts still
  holds at `setBotId`) make the assignment one of those changes.
- `OneHost`: `Hosted` says that the map and the hosts agree and that the bot for
  which a turn makes a host has none.
- `GateIsFull`: `GateKeepsBusy`, together with `Filled` (no more connects than
  places). Each end of a connect frees one place and `#drain` fills one.
- `RemovedStop` and `OwnedRun`: `RemovedBotStops` and `OwnedBotsRun`. An account
  forgets its bot when it is removed, so the invariant is `\E own : Kept(own)`,
  where `own` gives the bot each person was *ever* given. `Known(own)` says that
  the accounts, the list of the restore, the registry, every draft and all that a
  call has seen agree with `own`, however stale. With this a removal releases the
  bot that the person had, and who was found by the restore keeps theirs
  (`Remembered`). `OwnedRun` also needs `Restoring`: the workers of `startOwned`
  have taken different people off the list, and one that is dead has failed with
  the one it took; so a list without a worker means that each met a failure.

### Services_proofs

The console with its rules and configuration, for all rules, texts, rooms,
requests and replies of LINE, under `ConsoleAssumption`:

- `MatchIsBest`: the decision through the buckets is the winner among all rules
  that match. That a set of rules has a winner is proved by the least length of
  the list at which it has none (`Least`, from the well-foundedness of `<`), as
  induction over a predicate is out of reach.
- `TypeCorrect`, `FileAlwaysLoads`, `PolledIsAnswered`, `DecisionsStayCurrent`,
  `WorkerFollowsFile`, from `Loaded` and `Serving` (every configuration on disk,
  read, drafted, booted from or run is one that loads and polls what it answers),
  `Held` (which step has which of the fields), `Remembering` (the cache) and
  `InStep`: while nothing has disturbed the bot, its worker differs from the file
  by just the change that the one request under way is about to push.

The queue, for any batch size and limit: `WritesTypeCorrect`,
`RecordsStayAccounted`, `WaitingStaysScheduled` and `CloseEmpties`. `Closing` says
what a close knows while it waits: a flush of its own has made the queue shorter
and nothing can lengthen it.

The experiments, for any finite set of them and any declaration of conflicts:
`RegistryTypeCorrect`, `ConflictsStayApart`, `CeilingHolds` and
`AdoptionsAreMeasured`. `ShrinkingKeeps` does all actions but `Start`: what was
started only shrinks.

### Only model-checked

Liveness, in every run that states it: leads-to under fairness rests on
`ENABLED`, which the prover does not have. `Topology`, whose properties TLC
evaluates over all topologies of up to three shards.

## 5. Findings

1. `racing_inbound_start`: a switch during the push drain window pumps a poll
   twice; its end is counted twice and the output may close while push lives.
2. `square_poll_history`: a history page without a message ends the drain, and
   older messages behind it are answered.
3. `reply_pipeline_throws`: between the expiry of claims and of the job record a
   redelivered message makes `processInbound` reject after spending a token.
4. `bot_host_session`: a restart asked for while another is connecting is
   folded into it although that one has read the session already. A finished QR
   login or a logout in that window is not picked up.
5. `bot_host_sequence`: a QR login's client writes back the key/value file as it
   was when the login began, so the request sequence number goes back.

Met while modelling, and not the subject of a run of their own:

6. Persistence: a `close` that meets a flush in flight finds the queue no
   shorter and gives up, and what is still queued is neither written nor
   counted, although `write-behind.ts:113` says "Flushes everything remaining"
   (`MCWriteBehind` with `CloseFlushesEverything`). The case its comment at 120
   gives for the exit, a flush that fails, does shorten the queue.
7. Experiments: `conclude('adopt')` on an experiment that is not running switches
   it on past the ceiling and beside one it conflicts with, although
   `registry.ts:28-30` says the registry refuses to switch on "two techniques
   that interact" (`MCExperiments` with `InteractingNeverOn`).
8. Recovery: the rung `restart-worker` is never reached, and the rungs below it
   restart the bot's connection only (`connect.ts`), although
   `recovery-executor.ts:27` says "Stop the process so the supervisor starts a
   clean one". A restart whose connect fails leaves the bot disconnected, with no
   monitor to try again; `CalmIsArmed` excepts it.
9. Push transport: a cancel that reaches the sidecar while it awaits its session
   is lost (`node-h2-sidecar.mjs:178-180`), and the stream stays open with no
   owner (`deaf`). A response that LINE refuses loses its entry without a cancel
   (`h2-transport.ts:289-295`), so its stream stays until LINE ends it.
   `NoOrphanStream` names both. LINEJS gives up on a response after 800 ms without
   aborting the request: accepted later, it makes PUSH ready with nobody reading
   it (296), and its end clears the health of the request that followed. A write
   that throws leaves its entry in `#pushes`.
10. Teardown: the pusher loop of a client that was torn down is never stopped; it
    asks the released transport again, which starts a process for it
    (`h2-transport.ts:232-259`) and opens PUSH beside the new client, and after
    `close`. `OneClientHeld` is therefore about clients, not connections. What
    `connect.ts:196-198` calls a "supervised process restart" that "clears any
    stuck H2 stream" restarts the bot inside the same process.
11. Registry: `release` stops the bot the removed person had when the request
    looked (`server.ts:647`). A bot made by a request of theirs that was already
    under way (`bot-registry.ts:148`), or bound after the look, runs on (`astray`).
12. Registry: a `#resolve` that rejects ends the worker of `startOwned` that called
    it (105-112 have no `catch`), so as many failures as workers leave the rest of
    the bots without a start, although `bot-registry.ts:99-100` says it "Starts
    every bot that already has an owner" (`MCFleetRestore` with `OwnedBotsComeBack`).
    The same holds for all of them when the list itself cannot be read (102), which
    `serve.ts:150` logs (`ServeUnlisted`).
13. Registry: `closeAll` waits for the hosts in the map at that moment. A host
    that an assignment or the restore makes later ends with the process, without
    a teardown; one queued at the gate connects before it closes.
14. Console: rule edits and room selections read, change and write one file
    without a lock, so that of two that overlap one may be lost
    (`rules-store.ts:44`), and the list pushed to the worker may be the older one
    (`server.ts:690-696`). An edit whose list cannot be read after its write
    answers with an error though the file has changed. A selection whose
    directory takes long enough to span a restart is applied to the worker that
    is gone. These are what `disturbed` excepts in `WorkerRunsFile`.
15. Accounts: a PUT sets the password and the role in two transactions, of which
    the second may be refused; the answer of `/api/account/me` has the role of the
    cookie.
16. Dedicated poll: a page without a sync token leaves the cursor
    (`square-poll.ts:292`, `square-fetcher.ts:73`). A poll in rounds filters no ids,
    so the next round emits the same messages again, and the duplicate filter of
    the racer has to catch them. `EmittedOnce` excepts it.
17. Dedicated poll: `#emit` is not guarded by the signal (302, 387-389), and
    `removeChild` leaves the sink, so a page that had settled when `stop` was
    called still reaches the worker. Nothing answered later does
    (`OnlyPagesInHandAfterStop`).

## 6. Plan

Done: the inbound race, the dedicated poll, the reply pipeline, the bot host with
its storage and the connection it implements, the lane pool, the push transport
with the monitor and the recovery ladder, the registry with its accounts and
their refinement, the console with the rules and the configuration, the
write-behind queue, the experiments, the topology; and proofs of every safety
property of the passing runs. Next, in order of weight:

1. Two room switches that overlap (`racing-inbound.ts:111`), with the turns of the
   event loop in which they can; and two workers of one owner, which share no
   claims.
2. An abstract specification of the reply service (each message answered at most
   once within the claims' lifetime) refined by `ReplyPipeline`.
3. The hosts of `Fleet` and the phases of `Supervision` as instances of
   `Connection`, and the properties of `Connection` itself.
4. `LanePool`: samples of a request that outlived its lane's transport
   (`lane-pool.ts:762`) and the bypass with the thresholds as configured (723).
5. `BotHost`: a crash within the debounce (`buffered-storage.ts:113`), which loses
   the last request sequence number, and file operations that fail.

## 7. Not modelled

HTML pages, HTTP routing, cookies and password hashing, `setPassword`, SQL, its
migrations and retention, metrics and logs, benches, the acceptance harness and
the evaluation of experiments, the environment and defaults of the
configuration, the allowlist, `PreparedSlot`, the rung `avoid-lane` (which needs a
baseline that is never set), isolated routes, and the LINEJS client (vendored),
of which the modules have what this code relies on. In what is modelled, I/O on
the files one bot keeps fails in `Console` only, and a crash of the process is a
step of `Fleet` and `Console` only: elsewhere what lives in memory is lost with
it, and the debounced write of the last 250 ms too, as `buffered-storage.ts`
says. The parts left out are I/O, text or measurement, or have no state of the
service. The reasons are given component by component in `PROJECT.json`.
