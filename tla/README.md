# AegisTrader: TLA+ models and proofs

This directory holds a formal model of AegisTrader: the Aegis SDK (`src/packages/aegis-sdk`)
with its examples and reference programs, the developer tools (`src/packages/aegis-sdk-dev`),
and the applications beside it (`src/apps`: the monitor's API and screen, the echo service).
Paths below are relative to `src/packages/aegis-sdk/aegis_sdk` unless they start with `src/`.

## 1. The system

| Component | State it keeps | Operations | Correct if | Modelled by |
|---|---|---|---|---|
| Leader key (`infrastructure/nats_kv_store.py`, `nats_kv_election_repository.py`) | one key per group: owner, last heartbeat, revision; watches | create, get, put and delete with revision, watch; expiry by the broker | it is a lock: taken only when free, freed by its owner or by expiry | `LeaderLock`, `LeaderKey` |
| Sticky-active group (`application/single_active_service.py`, `sticky_active_use_cases.py`, `domain/aggregates.py`) | `is_active`, the election aggregate and its saved copy, a monitoring task | start, stop, heartbeat, monitoring | one instance serves exclusive RPCs; a vacant group gets a leader | `StickyActive`, `ElectionAggregate` |
| Failover monitoring (`infrastructure/election_coordinator.py`, `heartbeat_monitor.py`, `application/failover_monitoring_use_case.py`) | election state and task, leader seen last | start_election with retries and a time limit, release, polling | as above; nobody is told it leads without the key | `Failover` |
| Service life cycle (`application/service.py`) | lifecycle state, handlers, heartbeat task, failure counter | start, stop, heartbeat loop, set_status, registration of handlers | a started service heartbeats, a stopped one is out of the registry | `ServiceLifecycle`, `Handlers` |
| Service registry (`infrastructure/kv_service_registry.py`) | one record per instance | register, update_heartbeat, deregister, list | a listing shows the living and not the dead | `InstanceRecords`, `Names` |
| Discovery (`infrastructure/*service_discovery.py`) | cache entries, watch task, round-robin counters | discover, select, invalidate, watch | bounded staleness, bounded size | `DiscoveryCache`, `Pools` |
| Exclusive RPC and client retry (`application/use_cases.py`) | calls, attempts, answers | exclusive_rpc, call_rpc, execute | a call runs as often as it was sent; what the client is told is true | `Calls`, `Waiting` |
| NATS adapter (`infrastructure/nats_adapter.py`) | connections, subscriptions, commands under way | commands, events, progress, acknowledgement | nothing acknowledged is unhandled | `Delivery`, `Pools`, `Telemetry` |
| Aggregates and values (`domain/`) | status, uncommitted events; names, versions, times | transitions, publication; validation and conversion | events tell the history; keys keep apart what they are for | `Aggregates`, `ElectionAggregate`, `Names`, `ValueTypes`, `Waiting` |
| Configuration and metrics (`infrastructure/config.py`, `in_memory_metrics.py`, `application/metrics.py`, `domain/services.py`) | counters, summaries | record, score, convert | what is accepted converts; what is counted happened | `Waiting`, `Telemetry` |
| Developer tools (`src/packages/aegis-sdk-dev`, `developer/`) | files, issues, one connection | generate, validate, bootstrap | what is reported as written or valid is | `Scaffold`, `DevChecks` |
| Examples and references | heartbeats, work queues, a stream | election by heartbeats, hybrid of core NATS and JetStream, order client | as their own comments say | `HeartbeatElection`, `Hybrid`, `Orders` |
| Monitor API (`src/apps/monitor-api`) | service definitions, a view of the records | create, update, delete, list, cleanup | answers are true, updates are not lost | `ServiceDefinitions`, `InstanceRecords` |
| Monitor UI (`src/apps/monitor-ui`) | what the page shows | polling | it shows one fetch, in the end the last | `Dashboard` |
| Echo service (`src/apps/echo-service`) | sequence counter, metrics | echo in three modes, performance test | counts agree | `Echo` |
| Factories, logging, serialisation; shared contracts | none that changes | wiring, formats | | not modelled |

How they interact.  The instances of a group share a bucket and nothing else.  Within an
instance `start()`/`stop()`, the heartbeat and the monitoring task are asyncio coroutines that
share `is_active` and the saved aggregate, of which each works on a copy it loaded before its
awaits.  The bucket answers calls and feeds watches; any call may fail, also after it was
carried out.  Records in the registry are written by the instances and read by the discovery, by
clients and by the monitor.  Requests, commands and events travel over NATS: requests to one
member of a queue group, commands and events through streams that deliver until acknowledged.

The hard behaviours are listed with their lines in `PROJECT.json` under `hazards`: races for the
key, crashes and restarts with a reused id, revision checks that are not atomic with the write
they guard, events that are missed, late or handled with a stale copy, calls that fail half-way,
elections cut off by a time limit, overlapping starts and stops, late answers after a retry,
names that compose into the same key, and counters that are read for what they do not count.

## 2. Modules

Modules that interact are composed: `StickyActive` extends `LeaderKey`, and `StickyActive` and
`Failover` are each shown to implement `LeaderLock`.  Modules that share no state in the code
are not composed: `MCMessaging`, `MCTools` and `MCValues` put nine, five and five of them beside
each other with a variable `focus`, so that each behaviour is one of one of them and the numbers
of states add up instead of multiplying.  Each such module has its own Init, next-state action
and properties (`CallInit`, `CallNext`, `CallsSound`, ...).

### Election

* `LeaderLock` is what the key promises: a lock over the instances, from
  `ports/election_repository.py`.
* `LeaderKey` has the key, its revision and its watches, and the operations of `NATSKVStore` on
  it.  `leader`, `fresh`: the owner in the leader value, and whether its heartbeat is within the
  5 s of `is_leader_expired`.  `current`: a revision is only ever compared with one read before,
  so the model keeps the callers whose remembered revision is still the present one; a write
  empties the set.  `watching`, `inbox`: open watches and events on their way.
* `StickyActive` has the three coroutines of each instance.  `main`, `heartbeat`, `monitor` say
  where each is: a place is an await, an action what the code does from one await to the next.
  `election`, `hbElection`, `monElection`, `saved` are the status in the copies of the aggregate
  and in the bucket; `is_active` is what `exclusive_rpc` checks.
* `ElectionAggregate` has the same aggregate with seconds: its methods and their refusals, the
  events and their replay, and the three judges of a silent leader.
* `Failover` has the second election.  Each `start_monitoring` makes a `Pair` of monitor and
  coordinator; `monitor`, `election`, `main` say where their coroutines are, `bad` counts the
  failures of a monitor, `told` is what the status callback heard last, `cuts` and `lapses` count
  elections cut off and expiries.

| Code | Actions |
|---|---|
| `SingleActiveService.start`, `StickyActiveRegistrationUseCase` | `StartService`, `LoadElectionState`, `AttemptLeadership` / `AttemptFails`, `LearnLeader`, `SaveElectionState`, `RegisterInstance` / `RegisterFails` |
| `SingleActiveService.stop`, `release_leadership` | `StopService`, `ReleaseLookup`, `ReleaseDelete`, `FinishStop` |
| `StickyActiveHeartbeatUseCase`, `update_leadership` | `HeartbeatLoad`, `HeartbeatVerify`, `HeartbeatCompare`, `HeartbeatWrite`, `HeartbeatFinish` |
| `StickyActiveMonitoringUseCase` | `StartWatch`, `ReceiveEvent`, `MonitorStepDown`, `MonitorElect`, `MonitorWon`, `MonitorLost`, `MonitorSave`; errors `MonitorRefused`, `MonitorFails`, `MonitorElectFails`, `MonitorPublishFails`, `MonitorEnds` |
| `start_monitoring`, `stop_monitoring`, `trigger_manual_election` | `StartMonitoring`, `InitialElection`, `StopMonitoring`, `ReleaseLookup`, `ReleaseDelete`, `TellLost`, `LostPublished`, `ManualElection` |
| `_monitor_loop` (what comes after `leader_info.get` is never reached, section 5) | `LookAtLeader`, `RoundFails`, `NextRound` |
| `_run_election`, `start_election` | `LookBeforeCreate`, `PutLeaderKey`, `TellElected`, `ElectedPublished`, `ElectionTimesOut` |
| process, clock, broker | `Crash`, `Aging`, `Expiry`, `LeaderKeyExpires` |

Constants say in what surroundings the election runs.  `LeaseExpires`: the bucket drops
unrefreshed keys (`NATSKVStore` creates buckets that do not, but connects to any it finds).
`ExpiryNotifies`: watchers see a marker then.  `HeartbeatDriven`: something calls
`_update_registry_heartbeat`; nothing in the package does.

### Services, registry, discovery

* `ServiceLifecycle`: `start()` and `stop()` called by several tasks that overlap, the hooks,
  each start's heartbeat loop, `set_status` and the update it schedules, and the record.  A put
  or a delete takes effect when it is sent; its reply comes later or never.
* `Handlers`: `HandlerRegistry` while `start()` subscribes from shallow copies of it.
* `InstanceRecords`: records of instances that beat, crash, return and deregister; readers that
  list key by key; the cleanup script that judges what it read earlier.
* `Names`: what the validators accept, the keys and subjects composed of it, and the listings
  that take them apart again.
* `DiscoveryCache`: requests that await the registry between looking into the cache and filling
  it, eviction, invalidation, the watch loop with its reconnections.  What the registry says of
  a service is a version number, so "older" can be compared; `Nothing` is the empty list that
  stands for a failed call.  `InnerRaises`: the wrapped discovery raises when the registry
  fails; `BasicServiceDiscovery` does not, another `ServiceDiscoveryPort` may.  `KeysDotted`:
  registry keys have the form the watch handler splits; those of `KVServiceRegistry` do not, so
  `TRUE` stands for another registry on the same port.
* `Pools`: the adapter's round robin over connections, `RoundRobinSelector`, and
  `SimpleConnectionPool` of the clustering example.

### Messages

* `Calls`: plain and exclusive methods, instances that are elected, deposed, end and return,
  requests queued, running, answered or lost; the two clients (`Service.call_rpc`,
  `RPCCallUseCase.execute`) with retries.
* `Waiting`: the same retries, and the phases of a failover, with time in units of 10 ms.
* `Delivery`: `send_command` and `publish_event`, their repeated publication, copies in a
  stream, acknowledgement, progress, completion and the sender's subscriptions.
* `Aggregates`: overlapping use cases on one `ServiceAggregate`, and who publishes its events.
* `Orders`, `HeartbeatElection`, `Hybrid`, `Echo`: the order client, two examples of
  single-active groups without a lock, `HybridNATSDemo`, the echo service with its performance
  test.

### Tools and values

* `ServiceDefinitions`: requests to the monitor API, each a chain of bucket calls.
* `Dashboard`: polls that overlap, overtake each other, fail and hang.
* `Scaffold`: two generators writing file after file into one directory, failing half-way.
* `DevChecks`: three configuration checkers and the bootstrap over one connection adapter.
* `ValueTypes`: `Version`, `Timestamp`, `Duration` under sequences of operations: comparisons of
  instants that are written in different zones, arithmetic, conversions between units.  Minutes
  and hours, whose quotients are not exact (62 s come back as 62.00000000000001), are left out.
* `Telemetry`: timers, counters, summaries, and the heartbeat's verdict from them.

### For TLC and TLAPS

`MCStickyActive`, `MCFailover`, `MCServiceLifecycle` add symmetry sets; a `SYMMETRY` is used in
`sticky_exclusive`, the one without a temporal property over fairness.  `DiscoveryCache` is run as it is.  `MCMessaging`,
`MCTools`, `MCValues` are described above.  `StickyActiveProofs`, `FailoverProofs`,
`ServiceLifecycleProofs` hold the theorems of one module each, `ToolsProofs` those of
`DiscoveryCache`, `ServiceDefinitions`, `DevChecks` and `Scaffold`, `CallsProofs` those of
`Calls`, `Pools`, `Handlers`, `Aggregates` and `Hybrid`, `DeliveryProofs` those of `Delivery`,
`Orders`, `Echo`, `HeartbeatElection` and `InstanceRecords`, `ValuesProofs` those of
`ElectionAggregate`, `Waiting`, `Names` and `ValueTypes`.  `Recursion` has induction in a form this prover can
use: over sets of numbers, and with the step of a recursive function given as a function value.

## 3. Runs

A property whose name ends in `Sound`, and `NothingIsLeft` and `WatchKeepsUp`, is the
conjunction of a module's type invariant and its properties, each of which is a definition with
a comment of its own; a counterexample names the conjunction, and evaluating its parts in the
last state tells which.  No type invariant is run alone: those of `StickyActive`, `Failover`,
`ServiceLifecycle` and `DiscoveryCache` are proved instead, and the others are parts of what is
run and, where section 4 has a theorem, proved too.

| Run | Setting | Properties and their parts | Shows |
|---|---|---|---|
| `sticky_exclusive` | 3 instances used once, no expiry, no heartbeat, 1 failing call | `ActiveHoldsKey`, `ImplementsLock` | the deployment the code creates: an active instance owns the key until it has released it, through races, failovers, failures and crashes |
| `sticky_driven` | 2 instances, expiry, driven heartbeat, 1 failing call, fair | `RevisionOwned`, `ReleaseOnlyOwn`, `LostLeaderForgets` | even where the heartbeat may overwrite another leader, a revision that passes the check of `kv.delete` is the caller's own; the heartbeat finds out about a silently lost key and saves that, unless a call fails on the way |
| `sticky_failover` | 2 instances, restarts, expiry that notifies, no heartbeat, fair | `StaleLeaderStepsDown`, `StandbyTakesOver` | without a heartbeat, an active instance that watches while another holds the key stops being active; a stand-by told of a departure sees to a new leader |
| `failover` | 2 instances, 2 attempts, 2 failures in a row, 1 trouble (failing call, cut-off election or expiry), fair | `ActiveHoldsKey`, `KeyIsLock`, `OwnKeyFound` | nobody is told it leads without the key until it expires; the key is a lock; a create reported as failed is found out |
| `service` | 2 tasks, 2 starts, 2 failures in a row, 1 change of status, 2 troubles, fair | `HealthyBeats`, `RemovedStaysRemoved`, `StopEndsBeats`, `RecordFollows` | a healthy service has a heartbeat under way; a stop that deregistered is not undone; it ends the loop; a record that is lost, or does not show UNHEALTHY, is written again |
| `cache` | 1 service, so 2 keys for 1 place, 2 requests, TTL of 2 ticks, 1 failing call, 2 attempts of the watch, fair | `CacheBounded`, `FailureServesCache`, `AnswersCatchUp`, `WatchKeepsUp` (`WatchComesBack`, `ChangeClearsCache`) | concurrent fills keep to `max_entries`; a failed call is answered from the cache; late stores and missed events are repaired by the TTL; the watch comes back and clears what it missed |
| `messaging` | see the bounds | `CallsSound` (`RunsBounded`, `OkMeansRun`, `NotActiveRanNothing`), `DeliverySound` (`GoneMeansHandled`, `LastReportTrue`, `ToldTrue`, `SubscriptionsEnd`), `AggregatesSound` (`EventsAccountedFor`, `EventsTellStatus`, `FirstPublishedInOrder`), `HandlersSound` (`WantedIsServed`), `PoolsSound` (`LiveLinkFound`, `InstancesTakeTurns`, `LentOnce`), `ElectionsSound` (`SplitIsShort`, `GroupRecovers`, `OneOrderAtATime`, `DoneMeansHandled`), `HybridSound` (`NoSecondRun`, `AckedMeansHeard`, `OrdersSurvive`), `EchoSound` (`ClientCountsOnce`, `NumbersFollowOrder`, `MetricsTell`), `OrdersSound` (`RepeatsNeedDelays`, `SilenceNeedsDelays`), `NothingIsLeft` (`EveryCallEnds`, `StoredIsHandled`; fair) | what clients, publishers and counters are told is true, through leader changes, late and lost answers, redelivery, crashes and overlapping executions; every call ends and every stored message is handled |
| `tools` | see the bounds | `ListingSound` (`DeadIsNotShown`, `LiveIsShown`), `RecordComesBack`, `DefinitionsSound` (`AnswersAreTrue`, `GuardedUpdateIsFresh`, `NeverUndone`, `OnlyDeleteDeletes`), `ScreenSound` (`ScreenIsOneFetch`, `ScreenCatchesUp`; fair), `ProjectsSound` (`ReportedIsWritten`, `GeneratedIsValid`, `ImageHasItsFiles`), `ChecksSound` (`RulesAgree`, `ProjectsCanRun`, `VerdictTells`, `NoneForgotten`) | overlapping requests to the monitor, listings of many calls, the page, the generators and the checkers |
| `values` | see the bounds | `BallotSound` (`ActiveLeads`, `EventsTell`, `NoFalseAlarm`), `WaitsSound` (`ConfigConverts`, `WaitBounded`, `ElectionFits`), `NamesSound` (`PlainListed`, `ListingsAgree`, `GroupKeysApart`, `NoCrosstalk`), `ValuesSound` (`CompatibleUntilMajor`, `BumpsAreOrdered`, `InstantKept`, `TextAddsUp`, `VersionsAscend`), `TelemetrySound` (`SummaryTells`, `TimedOnce`, `ScoreFalls`, `HealthIsEarned`, `UnhealthyHasCause`) | seconds, names, versions, times and metrics over sequences of operations |
| `restored_leader` | 2 instances with a restart | `AtMostOneActive` violated | a leader that crashes with ACTIVE saved takes the restored status for leadership, next to its successor |
| `uncontested` | 2 instances, 3 failures in a row, no trouble, fair | `LossContested` violated | a monitor fails in every round that finds a leader, and when the leader has left contests nothing |
| `not_retried` | as `messaging` | `NotActiveRetried` violated | NOT_ACTIVE arrives as the result of a successful response and is returned, not retried |

Every property of the passing runs has a mutant in `PROJECT.json`: an operator of the module,
marked "Mutant of" there, that stands for a plausible slip in the code (a plain put for the
create, a dropped owner check, a list looked up again after an await, ...) and that makes the
run fail.  A conjunction has one mutant, which breaks one of its parts.

No run but `cache` looks for deadlock: a service nobody starts again, a call that has ended, a
request made once do nothing more, and the bounds stop the rest.

### Bounds

* `sticky_*`, `failover`: three instances for mutual exclusion (two race while a third leaves),
  two elsewhere; the others act like one of them.  `MaxStarts` is 2 where a restart matters.
  One fault lets any single call fail anywhere, before or after it was carried out.  `MaxLag`:
  time passes, services start and heartbeats begin only while no watcher is this many events
  behind.
* `service`: two tasks give every overlap of start with start and with stop; two failures in a
  row reach the limit.
* `cache`: two requests race for a fill.  One change of a service that may be registered already
  is enough for an old and a new answer; a TTL of 2 tells a fresh, an aged and an expired entry
  apart.  `MaxFaults` stays below `MaxAttempts`, for `WatchComesBack` is about a watch with
  attempts left.
* `messaging`: one call with two retries and two instances, of which three moves (elected,
  deposed, ended, returned) and two troubles are enough for a late answer after a change of
  leader; one message with up to three copies; two executions that overlap and three events;
  connects of three connections each, up to six at a time (`MaxLinks`), so that a turn may lie
  beyond a later list; three targets and borrowers, for a turn that skips one; sixteen seconds, beyond
  the silence that starts an election; a stream of three messages, which reports fill. The
  fairness of `Calls` and `Delivery` holds trivially of behaviours with another focus.
* `tools`: three requests, so that two overlap with a third between their calls; two instances,
  two fetches, two generations of five kinds of project, a sound configuration with any one
  thing different.
* `values`: every lifetime the constructor accepts and two beyond; delays, factors and jitters
  that reach each branch; seven names, of which three make keys ambiguous; latencies on both
  sides of each threshold, three of them, and two counts of the bucket or the election
  (`MaxOthers`), which is two lost races or one race and one success.

### Fairness

The event loop runs what is ready, a broker answers, and clocks tick.

* `StickyActive`: weak fairness of each coroutine of a live instance, of the ageing of a lease
  nobody refreshes, and of expiry in a bucket that expires.  Only steps in which no call fails
  are asked for; nobody has to be started, stopped or crash.
* `Failover`: weak fairness of monitor and election, again without faults.  The counterexample
  of `uncontested` is one under this fairness.
* `DiscoveryCache`: weak fairness of each request under way and of the watch task; nobody has to
  call.  `AnswersCatchUp`, which is about the TTL, has a running clock as its premise.
* `ServiceLifecycle`: weak fairness of a call under way, of each heartbeat loop, and of the
  scheduled status update.
* `Calls`: weak fairness of the client and of the handler.  `Delivery`: weak fairness of the
  sender; strong fairness of the handling of a copy, for a stream delivers again whatever was
  not acknowledged, and between deliveries the handler is not enabled; the number of faults is
  bounded.
* `InstanceRecords`: weak fairness of the clock and of each beat that is due.
* `Dashboard`: weak fairness of the answers of a request that does not hang, and strong fairness
  of a poll that starts a fetch without "loading" (the interval fires for ever, but a fetch slot
  may be taken each time in the model).

## 4. Proofs

All theorems hold for every value of the constants that satisfies the module's assumption, the
one ASSUME of each module (`KeyAssumption`, `StickyAssumption`, `FailoverAssumption`,
`ServiceAssumption`, `CacheAssumption`, `CallsAssumption`, `PoolAssumption`,
`HandlersAssumption`, `AggregateAssumption`, `HybridAssumption`, `DeliveryAssumption`,
`OrdersAssumption`, `EchoAssumption`, `ElectionAssumption`, `RecordAssumption`,
`WaitingAssumption`, `NamesAssumption`, `ValueTypesAssumption`, `DefinitionAssumption`,
`DevChecksAssumption`, `ScaffoldAssumption`).  They say little more than that the limits are
numbers, names are not empty, "no one" is not an instance, requests are finitely many, and
projects and configurations are of the kinds the tools know.  Each proof has one lemma per
action, and under it one step per conjunct of the invariant the action can disturb.

`StickyActiveProofs`
* `TypeCorrect`, one lemma per coroutine.
* `StepKeyMove` is the lemma the rest leans on: a step keeps the key, reads it, takes a free
  one, rewrites it from a heartbeat, deletes the revision a release read, or lets it lapse.
* `RevisionsAreOwned`, `ReleasesOnlyOwn`: `RevisionOwned` is inductive, because every write
  empties `current`.
* `KeyIsLock`: assuming `~HeartbeatDriven`, `Spec => ImplementsLock`, with `holder <- leader`.
  Without the assumption it is false: the heartbeat's check-then-put may overwrite the next
  leader.
* `ActiveOwnsKey` and `OneActive`: assuming `~LeaseExpires`, `~HeartbeatDriven` and `MaxStarts =
  1`. `ActiveHoldsKey` is not inductive: the outcome of an election travels from the create to
  `is_active` through local variables (`Elected`), and an id in its first life finds nothing
  saved (`FirstLife`); `ExclusiveInv` adds both.  `restored_leader` shows that `MaxStarts = 1`
  is needed.

`FailoverProofs`
* `FailoverTypes`, `ToldHoldsKey` (`ActiveHoldsKey`) and `FailoverKeyIsLock` (`KeyIsLock`) from
  one invariant. `Counted` adds the troubles up, `Paired` says that only pairs that were made
  have elections and monitors and that the use case remembers the last one or none, `Trying`
  that a monitor that goes on has a failure left. The two that matter hold until the key first
  lapses: `Deleting`, a release about to delete found its own name there, and `Leading`, who was
  told it is active, or is about to be told, owns the key. After a lapse the delete without a
  revision may hit another's key; that is why both properties name `lapses`.

`ServiceLifecycleProofs`
* `LifecycleTypes`, and `HealthyServiceBeats` (`HealthyBeats`). `Numbered` says that a call of
  start() carries the number of a start and has made its instance record before it registers,
  `LoopsHold` that a loop sends one, `BeatsOrFailed` that a STARTED service that was never
  stopped beats or has its failure counter at the limit: `HealthyBeats` does not mention the
  counter, and is not inductive without it.
* `RemovedRecordStaysRemoved` (`RemovedStaysRemoved`), an action property.  `LatestRests`: once the
  shutdown event is set the loop that is `_heartbeat_task` sends no more; so a loop that writes
  the record again is another one.

`ToolsProofs`
* `TypeCorrect` with `AttemptsLeft` (a loop that goes on has attempts left; without it the
  counter could pass its limit).  `CacheStaysBounded`: entries are stored only by a `Fill`
  (`KeysMove`), and what survives one is at most `max_entries` from any state (`FillBounded`).
* `RaisingInnerServesCache`: assuming `InnerRaises`, `FailureServesCache`; over
  `BasicServiceDiscovery` it is false (section 5).
* `RequestsAreAnsweredTruly` (`DefinitionsSound`), for any number of requests and failing calls.
  `SeenFits` says what a request has witnessed in each place: a write shows every request under
  way what it leaves, so what a request read is among what it witnessed.  `BaseFits`: what an
  update loaded is there still, or a request that had not ended when it began has written since;
  and if it is not there, the revision has passed the one the client named.  The bound on the
  revisions needs a count: only requests that have ended have written.  `NeverUndone` names the
  last writer; a form of it that asked only whether *some* field came from an overlapping
  request holds for three requests and fails for four, as this proof showed and TLC confirmed.
* `VerdictsAreTrue` (`ChecksSound`): `VerdictFits` says which errors there can be in each place of a
  validation, `AdapterFits` that a connect under way, with no other and no refusal, has nothing
  open beside it.
* `ProjectsAreSound` (`ProjectsSound`): the lists of files are concatenations of a dozen parts, and
  most lemmas say of a part which paths it writes and in which order (`Before`). `Progress` says
  that what is written is the beginning of the list, and for each file which write of its path
  stands; `MainIsLast`, that the program comes after the modules it imports, is what makes
  `Missing = {}` mean more than the validator looks at.

`CallsProofs`
* `CallsAreSound` (`CallsSound`), for any number of instances, calls, retries, moves and
  troubles.  The bound on runs needs a count: `Taken` is the set of attempts that may have
  entered the handler, `RunsFit` says a call ran at most as often as it has members,
  `RequestsFit` that attempts beyond those sent are unused, `ClientFits` ties place, attempt and
  result.  An instance that ends loses its requests but takes no attempt out of `Taken`.
* `CallsAreSharedOut` (`PoolsSound`), for any number of links, connects, targets and borrowers.
  `LinksFit`: whose turn it is lies within the connections there were when it was set (`circle`),
  so a turn is beyond the list only if there are fewer now.
  `LentOnce` rests on the lock in `LendsFit`: a borrower that is connecting has it alone, and the
  pool is not full then.  `InstancesTakeTurns` rests on `Turns`: the places picked since a
  target's last turn are those from there to the index, taken round the list, which is
  arithmetic modulo a length the prover does not know; `ModStep` and the lemmas after it do it.
* `HandlersGetServed` (`HandlersSound`): `Kept` says where a wanted handler is in each phase of
  start(): in the registry, in the copy start() made, in a list beyond the place the loop has
  reached, or subscribed.  The lists are shared with the copy, the dictionaries are not; that is
  why methods and patterns have different cases.
* `EventsAreSound` (`AggregatesSound`), for any number of executions: `LivesFit` says that what
  is uncommitted belongs to the aggregate that holds it, `BatchFits` that an execution has, of
  the events of its aggregate older than one it copied, all that are not out yet.
* `HybridKeepsItsWord` (`HybridSound`): the three kinds of traffic share no state, so the
  invariant is a conjunction of three and each action disturbs one.

`DeliveryProofs`
* `DeliveryIsSound` (`DeliverySound`), for any number of messages, publications and faults.
  `OneInHand`: the subscription's task holds one copy at a time, so what a run says of its
  command is what was said last; without it a second run could overwrite "completed" while the
  first is being acknowledged. `CopiesFit` reads a copy's history off its place: the copies are
  stored in order, one past the handler means the handler finished, all gone means the last
  report was "completed" unless a copy was delivered again while it was held.  `HeldOnce`: a copy
  that never was, waits or is in hand once, and only while the stream awaits its
  acknowledgement. `SenderFits`: no more copies than publications, and only a tracked
  command subscribes or waits.
* `OrdersAreCountedRight` (`OrdersSound`), for any number of orders and elections.  Every attempt
  of an order that was not answered in time cost a delay, but for the one that may still be:
  `Waited` counts those of the present order, and the sum of the silent orders' attempts and
  `Waited` is at most the delays.  An order is asked for once more only after one (`Asked`).
* `EchoNumbersAreRight` (`EchoSound`): a replica's counters are the sizes of the sets of its
  requests that were taken, answered and refused, so adding to a counter is adding an element to
  a finite set; the ranks say who got which number.
* `OneIsActiveSoon` (`ElectionsSound`), for any number of nodes and any mishaps.  `RolesFit` says
  who has which timers, `Paid` and `GapGrows` bound how long a split lasts and how long silence can go on:
  every standby's clock is at least as old as the gap since the last heartbeat, so one of them
  acts within a period of the silence's end.  `HeldCounted` counts the holders of orders by the
  mishaps so far.
* `ListingsAreRight` (`ListingSound`), for any number of records and any `Stale`: a record is at
  least as old as its instance is gone (`Aged`), who was fit to be shown since the reading began
  is in the answer or still to be read (`StillFit`), and a run of the cleanup script that began is
  one the bound allows.

`ValuesProofs`
* `ActiveIsLeader` (`ActiveLeads`), and `PunctualLeaderIsAlive` (`NoFalseAlarm`): the invariant
  `SignOfLife` says how old a sign of life is from how long ago the last heartbeat was sent and
  how many were lost since, and the theorem follows from the integer division by three in the
  heartbeat's interval.
* `BallotIsSound` (`BallotSound`) adds `EventsTell`, that a replay of the events gives the
  status.  The replay is a recursive function over a sequence of any length: `ReplaySolved` says
  it has the values of its recursion, `ReplayAppended` that appending an event adds its effect;
  both come from `Recursion`, by induction over the set of numbers up to which they hold.
* `WaitsAreBounded` (`WaitsSound`), for every configuration and any number of retries:
  `ElectionFits` needs `Unhurried`, how much of the time limit an election without slow calls has
  used before each attempt.
* `NamesKeepApart` (`NamesSound`), for names of any characters and length.  `key.split("__")` is
  written without recursion: `Cuts` is the set of places where a separator is cut, those an even
  distance into a run of underscores, and only the first and the last part are ever used.
  `LastCut` and `FirstSeparator` say where the cuts of a key of plain names are, `KeyComesApart`
  and `KeyIsOf` that such a key tells its service and its instance, and `CutAtDot` that the
  leader and state keys tell theirs, since what stands before their full stops has none.  It
  does the same for subjects (`NoCrosstalkHolds`), where a second token without a full stop is
  a premise: the domain of an event may have one.
* `ValuesKeepTheirMeaning` (`ValuesSound`), for any number of operations.  The sum of the parts a
  duration is written in is a recursive function, `SumAppended` its step, from `Recursion`;
  versions stay ordered because every bump gives a greater one, and `VersionFits` relates each
  to the one it was bumped from.

Only model-checked:

* The liveness properties, and the parts of other properties that rest on fairness; the prover
  has no rule for ENABLED.  Among them are `LostLeaderForgets`, `LossContested`, `OwnKeyFound`,
  `StopEndsBeats`, `RecordFollows` and the `ScreenCatchesUp` of `ScreenSound`.
* `ScreenIsOneFetch`, the other part of `ScreenSound`, which is not proved yet.
* `TelemetrySound`: its percentiles are indices into a sorted sequence, and that `SortSeq` sorts
  every sequence is an induction nobody has written; `ScoreFalls` also needs `MaxTimed <= 100`,
  as its comment says, where the runs have less.

## 5. Disagreements met

Three have a run and are listed under `findings`.  Others are in the models as the code has them:

* Election.  A stand-by that is refused an election stays ELECTING and its monitor ends
  (`domain/aggregates.py:321`, `sticky_active_use_cases.py:580`; the comment at `:599` has it
  "wait before retrying"), so a group may stay vacant.  The heartbeat that finds the leadership
  lost reports success, and `is_active` stays true.  With a driven heartbeat and expiry, the
  check-then-put overwrites the next leader.  `put` ignores its TTL and the bucket is made
  without expiry, so the key of a leader that died stays.  The leader key and the state key
  contain dots, which `_validate_key` refuses (`nats_kv_store.py:66`): the model is of the
  protocol on an adapter that accepts them.  `SingleActiveConfig` accepts lifetimes of 1 and of
  10 and more that the aggregate's constructor refuses, and `StickyActiveConfig` delays that
  `to_retry_policy` refuses.
* Failover.  The store returns a `KVEntry`, which has no `get`, and `heartbeat_monitor.py:168`
  calls `leader_info.get("instance_id")`: every round that finds a leader raises, this instance's
  own key included, the third ends the monitor, and `_current_leader` is never set.  So no
  monitor ever asks for an election (`uncontested`), and `_check_heartbeat` with the same call at
  `:233`, `_handle_heartbeat_expiration` and `_handle_leader_loss` are never reached; the unit
  tests hand the monitor dictionaries.  `Waiting` has the times of these handlers as they are
  meant.  The monitor, the coordinator and the use case `await` their logger, whose shipped
  implementations are synchronous; the model takes an awaitable one, as the tests do.
  `release_leadership` deletes without a revision; a second `start_monitoring` leaks
  the first pair; `stop_all_monitoring` does nothing, for `_monitoring_tasks` is never filled;
  `is_elected()` stays true after the key is lost.
* Service.  `_shutdown_event` is never cleared, so a service that is started again has no
  heartbeat; `set_status(SHUTDOWN)` raises after it has changed the status; a stop during a
  start ends in FAILED over STOPPED with the record left; handlers registered after the start
  are never subscribed.
* Discovery.  A request that read before an invalidation stores after it; a failed registry call
  is cached as an empty list (`basic_service_discovery.py:85`); the watch filters on
  `service-instances.` while keys begin with `service-instances__`, and a DELETE event carries
  no entry, so a removal invalidates nothing.
* Calls and messages.  `src/packages/aegis-sdk/README.md` promises "Exactly-once processing
  (idempotency keys)" for commands; nothing removes duplicates.  Errors that are not retryable
  are retried; `max_retries` counts attempts.  `exclusive_rpc` alone registers a handler that
  nothing subscribes.  A handler that is slower than the stream's ack_wait is run again even
  though its late acknowledgement is accepted, and the run that comes after it may report
  "failed" for a command that is done.
* Connections.  `connect()` does not look whether it was called before and adds `pool_size` more
  connections; `disconnect()` keeps `_current_conn`, so that with fewer connections afterwards
  (a connect that failed half-way, or fewer connects) `nats_adapter.py:119` raises an IndexError
  though there are live ones.
* Hybrid: every instance answers a call and the first answer wins; reports that nobody consumes
  evict commands.  Echo: error answers are counted as successes by the client.  Orders: an exclusive
  handler's answer comes wrapped in an `ExclusiveRPCResponse` (`single_active_service.py:315`),
  so `result["order_id"]` (`sticky_active_client.py:256`) raises a KeyError for every answer, of
  an order that was processed as of a NOT_ACTIVE: the client counts every order as failed, and
  retries none that was answered.
* Names: `__` separates names that may contain it; `list_instances("x")` lists instances of
  `x_`; a service called `progress`, `callback` or `cancel` collides with command subjects; domains and
  types of events and targets of commands may contain full stops, which nothing refuses, so an
  event `b.c` of the domain `a` and one `c` of `a.b` share the subject `events.a.b.c`; `Foo` and
  `foo` share a leader key.
* Metrics: the score reads a counter nobody writes, so one failed event makes it 0 for ever.  It
  adds up whatever ends in `.success` and `.error`, and the bucket counts an error for every
  create that finds its key taken (`kv.put.error`): a service that lost two races for the
  leadership and has one success to show is reported unhealthy.
* Monitor: two creates may both answer 201; the cleanup task never cleans; the cleanup script
  deletes records of living instances.  Tools: the quickstart's Dockerfile copies requirements
  that are never written; "docker" is an environment for one checker and unknown to the others.

## 6. Not modelled

* Factories, logging, serialisation, shared contracts: wiring and formats, nothing over time.
* What a run could only read back as it was written: metadata, log lines, console output, the
  text of generated files, rendering.
* `aegis_sdk/examples/quickstart` and some examples import modules or call methods the SDK does
  not have, and `sticky_active_service.py` replaces an attribute by a method: they cannot run
  against this SDK.  The monitor's `sdk_monitoring_adapter` is of the same kind.
* Test runners and their reports, kubectl and port-forwarding processes.
* nats.py and the NATS server beyond what the code relies on: these are the definitions marked
  external in `PROJECT.json`.
* In the modelled parts: cancellation between two statements of the aggregate, hit counters, TTL
  helpers of the store that nothing calls, subjects with wildcards in `Names`.  A second start of
  failover monitoring in one instance is in the model and its proofs, but in no run.

## 7. What could follow

* Proofs for `TelemetrySound`, with lemmas about sorted sequences, and for `ScreenIsOneFetch`.
* A common abstract specification of "one active instance" for `StickyActive`, `Failover` and
  `HeartbeatElection`, with the last one's short split as its allowance.
* `Calls` over `StickyActive`, where `active` moves as the election moves it rather than freely.
