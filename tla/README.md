# A verification project for Gulpo

TLA+ models of Gulpo's core logic, the TLC configurations that check them on
small instances, and proofs of their main properties for every instance.
`PROJECT.json` lists components, runs, theorems, hazards, findings, and the
source lines every definition stands for.

    tlc -config NodeAgent_safety.cfg MCNodeAgent.tla
    tlapm NodeAgent_proofs.tla

## The system

Gulpo is a control panel for sing-box proxies. The panel API (Go, Postgres)
keeps users, nodes, configurations and usage. On every node an agent (Go) pulls
its configuration and commands from the panel, runs the local sing-box process,
and reports heartbeats, usage, sessions and events. Users fetch subscriptions
from the panel; the administrator works through a web UI.

| component | state | operations | interacts with |
|---|---|---|---|
| agent loop (`agent.go`, `state.go`) | `RuntimeState` in memory and in `state.json` | bootstrap, sync, applyDesired, runCommand, collectTelemetry | panel by HTTP, driver by calls |
| driver (`singbox.go`) | `cmd`, `waitDone`, a mutex, the config file, the process | Validate, Apply, EnsureRunning, Restart; a watcher goroutine per process | agent, operating system |
| traffic accounting (`agent.go`, `postgres.go`) | counters, pending records, `usage_records` | snapshot, flush, SaveUsageBatch, DeleteUser | sing-box stats, panel |
| command queue (`postgres.go`, `router.go`, `agent.go`) | `node_commands` | create, list pending, run, report, complete | administrator, agent |
| global configuration (`postgres.go`) | table `global_config` | GetGlobalConfig (reads, and writes), UpdateGlobalConfig | every request that builds a configuration |
| node status (`postgres.go`, `router.go`) | `nodes.status`, `last_seen_at`, `node_events` | enroll, touch, reconcile, PATCH, DELETE | agent, admin pages |
| subscription devices (`postgres.go`, `router.go`) | `user_subscription_devices` | record, look up, count, insert | user requests, admin |
| session presence | `user_node_session_presence` | push, replace, count | agent, admin pages |
| access rules, node configuration | users, tags, allowed nodes, protocol access, nodes | eligibility, desired configuration, subscriptions, edits | all of the above |
| configuration merge, sanitising | none (pure) | mergeMap, mergeInboundArrays, sanitizeNodeOverrideJSON | access rules |
| user secrets | encrypted columns of `users` | generated when first read | subscriptions, node configuration |
| login, camouflage proxy, web UI, deployment | | | |

The agent is one goroutine, so its own steps are in order; what interleaves with
them is sing-box, the watchers, the network, the panel and crashes. The panel
runs one handler per request; almost no operation holds a transaction across its
statements, so every statement is a step of its own.

### What is hard, and what correct means

* Accounting: requests are retried without an id, sing-box's counters restart,
  the state file is written in place, users are deleted under pending records.
  *Nothing saved is lost; overcharging is bounded by failures.*
* Configuration apply: the candidate is written over the file sing-box starts
  from before it is checked. *The agent is always back on a known good
  configuration, never runs a rejected one, and can come back from any crash.*
* Commands: at-least-once. *Repeated only by failures; results only for what ran;
  every command ends.*
* Driver: mutex, goroutines, timers, signals. *One known process, no deadlock.*
* Devices, global configuration, node status: check-then-act and
  read-modify-write by concurrent requests. *What is left of limit, save, status
  and log under these races.*
* Access: what a node admits and what a user is offered are computed by separate
  code, from tables read one statement at a time, some of whose errors are
  ignored. *The two agree when nothing changes; nobody is let in who never was
  entitled; who loses access is gone and who gets it is there in the end; an edit
  undoes no suspension it did not race with.*
* Session presence: snapshots without a number, stored late, twice at a time, or
  not sent at all because they would be empty. *Nobody is shown online long after
  leaving, who stays is shown, and rows are those of one snapshot.*
* Configuration merge: inbounds are matched by tag or type, in place, from two
  documents saved apart. *A node gets what was saved, each inbound once.*

## Modules

| module | models | run modules | proofs |
|---|---|---|---|
| `UsageReporting` | traffic accounting, from counter to ledger | itself | `UsageReporting_proofs` |
| `SubscriptionDevices` | the device limit of one user | `MCSubscriptionDevices` | `SubscriptionDevices_proofs` |
| `Singbox` | abstract: file and process the driver promises | used by the next two | |
| `SingboxDriver` | the driver, its watchers and the processes | itself | `SingboxDriver_proofs` |
| `CommandQueue` | abstract: what the panel's queue of commands promises | used by the next one | |
| `NodeAgent` | agent, state file, commands; the driver through `Singbox` | `MCNodeAgent` | `NodeAgent_proofs` |
| `Presence` | sessions, from sing-box over agent and panel to the pages | itself | `Presence_proofs` |
| `GlobalConfig` | table `global_config` and its requests | `MCGlobalConfig`, `MCNodeConfig` | `NodeConfig_proofs` |
| `ConfigMerge` | the pure merge, and a reference definition of it | used by the next one | `NodeConfig_proofs` |
| `NodeConfig` | `GlobalConfig` with one node's override and requests | `MCNodeConfig` | `NodeConfig_proofs` |
| `NodeStatus` | status and event log of one node | itself | `NodeStatus_proofs` |
| `AccessRules` | the pure rules: what a node admits, what a user is offered | used by the next one | `Access_proofs` |
| `Access` | the requests that read and write the tables of the rules | `MCAccess` | `Access_proofs` |

`SingboxDriver` implements `Singbox` (checked and proved), and `NodeAgent` takes
its driver steps from `Singbox` (`Driver!Write`, `Driver!Stop`, `Driver!Start`):
the two compose through it. `NodeAgent` in turn implements `CommandQueue` (checked
and proved). `NodeConfig` extends `GlobalConfig` and `ConfigMerge`, and its runs
check the property of `GlobalConfig` too.

Definitions marked "Broken variant" in their comment, next to the one they vary,
belong to no specification. Each changes one definition the way a
plausible bug would, and is the mutation that a property is known to notice.

### UsageReporting

`counter` is sing-box's v2ray stats, `mem` and `disk` the agent's state, with
the last counters and the pending records; `ledger` is `usage_records` summed per
user and direction. Pending records are bytes per user and direction: a batch is
always all of them and is stored or refused as a whole, so their split and order
cannot matter. `TelemetryTick`, `FetchCounters` (with `Snapshot`), `Save` and the
`Flush...` actions are `collectTelemetry`, `handleTrafficSnapshot` and
`flushPendingUsage`. The panel stores a batch in one transaction
(`SaveUsageBatch`), which a deleted user's foreign key refuses. `served` and
`seen` are history. A user's `traffic_used_bytes` is changed in the same
transaction as the records and is not kept apart.

### SubscriptionDevices

One action per statement of `handleSubscription` and `handleSubj`. A handler
keeps the limit it read at the start (`seenLimit`). Device keys are model values:
those of requests with an identifier, and fingerprints.

### Singbox, SingboxDriver

`cmd` stands for `d.cmd` and `d.waitDone`, which are always assigned together.
The watcher is three steps: `WaitReturns`, `Announce` (the send on the buffered
channel) and `Forget` (under the mutex). The timers are nondeterministic. The
unsynchronised read of `ProcessState` yields the old or the new value; the old
one is the interleaving in which the agent came first. `Running`, the refinement
mapping, is the configuration the living process was started with.

### NodeAgent

`pc` and `job` follow `Run`, `bootstrap`, `sync` and the driver calls of
`applyDesired`. `LastAppliedConfig` and `LastKnownGood` are assigned together, so
they are one field, `applied`. Reports are in `net` until the panel handles them,
maybe late (`GiveUp`) and maybe in part (`Handle`: the errors of
`CompleteNodeCommand` are ignored). `TearState` is the write in place that a crash
or full disk cuts off; the agent then never starts again (`BootFails`), so
`Startable` is a condition of the liveness properties. A bootstrap whose apply
fails ends the process without a save, and the container enrolls again.

What an administrator sees of it is `CommandQueue`: a command is run at least once
before it has a result, at most once more for every failure, and a result is only
replaced by that of another run. In the refinement mapping `failures` counts the
faults and the failed writes, and everything else is the variable of the same
name. A command is `pending` until `CompleteNodeCommand`; as that updates whatever
the status was, a second run can turn `done` into `failed`.

### Presence

`conf`, `sessions` and `moved` are sing-box, `pc`, `active` and `lag` one
collection of the agent (`CollectTraffic`, then `NothingToPush`, `PushSnapshot` or
`SessionsFail`), `push` the requests on their way and their transactions, `rows`
and `age` the table. `UpsertSessionSnapshot` is a transaction of several
statements at READ COMMITTED: `Begin` takes the rows its DELETE sees, `Commit`
removes those and stamps the rest with the time it began, `Refuse` is the foreign
key of a deleted user. Two can be open at a time, as the agent gives up after
20 s and the panel does not (`GiveUp`). `Tick` is time: `lag` and `open` of what is
under way and `age` of the rows grow together, and `MaxLate` bounds the first. A
user is one row: protocol and counts only matter to the pages' totals.

### ConfigMerge, NodeConfig

JSON is a function from keys, a sequence, a string or a number, under a name that
tells which. `MergeMap`, `MergeInbounds`, `Sanitized` and `Normalized` follow the
code, with the index of keys that grows while inbounds are appended (`Merging`, a
function of how many are merged). `mergeMap` calls itself: `MergeMap` is the call
for a configuration, `MergeObject` the one for its fields and inbounds, and the
calls further down are the constant `MergeNested`. In the instance for TLC objects
nest no deeper than its first call, which takes the overlay's fields over the
base's. So nothing is declared recursive, and what is proved holds for whatever is
done below. `Overlaid` is what they are compared with: for every
place of the list it says which inbound is there and which patches it has got,
without an order of steps. In `NodeConfig` a request of a node reads the
node's row, with the override, then calls `GetGlobalConfig` for the protocols
(`Authenticate`), and once more for the configuration (`Build`): what it merges can
be of two times. Configurations stand for their normalised form, which
`NormalAssumption` requires, and have the shape `ShapeAssumption` says; TLC
evaluates both.

### GlobalConfig

A configuration stands for its normalised form. `GetGlobalConfig` is `Select`,
then `Insert` or `Repair`: the column is jsonb, whose text never equals
`json.Marshal`'s, so the guard of the repair always holds. Each handler inserts
under its own id, so two first reads leave two rows. `Broken` is a body that is
no JSON object: it is accepted, never repaired, and fails what builds on it.

### NodeStatus

A request of the node is `Read`, `Touch`, `TellUp` (heartbeat, sync and
enrollment alike); a PATCH is `PatchRead`, `PatchWrite`. A page that shows the
status is one of two kinds: nodes, events of a node and presence summary mark the
node offline first (`Reconcile`, `TellDown`, then `List`); the dashboard summary and
subscriptions do not (`Show`, then `List`), so they show a dead node online for as
long as no page of the first kind was opened. `marked` and `giving` are history: that
a page has marked the node for its last request, and which edits may undo it. Time
is the three-valued `seen`.

### AccessRules, Access

A *view* is what a request has read of the tables; `db` is the view of one who
reads all at once. `AccessRules` has the functions of the panel over a view, under
their own names: `ListEligibleUsersForNode` and `resolveNodeRuntimeConfig` for a
node, `AccessibleNodesForUser`, `buildNodeProfilesForUser` and
`BuildSubscription` for a user. A login is a user in an inbound of a node's
configuration; a profile is what a client gets: an inbound, the user's credentials,
the password composed before them and the one for shadowtls. `Admits` is external:
what sing-box lets in by the configuration. Both depend on the node's `settings`: the
version of shadowtls (below 3 it lists no users and has one shared password), whether
the method of shadowsocks is a 2022 one, whose clients give the inbound's password
too, and the passwords of the two inbounds.

The settings are those a node's override gives (`UpdateNodeConfig`), which is read
with the node's row. A save of the global configuration changes them for many nodes
at once, at a later read; that both sides read it at a time of its own is
`NodeConfig`'s subject and not part of `Access`. Whether sing-box accepts a
configuration is not modelled either: the default one has a 2022 method and no
password for it.

Users and nodes that do not exist yet or any more have rows too, which `life` tells
apart; `Listed` and `ListedNodes` are what a select finds. Deleting one takes tags,
allowed nodes and entries along by the foreign keys (`ReferencesExist`), which also
refuse what a request writes for one that is gone.

In `Access` every request (`req`) fills a view by one statement per step and works
on it: a sync reads the node, sets it online, reads all users, then tags and allowed
nodes user by user, then the entries twice; a subscription reads the user's row and
then the rest; a PATCH reads all users and writes a row back; a POST inserts a user
and then its tags and allowed nodes. Errors of the writes that follow the first are
ignored (`WriteOrNot`). Users without credentials get them on
the way (`ensureUserSecrets`), and the answer of the request that lost that race
differs from the table. Each node has one sync at a time, as its agent is one
goroutine, and each user one subscription. What a subscription reads after the
user's row is one step, and what a PATCH reads of tags and allowed nodes is left
out, as it is not used. `MaxEvents` bounds writes and failed statements, apart for
each of `StartViews`.

## Runs

Bounds are in the cfg files. Each is the smallest at which its case happens, or
one more where that is affordable.

| run | states | shows | bounds, and why they are enough |
|---|---|---|---|
| `usage` | 822 k | nothing saved is lost, bounded overcharging, exact accounts until a reset, everything is credited again and again | two users (one may be deleted), two bytes each, one restart of sing-box, one crash or timeout, one failed write: enough for a late batch, a double credit and a counter that overtakes the last one |
| `usage_poison` | violation | a deleted user's record stops the node's accounting | one byte, one deletion, no other failure |
| `devices` | 433 k | overshoot bounded, registered devices are let in | two handlers, three identified devices and an anonymous one, limits -1 to 2 |
| `driver` | 90 k | one known process, implements `Singbox`, calls return | two starts: the watcher of the first process meets the second; the proofs cover more |
| `agent_safety` | 1.5 M | known good, nothing rejected runs, recoverable; implements `CommandQueue` | two accepted configurations and a rejected one, so that what a rollback applies differs from the candidate; two commands, whose runs meet; one of each fault |
| `agent_live` | 180 k | commands end, stable configurations are applied, sing-box keeps running | three configurations, of which one is rejected, one change, one command, one of each fault: a failed start of a second good configuration must be tried again |
| `config` | 0.7 M | an unraced save sticks; a node gets what was saved, each inbound once | two requests, two saves, two bodies (one whose inbounds are no list), three overrides: null, one with patches by tag, by type, twice the same, without a key and in a field that is no object, one refused |
| `presence` | 386 k | nobody is shown long after leaving or never, rows are of one snapshot, who stays is shown | two users, two pushes at a time, rows fresh for a tick, a push late by a tick, one fault, one deleted user: enough for an old snapshot after a new one, two open transactions and a refused one |
| `config_lost` | violation | a read undoes a save | two requests, one save, no row or one to begin with |
| `status` | 182 k | events bounded, pages right, log right, a live node is shown online | two requests, of the node, of pages that mark it or do not, or an edit; an expiry while the agent runs and one after it, a failed statement |
| `access` | 471 k | profiles let their users in at rest, nobody is admitted who never was entitled, suspensions hold, in the end who lost access is gone and who has it is there | one user and node, as every rule is about one of each; three settings (the default of shadowtls 2 with a 2022 method, shadowtls 3 with one, shadowtls 2 without), of which a start has one and an edit makes another; five starts (by tag, by name, without credentials, before the user and before the node), two PATCH or POST requests, two events (one from two of the starts): enough for a write between any two reads, one that is undone, and a creation with a failure or edit. Deadlock is not checked: when user and node are deleted nothing is left to happen |
| `access_profile` | violation | a profile the node does not admit | the same |

Symmetry is used only in runs without liveness properties, over sets no
definition orders or singles out.

### Fairness

* Agent (`UsageReporting`, `NodeAgent`): weak fairness of its own steps. It is one
  goroutine whose tickers keep firing, every HTTP call times out after 20 s, and
  compose restarts the container (`restart: unless-stopped`). The telemetry tick
  has strong fairness because syncs share the loop with it: the tick is buffered
  until the select takes it.
* Panel: a request that reached it is handled (weak fairness); lost ones are the
  faults, which are bounded.
* Driver: goroutines go on, and a killed process exits. A process may ignore
  SIGTERM, and need not exit by itself.
* `NodeStatus`: a handler goes on, and the agent's ticker gets a request through
  again and again (strong fairness, as all handlers can be busy in between).
* `Presence`: time passes, the panel handles what it received, and a collection
  goes on (weak fairness). The loop's select takes the telemetry and the sync
  ticker again and again, though each may find the other's turn in between (strong
  fairness).
* `Access`: the agent's ticker starts a sync again and again, and the server runs
  the handler (weak fairness of the sync of each node).
* No fairness for the administrator, faults, exits of sing-box, pages or
  subscriptions.

## What the violated runs show

* `usage_poison`: a user is deleted while the agent has a record of it. The batch
  is refused as a whole (`postgres.go:920`), kept, and posted again with everything
  newer: no usage of that node arrives any more.
* `config_lost`: there is one row. A read selects it; a save is answered with
  success; then the read-repair of `GetGlobalConfig` (`postgres.go:729`) writes the
  read's old copy over it, and every later read serves that. `SavedIsServed` speaks of
  one row only: with two, from two first reads (`postgres.go:716`), which one a select
  takes is open anyway. As every request of every node reads, overlapping reads
  can also write an old and a new configuration back in turn. `SaveSticks` says
  what remains: a save during which no other request is on its way to a write
  stays.
* `access_profile`: a protocol without an entry counts as enabled
  (`postgres.go:1475`), but a user who has entries for a node and none enabled is
  left out of the node's configuration. With one protocol disabled and no other
  entry, the subscription still offers the other protocols, which the node then
  refuses. `OfferMatchesNode` says that this, the next point and the shadowsocks
  cases are all that differs.

Met while modelling, and no document says otherwise:

* Behind a shadowtls below version 3 a profile composes the client's password from
  that of the shadowtls inbound (`postgres.go:2090`), while the shadowsocks inbound
  expects its own before the user's. With a 2022 method and different passwords the
  node refuses it; the default configuration (`postgres.go:2287`) is such a one.
  `OfferMatchesNode` names the case (`WrongPassword`) and holds for all others.
* The dashboard summary counts nodes as online by `nodes.status` without marking
  stale ones (`router.go:115`), unlike the presence summary.
* The count and the insert of a device are separate (`postgres.go:2459`), so the
  limit can be exceeded. `OvershootBounded` says what remains: n concurrent requests
  exceed it by n - 1 devices at most.
* A sing-box that exits is not restarted by a sync with unchanged configuration
  (`KeepsRunning` leaves such exits out); a rejected configuration makes every sync
  restart sing-box with the last known good one; the command `disable` restarts it.
* A heartbeat puts a node the administrator disabled back online, as
  `TouchNodeHeartbeat` sets `online` whatever the status was. A node set online by
  hand that never reported is never marked offline.
* A sync that has read a user whose entries are all off, and then finds no entries,
  admits the user: the entries go with the user or the node when either is deleted
  (`AdmittedWasEntitled` leaves these two cases out). The next sync forgets a deleted
  user; a deleted node has no next sync.
* The agent of a deleted node goes on serving its last configuration, as its
  requests are only refused.
* An override inbound of a type that is not owned by the global configuration, under
  the tag of one that is, passes the validation and gives that one its type, though
  the comment at `postgres.go:2377` says the global configuration owns them.
* Into an empty list of global inbounds an override is copied unmerged
  (`postgres.go:2221`), and default tags are given only after the merge: two
  inbounds can then have one tag. `OneInboundPerKey` leaves the first case out.
* `detectProtocol` of the agent (`runtimeapi.go:163`) takes `vless` for shadowsocks,
  because the word contains `ss`.

## Proofs

All theorems are proved for any values of the constants under the assumptions the
modules name (`BoundsAssumption`, `DevicesAssumption`, `DriverAssumption`,
`AgentAssumption`, `ConfigAssumption`, `ShapeAssumption`, `StatusAssumption`, `RulesAssumption`,
`AccessAssumption`, `PresenceAssumption`): bounds are naturals,
sets of handlers, devices and commands are finite where cardinalities are taken,
and the special configurations differ. TLC evaluates them in every run.

* `UsageReporting`: `TypeCorrect`; `NothingLost` by induction over `RequestInv`
  together with it, as a stored but unacknowledged request must already be
  covered by the ledger; `SeenIsServed`, where the state on disk is an older state
  of the same counters, so both are followed through restarts; and
  `ExactWithoutReset`. `OverchargeIsBounded` needs to know what requests that were
  given up on can still add to the ledger, together. `ChargeInv` says there is a
  running total over the numbers of the faults (every such request has that of
  its fault) that covers each of their batches, and that ledger, total and what is
  due are within what was seen and once more what was served for each fault. A
  fault moves what is due into the total; a crash sets what was seen back, which is
  what the one more time pays for.
* `SubscriptionDevices`: `OvershootBounded` is not inductive. `AdmittedInv` counts
  the devices together with the handlers that are past their count; `Count` adds
  one of the latter only while the sum is below the bound. `RegisteredIsNeverDenied`
  adds that a device known when its request began is still there while the user is,
  so that its look-up finds it; `ServedAreRegistered` is inductive with the types.
* `SingboxDriver`: `DriverInv` ties process, watcher, channel and `cmd`. A process
  nobody has waited for is `cmd`, and only its own watcher or the agent after the
  announcement forgets it. `NoOrphan`, `AtMostOneProcess`, `AnnouncementComes` and
  `FailedRestartIsDown` follow, and so does the refinement
  `Spec => ImplementsSingbox`.
* `NodeAgent`: `AgentInv` follows file, target and state through each driver call,
  for both kinds of failure. `FileIsKnownGood`, `NeverRunsRejected` and
  `Recoverable` follow. `QueueInv` says of every command how often it was run for
  what is done, reported or under way, and that only failures make it more; with it
  every step is one of `CommandQueue` or a stutter:
  `Spec => ImplementsCommandQueue`.
* `Presence`: in `PresenceInv` whoever is in a snapshot was active at most its lag
  ago, whoever has a row at most its age and a push's lag ago, and a transaction that
  is alone will delete all rows. `ShownWasActive` and `SnapshotIsWhole` follow.
* `GlobalConfig`: `ConfigInv` says what requests half-way hold while the last save
  has not raced, and that there is then one row; `SaveSticks` follows.
* `ConfigMerge`: `MergingIsByKey`, that going through the override with an index
  comes to `InboundsByKey`, for lists of any length. `Stands` is the loop invariant:
  after m inbounds of the override every place has the inbound that belongs there
  with the patches among those m, and the index leads from every key to the place
  that takes its patches. `MergingIsOverlaying` extends it to whole configurations.
  `Found`, a weaker loop invariant, gives that merging makes no two inbounds of the
  same key, where a merged inbound keeps its key (`KeyKept`). Induction over lists
  is done with a set in place of the predicate (`NatSetInduction`), and each
  recursive function is first shown to be what its definition says (`KeptUnfolds`,
  `MergingUnfolds`, `PatchingUnfolds`). The proof corrected the reference: inbounds
  that are an object on both sides are merged like any other field, not replaced.
* `NodeConfig`: `NodesAreRequests`, that every step is one of `GlobalConfig` or a
  stutter, so `ConfigInv` holds here. In `CurrentInv` a request that builds is no
  save, has the override there is if it is fresh, and has read what was saved if
  that has not raced; every save makes all requests stale. With `NodeInv` (the
  stored override is null or one that may be saved, so sanitising it again changes
  nothing) and `MergingIsOverlaying`, `NodesGetWhatWasSaved` follows, and
  `NoInboundTwice` from `NodeInv` and `Found`.
* `NodeStatus`: in `StatusInv` a request that has read another status than online
  may tell once more, and while the node is not online every other request is one
  short of the bound; `RestoredBounded` follows. `ShownOnlineWereSeen`: in `MarkInv` a
  node that is marked is not online, and no request holds `online` for a PATCH to
  write that the mark does not know of. `LogAlwaysTellsStatus`: in `LogInv`,
  unless something was mixed, the status is told by the last event or by one that a
  request is about to write, and no request is about to write another.
* `AccessRules`: `OfferedIsAdmitted` and `AdmittedIsOffered` are the two halves of
  `OfferMatchesNode` on one view, for any users, nodes, protocols, inbounds,
  versions of shadowtls, methods and passwords.
* `Access`: `TypeCorrect` says that no login goes out without credentials.
  `AccessInv` therefore follows, in `Formed`, whom each request is through with.
  `SuspensionStays`: `SuspensionInv` adds to `SuspensionHolds` that a PATCH that
  will write back the status it has read has read `disabled`, and that the user is
  not one still to be created; a suspension that met such a PATCH with another
  status is recorded as raced. `OffersMatchNodes`: in `CleanInv` a request that no
  write has hit has, of each piece it is through with, what the tables have, so
  its answer is that of one view (`FreshInv`), and the rules do the rest.
  `AdmittedWereEntitled` is about a sync that a write has hit: `TraceInv` says there
  are tables from before that write that differ from those of now in one piece per
  user, and that all the sync has read is from one of the two; whom they admit
  together one of them admits (`BelowEntitled`). Two writes have no such tables.

Only model-checked: all liveness (`SavedIsCredited`, `CallsReturn`,
`CommandsComplete`, `DesiredIsApplied`, `KeepsRunning`, `GoneDisappears`,
`StayerIsShown`, `LiveIsShown`, `ChangesArrive`), which is out of the prover's
reach. Every safety property of the runs is proved.

## Not modelled

* Of the merge: the check of inbound settings sing-box does not know, the values a
  node's domain and TLS settings fill in, and the agent's own normalisation.
* The key credentials are encrypted with does not change, and subscription tokens
  are not rotated: a request names the user.
* Login and JWT, the camouflage proxy, formatting of client profiles, the web UI,
  deployment: stateless, or input and output only.
* `Reload` of the driver and `applyDesiredWithReporting` have no caller;
  `ClearUserSubscriptionDevices` has no route.
* Concurrent batches of two nodes can block each other on rows of `users`;
  Postgres aborts one and the agent retries it, as `FlushRefused` does.

## Plan

1. Done: `UsageReporting`, `SubscriptionDevices`, `Singbox`, `SingboxDriver`,
   `NodeAgent`, `GlobalConfig`, `NodeStatus`, `AccessRules`, `Access` (with the
   credentials of users), `ConfigMerge` and `NodeConfig`, `Presence`, the command
   queue as an abstract specification, and their proofs.
2. An at-least-once ledger that `UsageReporting` implements, and its refinement.
3. The agent's normalisation of configurations.
