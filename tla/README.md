# DrainCtl, specified

DrainCtl is a Windows service for Remote Desktop Session Hosts. Each host runs
an agent that watches its drain mode and its sessions and reports to a
dashboard; one of the services serves that dashboard, keeps the fleet's history
in SQLite and, on request of an operator, sends commands back to the agents.
This directory holds TLA+ specifications of the parts of it whose correctness
depends on order, failure and time, the TLC configurations that check them, and
proofs for TLAPS. Paths below are relative to the repository.

## 1. The system

### Inventory

| Part | State | Operations | What is hard | What makes it correct |
|---|---|---|---|---|
| Session actions: `internal/telemetry/session_action_store.go`, `session_action_ledger.go`, `sessions_actions_windows.go`, `internal/svc/check.go`, `internal/dashboard/handlers_sessions.go`, `handlers_servers.go`, `client.go` | outbox on the dashboard, claim ledger on every agent (both SQLite), completion queue in the agent's memory | POST of a command, status poll, delivery in the report response, claim, WTS call, completion, acknowledgement, expiry, cancel, retention | lost responses, handlers that outlive their client, crash between claim, call and record, clock skew, queue limits | one effect at most; what the operator is told is true; first outcome final; every command ends |
| Sessions policy: `handlers_settings.go`, `internal/svc/service_loop.go`, `internal/watcher`, `config.go` | the sessions block of config.json, the loop's copy, cached remote settings | settings PUT with rollback, reload, remote merge, external edit | check before lock, two resources without a transaction, coalesced ticks | no command crosses a transition; no snapshot outlives its visibility; the service catches up |
| Force update: `internal/dashboard/forceupdate.go`, `handlers_forceupdate.go`, `internal/telemetry/force_update_outbox.go` | in-memory registry over a durable outbox | request, consume with the report, acknowledge, gc | lost response, restart of either side, retry with the same id, failing writes, capacity | one run per id and window; every accepted command is answered or expires; outbox and registry agree |
| Roster: `internal/dashboard/store.go`, `handlers_servers.go`, `migrate_servers_json.go`, `internal/telemetry/servers.go`, `exclusions.go`, `freshness.go` | servers table, tombstones, freshness rows, two caches | register, report, delete, permanent removal, restore, stale sweep | requests of several transactions that overlap, a sweep that acts on what it read | a removed host stays out; an outage is told once, and only while it lasts |
| Session snapshots: `internal/telemetry/session_store.go`, `session_generation.go`, `session_queries.go` | reservation and sequence on the agent; fence, last attempt, last success and its rows on the dashboard | reserve, report, apply, purge, list, detail | late and repeated snapshots, clocks set back, purges that delete every row, pages read one by one | the view never goes back, the running agent is heard, no page mixes states |
| Live events: `internal/dashboard/broker.go`, `sse.go`, `spike_ingest.go` | clients and their bounded channels | subscribe, broadcast, evict, unsubscribe | broadcasts that send outside the lock | no silent gap, no event twice |
| Drain check: `check.go`, `registry.go`, `notify.go`, `internal/svc/check.go`, `piperpc.go`, `internal/telemetry/audit.go`, `reconcile.go` | drain mode in the registry, last observation, audit rows, when an alert was sent | poll, registry notification, append, reconcile, notify, pipe status | changes within a check or while the service is down, failing appends | each transition in the log, each alert told, the pipe as the log |
| Service loop: `internal/svc/service_loop.go`, `dashsync.go` | configuration in force, agent period and its parts, registration, cached remote settings | start, reload, registration, fetch, stop | one-shot parts, settings of a dashboard that is no longer the configured one | parts, registration and targets are those of the configuration |
| Updater: `internal/updater` | ETag and backoff in memory, replay fence and ledger of command ids in update-state.json | poll, forced check, download, verify, spawn the installer | installers that end later or never, restarts, rollbacks by hand, state kept from a half-finished check | no version below one that has run; a wanted release is installed in the end; backoff only after failures |
| Telemetry: `internal/telemetry/aggregator.go`, `retention.go`, `metrics.go`, `internal/dashboard/handlers_metrics.go` | three tiers of metrics, maintenance rows | store, roll up, retain, query | roll-up racing retention, late samples, chunks, failing statements | an aggregate is whole and never shrinks; the tier of a chart has what it should |
| Database and migration: `db.go`, `schema.go`, `migrate_jsonl.go`, `migrate_sessions.go`, `history.go` | SQLite file with its log and index, audit.jsonl | open, import, append, checkpoint, close, read-only opening | crash and power loss between the steps of the import, two levels of durability | every transition is in the table or still in the file |
| Event spikes: `internal/evtspike`, `event_spikes.go` | detectors, baseline file, subscriptions | score, learn, persist, reset, reload | four goroutines and one file | what was learned survives, what was reset does not, alerts are spaced |
| Performance alerts: `internal/perfmon`, `perf.go`, `notify.go` | accumulated samples, counts of evaluations, when each trigger was sent | sample, collect, evaluate, send, reload | the sampler of a closed collector | no sample counts twice, no warning after a critical message |
| Sign-in: `sspi.go`, `session.go`, `login_handler.go`, `auth_prod.go` | handshakes under way, browser sessions | negotiate, reap, stop, create, use, log out | a kernel handle that four parties may take | freed once and by its owner; sessions end |
| Configuration: `config.go`, `handlers_settings.go`, the command line, the C library | config.json, its lock and temporary file; bounds of the settings | load, save, scoped update, clamp, overlay | whole-file writers beside scoped ones, crash in a save, three places that clamp | sealed from the first elevated save on, scoped updates lose nothing, a setting means one thing |
| Pipe commands: `internal/pipe`, `piperpc.go`, `registration_subsystem_windows.go`, `register_cmd.go` | connections, one registration worker, reply channels | status, register, broker setup | deadlines on both sides, a stop that does not wait, the fall-back | the answer is the caller's own, nothing is done twice |
| Exports, logging, Windows helpers, command line, installer, web interface | none that matters here | | | |

### How the parts interact

The agent's `svcRunCheck` runs on the service loop's goroutine: it reads drain
mode and sessions, posts a report with the completions it still has, and applies
the response: acknowledgements first, then the commands. On the dashboard's own
host the same check calls the dashboard's functions directly
(`ReportLocal`, `applyLocalSessionActions`). Report handlers, settings handlers
and the operator's requests run concurrently, on one goroutine each; they meet
in the SQLite writer (one connection, so transactions are atomic and serial), in
`sessionPolicyMu`, and in config.json. The watcher tells the loop that
config.json changed through a channel with one place.

## 2. Modules

| Module | Models | Runs and proofs |
|---|---|---|
| `SessionActions` | the session action protocol, dashboard and agents together | `session_safe`, `session_live` |
| `SessionActionLifecycle` | what an operator may rely on for each command: the abstract specification that `SessionActions` implements | property `KeepsItsPromises` |
| `SessionActionsProofs`, `SessionRetentionProofs` | types, inductive invariant, safety and refinement; what retention may delete, and the queue of an agent | TLAPS |
| `SessionPolicy` | policy changes against the data they govern | `records`, `policy_live`, `policy_race` |
| `SessionPolicyProofs` | the policy mutex for one request at a time; an edit of the file | TLAPS |
| `ForceUpdate` | a forced update from the operator's request to its acknowledgement, dashboard and agent together | `updates_live`, `updates_safe` |
| `Updater` | the poll loop, the forced check, the fence, the ETag, the installer | `updates_safe`, `updates_live`, `updater_blip` |
| `UpdateProofs` | a forced update: types, outbox, acknowledgement, at most one run, replays; the updater: types, fence, backoff, signal, settled tags | TLAPS |
| `Roster` | registration, reports, removal, the stale sweep | `dashboard` |
| `RosterProofs` | removal and outages | TLAPS |
| `SnapshotStore` | the session snapshot of one host, agent and dashboard | `dashboard` |
| `FleetView` | what an operator reads of the fleet, page by page | `dashboard` |
| `LiveEvents` | the broker and the event streams | `dashboard` |
| `SignIn` | handshakes and browser sessions | `dashboard` |
| `ConfigFile` | every writer of config.json | `dashboard`, `settings_rollback` |
| `AuditImport` | the database from opening to closing, the import of audit.jsonl | `records` |
| `DashboardProofs` | snapshots, pages of the fleet, configuration file, streams, handshakes and browser sessions, the imported history | TLAPS |
| `MetricsTiers` | samples, five-minute and hourly aggregates, retention, choice of tier | `records`, `retention_chunks` |
| `MetricsProofs` | what the tiers have of the samples | TLAPS |
| `DrainWatch` | the drain mode as the service follows it: check, log, notification, reconciliation | `records` |
| `ServiceLoop` | start, reload, registration, remote settings | `agent` |
| `SpikeDetector` | detectors, subscriptions, the baseline file | `agent` |
| `SettingsBounds` | one setting on its way from the request to the agent | `agent` |
| `PerfAlerts` | from a counter to a message about its load | `agent` |
| `PipeCommands` | the named pipe and the commands that use it | `agent` |
| `AgentProofs` | pipe, loop, drain, performance, what a detector learned, a setting on its way | TLAPS |
| `MCSessionActions`, `MCSessionPolicy`, `MCSessionPolicyEdit` | definitions for TLC; `MCSessionPolicyEdit` adds the setting in which only an editor changes the file, and the one that starts with actions turned off | |
| `MCUpdates`, `MCDashboard`, `MCAgent`, `MCRecords` | parts that share no state, in one run: a behaviour is of one of them, named by `part` | |

A definition with an underscore in its name (`Known_Never`) is a plausible bug
of the definition before the underscore. Nothing else uses these; each shows
that some property would notice the bug.

### SessionActions

`outbox`, `cmd` and `doneAt` are the rows of `session_action_outbox`: state, the
immutable fields and `completed_at_ms`. `ledger` is `session_action_ledger` of
each agent. `request[h]` is the report an agent is waiting for together with the
progress of its handler, `stray` the handlers whose agent has timed out or
restarted. `completions`, `acks`, `batch` and `job` are the agent's memory.
`effects` counts successful WTS calls; `issued` and `handed` are history.

One SQLite transaction is one step. A handler is the steps `BeginReport`
(expiry), `CompleteOne` per completion, `DeliverReport` under the policy mutex,
`RejectOne` per command that cannot be decrypted or is invalid. The agent's steps
are `SendReport` (with the ledger's cleanup), `ReceiveResponse`, `Acknowledge`,
`Claim`/`ClaimRefused`/`ClaimFails`, `Lookup`, `Call`, `Record`, with a failing
variant wherever the code has one, and `Restart` at any point.

Decisions. Command fields never change, so messages carry ids. The dashboard's
clock is `now`; an agent reads any instant within `Skew` of it, anew at each
reading. The dashboard's own agent is a member of `LocalHosts`: its
acknowledgements are applied before the delivery is asked for. The gates on the
roster and every 503 are `ReportFails` and `AbandonStray`. Audit rows, browser
events and ciphertext are left out. The outcome `unsupported` cannot be reached
through validated input and is left out. `bad` in `Deliver` is any subset, which
covers undecryptable messages and a logon later than the expiry. A command is
only accepted for the logon in the latest snapshot (`seen`); `ReplaceSession`
makes that stale.

### SessionPolicy

`file` is the sessions block of config.json (`enabled`, `allow_actions` and the
visibilities as one value), `loop` and `remote` are `sessionsCfg` and
`lastRemote` of the service loop. A settings request is `PutLoad` (before the
mutex), `PutSave`, `PutApply`, `PutRollback` (inside it). Ingest, enqueue and
delivery read the policy when they take the mutex (`Enter`) and act later, so
that the mutex has something to protect. `dirty` is the signalled directory
handle, `event` the channel. `ReloadRead`, `ReloadMerge`, `ReloadAdopt` are the
three reads and writes of a reload. `Crash` is possible anywhere. `Faults` names
what may fail in a run. `Fetch` reads and adopts in one step: a write in between
signals the watcher and is seen by the reload that follows. The snapshot is that
of one host, and stands for all: a purge takes all of them.

The settings request writes other blocks before this one, and each write wakes
the watcher; those wake-ups change nothing here and are left out. A reduced
retention appears as the failure it can cause after a successful purge.

### ForceUpdate

`registry` is `forceUpdateState.commands` of one host, `outbox` its rows in
`force_update_outbox`, `ledger` the ids in update-state.json. `agent` is where
`svcRunCheck` is: no command, one received, the updater at work on it, its
outcome known. `mail` holds completions that have been sent. `accepted`, `began`
and `dealt` are history. A report is one step, response included; a lost
response is a step of the agent back to idle (`AgentRestart`), which the code
cannot tell from a crash. The check itself is `Check`, with any outcome; what it
does is the module `Updater`.

Decisions. One clock serves both machines. Its unit is an hour: a report and the
check it leads to take minutes, so `Tick` waits until the agent is idle and no
completion is under way. The ledger orders its entries by instants finer than
that, hence `nth`. The three windows cut differently at the instant itself
(`After`, `<`, `Before`) and are modelled so. A completion's own report consumes
the next command into a response nobody reads; only the collection of expired
commands is left of that. The outbox is one for all hosts: rows of other hosts
that fill it are the fault `enqueue`. On the dashboard's own host the same steps
run without requests in between, a special case. An agent without an updater (a
dashboard-only host) ignores commands until they expire; authorization, the
host being online and its version gate `Enqueue` and change nothing. A state
file that cannot be parsed, which would lose the ledger, is left out.

### Updater

`etag`, `failures`, `config` and `wake` are fields of `Subsystem`; `check` is
`runTick`, under `runMu`, with the stage it has reached; `poll` and `forced` are
the poll loop and the service loop's `TriggerCheckNow`. `high` is
`highest_seen_version`. `github` is the latest release of each channel, which
the maintainers replace, withdraw or break. `installers` are the msiexec
processes, which end in any order: they replace an older version and restart the
service, decline a newer one, or fail. Crash, reconstruction of the subsystem
and an installation by hand all come to `Start`, where memory is new and the
fence is seeded. `highest`, `last` and `seen` are history.

Decisions. Versions are numbers. A release is `good` when its tag parses and its
package verifies. `failures` stops at the end of the schedule, which no reader
can tell. A sidecar that cannot be fetched is a refusal, as in the code. The
delay of `sleepCtx` is any. `Faults` names what may fail in a run. The seed of
the fence is taken to succeed and the state file to be readable: the code calls
both best-effort. A forced check whose id is in the ledger changes nothing here.

### Roster

`row`, `tombs`, `fresh` are the three tables, `cache` and `regCache` the two
maps of `ServerState`, `work` the requests under way. `RegisterTx`,
`RemoveHost` and `FreshTx` are transactions; a report is `BeginReport` (the
gate), `GateUpdate`, `StoreUpdate`, `MarkFresh`, `LookupHit` or `LookupRow`,
`KeepRegisteredAt`, `StoreCache`, so another request may come between any two.
The sweep reads all rows at once and marks each outage later, with the instant
it has read. `Restart` loses the caches and imports servers.json if it is still
there.

Decisions. A step that exceeds `serverStoreOpTimeout` fails; that bound is below
the staleness of a host (at least 30 s against 5 s, `config.go:597`), which is
`OpTimeout < StaleAfter`. The fault `rename` keeps servers.json after the import;
`migrate_servers_json.go:83-84` accepts a repeated import as "worst case", which
then registers a removed host again, so the run and the theorems leave it out.
The cached registration time may be one of an earlier registration
(`store.go:92-98` says so).

### SnapshotStore and FleetView

An agent reserves an instance above what its database has (`Candidate`), numbers
its snapshots and sends them; `sent` keeps every one of them until it is lost, so
it may arrive at any later time. `Apply` is one transaction: fence, attempt,
success, rows. A purge by age or by a changed visibility deletes rows and not the
fence. A change of visibility has its steps: a settings request saves config.json
(`SaveVisibility`), holds the mutex that `Apply` needs, and purges or rolls back;
an edit of the file is in force for the next snapshot at once and purged for by
the service's reload. Between an edit and its purge, and after a crash between
save and purge (which no later start makes good), rows of two visibilities can
stand: `due` marks this, and `ViewFollowsTheAgent` says nothing of the visibility
then; `SessionPolicy` follows those transitions in full.
Instances are UUIDs ordered by time and counted here. `FleetView` has the
three reads of a list (roster, snapshots, matching sessions) as three steps and
the detail as two reads in one transaction; pages are those of a fleet that
stands still (`quiet`), since the code promises nothing across changes.

### LiveEvents

`publisher` is where a `Broadcast` is: it has copied the subscribers, it sends to
them in any order, it evicts those whose channel was full. `owed` is history.
Keep-alives and payloads are left out. A detector state may reach a stream
behind a newer one (`broker.go:147-195` publishes after unlocking): no property
says otherwise.

### SignIn

`waiting` is the `pending` map, `request` holds the context a request works on,
`reaper` what `Range` has yielded and `CompareAndDelete` not yet decided. `releases`
counts how often a handle was freed. Windows' answer on a leg is a choice. A
session is refreshed by every use, and also by the check an open event stream
makes: it never ends by idleness while a page is open, only by age. The rate
limiter, group membership and cookies are left out.

### ConfigFile and SettingsBounds

A configuration maps each block to the edit that wrote it. A writer has a plan of
steps: `load`, a block's name (a scoped `readModifyWrite`), `whole` (`SaveConfig`
of the copy loaded), `restore` (the rollback of a settings request), `policy`,
`call`. Saving is `WriteTemp`, `SealTemp`, `Rename`, in the mutex, each of which
may fail or be the last. `Boot` is the service's start. `configure` goes on with
the defaults when it cannot read the file (`loadOrDefault`) and then saves them
over it; `OnlyNamedBlocksChange` grants every whole-file writer as much.
The service and the dashboard run elevated, a command line may not: it writes
without an ACL (`restrictConfigACL` does nothing then) and is denied what
administrators alone may read or replace (`Barred`). What is *not* promised, and
`secured` excepts: the config.json of the installer can be read by users
(`LISSTech.DrainCtl.wxs:285`), and loading it changes no ACL, so it stays readable
until the first save of an elevated process, which is the service's first start;
a temporary file can be read until its ACL is set, and one left by a crash before
that stays readable until the next save. Not modelled: a kept
secret that a settings request reads outside the lock, a secret that cannot be
decrypted and is erased by the next save, a registry migration whose save fails.

`SettingsBounds` follows one value: a number with the bounds of the source, a
set of notification targets, or a map of cooldowns by channel. `Put` or `EditByHand`,
`LoadSettings` (`Validate`), `FetchSettings` (the overlay on an agent), and
`FetchForced`: an agent with a forced-off performance block takes no sample interval
and no alert delay (`check.go:864`). The run's two channel names do not reach the
limit on the number of cooldowns; that half is the theorem's (`SettingsMeanTheSame`).
Known limits, which the properties except: a `mean_prior` of -1 typed into the file is
clamped to 0, which the wire reads as "not set"; alert delays typed negative stay
negative; a target with only unknown triggers gets the default ones; warning and
critical bounds are compared only when both are given.

### AuditImport

`db` is what a connection sees, `survivors` what a power loss may leave of it:
commits with `synchronous = NORMAL` may be undone until the next commit with
`FULL` or a checkpoint. The import is `BeginImport` (resume at the offset),
`ImportChunk` (rows and offset in one transaction), `RenameFile`, `MarkMigrated`,
`RecordJob`. A power loss after the rename may lose rows of the last chunks: the
backup still has them, nothing reads it, and `HistoryIsKept` says so (`intact`).
`db.go:75-76` gives NORMAL up to that. A line longer than 1 MiB makes every start
fail, and is left out.

### MetricsTiers

An aggregate is represented by the set of samples it was made of, so "whole" and
"never shrinks" are statements about sets. `Roll5Min` and `RollHourly` are two
transactions, `DeleteChunk` one of each chunk. Slots stand for the samples'
interval; `Five`, `Hour` and the retention of each tier keep the order of the
source's constants. Assumed as the source says (`metrics.go:19-22`): clocks agree
to less than the watermark (`MaxLate`). `RollEvery` and `SweepEvery` say that
workers that run do so before a tier's retention is over. `DeleteChunk` is one
DELETE, and anything may come before the next of the same tier; in the run `records`
one is enough, and `retention_chunks` shows what happens otherwise. `Covers` asks, as the code does,
for one row old enough and not for all of them; that this is sound is what
`AutoTierCovers` says.

### DrainWatch

`Sample` reads the registry; `FinishCheck` is the rest of a check, after the wait for
the event: observation, audit row, notification. `Reconcile` and `Seed` are the
start of an agent, `StartAside` that of a service with `dashboard_only`, and
`SwitchRole` a reload that changes it. `drifted`, `missed`, `told` and `muted` are
history. What the code does *not* promise, and the properties except:

* A service that begins to watch without the newest row: the query failed or the
  host name is unknown, which is a warning (`service_loop.go:311-312`), or it was
  started with `dashboard_only`. Its first check finds no transition
  (`check.go:63-64`), and a mode changed while it was down is not recorded before
  the next change. `missed` is set until a row is appended. A reload from
  `dashboard_only` to agent neither reconciles nor seeds
  (`service_loop.go:866-898`); the observation it goes on with may be old, and the
  first check compares with it.
* A failed append, which is only logged.
* A host without any row gets none for a change made while the service was down
  (`reconcile.go:70-71`).
* A host that is excluded while it returns to healthy keeps its repeat interval,
  because exclusions are checked before the reset (`notify.go:51` and `:73`); so
  does one for which no target is configured then. `muted` names both.

The report of a check and the pipe's status need not agree: the report is promoted
by performance triggers (`check.go:340-353`), `HandleStatus` knows none. What is
claimed of the pipe (`PipeFollowsTheLog`) is therefore said of the log: its answer,
which is made from the cached observation, is the one that follows from the newest
persisted row, over restarts and failed reconciliations. The grace period is a
constant; one that is edited can give an alert whose beginning no row shows.

### ServiceLoop

`parts[r]` is the agent period in which a resource was made; `inForce` says whose
notification targets are used; `member` is where the host is registered; `recert`
says that the TLS fingerprint in the file is another than the one the loop uses,
which ends the registration as another URL does (`service_loop.go:754`). `Reload`
is the whole `configCh` branch in the order of the source, including the
reconciliation of the agent and of the dashboard. Limits found while modelling:
after a URL is removed, targets of that dashboard can stay in force until the
next edit (`service_loop.go:762` sets the local ones, `:828-830` the cached ones
again); a reload while the dashboard's URL was discovered through DNS goes back
to local targets until the next fetch. `TargetsOfTheCachedDashboard` is stated
for what the loop has cached.

### SpikeDetector

What a detector has learned is a count and the reset it came after. `hand` is what
the service has between two of its steps: the file that a start has read
(`LoadBaseline`, then `SeedChannels` builds the detectors and writes at once), a
snapshot on its way to the file (`TakeSnapshot`, `FinishWrite`), or the last one of
a stop (`Quiesce`, `FinishStop`). A reset is a pipe handler's: `ResetMemory` under
the lock, `RemoveFile`, `FinishReset`, with anything in between; `begun` counts
those that have begun, `resets` is the last that has ended in success. Every write
may fail, also the last one of a stop and that of a reset, and the removal may end
the reset with an error; reading the file may fail too.

What the code does *not* promise is kept as history in `harm` and `alerted`:

* `"wiped"`: the file is overwritten with nothing, or loses an alert. A service that
  stops while the detector is disabled writes an empty baseline
  (`subsystem.go:374`, although `README.md:465` of the repository says that it is
  kept). A baseline that cannot be read is taken for an empty one and is
  overwritten at once. The second half of a reset may find the detector stopped,
  and removes what it saved.
* `"stale"`: when a reset ended, a start had read the old file and will restore from
  it (`:212` against `:221-234`), or a write had the old snapshot (`:345-347`).
  Then the reset is undone; a later reset or a later write of a newer snapshot ends that.
* A last write that fails, or a crash, forgets the alerts since the last write that
  succeeded (`Remembered`): the next alert may come within the cooldown.

Simplified: `hand` is one slot, as the periodic write, the one of a start and the
one of a stop follow each other in the code; one reset at a time; the channels are
seeded in one step; the removal and the reset's snapshot are one step. Left out:
the date a file of version 1 gets, a change of the file's path, and reloads of the
scalar settings.

### PerfAlerts

`collectors` are all that were opened, each with its accumulated samples and the
place of its sampler; the last may be the live one. An evaluation aggregates what
has accumulated, counts, and sends to one target. A request that selects the
channel of a collector at the moment of its closing may panic
(`collector.go:98-99`): `damage` records it, and nothing is claimed after it. A
send that fails has consumed its interval; so has the code.

### PipeCommands

`accept` is the loop with its one free instance, `conn[c]` the goroutine of a
connection, `caller[c]` the command's side. Deadlines may pass at any point. The
registration worker takes one request at a time and answers into the request's
own channel. `Stop` waits for the accept loop, not for the connections. A command
that is told of a failure may still have taken effect.

## 3. What the runs show

| Run | Shows |
|---|---|
| `session_safe` | two commands of one agent through every loss, retry, stray handler, restart, ledger failure, cleanup and retention, with one unit of clock skew: at most one effect, true outcomes, a queue that fits a report, no second command by a retry, and the refinement of the lifecycle |
| `session_live` | every command closes, every completion leaves the queue, for a remote agent and for the dashboard's own |
| `records` | four parts that keep records, one at a time: the sessions policy with one settings request at a time, of a service that started with actions allowed or not (nothing crosses, the snapshot follows); tiers of metrics; drain mode with its audit log, alerts and pipe status; the history in the database |
| `policy_live` | the service catches up with every settings request, through failures, rollbacks and crashes; an edit of the file, once settled, leaves nothing of the old policy |
| `updates_safe` | no restart of the dashboard: a replay is a duplicate, though the ledger must evict within the window; no installer is launched below the fence |
| `updates_live` | two ids, two faults of any kind: one run per id and window, outbox and registry agree, nothing acknowledged unanswered, every command settles; and of an updater for which nothing fails between the releases API and msiexec: no tag of a wanted release stays, and it is installed in the end |
| `dashboard` | the parts of the dashboard, one at a time: removal and outages, event streams and spikes, handshakes, the view of a host, config.json, pages of the fleet |
| `agent` | the parts of the service on a host, one at a time: the loop's parts, a setting's value, the pipe's commands, what a detector learned, performance alerts |
| `policy_race` | (violation) two settings requests at a time |
| `updater_blip` | (violation) one failed download |
| `settings_rollback` | (violation) a failing policy step of one of two administrators |
| `retention_chunks` | (violation) a rollup between two DELETEs of one sweep |

The longest runs are `agent`, `dashboard` and `records`, of three million states each,
`updates_live` and `session_safe`; each takes between one and three minutes on two
workers. The parts of a run share no variable, so running them in one
configuration only saves starts of TLC: a behaviour chooses its part at the
beginning (`part`) and the other parts do not move. `updates_live`
states fairness for the part that moves. In the same way
`setting` chooses between two sets of bounds in the runs of the session actions
and the policy. TLC's coverage (`-coverage`) counts every conjunct of every
action of these runs at least once, except that a collector which could not be
opened is never closed again (`PerfAlerts`, one reload).

### Bounds

Session actions. Time is counted in units. `TTL = 1` with `MaxTime = 3` lets a
command be created at several instants, expire on either side of the skew, and
be deleted by either retention. With `Retention = 0` a row may be deleted one
unit after its end, so a key can be used again. Two commands with
`BatchLimit = 1` are the smallest full queue and the smallest full report. One
stray handler is enough for a completion to be applied by a request the agent
has given up; it already runs together with the waiting one. One host is enough
for the safety of one command, since nothing of another host's can name it; the
proofs cover all hosts. `MaxLogon = 1`: the session is replaced once.
`session_live` has `Retention = 4` beyond `MaxTime`: a row deleted before its
completion was acknowledged leaves the completion stranded (hazard at
`session_action_store.go:319`; the theorem `OrphansAreLate` says when this can
be).

Policy. Three requests turn a policy off and on again with a late request in
between; four policies are two visibilities and each of the two switches off.
`policy_live` has either requests or one edit, not both: a start of the service
misses an edit made before the watcher has its baseline, so edits and crashes
together would not catch up. Nor would a reload whose read of the file fails: it
has consumed the tick, and only the next write brings another. `records`
has that failure, `policy_live` does not.

Force update. A window of two units leaves an instant inside it, one at its end
and one past it; three acceptances are a command, its replay and another; one
place in the outbox is full with the first. `updates_safe` has three ids for a
ledger of two, all in one window: an id is evicted while the dashboard may still
hold it. That this is harmless rests on the order of delivery, oldest first and
one at a time, and on the answer given before the next command is fetched.
Across the end of a window it would not hold (TLC shows it with `MaxNow = 2`): an
id of the end of one window may be evicted and requested again at the start of
the next. It takes 256 ids of one host in a day.

Updater. Three versions are one to start from, one to go to and one to come back
from; two faults are a failure and its repetition, which reaches the end of a
schedule of two. `updates_live` has two versions and one fault, and is the
larger for its liveness property.

Dashboard. One host and two workers: every pair of requests overlaps, and what
is known of a host never depends on another (the proofs have any number of
both). `StaleAfter = 2` above `OpTimeout = 1` are the two instants a sweep must
tell apart. Two subscribers, two broadcasts and one place in a channel fill a
channel, evict its owner and let the other go on. One connection with two
requests and three contexts has a second leg beside the first, a leg sent again,
and a reaper that holds an old entry. Three instances are a process, its
successor and one whose clock was set back; two instants with `Retention = 0`
are before and after the retention of a row. One settings request, one command
and the service's own start are the three kinds of writer. Pages hold one host,
so hosts with equal keys are on different pages.

Agent. `Five`, `Hour` and the three retentions have the order of the source's
constants, and `LastSlot = 3` fills an hour with two five-minute buckets.
`Grace = 0` makes every later check of a drained host one that alerts, and
`Repeat = 0` is once per alert, so a reset that is missed or made too early
shows. Two dashboards
besides the agent's own and two edits are a URL left and come back to. The
bounds of `SettingsBounds` are the source's own numbers, and its inputs the
values beside them. Two callers meet at the one pipe instance and at the one
registration worker. Three samples are two that fill the accumulator and one
that is dropped. With a cooldown of three buckets, an alert at bucket 2 that
a restart forgets would be followed by one at bucket 4; two bounded actions are
a reset and whatever it may meet: a reload, a crash, a file that cannot be read.
Three lines in chunks of two leave a chunk that is not the last, and two troubles
(crash, power loss) hit an import and its repetition. Event channels are a symmetry set: `SpikeDetector` never names one of them, and the run
checks no liveness.

### Fairness

`session_live`: time passes, the operator's page or the retention pass expires
what is due, the loop keeps reporting, `Execute` terminates, and a handler step
or a ledger write that keeps being tried succeeds some time (strong). Nothing is
assumed of any one report, of the operator, or of stray handlers, and agents may
restart for ever. `policy_live`: the goroutines of the watcher and the loop run;
`sync.Mutex` is starvation-free, hence strong fairness of what waits for it; a
fetch that keeps being due succeeds some time. `updates_live`: the service loop
goes on polling and its checks end; the server handles what reaches it. Nothing
is assumed of the operator, of the clock or of restarts; and the updater's
goroutines run, requests end within their timeouts, the timer fires and msiexec
ends one way or the other. `updater_blip` has the same fairness, so that its
counterexample is not a system that stopped.

Deadlock is checked wherever the system goes on for ever (in `records`, that is the
policy). It is not in
`updates_live`, `updates_safe`, `dashboard`, `agent`, `settings_rollback` and
`retention_chunks`, which stop when the bounds on clocks, acceptances and faults are
spent and the last request has been answered.

## 4. Where the code and its texts disagree

`policy_race`: `server.go:51` says that the mutex keeps commands from crossing a
policy transition. `settingsBefore` is loaded before the mutex is taken. Two
requests that both load "actions off": the first turns actions on and saves, a
command is accepted, the second changes the visibility back; compared with its
old `settingsBefore` nothing changed, nothing is cancelled, and the command is
delivered under a policy that has changed since. With one request at a time the
comment is right, and proved (`NothingCrosses`).

`updater_blip`: `research.md:20` (specs/010-auto-update) relies on the retries
after 5, 15 and 45 minutes. `runTick` stores the ETag of the release
(`updater_windows.go:356`) before it downloads; a failed download, sidecar or
spawn returns with the tag in place, the retry is answered 304, the backoff is
reset and the release is not tried again until another is published, the channel
changes or the service restarts. Clearing the tag on those paths, as is done
after a successful spawn, would restore the property: `TagsAreSettled` is the
proof for checks that do not fail there.

`settings_rollback`: `handlers_settings.go:384-385` says that absent fields are
left unchanged. A request that carries the sessions block loads the
configuration before it writes anything (`:508`); another administrator's request saves a different block; the purge of
the first fails and `:622` saves the configuration it loaded, and the second's
block with it. The scoped writes before it (`UpdateConfig`) do keep the promise:
`ScopedUpdatesStayInside` is the proof.

`retention_chunks`: `retention.go:81-85` says that retention only ever deletes whole
source buckets, because the aggregator would otherwise overwrite an aggregate with
one of a slice of its samples. The cutoff is that of a whole bucket, but the DELETE
has `LIMIT 10000`, and between two of them the writer is free (`:185`) or the
process may end. A rollup in between finds some samples of the bucket at the border
and replaces its aggregate by one of these; they are deleted next, and the average
is wrong for as long as the row lives. `TiersCover` and `RollupsHold` are the proofs
for sweeps that need one DELETE per tier (`SweepFits`). A `DELETE` bounded by a
bucket's timestamp instead of a number of rows, or a rollup that leaves buckets
below the retention cutoff alone, would restore it.

Some limits of the code are not runs, since no text denies them outright.

- The policy is written before the old snapshot is purged, and startup compares
  nothing: a crash between the two leaves the snapshot to be served under the
  new policy until the host's next one (`SnapshotFollowsPolicy` with `"crash"`
  among the `Faults` of `Records.cfg`).
- The row of an acknowledged force update is deleted, so a restarted dashboard
  does not know the id: a replay within the window is accepted and delivered,
  and the agent's ledger answers it (`ReplayIsDuplicate` with `"restart"` in
  `UpdatesSafe.cfg`). The updater does not run twice; the operator is told that
  a new command was accepted.
- `updater_windows.go:278-279` reads the count of failures twice, outside
  `runMu`; a forced check that succeeds between the two reads sets it to zero,
  and the schedule is indexed with -1, which ends the service. `Updater` chooses
  the delay freely and does not have this.
- Reading config.json in a reload and purging in the loop are not retried
  (hazard at `service_loop.go:656`); `ServiceCatchesUp` and `EditSettlesClean`
  leave those two failures out.

Those of single modules are named with them in section 2.

## 5. What is proved

For every value of the constants that satisfies each module's assumptions. Those
with content are `ClockAssumption` (`2 * Skew <= LedgerRetention`: the ledger's
retention covers the disagreement of two clocks; the code's smallest retention
is one hour), `OpTimeout < StaleAfter` in `Roster`, and the lengths of the tiers in
`TiersAssumption` (whole buckets, a rollup within the watermarks). Some theorems
have hypotheses of their own, which the table names; each is what the runs of the
same property assume through their cfg.

Every safety property of the passing runs is the statement of a theorem.

| Theorem | Statement |
|---|---|
| `TypeCorrect`, `Inductive` | types and inductive invariant of `SessionActions` |
| `EffectOnce`, `OutcomeTrue`, `FirstOutcome` | `EffectAtMostOnce`, `OutcomeIsTrue`, `FirstOutcomeIsFinal` |
| `Promises` | `Spec => KeepsItsPromises`: the refinement of `SessionActionLifecycle` |
| `RetryIsSafe`, `OrphansAreLate` | `RetryMakesNoSecondCommand`, `OrphanedOnlyAfterRetention` |
| `QueueFits` | `QueueFitsReport`, for any batch limit, losses and stray handlers |
| `PolicyTypes` | types and mutual exclusion of `SessionPolicy`, for any number of requests, edits, faults and crashes |
| `NothingCrosses`, `SnapshotsFollow` | for one settings request at a time, without edits, crashes or failed rollbacks (`OneWriter`) |
| `EditSettles`, `EditsSettle` | `EditSettlesClean` after one edit of the file, and after any number when each is taken over before the next (`EditsTakenOver`); nobody else writes and the service neither dies nor fails a purge (`OnlyEditor`) |
| `ForceTypes`, `OutboxIsTheRegistry`, `NoSilentAcknowledgement` | types, `OutboxIsPending`, `AcknowledgedIsAnswered`, for any ids, windows and faults |
| `NoSecondRun` | `AtMostOnce`, for fewer ids than the ledger has places (`RoomForAll`) |
| `ReplayRefused` | `ReplayIsDuplicate`, when the dashboard does not restart, for any ledger |
| `ReplayAnswered` | with every fault and restart: an id accepted a second time within its window has been answered by the agent |
| `UpdaterTypes`, `FenceIsExact`, `FenceIsHeld`, `BackoffIsRight` | types, `FenceExact`, `FenceHolds`, `BackoffFollows`, for any versions, channels and faults |
| `ChangesAreSignalled` | `ChangeIsSignalled`: a changed policy never waits for the timer |
| `TagsAreSettled` | `TagMeansSettled`, when nothing fails between the releases API and the installer (`NoHalfway`) |
| `RemovalIsPermanent`, `OutagesAreToldOnce` | `RemovedStaysOut`, `OutagesAreTrue`, when the imported servers.json is renamed (`NoRename`) |
| `RunningAgentIsHeard`, `ViewIsOfTheLatest` | `RunningIsCurrent`, `ViewFollowsTheAgent`, for any clocks, losses and purges |
| `PagesAreOfOneList` | `FleetReadsTrue`, for any hosts, page size, filter and purge |
| `FileStaysSealed`, `ScopedUpdatesStayInside` | `FileIsSealed`, `OnlyNamedBlocksChange`, for any writers, failures and crashes |
| `StreamsMissNothing`, `SpikesAreShownOnce` | `NoSilentGap`, `SpikeShownOnce`, for any subscribers, publishers and capacity |
| `ContextsAreAccounted`, `SessionsDoEnd` | `HandshakesAccounted`; no session is honoured past its age or its logout |
| `HistoryStaysTrue` | `HistoryIsTrue`, for any file, chunk size, crashes and power losses |
| `TiersCover`, `RollupsHold` | `AutoTierCovers`, `RollupsAreWhole`, for any lengths of the tiers, when a sweep needs one DELETE per tier (`SweepFits`) and the workers fail for less long than the tiers overlap (`FewFailures`) |
| `PipeAnswersAreTrue` | `CommandsAreTrue`, for any callers and endpoints |
| `LoopStaysConsistent` | `LoopIsConsistent`, for any number of edits |
| `LogMissesNoChange`, `AlertsAreDispatched`, `PipeAnswersFromTheLog` | `AuditIsComplete`, `EachAlertIsTold`, `PipeFollowsTheLog`, while the newest row is what the service goes by (`missed`) and no exclusion kept a reset from the targets (`muted`) |
| `AlertsAreForLastingLoad` | `AlertsAreEarned`, for any samples, reloads and intervals |
| `BaselineCarriesOver` | `RestartsCarryOver`, for any channels, reloads, resets, crashes, failed reads and failed writes, with the exceptions in `harm` |
| `SettingsMeanTheSame` | `SettingsHold`, for all 22 numbers, any set of targets and any limit on cooldowns |

Type invariants and some invariants that a proof covers completely
(`FirstOutcomeIsFinal`, `OrphanedOnlyAfterRetention`, `FenceExact`,
`BackoffFollows`, `ChangeIsSignalled`, `SessionsEnd`) are not repeated in a run.

### The arguments

*Session actions.* Call a command decided once WTS was called for it or once
some completion says `session_changed`. Neither may be followed by a call.
`IInv` says that a decided command is `Guarded`: its ledger row stands, so no
claim succeeds; or the dashboard's clock is at least `Skew` past the expiry, so
no agent's clock is before it and every later claim records `expired` without a
call; or the dashboard has closed the command and nothing on the way (request,
response, batch, job) holds it, so it will not be handed out again. The row is
removed in two ways: by age, and then the second case holds because of
`ClockAssumption`, or by acknowledgement, and then the third holds because only
closed commands are acknowledged (`AckedClosed`) and the agent works on one
thing at a time (`OneAtATime`: while it applies acknowledgements it holds no
such command in its batch). The other conjuncts say that what is claimed is in
the ledger (`JobClaimed`), that a job about to call has not called (`JobFresh`),
and that every `completed` anywhere, in a job, a queue, a request or the outbox,
follows a call (`ToldTrue`).

*Queue.* An agent asks for no more commands than its report leaves room for, so
completions that wait, together with what it has in hand (`OneSlot`), never
exceed the batch limit; a restart loses what is in hand and keeps the rest.

*Policy.* A request that has loaded `settingsBefore` has what is in the file
(`Believes`), and the snapshot has the visibility of the file, or of the policy
the request inside the mutex will settle or restore (`Shown`). For edits (`EditInv`)
it is the loop's policy and the file's that are compared: while they agree, what is
kept was accepted under them. That the service must take over one edit before the
next is not an artefact: it compares the new file with the policy it had
(`service_loop.go:721-740`), so when the second of two edits undoes the first
before the reload, nothing is compared, and a command accepted in between, or a
snapshot taken then, stays. TLC shows it with `MaxEdits = 2` in place of one.

*Force update.* `Matched` says that a live row and a pending command are one
acceptance (`OutboxIsPending` alone does not survive a restart, which copies the
row's instant), `Recent` that a completion under way is of an answer of this
hour, and `Recorded` that a check that began within the window is in the ledger.
The last needs that nothing in the window is evicted: `NothingEvicted` gets that
from `RoomForAll` with the cardinality theorems. The eviction itself is left to
`updates_safe`. Replays need no ledger: `OnTheBooks` says that an id accepted
within its window is with the dashboard, pending or closed, until the window is
over, and only a restart forgets the closed ones. After a restart the outbox brings
back whatever was not acknowledged, and only answers are acknowledged.

*Updater.* A check past the releases API works on a release that is above the
running version and not below the fence (`Justified`); neither side moves while
`runMu` is held, except through `Start`, which ends the check. The tag
(`TagInv`) is that of a release that is settled, or of the one being worked on.

*Roster.* For `RemovedStaysOut` the types suffice once it is known that nothing
is left to import (`NoLegacy`): only `RegisterTx` makes a row, and it looks at
the tombstone in the same transaction. `OutageInv` has three parts more. No
instant that is read, stored or held by the sweep is ahead of its clock, and
what the sweep holds was stale when it was read (`NotAhead`). A removal that is
still to forget the host's marker began before the host's present row was heard
(`RowsAreNewer`). And an outage told of the present row has its marker
(`AnnouncedIsMarked`): nothing takes it away, since by the time the row is stale
the removal has run into its deadline. That is what `OpTimeout < StaleAfter` is
for.

*Snapshots.* `AgentIsLatest`: the agent runs under the last instance it reserved,
and neither the fence nor anything that was sent carries a later one.
`ViewIsFenced`: what is stored is of the instance in the fence. *config.json.*
`MutexIsHeld`: who is inside is the holder and is at a save, and a temporary
file that an elevated process has closed has its ACL; hence such a process renames
only a sealed file, and no other can replace what it wrote.

*Fleet pages.* `FleetInv`: the comparison that sorts is a strict total order
(`BeforeIsTotal`), so in a fleet that stands still each matching host has one
`Place`, and the pages so far are the places from 1 to their sum
(`PagesAreABeginning`). The detail's two reads are in one transaction, so its count
and its rows are of one snapshot. *Import.* `TrueToFile` is said of every state a
power loss may leave, not only of the present one: rows, offset and count of
broken lines are written in one transaction, so each such state agrees with the
file up to its own offset; once the file is renamed the offset is its end, unless
history was lost with the power (`intact`). `SidecarsAreTrue` is what a read-only
opening relies on: without a log the main file is the whole database.

*Streams.* `Accounted`: what a subscriber is owed is what its browser has, what
its channel has, and what broadcasts under way still hold for it (or have found
no room for and will evict it). For spikes: a spike that is broadcast has a row,
its broadcast is the only one of it, and a stream that has it is not among those
the broadcast has yet to reach. *Handshakes.* `HandleInv`: a context that is
with a request is held by exactly one, one that waits is in the map once
(`RequestsOwn`, `MapOwns`, `NoneIsLost`), and it has been freed exactly if it is
neither; the gauges are the two cardinalities. *Sessions.* What was refused is
gone, and a token is not made twice.

*Tiers.* There are times l, m and g, at which the five-minute rollup last
succeeded, a whole tick last succeeded and the last sweep of the samples began,
and for which (`Paced`) the clock is no further than the failures so far allow.
Then the samples are those from g's cutoff on (`SamplesKept`); a five-minute row
has what is left of its samples, and all timely ones up to l (`FiveKept`); an hour
has those of its five-minute rows up to m (`HoursKept`); and an hour whose rows are
deleted will not be computed again (`Gone`). Both
hypotheses are needed. `SweepFits` says of every state that what is expired is less
than a chunk; without it a rollup sees a bucket of which a part is deleted, which is
the run `retention_chunks`. The hours may go in any number of chunks, as nothing is
made from them. Without `FewFailures`, rollups that fail for as long as samples are
kept lose samples, and deletions of samples that fail for longer than the five-minute
rows outlive them let a deleted row be made again from what is left.

*Pipe.* `PipeInv` rests on `OneIdentity`: before it is connected, and on its way
round the service, a command is unknown to the service and remains so.
*Loop.* `LoopIsConsistent` is inductive with `NoPeriodWithoutAgent`. *Drain.*
`DrainInv`: no change is later than the registry's stamp, and neither that nor a row
later than the clock (`ClocksFit`); nothing is observed or told by a service that does
not run, and one without an observation has no history or began without it
(`StageFits`); a remembered alert was told (`AlertTimesAreTold`).
*Performance.* Samples that wait in the live collector are newer than the last
that was evaluated (`SamplesInv`; what a closed collector still accumulates is
never collected), and the warning's stamp is never older than the critical one
(`SilenceInv`). *Spike detector.* What a write has made durable is in the file, in
the running detectors and in whatever is in hand, and the time of the last alert is
in one place from which the next detector gets it (`SavedIsThere`, `Recalls`);
nothing of an earlier reset is in any of them (`ResetIsKept`); a snapshot on its way
to the file is of the running detectors or of before a reset (`SnapshotFits`). The
first two hold but for the two kinds of `harm`. *Settings.* Every row of the table of numbers has its default
within its range or is exempt (`TableIsSound`); from that, clamping is idempotent
(`ClampSettles`, `NumberSettles`), so a value that was saved is not changed by the
reload, the overlay or the agent (`CarriedAlong`). The same holds of the targets
(`NormalisedIs`) and of the cooldowns (`CooldownsAreTidied`).

Only model-checked: liveness under fairness, which the prover cannot state
(`EveryCommandCloses`, `QueueDrains`, `ServiceCatchesUp`, `EveryCommandSettles`,
`EventuallyCurrent`), and `AtMostOnce` with more ids than the ledger has places.
What the four violation runs say is refuted and not proved; the theorem beside
each (section 4) says when it does hold.

## 6. Plan

Done: session actions with their lifecycle, the sessions policy, force update,
updater, roster, snapshots and the fleet's pages, event streams, sign-in,
config.json and the bounds of settings, import and opening of the database,
tiers of metrics, drain check with its log and alerts, the service loop, spike
detection, performance alerts, pipe commands.

Left, in this order:

1. An abstract "each forced update is carried out at most once and acknowledged
   by id" with its refinement; `AtMostOnce` with eviction, from the order of delivery.
2. Liveness of the newer parts: an outage is told in the end, an import ends, a
   registration is made once its dashboard answers.
3. The order in which `serve` and `Execute` stop their subsystems, the queue of
   sample writes, the login rate limiter.

Not modelled, and not planned: rendering and exports, logging, Windows API
wrappers, TLS and SSPI themselves, the transport of SMTP, HTTP, PDH and
overlapped pipe I/O, command-line parsing, the C library's glue, the installer
and the web interface. They are I/O or formatting, and the state they have is
that of the parts above. Vacuum and integrity checks of the database are single
calls into SQLite.
