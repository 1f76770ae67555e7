# OpenGate in TLA+

OpenGate manages remote machines. A Rust agent runs on every host, a Go server
keeps the connections of agents and technicians, and a React console shows a
session with a host. This directory holds TLA+ models of the parts of it whose
correctness depends on the order in which things happen, the TLC runs that check
them on small instances, and TLAPS proofs of the results that matter most.

## 1. The system

### Parts, their state and their operations

| Part | State it keeps | Operations | What can go wrong |
|---|---|---|---|
| **Direct-link hand-off** (`handoff.rs`, `handoff.ts`, driven by `session/core.rs` and `session-channel.ts`) | path, numbered copies, counts, held frames, three deadlines, per side | send, switch, hold, deliver, confirm, leave, re-send, tick | notices and frames ride different wires; either side may leave at any moment |
| **Session relay** (`relay.go`, `inprocess_registry.go`, `handlers_relay.go`) | token → session (two sides, piping, end reason, done), drain count, registry record | Register, pair, pipe, WaitForPeer, Unregister, End, WaitForDrain | two handler goroutines, API calls and a shutdown meet in one session |
| **Session rows** (`session/postgres.go`, `sweeper.go`, `usecase/session.go`) | one row a host | create with replacement, delete, end, stale sweep | the row and the live session live in different places; the server may die |
| **Agent identity store** (`identity_store.rs`, `identity.rs`) | identity files in a data and a trust directory, staged files, marker | commit, finish, recover | power loss between any two steps, in directories that flush independently |
| **Agent life** (`lifecycle.rs`, `enrollment.rs`, `cert_renewal.rs`, `control_loop.rs`, `main.rs`, `install.sh`) | identity in memory, installer's note, unit and binary | decide, enrol, renew, trust bundle, start over, self-removal, install | the installer runs beside the agent; saves fail; removals are interrupted |
| **Agent self-update** (`update.rs`, `requests.rs`, `main.rs`, `control_loop.rs`) | binary, `.prev`, pending marker and its count | download, back up, swap, mark, watch, acknowledge, roll back | the process ends between two files; a late acknowledgement; a backup that failed |
| **Agent control connections** (`agentapi/server.go`, `server_connection.go`, `conn.go`, `conn_register.go`) | newest connection of a device, count, status gate; the status column | accept, replace, probe, register, heartbeat, tear down | an old connection's teardown after the new one is in |
| **Certificate renewal** (`renewal.go`, `renewal_sweep.go`, `admission.go`, `certledger`, `devicecert`) | ledger rows and their index in memory, sightings, requests in flight | admit, see, offer, issue, install, close the superseded, prune, warm | an answer lost after it was recorded; a restart between memory and disk |
| **Data lifecycle** (`lifecycle`, `deregister.go`) | purge jobs and their stages, deny-lists on disk and in memory | request, run, resume, deny, erase, sweep | a device that writes while it is erased; one store of several failing |
| **Alerts and incidents** (`alerts`) | alerts, rooms and their counts, the storm room | record, fold, open, close, reopen, sweep, erase | concurrent READ COMMITTED transactions on one room |
| **Telemetry backfill** (`backfill_scheduler.go`, `conn_backfill.go`, `backfill_loop.rs`) | grants and counts; the agent's phase, timers and cursor | request, grant, defer, send, store, acknowledge, lapse, release | a grant that lapses, a connection that outlives another, a write that fails |
| **Rule delivery** (`alert_rules.go`, `handlers_rules_rollout.go`, `rules`) | rollout row, what each connection was sent | stop, resume, edit, push, install | two pushes to one connection that nothing orders |
| **Intel AMT channels** (`amt/transport`) | opens waiting, channels, inbox and window of each | open, confirm, refuse, abandon, read, adjust, close | a timeout against a late confirm; closes from three sides; a lost wake-up |
| Session fragments, outbox and lanes | pieces; lane queues and byte counts | cut, reassemble; admit, take | lane order and bounds under back-pressure |
| Edge time-series store | append-only segments | append, compact, expire | torn tail |
| Authority, accounts, inventory, codec, console, wiring | rows and settings | single transactions, cryptography, formatting, views | little that is ordered |

`PROJECT.json` lists every part with its files, the modules that model it, and
for a part that is left out the reason.

### How they interact

A technician creates a session: the server writes a row for the host, tells the
agent, and both sides connect to the relay with the row's token. The relay pairs
them and copies frames both ways. The console then offers a direct link over the
relay; if the link opens, each side moves its own direction onto it and says so
on the relay. Frames go back to the relay when the link is lost. Ending the
session deletes the row and asks the relay to end the pair; a pair that ends by
itself deletes its row; a sweep deletes rows whose session the relay no longer
holds. The agent proves who it is with the identity its store keeps, which
enrolment, renewal, trust bundles and removal rewrite.

Every agent holds one control connection. The server admits it by the
certificate it presents: not on the deny-list of erased devices, on the ledger,
and not superseded. It then replaces whatever connection the device had. Over it
go registration and heartbeats (which write the status), the renewal of the
certificate, metrics and the backfill of what was missed, alerts (which fold into
incident rooms), alert rules (which administrators change meanwhile), update
orders and, last, the order to remove itself when the device is erased. Intel AMT
devices hold connections of their own, over which the server opens a channel a
request.

### What is hard

Two machines that exchange notices about a link that may vanish under either of
them (hand-off); goroutines that meet in a session between two critical sections
(relay); a row and a live session that are only loosely tied (rows); a save that
is several renames in two directories (identity); three files and a timer that
decide together which binary runs (self-update); a registry, a count and a column
that must agree while connections overlap (presence); a ledger in memory, on disk
and in the hands of the machine (renewal); an erasure that several stores carry
out while the device goes on writing (erasure); a snapshot that is older than the
lock (incidents); a grant that both ends time (backfill); a read that is sent
later (rules); one lock, one slot and one wake-up a channel (AMT). The hazards,
each at its line, are in `PROJECT.json`.

## 2. Modules

### Hand-off: `Handoff`, `SessionStream`, `HandoffInvariant`, `HandoffProofs`, `MCHandoff`

`Handoff` has both sides in one module, `host` and `browser`, with the same
actions because `handoff.rs` and `handoff.ts` are the same machine; what differs
(who offers, who takes the offer) is in `Attempt`, `MakeOffer`, `RelayOffer` and
`RelayRefused`.

State. `path`, `attempted`, `switched`, `leftLink`, `budget`, `kept`,
`nextNumber`, `held`, `delivered`, `unacked`, `ackDue`, `peerSwitched` and
`peerFallback` are the fields of `Handoff`. `unconfirmed`, `held_bytes` and
`direct` are derived from them. `relay`/`read` and `link`/`linkRead` are the
wires: each direction is a log the writer appends to, with the reader's position.
The relay is TCP-like and keeps order; a link channel keeps order too, and losing
the link means that the reader never reads the rest of the log. `sent`, `base`
and `inbox` are history: what was taken from the lanes, how much of it before the
switch, and what was handed to the features.

A frame is its slot, its place in the slot's stream and its length. Slots come
from the layout (`Handoff::slot`): with the shared layout everything rides the
typing channel.

Actions. One per handler: `Send` (`take`/`pump` with `send`), `LinkOpen`,
`LinkLost`, `RelayFrame`, `RelaySwitch`, `RelayFallback`, `RelayOffer`,
`RelayRefused`, `LinkAck`, `LinkAhead`, `LinkFrame`, `TickAck`, `TickBudget`,
`TickHolding`, `Close`. `Leave` and `ResendAfter` are `leave` and `resend`, whole.
`peer_switched` hands over what is held one frame a step (`DeliverHeld`), and
until it is done its side does nothing else (`Running`), so the steps are one
handler to everyone else. The three parts of `tick` are three actions; several
due at once are taken one after the other. Deadlines are armed flags whose expiry
may come at any later step, so no property depends on a duration. `LinkOpen` may
come although the link is already down: the event may have been queued.
`MakeOffer` may come after the side left, which is more than the code allows.

Left out: fragments (a link frame is whole), which frames the lanes have ready
(any frame may be), the reassembly error that closes a session, pacing.

`SessionStream` is what the features were promised: on each slot the next frame
the peer sent, and no other, is received. `Handoff` implements it with `sent` and
`inbox` as they are (`StreamSpec`).

### Relay and rows: `Relay`, `HostSessions`, `HostProofs`, `MCHostSessions`

`Relay` has one program counter a handler (the goroutine of one WebSocket), and a
record a token: the sides, `piping`, `started`, `endReason`, `done`. Steps are
cut at the lock: what a function does inside one critical section is one action,
what it does before or after is another. `idle → validated → loaded → saving or
joining → registered → waiting → parked → leaving → … → done` follows
`handlers_relay.go` and `relay.go` line by line. Loading the session and taking
its lock are one step in `Unregister` and `End`, where nothing can tell them
apart; in `Register` they are two. The pipe's copying is a pipe that runs until a
side is gone.

`HostSessions` adds the row of one host, the API calls that create, replace and
end a session, the deletion on `OnSessionEnd` (which may fail), the sweep (a read
and a later delete), the passing of the grace period, a shutdown and a crash that
keeps only the row. Left out: `MarkOutcome`, the audit trail, notifications, and
listing. The browser's authentication is one step with the token check.

### Identity: `IdentityStore`, `AgentLifecycle`, `AgentProofs`, `MCAgentLifecycle`

`IdentityStore` is a save step by step: stage, fill, flush, marker, rename of each
file, removal of what the save deletes, removal of the marker, and `recover` at
start-up. A directory is what a process sees plus the changes that have not
reached the disk; a power cut keeps any prefix of them, of each directory on its
own, and a flush makes all of them durable. A file's content and its SHA-256 are
the same value, and a half-written file is `Torn`.

`AgentLifecycle` is the agent around it: the start-up decision
(`lifecycle::decide`), enrolment, renewal, trust bundles, starting over,
self-removal, the restart by systemd, and `install.sh` writing its note while an
agent may be running. Devices, servers and certificates are small sets; the
server is external and answers as the code in the agent expects, or not at all.
The wipe of a directory is one step: a power cut leaves any part of it. The unit
and the binary are durable at once.

### Self-update: `AgentUpdate`, `AgentProofs`, `MCAgentUpdate`

State: the installed file `bin`, `prev`, the marker and its count; `run`, the
version of the process; the watchdog's task `watch`; the update job `lane` with the
version it installs; `awaiting` and `resetting` of the control loop. `accepted`,
`shaky` and `gaveUp` are history. One action a file operation of `apply_update`
(backup in two steps, because it overwrites the old one in place), of `rollback`
and of the marker; `StartUp` is `start_update_watchdog` with its three outcomes.
`Mute` versions run and are never acknowledged. The process may end between any
two steps, and files keep what was written: a power cut is not in the model (the
copy of `.prev` is not flushed before the swap). The control loop's select is
biased, so an outcome that is there is taken before an order. The swap, the
SELinux relabelling and the exit of a roll-back are one step. An order may come
before the acknowledgement, because the server lists a connection as eligible
before it acknowledges it.

### Presence: `AgentConns`, `DevicePresence`, `AgentApiProofs`, `MCAgentConns`

`AgentConns` follows the goroutine of each connection from `accept` to
`unregisterConn`, and the one that probes a connection it replaced. A device's
`statusGate` is held across a database write, which is why registration, heartbeat
and the offline write are several steps each. Connections are numbered in the
order of admission. Writes may fail and the server may restart.
`DevicePresence` is what the registry promises: the newest connection holds the
device, a connection that lost it never gets it back, and the count is the number
of devices held; `AgentConns` implements it with `conns`, `joined` and `count` as
they are (`PresenceSpec`). Who is admitted is in the next two models.

### Renewal: `CertRenewal`, `AgentApiProofs`, `MCCertRenewal`

One device. A certificate is its place in the ledger's order. The rows, the index
and the set of those seen in memory and on disk are separate, and every action
says which of them it changes; a restart rebuilds the index from the rows. The
machine saves what it receives and may lose an answer or a notice at any point; a
copy of an older key may connect beside it. Key generation, CSR checks and the
pacing of offers are left out.

### Erasure: `DevicePurge`, `PurgeProofs`, `MCDevicePurge`

Jobs for a device and for its tenant run stage by stage (`vm`, `object`,
`postgres`), with the deny-list on disk and in memory, removal orders, resumption
at start-up and the reconciler's sweep, while connections register, heartbeat and
flush buffered metrics. A store call may fail and the server may restart between
any two steps. The object stage does nothing, as the server is wired.

### Incidents: `Incidents`, `IncidentProofs`, `MCIncidents`

One rule of one customer within the hour of its budget. A transaction stores its
alert, looks for a room, waits for its lock, decides again on the locked row, and
commits or rolls back. A statement sees what was committed when it began plus its
own writes; a locked row is waited for and re-read, but the statement's subqueries
keep the first snapshot, which is the whole point of the erasure's recount.
`opening` is the set of transactions whose insert of an open room has not been
committed: the partial unique index makes another insert, or a reopening, for the
same key wait for them, and lets one for another key pass.

### Backfill: `Backfill`, `BackfillProofs`, `MCBackfill`

Both ends: the scheduler with its caps, grants and reaping, the handlers of a
connection, and the agent's coordinator with its two timers and durable cursor. A
batch is its number, a deadline a number of ticks left. A message of each
direction is under way at most, as the protocol has it. Connections are lost, and
the server may read one to its end after the agent has the next; the device may
have moved to another tenant between them. The agent's reads of its own store
succeed.

### Rules: `RuleDelivery`, `MCRuleDelivery`

The rollout row of one rule, requests that stop, resume, enable or disable it, the
refresh that walks the connections, and the push each registration makes. A push
reads the row and sends in a later step, and its outcome may be remembered before
or after another's. `excused` records the connections where pushes overlapped or a
read failed.

### AMT: `AmtChannels`, `AmtProofs`

One connection of an AMT device: the message loop, requests that each open a
channel, and the device (external), which keeps to its window, answers opens or
not, and closes when it likes. A request is named as its channel. Data is a number
of bytes and the wire may break it anywhere. Steps are cut at the locks: `Close`
of a channel is three steps for each of the two goroutines that may run it,
`confirmOpen` two, `Conn.Close` one and then one for each channel and open. This
module has no run of its own: its invariants are proved for every window and any
number of channels, after TLC had checked them on one request, one channel the
device opened and a window of three (4.1 million states).

## 3. Runs

| Run | Instance | Shows |
|---|---|---|
| `handoff_shared` | shared layout, two frames each way (234 thousand states) | types; exactly once in order; copies cover losses; the budget never drops a direct link; at most two path changes; the stream is implemented; every frame taken is handed over or the session ends; every attempt settles |
| `handoff_separate` | three slots, the host fills each window and overshoots it (1.2 million) | held frames stay within the limit, with one notice for several slots |
| `host_sessions` | two connections, two calls, two tokens, two technicians, shutdown (1.7 million) | one teardown a session; the drain count never falls below the live sessions |
| `host_live` | two connections, one call, sweep and crash (205 thousand) | every parked handler returns; a row the relay does not hold is deleted |
| `agent_identity` | two servers, two devices, a renewal, a bundle, two installs, two power cuts, a fault, four events (663 thousand) | a save is all there or not there; a restart loads what the agent presents; recovery never invents a state; a removal finishes |
| `agent_update` | three versions, one mute, four orders, three kills, two faults (190 thousand) | types; a sound backup is the acknowledged version and no torn file is installed; a version that stays silent goes back |
| `agent_conns` | three connections of a device, database errors, a restart (203 thousand) | types; a served device is online; a replaced connection is torn down; presence is implemented |
| `cert_renewal` | three certificates, two connections, a copied key, two requests, a restart (3.5 million) | the machine can always connect with what it saved; a superseded certificate never comes back |
| `device_purge` | one device, a purge of it and one of its tenant, a fault, a restart (348 thousand) | types; an erased device stays out; one late registration at most; crashes alone leave no job behind; orphaned series are swept |
| `incidents` | two machines, two transactions, two rooms, two ticks, an erasure (4.3 million) | counts match the alerts; a room closed for being quiet is quiet; the budget is exceeded by the concurrency alone |
| `backfill` | two devices, three connections, two tenants, one slot, two batches (185 thousand) | types; the scheduler's books; nothing acknowledged that is not stored; a drain has its slot; every backlog drains or waits for an acknowledgement that will not come |
| `rule_delivery` | one machine with two connections, a stop and an edit, failing reads (184 thousand) | a machine ends up with the rule as the row has it, outside the three cases the property names |

Bounds. Two frames a direction are enough for every order the hand-off's argument
distinguishes: a frame on the relay before the switch, one on the link, one held,
one re-sent, with the peer doing the same; the second run adds slots that share a
notice. The proofs below remove these bounds.
Two handlers are one pair of a session, which is all a session admits; the second
token is needed for a replacement. Four agent events are an installation, a
renewal or bundle, and two interruptions. Three versions are one that works, one
that does not and one to go on to; four orders and three kills let a roll-back be
interrupted and tried again. Three connections of a device are one being torn
down, one being replaced and one arriving; devices share nothing but the count,
which the refinement sums over all of them. Three certificates are one being
superseded, its successor, and one in flight. One device and one connection are
enough for erasure, because jobs meet only in what they erase, and the two jobs
overlap there. Two transactions are a pair that counted before each other's
commit, and the bound on the budget names their number. Three connections of two
devices give the backfill a successor that meets its predecessor's teardown while
the other device waits for the only slot. Two edits and two connections make a
pair of pushes to each.

The type invariants of `HostSessions`, `AgentLifecycle`, `CertRenewal`, `Incidents`
and `RuleDelivery` hold on these instances too and are not part of the runs.

The identity run, and the theorems about the same module (`FailureAssumption`),
exclude two cases in which the properties fail: I/O errors after the marker (under
the findings below), and the death of the process alone, without power loss,
between the marker's rename or removal and its flush. In that case the next process recovers from a directory entry that a later power cut may still take
back (a hazard in `PROJECT.json`).

Deadlock is checked in `backfill`, where time always passes. Elsewhere it is not:
sessions end, handlers return and bounded events run out.

### Fairness

- Hand-off: the core's loop reads its relay and, while it is up, its link; armed
  deadlines pass; a link that is down is noticed (the host's silence check, the
  browser's ICE state); a relay connection that is gone closes the peer's side.
  Nothing is assumed of sending, of the link opening, or of losing a link that
  is up.
- Host: every goroutine that can take a step takes it; the peer wait times out;
  the pipe notices a side that is gone; calls go on; the grace period passes and
  the sweep runs. Nothing is assumed of pings, of clients arriving or leaving.
- Identity: the agent's own steps and systemd's restart. Nothing is assumed of
  the installer, of the server or of power.
- Presence: both goroutines of a connection, the one that serves it and the one
  that probes it when replaced (its probe has a timeout). Nothing of arrivals,
  losses or messages.
- Erasure: the goroutines of jobs and connections, and the sweep's timer. Nothing
  of agents, administrators or restarts.
- Backfill: agents, connections and time run on. A grant that arrives in time, a
  batch sent within its grant and a cursor saved are strongly fair: a round trip
  takes far less than the sixty seconds of a grant, so a drain does not lose the
  race for ever, and a failed save of the cursor is not permanent.
- Rules: pushes, requests under way, registration of an open connection, and the
  machine's installing.
- Update: the restart by systemd and the watchdog's timer, nothing else.

### Findings and known disagreements

What the repository says of itself was stated as a formula beside the properties
where the model could decide it. Those below do not hold of the code. They stay in
the modules with the line they quote, each refuted by TLC on a small instance, and
the passing properties say what holds instead.

- `EndedStops` (`relay.go:277`, "End ends a session from outside it"; ADR-059:35,
  "ending the row ends the relay"). `End` sets its reason under the lock while the
  session is not piping, unlocks and calls `release`; `startPipeIfReady`, which
  does not look at the reason, may start the pipe in between, and `release` then
  returns. Every later `End` returns false.
- `TeardownReturns` (`relay.go:303`, Unregister "drops the entry, count and registry
  record"; ADR-093:42). `Register` publishes the session before it is counted and
  saves the record after: a release in the first window leaves the count, one in
  the second the record. `CountCoversLive` shows that the count never falls short.
- `LiveHasRow` (ADR-059:3, "the row and the live session end together"). The token is
  checked once, before `Register`; a row deleted in between leaves both sides
  piping without a row.
- `RecoveredWhole` with a fault after the commit point (`identity_store.rs:2`,
  "recovery yields exactly the old or the new set"). A save that fails after its
  marker leaves the marker standing; the next save refills the staged files under
  it, and if that is interrupted, recovery may install a half-written one.
- `FreshNoteUsed` (ADR-128:87, "Wipes and enrols"). `on_acknowledged` deletes any note,
  also one the installer wrote for the restart it is about to make.
- `BackupKept` (Agent-Updates.md, "the running binary is kept alongside the new one
  before the swap"). A copy that fails is logged, and the swap goes on (`update.rs:122`).
- `ConfirmedStays` (Agent-Updates.md, "the marker is cleared and the update is
  confirmed"). An acknowledgement handled while the watchdog's minute is already
  over is followed by the roll-back.
- `ClearedAtStart` (`app.go:259`). The statuses left online by a previous run are
  reset in the default tenant only.
- `SupersededIsClosed` (ADR-128:157). The walk over the connections may pass before a
  connection admitted on the old certificate has joined the registry.
- `RenewalsWithinDay` (ADR-128:142). The day's allowance is counted (`renewal.go:205`)
  before the request enters the in-flight guard, so two connections of a device
  may both pass it.
- `ErasedIsRefused` (`orchestrator.go:124`). `DeregisterTenant` adds only connected
  devices to the deny-list in memory (`deregister.go:58`) and the index of the
  ledger keeps their certificates: an offline device of an erased tenant is
  admitted until the next restart. `StaysOut` shows that the purge of a device is
  not affected.
- `CountsSurviveErasure` (`postgres_fold.go:75`). An erasure that waited for a fold
  recounts the room from the snapshot it began with.
- `AgentRetries` (`conn_backfill.go:84`, "not acking (agent will retry)"). The agent has
  no timer for an acknowledgement: it waits until the connection ends.
- `DrainersWithinCap` (`backfill_scheduler.go:26`). `Release` goes by the device, so the
  teardown of an old connection gives away the grant of the new one.
- `PutLeavesStop` (`handlers_rules_rollout.go:50`). The row is read and written back
  whole: a stop made in between is undone.
- `NeverDefaults` (`alert_rules_catalogue.go:72`). A connection whose organisation could
  not be read is sent the defaults.
- `AbandonCloses` (`mps_conn.go:128`, "a channel the loop opened in the meantime is
  closed"). The loop takes the open off the map under the lock and answers after
  it: an `abandonOpen` in between finds an empty slot, and the channel stays open
  until the connection ends.

Seen and not stated: ADR-127's "at most 8.25 MiB" of held frames may be exceeded by
up to a frame a slot (the limit in the code allows for it, and `HeldWithinLimit`
holds); a self-removal deletes a note that the installer has just written; the wipe
of a removal is not flushed before the unit goes; `.prev` is not flushed before the
swap, and a kill between clearing the marker and resetting the count leaves an old
count; two info alerts recorded at once open no room although together they would
(`postgres_fold.go:200`); `unregisterConn` of AMT deletes whatever connection is
stored under the device's UUID, and AMT's `Write` never consults the send window it
keeps (the last two by reading, outside the models).

## 4. Proofs

All theorems hold for every value of the constants under the assumption its module
names, and each assumption is one that the code or the meaning of the constant gives:
positive windows and sizes, finite sets where a size is taken, a name for nobody that
is nobody's. `HandoffAssumption` allows either layout and any quotas;
`ConnsAssumption` wants finitely many devices, because the count is their number;
`IncidentsAssumption` finitely many transactions at once; AMT states `Sensible` (a
positive window, and requests that are not channels of the device) as a hypothesis.
The identity store's `FailureAssumption` alone is about the environment: it names the
failures the store withstands, and section 3 the two it does not.
The bounds of TLC's instances (rooms, ticks, restarts, faults, certificates) are
constants too, so the theorems hold for each of them.

| Theorem | Module | States |
|---|---|---|
| `TypeCorrect` | `HandoffProofs` | `Spec => []TypeOK` |
| `PathMovesTwiceHolds` | `HandoffProofs` | `Spec => PathMovesTwice` |
| `BudgetNeverDropsDirectHolds` | `HandoffProofs` | `Spec => []BudgetNeverDropsDirect` |
| `InOrderOnceHolds` | `HandoffProofs` | `Spec => []InOrderOnce` |
| `KeptCoversLossHolds` | `HandoffProofs` | `Spec => []KeptCoversLoss` |
| `HeldWithinLimitHolds` | `HandoffProofs` | `Spec => []HeldWithinLimit` |
| `StreamImplemented` | `HandoffProofs` | `Spec => StreamSpec` |
| `OneTeardownHolds` | `HostProofs` | `Spec => []OneTeardown` |
| `CountCoversLiveHolds` | `HostProofs` | `Spec => []CountCoversLive` |
| `ConnsTypesHold` | `AgentApiProofs` | `ConnsSpec => []ConnsTypeOK` |
| `ServedIsOnlineHolds` | `AgentApiProofs` | `ConnsSpec => []ServedIsOnline` |
| `PresenceImplemented` | `AgentApiProofs` | `ConnsSpec => PresenceSpec` |
| `NeverLockedOutHolds` | `AgentApiProofs` | `RenewalSpec => []NeverLockedOut` |
| `NoComebackHolds` | `AgentApiProofs` | `RenewalSpec => []NoComeback` |
| `PurgeTypesHold` | `PurgeProofs` | `PurgeSpec => []PurgeTypeOK` |
| `StaysOutHolds` | `PurgeProofs` | `PurgeSpec => []StaysOut` |
| `OneLateRegistrationHolds` | `PurgeProofs` | `PurgeSpec => []OneLateRegistration` |
| `CrashAloneResumesHolds` | `PurgeProofs` | `PurgeSpec => []CrashAloneResumes` |
| `CountsMatchHolds` | `IncidentProofs` | `IncidentsSpec => []CountsMatch` |
| `ClosedWhenQuietHolds` | `IncidentProofs` | `IncidentsSpec => []ClosedWhenQuiet` |
| `BudgetOvershootHolds` | `IncidentProofs` | `IncidentsSpec => []BudgetOvershoot` |
| `BackfillTypesHold` | `BackfillProofs` | `BackfillSpec => []BackfillTypeOK` |
| `SlotBooksHold` | `BackfillProofs` | `BackfillSpec => []SlotBooks` |
| `AckedIsStoredHolds` | `BackfillProofs` | `BackfillSpec => []AckedIsStored` |
| `DrainHasSlotHolds` | `BackfillProofs` | `BackfillSpec => []DrainHasSlot` |
| `UpdateTypesHold` | `AgentProofs` | `UpdateSpec => []UpdateTypeOK` |
| `RestoresAcceptedHolds` | `AgentProofs` | `UpdateSpec => []RestoresAccepted` |
| `AllOrNothingHolds` | `AgentProofs` | `Spec => []AllOrNothing` |
| `RestartHolds` | `AgentProofs` | `Spec => []RestartLoadsMemory` |
| `RecoveredHolds` | `AgentProofs` | `Spec => []RecoveredWhole` |
| `NeverOverrunHolds` | `AmtProofs` | `Sensible => (AmtSpec => []NeverOverrun)` |
| `NoLostWakeupHolds` | `AmtProofs` | the same for `NoLostWakeup` |
| `LoopNeverWaitsHolds` | `AmtProofs` | the same for `LoopNeverWaits` |
| `DeviceKeepsNoneHolds` | `AmtProofs` | the same for `DeviceKeepsNone` |

**In order, exactly once.** `InOrderOnce` says nothing about what is still on the
wires, so it is not inductive. `IInv` (module `HandoffInvariant`) is: for each
direction, from a side `s` to its peer, and each slot,

1. what `s` put on the relay and the peer has not read is, in order, exactly the
   frames after the last one handed over, up to the last that `s` put there
   (`RelayShape`);
2. what `s` put on the link and the peer has not read is, in order, exactly the
   frames after those delivered and held, up to the last that `s` numbered,
   unless the peer has left (`LinkShape`, `HeldShape`);
3. link number `n` is the stream's frame `base + n`, and the copies `s` keeps are
   the last numbers, back at least to the peer's delivered count (`Numbering`,
   `KeptShape`);
4. no frame follows an unread switch notice on the relay, a confirmation never
   counts more than was delivered, and a fall-back notice carries a count that no
   longer changes (`SwitchShape`, `NoticeShape`, `PathShape`).

A step is taken by one side. In the direction that starts there it is a sender's
turn, in the other a receiver's turn. `HandoffProofs` first treats what a sender
does: sending on either path, switching, and re-sending, where the copies above
the peer's count continue the relay's frames without gap or overlap
(`AgainCovers`, `ResentCovers`, `ResendStep`); then what a
receiver does: a frame or the switch notice read from the relay, a frame held,
delivered, or delivered from what is held; then the
turns that move no frame (`PeerTurn`, `OwnTurn`), and last puts the two directions of each
action together. The refinement costs little after that: a step
that appends to an inbox leaves `IInv` true, and the only place `IInv` leaves for
the appended frame is the next one.

**The budget.** `BudgetNeverDropsDirect` needs `AttemptOnce`: an opened link was
offered and taken, so both sides have made their one attempt and neither arms its
budget again.

**Bytes held.** Before a side has read its peer's switch notice it has delivered
nothing from the link, so no confirmation counts anything and no copy is let go:
all that the peer put on a channel is still unconfirmed there, and `can_take` lets it
be one window and less than one frame. `WindowInv` says so of each slot, measured
along the log of the link, and that what is held is the part of the log that was
read; `IInv` (`InboxShape`, `NoticeShape`, `KeptShape`, `Numbering`) gives
the premises. The sums of lengths are a recursive function; that it exists and is what
its equation says is proved first (`SumsExist`, `SumsAre`, by a least counterexample),
then what appending and reading on add to it (`SumsGrow`, `SumsAscend`).
`FrameCapAssumption` is the lanes' cap (`outbox.rs`, `session-channel.ts`: 16 KiB and
256 KiB + 64) against a slack of 4 MiB.

**One teardown.** `HostProofs` shows that every action either leaves the sessions
alone or changes one of them in one of a few ways (`SessionStep`), and that
`SessionTypes /\ OneTeardown` is kept by each of these.

**The drain count.** That the count covers the live sessions is not inductive: a
release gives a count back some steps after the session stopped being live. The
proof counts instead the sessions whose count is still owed, of which every live one
is (`Covered`). A release that will give a count back has claimed its session alone
(`Claims`), and a session with a side or a pipe was counted (`Sided`), so no count is
given back twice.

**Presence.** `ConnsInv` ties the gate to the phase of its connection: while a gate
is kept across the offline write nobody holds the device (`Gated`), a connection is
held for its own device only (`Placed`), one that was never in the registry has
nothing to show for it (`Fresh`), and the count is the number of devices held
(`Counted`). So the late offline write of an old connection falls before the
successor's registration or not at all. The refinement has no mapping to invent:
joining is the abstract join, teardown the abstract leave, a restart the abstract
reset.

**Renewal.** The machine's certificate is on both ledgers, and nothing later than it
was ever seen (`Current`), so no prune reaches it. What threatens this is an answer
that arrives late: the machine would install a certificate that is not on the ledger,
or one older than its own. `Conversation` follows the frames of each connection:
requests carry increasing keys and arrive in order (`InOrder`), and the answer to the
key still outstanding is a recorded certificate no earlier than the machine's
(`Answered`, `Outstanding`); an installed notice speaks of nothing later than the
machine has (`Noticed`). `NoComeback` adds that what was pruned stays pruned
(`Remembered`).

**Erasure.** A run of a job reaches its erasing stages only after the device was
denied in memory and on disk (`DeniedFirst`, `ErasedOnDisk`), the completion flag is
its last write (`FlaggedLast`), and after a start every incomplete job is worked on
or excused (`WorkedOn`). `StaysOut` is inductive with these. A connection writes
after the denial only the registration it had begun (`HeldJoined`, `LateOnce`).

**Incidents.** `CountsMatch` compares a room with its alerts, and a transaction
writes both at once but computed them earlier. `IncInv` says of every transaction
that will write a room that it holds the room's row lock, or the right to open it,
until it commits (`Places`), and that what it will write is what the room will then
hold (`Images`), which another transaction cannot change: two that file for the same
key would have to hold the same row or the same place in the index (`FilingAlone`).
Alerts keep an identity, so that filing a set of them in a room neither merges nor
doubles any (`Identities`, `CommitAlerts`). A free row is nobody's, so people and the
sweep disturb no image (`RowUpdate`); an erasure waits for the rows it recounts, and
what it could not see is `blurred`. A fold's restated time is at least that of all its
alerts, and closing adds the window to it, which is `ClosedWhenQuiet`. The budget is a
count of alerts and transactions together: a transaction that starts sees the budget
unspent, and each under way adds one at most (`Budget`).

**Backfill.** For `SlotBooks` a release takes one from the two counters exactly when it
takes a holder away (lemmas `Releases`, `BooksReleased`, `BooksAdmitted`, about the
size of the set of holders). For `AckedIsStored` the batch under way comes after what
the server has, and only what it has is acknowledged (`Linked`, `Delivered`). For
`DrainHasSlot` a grant that lasts `n` ticks, in the agent's hands or under way, is
backed by a slot that lasts at least `n`, or a connection of the device is gone
(`Granted`).

**The backup.** `RestoresAccepted` is about the moment a watchdog may restore. Its
inductive form follows the files through an update: except after a swap, what is
installed is the version that runs (`Installed`); an update that nothing spoiled
was ordered by the acknowledged version, outside a watchdog's minute, and its
backup is that version once the copy is whole (`SoundBackup`); and while a marker
is there the backup is the acknowledged version, so the next start finds it so
(`SoundDisk`).

**The identity store.** `AllOrNothing` speaks of every state a power cut may leave,
and a cut takes the two directories apart, so the inductive invariant is about each
view of each directory that may survive (`past`), not about the disk alone. `StoreOK`
follows a save through them: until the marker is renamed no view has a marker
(`Unmarked`); when it is, the staged files are whole in every view (`Staged`), because
their flush came first; from the marker's flush on every view has the marker, and each
file it names staged or in place (`Marked`), so recovery goes forward in every one;
and when the marker is removed the files are in place in every view (`InPlace`), so it
no longer matters which views still have it. A flush makes one view of a directory,
a write adds one (`Moves`, `Shrinks`), and the proof goes by what a write touches:
the marker, the files of the save, or nothing a recovery looks at. `IdentityOK`
carries the identity through a life of the agent: outside a marked save every view
holds one whole identity or none, with the master keys of its server (`Settled`);
while the agent runs, and in a save of another file, it is the one in memory
(`Presented`); and a bundle under way is of that server (`SameServer`). The theorems
hold for any sets of servers and bounds, and for the failures of `FailureAssumption`:
power lost anywhere, the process killed anywhere but in the two places named in
section 3, errors before the commit point.

**AMT channels.** `AmtInv` adds up, for each channel, every place where a part of the
window may be: what the device may still send, bytes on the wire, bytes waiting to
be read, bytes taken and not acknowledged, the adjust that Read has in hand and
the one on its way. The sum never passes the window, and a channel the device does
not have has none of it (`Books`); `NeverOverrun` is one term of it. `Messages` says
that an open or a confirm reaches the device once, `SlotEmpty` that an open still
to be answered has an empty slot and one answerer, and `LastWord` that a close from
the device means it has closed and that a channel being confirmed to it is on the
server's map. With these,
`NoLostWakeup` and `DeviceKeepsNone` are inductive. The proofs go by who takes the
step, a request, the loop or the device, and within it by the few actions that
touch the conjunct; that all others leave it alone is one step.

Only model-checked is liveness (`NothingStranded`, `AttemptSettles`,
`HandlersReturn`, `RowReclaimed`, `RemovalFinishes`, `MuteGoesBack`, `ReplacedIsGone`,
`OrphansSwept`, `DrainsOrStalls`, `MachinesCatchUp`), which is outside what TLAPS
proves here. Every invariant of the runs is a theorem.

## 5. Plan

Done: models of the hand-off, relay and rows, identity store and agent life,
self-update, presence, renewal, erasure, incidents, backfill, rule delivery and AMT
channels; theorems for every safety property that the runs check.

Models next: `Outbox` and `Fragments` (lane order and byte bounds, cutting and
reassembling against a reference definition, then the hand-off with fragments);
`EdgeStore` (an append-only segment after a torn write and a compaction); the table
of AMT connections and the device row.

## 6. Not modelled

Parts with status `not_modelled` in `PROJECT.json`, and what a `partly` modelled part's
note leaves out. In short: generated API code (`openapi_gen.go` is 28% of the server
by itself), request handlers over single transactions, and the wire codec, which
the repository's golden files cover; WebRTC, ICE and pacing, which are a link that
opens and goes down; terminal, files and desktop, which are operating-system I/O;
certificates, passwords and tokens, which are values without cryptography; anomaly
detection, which is floating-point arithmetic; the waiters for logs and history of a
connection (`conn_logs.go`, `conn_history.go`), each a map of channels used by one
request; coverage rows, accounts, inventory and settings; load-test tools; and the
console's views, which have no ordering of their own.
