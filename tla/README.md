# A TLA+ model of xpanel-node

xpanel-node is the agent that runs beside an xray process on a proxy node. It
keeps xray running with the configuration a master panel sends, collects the
traffic xray counts, and delivers it to the master, which bills it. This
directory holds TLA+ modules translated from the agent's Go sources, the TLC
configurations that check them on small instances, and proofs for TLAPS of
what matters most for every instance.

    tlc -workers 2 -config MCStores.cfg MCStores.tla     # a model-checking run
    tlapm OutboxProofs.tla                               # a module of proofs

`PROJECT.json` is the machine-readable index: components, runs, mutants, the
source lines each definition stands for, hazards and theorems.

## 1. Inventory

Paths are relative to `src/`; `internal/agent/` is written `agent/`.

| component | source | state it keeps | operations |
|---|---|---|---|
| outbox | `agent/outbox/outbox.go` | `seq`, `batches`, one JSON file | `Load`, `Append`, `OldestExcept`, `Ack`, `DropExpired` |
| delivery (client) | `agent/client/client.go` | `pending`, `ws`, `ackMode`, `sentThisConn`, `reportKick` | collect, report and connection loops, `dispatch` of `traffic_ack` |
| supervisor | `agent/xrayproc/xrayproc.go`, `errors.go` | the process, `started`, the failure account, `runningHash`, the reject cooldown, the configuration and its `.bak` and `.good` | `Start`, `Stop`, `RestartWithConfig`, `WriteConfigIfValid`, `EnsureUsableConfig`, `Watchdog` |
| boot and exit | `cmd/agent/main.go` | none | the order of start-up, the final `Stop` |
| users and statistics | `agent/stats/stats.go` | user cache, counter baseline, online snapshot | `SeedUsers`, `SyncUsers`, `Collect`, `OnlineUsers` |
| traffic counting (client) | `client.go` 202-296 | billing cycles, `pending` | `accumulate`, `applyCycles`, `sealCycle` |
| loops and runtime settings (client) | `client.go` 179-196, 640-947 | intervals, one-slot reset channels, `heartbeatKick` | `applyAgentSettings`, the five loops and their tickers, heartbeats |
| kernel upgrade | `agent/client/xrayupgrade.go`, `agent/upgrade/xray.go`, `xrayprobe.go` | the binary, its backup, the single-flight flag | download, probe, stop, replace, start, roll back |
| agent self-upgrade | `agent/upgrade/upgrade.go`, `client.go`, `agent/cli/cli.go` | the executable and its `.tmp` | version check, download, verify, replace, restart |
| geo data | `agent/geo/geo.go`, `agent/upgrade/geofile.go` | rule files with `.tmp` and `.prev`, schedule | fetch, test, replace, undo, reload, retry |
| certificates | `agent/certs/certs.go`, `pkg/tlscert/tlscert.go` | PEM files under one directory | `Write`, `WriteCA`, `SyncManaged` |
| accounts | `agent/accounts/accounts.go` | one file | set up once, rotate |
| log files | `agent/logfile/logfile.go`, `agent/xrayproc/logtail.go` | a sliding window on disk, a ring in memory | `Write`, trim |
| metrics, online users | `agent/collector/*.go`, `stats.go` | previous samples | reads of `/proc` and of xray |
| command line | `agent/cli/*.go` | `agent.pid` | start, stop, restart, status, panel, logs |
| file helper | `agent/fsutil/fsutil.go` | none | `CopyFile` |
| wire protocol | `pkg/protocol/*.go`, `docs/PROTOCOL.md` | none | frames |
| configuration, i18n, installer | `agent/config`, `agent/i18n`, `deploy/` | none | read once |
| master panel, xray-core | not in the repository | dedupe records, traffic; the running users and counters | external |

### How they interact

- The *collect loop* asks `stats.Collect` for deltas and adds them to
  `client.pending`. The *report loop* moves `pending` into the outbox, drops what
  is too old or too much, and sends what the connection has not carried yet. The
  *message loop* (`connectAndServe`) dials, authenticates, and deletes a batch
  when the master's `traffic_ack` arrives. The three share `c.mu`, `sendMu`,
  `sentMu` and an atomic `ackMode`.
- The same message loop executes the master's commands: a configuration push
  (`RestartWithConfig`), a change of users over gRPC followed by
  `WriteConfigIfValid`, `restart_xray`, upgrades, settings, certificates.
- The *watchdog* goroutine shares the supervisor's `p.mu`, but reads and writes
  configuration files without it. It tells the master that it gave up through
  `OnGiveUp`.
- Before it changes users, `sync_users` compares the billing cycles of the list with
  those it knows, collects once more to seal the old ones, and installs the new ones.
  The collect loop goes on collecting meanwhile.
- A command to upgrade xray, one to upgrade the agent, and the updater of the rule files
  have goroutines of their own. The first and the third stop and start xray; the first
  and the second share the flag `upgrading`; the first and the third write the same rule
  files.
- The commands of an operator are processes: they find agents and xray through
  `agent.pid`, `xray.pid` and the list of processes, and share `<exe>.tmp` and the log
  file with the agent, without a lock.
- `OnStarted` hooks make `stats` rebuild its user cache after every start of xray.

### Which behaviours are hard

- *Interleavings.* Every loop above runs by itself and reads state, releases the
  lock, and acts on what it read: `ackMode` once per round, the watchdog's
  verdict before its rollback, `c.ws` at the time of a failed write.
- *Crashes.* The agent may be killed between any two steps; xray is in a process
  group of its own and outlives it. An orderly exit does not flush `pending`, so
  it is no better than a crash for the traffic.
- *Failed saves and damaged files.* The outbox is one file that may be
  unreadable, damaged, too large, or impossible to replace.
- *Unreliable delivery.* Frames and answers are lost with their connection and
  the batch is sent again; the master remembers identifiers for a limited time.
- *Loops that outlive their connection.* A cancelled goroutine may still take a tick, a
  kick or a change of period meant for its successor, and writes to the connection of now.
- *Several files that have to agree.* A certificate and its key, two rule files, the
  executable, the version that was reported and the process that runs: each is replaced
  by a rename of its own.
- *Retries without end, and retries that end.* The supervisor backs off, falls
  back to the last good configuration, gives up, and probes slowly afterwards.

### What makes each component correct

- outbox: what was saved is not lost; an acknowledged batch never returns; the
  order survives salvage; limits take the oldest.
- delivery: a unit of traffic is in one place; it is deleted only when booked (or
  released on purpose); it is billed once; it is sent eventually.
- supervisor: the file on disk was tested; when nothing can run the master is
  told; when something can run it runs again without help; a slow probe does not
  disturb the account.
- users: whoever the cache forgets is not in xray; after a command the users in
  xray are those of the configuration.
- counting: a byte xray counted is reported at most once, and never under a later
  billing cycle than the one it was transferred in.
- loops: each runs at the period in force; an alert reaches the master.
- kernel upgrade: file, reported version and answer agree; a failed upgrade leaves the old
  executable; success means that the new one runs; the flags are given back.
- self-upgrade: the program becomes only what was asked for, and is never half written.
- rule files: never half written; a failed update leaves what was there; what is installed
  works with the configuration.
- certificates, accounts: what the master was told is what is on disk; what an operator
  put there stays.
- log: the file is a window of the log without holes, and bounded.
- daemon control: one agent, one xray; after `stop` nothing is left.

## 2. The plan

Money first, then availability, then the rest: what a customer is billed for, what
keeps his proxy running, what changes rarely.

| module | models | state |
|---|---|---|
| `Outbox` | one persistent outbox | modelled, checked, proved |
| `TrafficLedger` | abstract: where a unit of traffic stands | stated |
| `TrafficDelivery` | client, outbox (EXTENDS `Outbox`), connection, master | modelled, checked, proved |
| `TrafficRefinement` | the mapping of `TrafficDelivery` to `TrafficLedger` | checked, proved |
| `XrayProc` | supervisor, boot, exit | modelled, checked, proved |
| `UserSync` | users, cache, commands and starts around them | modelled, checked, proved |
| `TrafficCounting` | collector, cycles, sealing | modelled, checked, proved |
| `AgentLoops` | the loops of the client, their periods, heartbeats and alerts | modelled, checked, proved |
| `KernelUpgrade` | EXTENDS `XrayProc`: the upgrade, the agent's own upgrade and `geoUpdater.Reload` as further actors on the supervisor | modelled, checked, proved |
| `GeoUpdate` | the updater and a kernel upgrade over the same rule files | modelled, checked, proved |
| `SelfUpgrade` | the panel and a command over the same program file | modelled, checked, proved |
| `NodeFiles` | certificates, CAs, internal accounts | modelled, checked, proved |
| `LogWindow` | the sliding log file, its writer and the vacuum command | modelled, checked, proved |
| `LogBuffers` | the ring and the tail in memory, for output cut into any pieces | modelled, checked, proved |
| `DaemonControl` | start, stop and restart, agents and xray without systemd | modelled, checked, proved |

`MCStores` and `MCNode` put parts that share no state into one run each (section 4).

Every invariant and every action property that a run checks is also a theorem; the
liveness properties are not, and cannot be here (section 6). Left: abstract
specifications of the three upgrades ("either the old or the new file"), shown to be
implemented; and `DeliveryImplementsLedger` for a file that cannot be read, which needs a
ledger that may lose what is in it.

## 3. How the modules follow the code

Every definition carries its source lines in `PROJECT.json`. A definition whose comment
says *Mutant of* is a plausible mistake; no specification uses it. History variables
(marked in the `VARIABLES`) are read by properties only.

### Outbox

`batches`, `seq` are the fields of `Outbox`; `disk` is the file: `batches` and `seq`, or
damaged. `AppendBatch`, `Ack`, `DropExpired` and `Load` are the methods, each one step
under `o.mu`. `Commit` is `saveLocked`: it fits the batches into `MaxBytes` (dropping
the oldest), writes, and renames; when it fails the caller restores the memory as the
code does. A file is loaded sound, unreadable, damaged and salvaged, or damaged and
impossible to set aside. `quarantine` stands for the files set aside. `made`, `acked`,
`expired` and `abandoned` are history: the last holds the batches of a file that could be
neither read nor set aside, which the code then overwrites (section 8).

A batch is one or more entries with an identifier and a sequence number; its size in the
file is its number of entries.

### TrafficDelivery

Three program counters, one for each goroutine that touches the outbox: the collect
loop, the report loop (`rpc`, with what it has read: `drainAck`, and the batch it sends,
`picked`) and the message loop (`phase`). Connections are numbered; frames
travel in order on each, and are lost with it. The master is external: with
`traffic_ack` it books batch and traffic in one transaction, answers, and forgets
identifiers after `Retention`; without, it adds. `reportPending` is split where it
releases a lock: `StartReport`, `FlushDone` or `FlushFails`, `DropStep`,
`CheckConnected`, then for each batch `PickOldest`, `SendBatch`, `MarkSent` or
`DeleteSent`. The in-memory outbox used by tests is not modelled.

`TrafficRefinement` maps an entry to *volatile* (in `pending` or on its way), *durable*
(in a file), *billed*, *released* or *lost*; the first of these that fits, in the order of
`StatusOf`. `Standing` is the status of every entry, and what `TrafficLedger` sees.

### XrayProc

Two goroutines, main and watchdog, each with a program counter; `p.mu` is `mu`, held
during the readiness window of a start, so the other one waits there as in the code.
The failure account (`book`) is a record, and each of `noteStartFailureLocked`,
`noteProbeFailureLocked`, `giveUpLocked`, `ResetFailures`, `markGaveUp` a function of it.
The files are `disk`, `bak`, `good`. `Valid` configurations pass `xray -test`;
`Surviving` ones outlive the window. Time is abstract: a wait ends when its timer fires.
A `Crash` may happen anywhere; xray survives it and the next boot kills it.

### UserSync

`xray` is what the running process serves, `cache` is `currentUsers`, `disk` and `bak`
the users of the configuration files. `SyncUsers` is a loop over inbounds (`NextTag`)
with one step per gRPC call, `WriteConfig` what `sync_users` does with the file. The
hook of each start is read (`MainReads`, `DogReads`) and installed (`MainSeeds`,
`DogSeeds`) in two steps, outside `p.mu`, as `notifyStarted` does. `.good` may hold any
configuration, which allows more than the code does. The failure account is left to
`XrayProc`: here the watchdog may roll back whenever xray is down.

### TrafficCounting

`counter` belongs to xray; `last`, `baseline` to the collector; `cycles` to the client.
`Collect` is one step, as it holds the lock over the query, and `Accumulate` another,
since the entries are in nobody's lock in between: `loop`/`held` is the collect loop,
`msg`/`put` the message loop that seals. `pending` adds up what `accumulate` put there;
what becomes of it is the subject of `TrafficDelivery`. Uplink and downlink are one
counter. An inbound is a name that no list gives a cycle.

### AgentLoops

`rt` holds the pushed settings, `queue` the one-slot channels, `period` the tickers.
`PeriodUnder` is the four `effective...` functions. The loops of the process (collect,
report, online) and those of a connection (heartbeat, metrics) are in `loop`; `late` is
the loop of the previous connection that was cancelled and has not noticed: it may pick a
tick, a kick or a reset once more, and `send` writes to the connection of now. A socket is
open, dead (the network is gone and nobody knows) or closed. Of a heartbeat only the
supervisor's health is kept. A ticker may fire at any time. `missed` is history: the loops
whose last change was dropped or taken by a late loop.

### KernelUpgrade

It extends `XrayProc`: `mu`, `process`, the failure account and the two goroutines are
those of the supervisor, and `Stops`, `Spawns`, `Survives`, `StartFails` are used with the
new owners `"up"` and `"geo"`. `up` is the program counter of `runXrayUpgrade`, from the
flags to their release. `bin` and `prev` are the executable and its backup, `image` the
one the running process was made from, `version` what heartbeats report. An executable is
the number of its release, or `Broken`. A download yields any executable (`"net"` fault)
or nothing. `Supervise` is every step of the supervisor, with the condition that an
executable outlives the window only if it works.

### GeoUpdate

`rep` is the `ReplaceGeoFile` of each of the two writers, one step per file operation:
compare, back up, open the `.tmp`, rename. Two that have the same `.tmp` open rename one's
data, the other's or a mixture (`Torn`). `upd`, `data`, `done` are the updater's `Update`
with its undo; `sync` is `syncGeoFiles`. `Works` are the combinations `xray -test` takes.

### SelfUpgrade

Two installers, the panel's goroutine and a command, with the same steps: version,
comparison, download along the chain of mirrors, digest, `<exe>.tmp`, rename, reply,
restart. A program is the number of its release, or `Broken`. A process may end anywhere.

### NodeFiles

`job` is the instruction the message loop has in hand, with its progress: one step per file
operation, then the answer, which may be lost. `served`, `servedCa`, `known` are what the
master was told; it is unsure (`Unset`) of what an instruction without an answer was to
replace. A version stands for a pair that belongs together.

### LogWindow and LogBuffers

`LogWindow`: files are inodes with lines, `path` is the one that has the name, `fd` and
`stat` what the writer has open. `Write`, its slide (read the newest half, write `.tmp`,
rename, open again) and the `vacuum` command are sequences of steps; an operator may
truncate or remove the file. `LogBuffers`: `ring` and `logTail` are fed with pieces of any
length; the reference definitions are the last bytes and the last lines of `output`.

### DaemonControl

`agent` is the progress of each agent's `main`, `proc` the `Start` or `Stop` a process is
in, `cmd` the command of each terminal; `agentPid` and `xrayPid` are the files. A process
that ends leaves its xray, and a child that ended is seen by `kill(pid, 0)` as long as its
parent lives, as in `waitAlive`. Every command is a process called `xray-agent`, which
`agentPids` takes for an agent, so that a `stop` ends the commands of other terminals too.

## 4. The runs

| run | question | distinct states |
|---|---|---|
| `MCStores` | outbox, certificates and accounts, log file, buffers, self-upgrade, rule files: is what is kept whole, in agreement with what was said, and lost only where stated | 2.4 M |
| `MCNode` | loops, rule files, daemon: periods, alerts, repeated updates; one agent, one xray, nothing left after `stop`, xray served | 0.6 M |
| `MCKernel` | do file, version and answer of a kernel upgrade agree, and does it end | 0.9 M |
| `MCDelivery` | at-least-once delivery, one place per entry, the ledger | 1.5 M |
| `MCDeliveryOnce` | no entry billed twice by a master with `traffic_ack`; a waiting batch is sent while a connection serves, with both limits in force | 0.9 M |
| `MCXrayProc` | the configuration on disk was tested; hopeless ones end in a notice to the master; a failing environment does not end it; a probe leaves the count alone | 1 M |
| `MCUserSync` | the cache is xray's set of users; a successful sync has brought it about | 7 M |
| `MCCounting` | bytes are counted once, none missed, none billed to a later cycle | 7 M |
| `MCDeliveryBoot`, `MCXrayEffect`, `MCCountingSeal`, `MCSettings` | disagreements, see section 8 | |

`MCStores` and `MCNode` combine parts of the agent that share no state. Their product
would only repeat each part's states; the variable `part`, chosen in the initial state,
says which of them moves in a behaviour while the others stand still in a state of their
own. Each part's behaviours are all there, and each property is about one part:
`StoresTypeOK` and `NodeTypeOK` are the conjunction of the parts' type invariants, and
`CertsKept`, `AccountsKept`, `LogIsWindow`, `NewestOutput`, `ProgramKept`, `OneOfEach`,
`KernelAgrees` and `Settles` each put together what one component promises. For the
liveness properties of `MCNode` the others stand still where none of their fair actions is
enabled. Parts that do interact are composed instead: the outbox with the delivery, the
kernel upgrade with the supervisor, the kernel upgrade's rule files with the updater.

All runs set `CHECK_DEADLOCK FALSE`: the bounds end every behaviour, the agent may exit
(`XrayProc`, `main = "gone"`), and a delivery with nothing left to send rests.

### Bounds, and why they are enough

- *Outbox*: three batches with room for two, so that each limit takes some and leaves
  some, and a batch can be acknowledged while another is dropped; four entries give a
  batch of two, which the byte limit has to weigh against smaller ones. Two clock ticks
  with `MaxAge = 1` make a batch over-age and its successor not.
- *Delivery*: two batches on two connections are the least for a mark, an answer or a
  failed write that belongs to another batch or another connection than the one at
  hand. Two faults suffice for a lost answer and a stop after it. `MCDeliveryOnce` has a
  clock, `Retention` and `MaxAge` of one tick: a batch older than the master's memory
  and one younger occur; its outbox of one entry lets both limits bite.
- *XrayProc*: two failures and two crashes to give up are the least that tell "first",
  "one of several" and "last" apart. A configuration that works, one that is valid and
  dies, one that is rejected. Three events. The counters saturate where the
  code does not tell larger values apart.
- *AgentLoops*: a loop of the process and the one of a connection, two pushes (one that
  meets a channel still full, two that change different fields), one alert, two broken
  connections (the least for a late loop beside a new one, and a frame lost with the
  second). `MCSettings` has three pushes: fill, drop, repeat.
- *KernelUpgrade*: a release that works and one that answers but does not run, a broken
  file; one configuration, as configurations are the subject of `MCXrayProc`; two events
  out of commands, failures and crashes, so that a roll-back can fail after the upgrade
  did, and a restart or a reload can fall into an upgrade.
- *GeoUpdate*: two files and two contents with one mixture that is refused, so that the
  order of replacements matters; one fault and one kernel upgrade beside the updater,
  whose runs repeat without a bound.
- *SelfUpgrade*: three releases (asked for, behind, ahead), two mirrors, two requests.
- *NodeFiles*: a managed and an operator's domain, two versions, two tags, three UUIDs (one
  for each tag and one to rotate to), one fault.
- *LogWindow*, *LogBuffers*: a limit of five lines, of which a slide keeps two, an older file
  above the limit, two interventions, one failure; nine bytes of output in pieces of up to
  five, in a ring of four and a tail of two lines.
- *DaemonControl*: three agents and three xray are enough for three commands on two
  terminals with one death: an agent, its successor, and one started beside. None begins
  after two that ran beside each other, since the properties are about the others.
- *UserSync*: two inbounds (one done while the other is not), one user name in each, two
  credentials (added, removed, changed), four events: a sync, a failure in it, a death
  and another command.
- *TrafficCounting*: three bytes, so that a counter that restarted can be smaller than
  before and not zero; two cycles and no cycle; two names, as a list may name one and
  not the other.

### Mutants

Each property of a passing run has a mutant in `PROJECT.json`: a definition of the model
with a plausible mistake in it (a forgotten sequence number after a salvage, a nack that
deletes, a limit never reset, a push without a test, a hook that clears the cache, an
entry that is dropped on the way) under which TLC finds the property violated with the
run's own configuration.

## 5. Fairness

Safety properties assume none. The liveness properties assume weak fairness of

- the report loop, the connection loop and the restart of the agent: goroutines that
  nothing but themselves stops, driven by tickers; systemd restarts the process;
- the master's answer to a frame it received, or the loss of the frame: a connected
  master either works or its connection ends (the heartbeat's deadline);
- the main goroutine and the watchdog of the supervisor: a mutex that is released and a
  ticker of five seconds;
- the timers of the backoff and of the slow probe;
- the loops of the client, whose tickers fire and whose writes return (they have a
  deadline), the dial, which is retried, and the read deadline of a dead socket;
- the updater of the rule files and the goroutine of a kernel upgrade;
- the goroutines of an agent and of a command while the process lives, and the end of an
  xray that was asked to end (it is killed after five seconds).

Strong fairness is assumed twice: a late loop picks `ctx.Done` in the end (`LateDone`),
because `select` picks at random among what is ready; and the upgrade gets `p.mu`
(`Upgrade`), because Go's mutex hands itself over to a waiter that was passed by.

Nothing is assumed of commands, deaths, failures, traffic, pushes, or operators.
`Settles` is about what follows once commands have ceased, which the bound
on events brings about; each of `MaxEvents` events may come at any time. `AlertArrives`
and `StaysServed` are about a state that stays once alerts, broken connections, commands
and deaths have ceased, likewise.

## 6. What is proved

`tlapm` checks the modules of proofs; the theorems hold for all values of the
constants that the named assumptions of the modules allow.

| theorem | states |
|---|---|
| `OutboxTyping`, `OutboxImmutable`, `OutboxSeqOrders`, `OutboxAckIsFinal`, `OutboxRetained`, `OutboxMemoryIsDisk`, `OutboxLimitsTakeOldest` | the types, and the outbox's properties in `MCStores`, under any subset of the faults |
| `DeliveryTyping`, `DeliveryEntryInOnePlace`, `DeliveryAtLeastOnce` | the types, and the safety properties of `MCDelivery` |
| `DeliveryBilledOnce` | `BilledOnce`, if the masters remember long enough and saves work (`Remembering`) |
| `DeliveryImplementsOutbox` | every behaviour of the delivery is one of the outbox |
| `DeliveryImplementsLedger` | every behaviour of the delivery is one of `TrafficLedger`, if the file can be read |
| `XrayDiskIsTested` | `DiskIsTested`, if files can be written (`SavesWork`) |
| `XrayTyping`, `XrayCountStaysFrozen` | the types, and `CountStaysFrozen` |
| `KernelTyping`, `KernelAgreement`, `KernelNoRestart`, `KernelSuccessRuns` | the types, and the safety properties of `MCKernel` |
| `UserTyping`, `UserCacheIsTrue`, `UserSyncIsDone` | the types, and the invariants of `MCUserSync` |
| `CountingTyping`, `CountingCountedOnce`, `CountingNothingMissed`, `CountingRightCycle` | the types, and the invariants of `MCCounting` |
| `LoopsTypeCorrect`, `LoopsRunAtEffective` | those of the loops in `MCNode` |
| `GeoTyping`, `GeoNeverTorn`, `GeoFailureRestores`, `GeoInstalledWorks` | those of the rule files in `MCStores` |
| `DaemonTyping`, `DaemonOneOfEach`, `DaemonStopLeavesNothing` | those of the control of the daemon in `MCNode` |
| `NodeTyping` | the types of the three, side by side |
| `FilesTyping`, `FilesCertsKept`, `FilesAccountsKept` | those of certificates and accounts in `MCStores` |
| `SelfTyping`, `SelfProgramKept` | those of the self-upgrade in `MCStores` |
| `LogTyping`, `LogKeepsWindow` | those of the log file in `MCStores` |
| `BuffersKeepNewest` | that of the ring and the tail in `MCStores` |
| `StoresTyping` | the types of the six parts of `MCStores`, side by side |

The assumptions that the proofs use are those of the modules (`...Assumption`). The less
obvious ones: there is a release (`Release # {}`), a rule file that is missing is not one
that is torn (`Missing # Torn`), some combination of rule files works with the
configuration (`NodeAssumption`), and the log an agent finds is within its limit
(`OldLines <= MaxLines`).

The arguments:

- *Outbox.* `SoundInv` adds to the types what makes order and immutability inductive:
  every place where a batch is kept (memory, file, quarantine) agrees with what was
  created, and sequence numbers are below the next one. `RetainedInv` relates memory and
  file: a running process holds what the file holds, but for the batches in `abandoned`.
  `AckIsFinal` needs both, since an acknowledgement goes through a save that may fail.
- *Delivery.* Each step of the delivery is a step of the outbox or leaves its variables
  alone (`DeliveryImplementsOutbox`), so the outbox theorems carry over. `DeliveryInv`
  adds where each goroutine may be with which batch, that an entry is in one place, and
  that an answer on its way, or already read, means that the master booked the batch.
- *Supervisor.* `TestedInv` says which of the contents that are held somewhere (the
  argument of a push, the watchdog's copy of `.good`, `.bak` in the middle of a push)
  were tested, and which of them can still reach the file. `SavesWork` is needed: a boot
  that cannot write leaves the rejected file in place, and a push whose rename to `.bak`
  failed may later roll back to a stale `.bak`.
- *Users.* `UserInv`: while nothing disturbs a sync, the watchdog is not in its hook
  (`Locks`), what a hook has read is what the file holds (`FromFile`), cache and xray
  agree up to the call in flight (`InStep`), and the inbounds already visited are as
  commanded (`Done`).
- *Counting.* `AccountInv`: what is pending, held and not yet collected is at most what
  was transferred, and before the baseline nothing is held. `ExactInv` makes it an
  equation while counters only grow. `OrderInv`: whatever is held or not collected is
  not older than the cycle it would be billed to (`Due`), and once a change of cycle is
  sealed nothing older than the new cycle is left to collect.

- *Loops.* `LoopsInv` adds to the types and the property itself that a reset still in a
  channel is the period in force, unless the loop is in `missed`: without it a `TakeReset`
  could install anything.
- *Files.* `FilesInv` says how far the instruction in hand has come (`Progress`): what it
  has written already, that a removal has not touched a domain in use, and that the master
  expects nothing of a pair being replaced, which is what `CertServes` lacks between the
  two renames. `Serve` extends the properties to the time before an answer.
- *Self-upgrade.* `SelfInv` says what each step of an installer knows: a version that may
  be installed is decided (`Decided`), what is written was verified and lies in `<exe>.tmp`
  and then in the program (`Installed`), and as long as the two have not crossed, only one
  of them is writing (`OneInstalls`).

- *Billed once.* `OnceInv` follows a batch from the outbox to the books. A round drops the
  over-age batches before it sends one (`RoundInv`); a stored batch that was booked is on
  record since it was created, or is by now over-age (`StoredInv`); so a frame on the wire
  that was booked before is one its master recognizes (`WireInv`), and what is billed is
  billed for the one batch that holds it (`BilledInv`). `Remembering` asks three things:
  every master has `traffic_ack`, `MaxAge <= Retention`, and saves do not fail. The last is
  no convenience: with write failures TLC finds an entry billed twice, because a
  `DropExpired` that cannot save puts the over-age batches back and the same round sends
  them (section 8). Without `MaxAge <= Retention` it finds another.
- *The ledger.* `LedgerInv` is what a step needs to be one of `TrafficLedger` or to leave
  `Standing` alone: the outbox's `RetainedInv`, `DeliveryInv`, that the file is sound and
  nothing was left behind (`FileInv`), that whatever left the outbox was created
  (`HistoryInv`), and that entries are between memory and file during a flush only
  (`FlightInv`). The file has to be readable: with read failures TLC finds an entry that
  goes from *durable* to *lost* without a limit (section 8). The proof also found a slip
  in `StatusOf`: it was a CASE whose guards overlapped, which has no fixed value; it is
  an IF with an order now.
- *The count.* Once the supervisor has given up, its verdict may stand although the count
  was forgotten (`Forgotten`), when a process that had come up dies. `FrozenInv` says that
  only slow probes are left then, and that no fallback to `.good` is pending while a death
  is still to be counted.
- *Kernel upgrade.* `KernelInv` says for each place of the upgrade where the old executable
  is (`OldKernelInv`: at `binPath`, in `.prev`, or lost to a roll-back that failed), what
  the reported version stands for (`VersionInv`), that what is installed is what was
  verified, and who may run xray meanwhile (`TargetInv`).
- *Rule files.* `GeoInv` knows how far the updater has come: each file is replaced once and
  undone last first (`StagesInv`), data is mixed only where both writers had the same file
  open (`TornInv`), what an undo needs is still saved (`CleanInv`), and what will be
  installed when every file still staged is replaced (`Planned`) is the combination that
  was tested (`WorksInv`).
- *Daemon control.* `DaemonInv`: only a live agent, or a command that stops or starts xray
  itself, holds a `Proc` (`HoldersInv`); and while the control is calm one command acts at
  a time and has seen to the agents (`OneAtATime`), the xray that runs is that of
  `xray.pid` or of the only `Proc` about to write it (`KnownXray`), and an agent has ended
  those of others before it starts its own (`OwnXray`).
- *Log.* `LogInv`: where the writer is tells which file it has open (`StepInv`), a slide and
  a vacuum hold the newest part of the log (`HeldInv`), what a reader finds is in order and
  complete (`VisibleInv`), the writer's file is not the one under the name only while it
  has not looked (`ApartInv`), and is no larger than the writer takes it for (`SizeInv`).
- *Buffers.* `BuffersInv` compares both buffers with the whole output: counted back from
  its position the ring has the newest bytes (`RingHas`), the lines of the tail are the
  last of the text and its unfinished line the end of the text's (`Follows`). One byte
  preserves `Follows` (`ByteFollowed`), and so does a piece (`PieceFollowed`), wherever it
  was cut.
- *Side by side.* In `MCStores` and `MCNode` one part moves and the others stand still, so
  that `StoresTyping` and `NodeTyping` follow from the step lemmas of the parts.

Induction over the length of a piece, in `LogBuffers`, goes without the library's
induction theorems, whose parameter is an operator: `SetInduction` states it for a set of
numbers, from the least number outside it, and `Repetition` says that a step function can
be repeated, which is what a recursive function needs to be well defined. Of `SizeOf`,
a fold of the community modules, only the value for the empty sequence is used.

Only model-checked: the liveness properties `EventuallySent`, `Settles`, `AlertArrives`,
`KeepsUpdating`, `StaysServed` and `UpgradeEnds`. They rest on fairness and ENABLED, which
are out of the prover's reach. `BilledOnce` and `ImplementsLedger` are theorems under the
hypotheses above.

## 7. What is not modelled

- Configuration files, translations, the installer: read or run once, no state.
- What metrics, the rate sampler and the online snapshot read of `/proc` and xray; the
  loops that send them are in `AgentLoops`.
- `status`, `logs`, `uninstall`, the interactive panel: they print, or remove what nothing
  uses any more. systemd: `DaemonControl` is about installations without it.
- `logTail.Seed`, which fills the buffer from the file at the start of a process; and two
  writers on one log file, which overlapping runs of xray would be.
- Validation of certificates, archives, checksums of bundles: a download or a pair either
  is what it should be or is not.
- The user cache at the starts of a kernel upgrade and of `geoUpdater.Reload`: they run the
  same `OnStarted` hook as a push, which `UserSync` models for the main goroutine and the
  watchdog.
- Two kernel upgrades of one process at once, or two updates of the rule files: the flags
  and the single goroutine exclude them. One earlier connection at a time has late loops.
- A power failure between a rename and the write of its directory: the model takes a
  rename as durable.
- `outbox.New("")`, the outbox without a file, which tests use.
- A master without `traffic_ack` that books a batch while the agent stops before it
  deletes it: the batch is billed twice. It is inherent in that protocol (the code says
  so at `client.go:400`), and the properties except such masters.

## 8. Where code and comments disagree

With a run that shows it:

| code | claim | what happens | run |
|---|---|---|---|
| `client.go:381` | `PROTOCOL.md:151`: only `ok=true` deletes a batch | `ackMode` is read between the dial and `auth_ok`: the value of no connection, or of the previous one, and the batch is deleted unanswered | `MCDeliveryBoot` |
| `xrayproc.go:711` | `:465`: the new configuration is in effect | `tryGoodRollback` writes the file between a push's rename and its `Start`; the push reports success for the other configuration | `MCXrayEffect` |
| `client.go:286` | `:287`, `:288`: bytes around the change fall to the old cycle, nobody is overcharged | the new cycles are applied after the failed query, and the next `Collect` bills the bytes before the change to the new cycle | `MCCountingSeal` |
| `client.go:921` | `:925`: a reset dropped because its channel is full is made up for by the next push | a push that changes nothing returns before the channels; the loop goes on with the older period | `MCSettings` |

Met while modelling, without a run of their own. The properties except exactly these
cases, through `abandoned` (Outbox), `disturbed` (UserSync) and `unsealed`, `unseen`
(TrafficCounting), `missed` (AgentLoops), `raced`, `astray` (KernelUpgrade), `clean`, `spoilt`,
`overlapped` (GeoUpdate), `crossed` (SelfUpgrade), `exposed`, `unslid` (LogWindow), `calm`,
`unrecorded` (DaemonControl).

- `outbox.go:155`: a file that cannot be read gives an empty outbox, and the next
  `Append` replaces it (`:10`, `:13` promise that nothing is lost and a restart recovers).
- `outbox.go:162`: the rename of a damaged file fails, and the next save overwrites it
  (`:16`, `:160`: never silently overwritten).
- `outbox.go:167`: when the save of salvaged batches fails, memory is emptied, although
  `:169` logs how many were salvaged. They are in the quarantined file.
- `outbox.go:285`: `DropExpired` fails to save and restores the over-age batches, which
  the same round sends; a master that has forgotten them bills them again (`:79`).
- `client.go:507`: `c.ws` is published before `auth`, so that a report may be the first
  frame (`PROTOCOL.md:23`).
- `client.go:540`: `resetSent` comes after `auth_ok` and may remove the mark of a batch
  already sent on this connection, which is sent twice (`PROTOCOL.md:155`, `:96`).
- `client.go:404`: a nack may be handled between `sendBatch` and `markSent`; the mark set
  afterwards stays until the next connection (`PROTOCOL.md:155`, `:98`).
- `client.go:218`: the collect loop holds entries of the old cycle while the message loop
  seals and installs the new one; `accumulate` bills them to the new one (`:206`).
- `client.go:241`: a user without a record "has no old delta to seal", which is not so
  for an agent that was started again and has collected before its first list.
- `stats.go:637`: a counter that restarted and has passed its old value before the next
  call is taken for one that went on: the old value is missing from the delta.
- `stats.go:380`: the cache "is always the set of users of the running xray". A hook that
  reads the file after a sync has changed users, or is installed after one, leaves it
  different; so does an addition that timed out and took effect. `stats.go:515`: a
  removal that failed is forgotten.
- `xrayproc.go:365`: a process that outlives the readiness window but not the grace
  period is restarted for ever (`:43`, `:56`).
- `xrayproc.go:333`: when the process cannot be created at boot `p.started` stays false
  and the watchdog never tries again (`main.go:124`).
- `xrayproc.go:306`: a log that cannot be opened fails a start without counting it.
- `xrayproc.go:370`: `runningHash` is taken from the file after the window; a hot write
  may have replaced it (`:368`).
- `xrayproc.go:509`: a hot configuration is copied to `.good` though it was never started
  (`:641`, `:716`).
- `xrayproc.go:441`: two renames with no configuration in between; after a crash there the
  next boot writes the bootstrap one (`:429`: replaced atomically). `EnsureUsableConfig`
  and `tryGoodRollback` write files in place.
- `xrayproc.go:366`: the comment says ten minutes, `crashWindow` (`:73`) is thirty.
- `xrayproc.go:717`: the watchdog's `ResetFailures` also clears the cooldown of a rejected
  configuration. A failed rollback restores an untested `.bak` when there is no `.good`.
- `xrayproc.go:746`: `markGaveUp` by a watchdog that decided before the main goroutine
  started xray; `CountStaysFrozen` is stated without commands for that reason.
- `main.go:206`: the exit does not wait for the watchdog, and xray may start after the
  last `Stop` (`:205`).

Loops:

- `client.go:925` onwards: a loop of an ended connection may take the reset or the kick
  meant for its successor, and writes heartbeats or metrics to the new connection, before
  its `auth_ok` too. Two heartbeat loops may share the samples rates are computed from.
- A heartbeat period above `maxOnlineStale` leaves every heartbeat without an online list.
- With a master that does not split metrics nobody ever takes `metricsReset`.

Kernel upgrade:

- `xrayupgrade.go:40`: another goroutine's `Start` between the upgrade's `Stop` and `Start`
  runs the old executable, or the new one before its probe; the upgrade then reports
  success (`SuccessRuns` excepts it by `raced`).
- `xrayupgrade.go:148`: the roll-back's error is dropped and the answer says 已回滚 (rolled
  back).
- A roll-back whose second probe fails leaves `xrayVersion` at the new version.
- xray that is down for a moment at `IsRunning` stays down after a failed replacement; a
  failed `Start` after `Stop` leaves `p.started` false, so that the watchdog does nothing;
  and success starts an xray that was stopped on purpose.
- A crash between the replacement and the roll-back leaves an executable that does not run.
- The exit of the agent does not wait for the upgrade.

Self-upgrade:

- The commands know nothing of `upgrading` and write the same `<exe>.tmp` (`crossed`).
- A mirror that answers `checksums.txt` with a page of its own ends the chain, and a wrong
  digest does not try the next mirror.
- Without systemd the running version stays that of the old program, so that a later
  request of the panel without force may lower the version of the file.

Rule files:

- `geofile.go:59`: the updater and a kernel upgrade share `.tmp` and `.prev` (`overlapped`).
- A crash in the middle of a replacement leaves a mixture nobody tested, and staging
  directories stay.
- A file from a URL that fails the test is not replaced by the official bundle.
- The test is skipped when there is no configuration or no executable; the model has both.

Certificates and accounts:

- `certs.go:36`: the pair is two renames; a crash between them leaves a certificate with
  another key. A removal that deleted `fullchain.pem` first and failed leaves a directory
  that is taken for an operator's.
- `client.go:1239`: when the accounts file cannot be loaded, setup goes on to a new UUID,
  which only `Set` refuses.

Log:

- Lines written while a vacuum runs, or up to a second after the file was replaced,
  truncated or removed, are not in the named file (`exposed`).
- The unfinished last line of a run is joined with the first line of the next one in the
  tail.

Daemon control:

- `cli.go:404`: `waitAlive` sees its own child that has ended as alive, and `start` reports
  success.
- `procident_linux.go:12`: any process called `xray-agent` is an agent, another command too:
  `start` says "already running", `stop` ends it.
- `agent.pid` is trusted without a look at what runs under the number, and is not removed at
  the exit; without `pgrep` a foreground agent is not seen.
- Two `start` at once make two agents, whose `CleanupStale` end each other's xray (`calm`).
- `SIGKILL` follows after three seconds, while `Stop` of an agent may take five.
- An xray whose starter died before it wrote `xray.pid` is not found by `stop`
  (`unrecorded`), only by the next `CleanupStale`.
- `restart` without an agent starts xray as a child of the command, with pipes that break.
