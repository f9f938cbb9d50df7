# Orbis desktop agent: specifications, model checking and proofs

This directory models the Orbis desktop agent (`src/`, C++17) in TLA+: its
message buffer, its MQTT connection and log sink, its remote commands, its start
and shutdown with the three periodic services, a round of log collection, the
addresses of a network scan, the token in its configuration, self-update and
installation. TLC checks the models on small instances; TLAPS proves all
their invariants and action properties for all instances. `PROJECT.json` lists
the components, the runs, the mutants, the hazards, the findings, the theorems
and, for every definition that models code, its lines.

Commands, in this directory:

    tlc -workers 2 -config MCLocalBuffer_overlap.cfg MCLocalBuffer.tla
    tlapm DeliveryProofs.tla

## 1. The system

The agent is one process. It keeps one MQTT connection to a broker, publishes
heartbeats, logs and network scans, executes commands, and updates itself. It
has no test suite; the reference is the code, its comments and `src/README.md`.

| Component | State | Operations |
|---|---|---|
| `LocalBuffer` | SQLite table of messages, mutex `mu_` | `store`, `flush`, `pruneIfNeeded`, `size` |
| `MQTTClientWrapper` | `connected_`, `shutdown_`, `subscriptions_`, mutexes, the Paho client | `connect`, `disconnect`, `publish`, `subscribe`, `onConnectionLost`, `onMessageArrived`, `reconnectLoop` |
| `MqttLogSink` | `in_publish_`, the mutex of `base_sink` | `sink_it_` |
| `CommandExecutor` | `command_queue_`, mutex, condition variable, `stop_requested_`, worker thread | `processCommand`, `workerLoop`, `executeCommand`, the handlers, `runShell`, `publishResult`, `start`, `stop` |
| `LogCollector`, `HeartbeatService`, `NetworkScanner` | a thread, `running_`, `stop_requested_`, `trigger_now_` | `start`, `stop`, `triggerNow`, `run` and the work of one round |
| `PluginLoader` | the loaded plugins, a mutex | `loadAll`, `collectAll`, `unloadAll` |
| `UpdateManager` | the files of the binary, `.bak` and `.new` | `update` with backup, download, verification, replacement, restart, rollback |
| Onboarding (`main.cpp`) | `ack_received` and `received_token` on the stack | `doOnboarding` and its retries |
| `ConfigManager` | configuration file, device id, encrypted token | `load`, `save`, `isRegistered`, `encryptToken`, `decryptToken` |
| `main` | `g_shutdown`, the objects above | start order, watchdog, shutdown order, command line |
| Service installers | unit files, the service manager, the uninstall key | `install`, `uninstall`, `--verify-uninstall-code`, `prerm` |
| `MessageQueue` | a bounded queue | used by no code, although `MQTTClient.hpp:16` and `CommandExecutor.hpp:24` name it |

### Interactions

* A service publishes through a lambda of `main.cpp:611-615`: the MQTT client
  first, the buffer when the client refuses. `LogCollector` stores once more
  when the lambda returns `false`. The heartbeat and the log sink use
  `publish_retained`, which has no fallback.
* The connected callback (`main.cpp:541-544`) starts a detached thread that runs
  `LocalBuffer::flush`, which publishes with the same client. Shutdown calls
  `flush` once more.
* Paho calls `onConnectionLost` and `onMessageArrived` on threads of its own.
  The first starts a detached `reconnectLoop`, the second enqueues a command.
* The command worker publishes results with the lambda, sets `trigger_now_` of
  the collector and of the scanner, and starts updates on detached threads.
* The default logger has, once attached, a sink that publishes; `publish` logs.
* `main` starts the services when the onboarding has given it credentials that
  `ConfigManager` keeps, and on a signal stops the executor, the services, the
  plugins and the connection, in that order.
* The retained status of a device is written by the heartbeat and, as its Last
  Will, by the broker.

### What is hard, and what makes each component correct

* Buffer: publishing without the mutex between SELECT and DELETE, several
  flushes, a crash between the two, failing statements, the cap. It must lose no
  row, keep the order, duplicate only where it has to, and stay below its cap.
* Publish path: a refused message is stored later than it was refused; two
  layers store; Paho forgets what is in flight. No message may disappear
  unnoticed.
* Connection: the flag `connected_` and the state of Paho change separately. One
  thread may connect at a time, no order of registration and reconnection may
  leave a topic untried, and a lost connection has to come back. `disconnect()`
  tests the flag, waits and clears it in three steps, against a loop that connects.
* Commands: notification and stop against wait, timeouts, exceptions while a
  result is published. Each command gets its statuses in order and once, and is
  answered; stop returns.
* Log sink: two mutexes in two orders; no thread may wait for itself or in a
  circle. A publish that fails breaks this, and what is attached to it.
* Start: answers that come late or twice, saves that fail, crashes while the file
  is rewritten. The agent runs with credentials that the backend knows, and does
  not lose those it has on disk.
* Services: triggers and stop during a sleep or a round, the shutdown order, the
  last status. No trigger is slept over, nothing is taken down under a thread
  that uses it, a signal disconnects the agent, and it is not left "online".
* A round of collection: plugins that fail, erased by index; batches at the limit
  of their size; base64, padding and prefixes at their boundaries.
* Updates: failing steps, a crash anywhere, the path of a replaced binary, two
  updates at once. What is installed is a verified version, and the answer says so.
* Installation: a command that is interrupted or half fails, over what an earlier
  one has left. Protection holds as long as there is something to protect.

## 2. Modules

| Module | Models | Checked by | Proofs |
|---|---|---|---|
| `ReplayQueue` | the outbox that `LocalBuffer.hpp:11-16, 34-43` promises | `OutboxSpec` | |
| `LocalBuffer` | `LocalBuffer.cpp` | `MCLocalBuffer` | `DeliveryProofs` |
| `Delivery` (extends `LocalBuffer`) | lambdas of `main.cpp`, `LogCollector`'s fallback, `publish` | `MCDelivery` | `DeliveryProofs` |
| `CommandExecutor` | `CommandExecutor.cpp`, POSIX build | `MCCommandExecutor` | `CommandExecutorProofs` |
| `MqttClient` | `MQTTClient.cpp`: connecting, losing, subscribing | `MCMqttClient` | `MqttClientProofs` |
| `LogSink` | `MqttLogSink.hpp` and the mutex and logging of `publish` | `MCLogSink` | `LogSinkProofs` |
| `Onboarding` | `main.cpp` up to the connection, `doOnboarding`, `ConfigManager` | through `Agent` | `AgentProofs` |
| `Agent` (extends `Onboarding`) | the rest of `main`, the loops of the three services, the retained status | `MCAgent` | `AgentProofs` |
| `Token` | encryption and base64 of the token in `ConfigManager.cpp` | `MCAgent` | `AgentProofs` |
| `Collection` | a round of `LogCollector`, `PluginLoader.cpp` | `MCCollection` | `CollectionProofs` |
| `Subnet` | `detectLocalSubnet` and `expandCIDR` of `NetworkScanner.cpp` | `MCCollection` | `CollectionProofs` |
| `Updater` | `UpdateManager.cpp`, Linux | `MCUpdater` | `UpdaterProofs` |
| `Installer` | the command line of `main.cpp`, `LinuxService.cpp`, `prerm` | `MCInstaller` | `InstallerProofs` |

An action is a step between two points at which another thread can interfere: a
critical section is one action, a read of a flag and the step it decides are two
when no mutex joins them. Each action is named for the function or statement it
stands for. Operators introduced as "Mutant of X" differ from X by a plausible
slip; each property is checked to fail when one of them replaces X.

**LocalBuffer.** A row is its AUTOINCREMENT id. `store` is one action (`Store`,
under `mu_`, prune included). `flush` is `StartFlush`, then `Fetch` (SELECT),
`PublishOk` or `PublishFail`, and `Delete`, over the batch `todo[f]` of the
thread. `FaultyDb` lets every statement fail as the code lets it: the prune and
the DELETE have no effect, the INSERT adds no row, the SELECT returns a part of
its rows. `Crash` ends all flushes and keeps the table; a `store` it interrupts
may have pruned already. `published`, `pruned` and `orphaned` are history
variables that no guard reads.

**Delivery.** Adds the connection as a publisher sees it (`link`), the messages
in flight in Paho, and the services. `PublishNew` calls the lambda; `Fallback`
and `StoreFn` are the two stores, steps of their own because the connection can
change in between. `Reconnect` starts a flush. `ConnectionLost` drops what is in
flight: the session is clean and nothing is persisted by Paho
(`MQTTClient.cpp:33, 72`). Messages of the heartbeat and of the log sink, which
have no fallback, are not part of it.

**CommandExecutor.** The worker's program counter; the mutex is held in
`blocking` and `draining`. `Check` (the predicate) and `Block` (releasing the
mutex and waiting, one step) are two actions, because `stop()` sets its flag
without the mutex. A command is one of seven kinds, by what the code does with
it. `child` is the shell's process; `Timeout` fixes the result, and leaving
`runShell` waits for the child all the same (destructor of a `std::async` future).
A command without a `command_id` (`nameless`) is acknowledged and executed under
the id `""`; an exception that ends it is answered to nobody.

**MqttClient.** `up` is Paho's state and `connected` the flag. `DialOk` and
`SetConnected` are separate, as are the loss, the clearing of the flag and the
start of the loop. `sub_mutex_` is held in `resub`. The order in which the
broker sees two subscriptions does not matter and is left out; each of them may
fail, and `refused` keeps, as history, which did on this connection.
`disconnect()` is `TestConnected`, `DropConnection`, `ClearAfterDrop` and
`LogDisconnected`, between any of which a loop may go on; the destructor runs it
once more. With `WithSink`, `main` attaches the log sink at some time (`Attach`).
From then on a record is a publish: the steps that log (`Logs`) go on only over a
connection that is up and known, and block their thread otherwise; `Jam` is a
publish of some other thread that is refused or fails, after which nobody logs
any more (`LogSink` has the mutexes).

**LogSink.** Each thread has a stack of nested calls to `log` and `publish`;
each call takes its mutex, and either call can make the other. `failed` records
that a publish has failed and logged, after which nothing is promised.

**Onboarding.** The main thread from `load()` to the connection with the
device's credentials. `config` is the file, `memory` what `ConfigManager` holds;
a token is named after the device it was issued for. `OpenConfig` empties the
file and `WriteConfig` fills it, so that a crash (`Die`) can come in between.
The backend (`asked`, `registered`, `ack`) is external: it accepts, rejects or
keeps silent, during this attempt or a later one.

**Agent.** Adds the services: `thread[s]` is where the loop of a service is
(`Test`, `Round`, `Awake`, `ClearTrigger`), `owed` is a history variable: a
trigger that no round has followed yet. `StartServices`, `AttachSink`, `Watchdog`,
`StopExecutor`, `RequestStop`, `Join`, `UnloadAll` and `Disconnect` are the steps
of `main`. It does not come back from the last one: `disconnect()` logs on the
connection that it has just closed (`hung`), and the process ends when it is
killed (`Crash`). `logging` says where records go. Once the sink is attached, a
lost connection, or a publish that fails on one that holds (`Jam`), blocks the
threads that log or publish (`Flows`): their rounds then do not end, nor does the
shutdown. `StopExecutor` may not return (`command_stop`); a command that arrives
later releases it (`ExecutorEnds`). `will` says that the broker holds a Last Will, which a
DISCONNECT discards and a lost connection publishes. What happens inside a
round is one step here and is in `Collection`, `Delivery` and `Subnet`.

**Token, Subnet.** Functions without state, compared in `MCAgent` and
`MCCollection` with what they are for: decryption gives back what was encrypted,
and the addresses are the hosts of the network. AES is modelled by what it does
to lengths and padding. The `int` of `b64Decode` wraps at 16 bits: only the low
14 bits are ever looked at.

**Collection.** `LoadAll` takes the directory in any order. A round is
`BeginRound`, one `PluginAnswers` or `PluginThrows` per plugin, the erasure of
those that failed (`UnloadNext`, by index, from the last), and `PublishBatch`;
`ReadJournal` is the round of a collector without plugins.

**Updater.** `file` maps the six paths beside the binary to a version, to
`"partial"` or to `"damaged"`; `update[u]` is where `update()` is and what its
locals hold, the file it writes included. `Rename` installs a file that is not
executable, and `AddExecutableBit` is a step of its own; `executable` is about the
installed file, and what systemd starts after `Restarted` depends on it. `unlinked` says that the running
image has been replaced, after which `/proc/self/exe` reads `... (deleted)`.
`Restarted` ends the process at any point, as the restart or as a crash.
`Overlap` lets a second update begin while one is under way.

**Installer.** `pc` is the next step of the command that runs, `Interrupt` ends
it anywhere. A configuration may be written, or copied, in part (`Cut`) or not at
all, and a unit in part, which nobody notices; `written`, a history variable,
says that the command has written the file of `--config` to its end. systemd and the agent that registers once it runs are external.

## 3. Runs

| Run | Question | Answer |
|---|---|---|
| `buffer_overlap` | two flushes, full table, faults, crashes: what can happen to a row? | safety properties and `OutboxSpec` hold |
| `delivery_services` | does a message disappear on its way, does the table keep its cap, does a flush leave rows behind while the connection holds? | no; yes; no |
| `commands` | order and number of statuses, one at a time, no sleep on work, answers, stop of a busy worker | holds |
| `command_stop` | does `stop()` always return? | no: lost notification |
| `reconnection` | one dialer, every topic tried, flag against Paho until it is hung up, loops that connect | holds; the last one without the log sink, and unless a flag is set late |
| `mqtt_race` | does a lost connection always come back, at least without the log sink? | no: the flag is set after the loss |
| `logsink_threads` | do loggers and publishers block each other, is the recursion guard ever left set? | no, until a publish fails; no |
| `life` | from the first start through onboarding, services, shutdown and a restart: credentials, triggers, shutdown order, disconnection, last status, token | holds; the disconnection while no publish fails and the command worker stops |
| `updates` | one update after another, with failures and crashes: what is installed, can it be executed, is there a backup, is the answer true? | holds, but for a death between rename and permissions, and with the limits that `AnswerMatchesFiles` states |
| `update_overlap` | is what is installed verified when two updates overlap? | no: they share their files |
| `collection` | which plugins are unloaded, which entries are handed over, which addresses are scanned? | the failed ones, every allowed one once, the hosts of the own network |
| `installer` | is a protected agent taken down without its code, what does success mean? | no; a service that runs, with its configuration if that could be written |

The findings in `PROJECT.json` quote the sentence of the repository that the code
contradicts. Three have a run that ends in a violation (`command_stop`,
`mqtt_race`, `update_overlap`). The others were met while modelling; for each the
model has the behaviour, and the property beside it says how far the promise
goes: a refused message stored after the flush stays, and the collector's is
stored twice (`Delivery`); a timeout does not end a child, exit code 0 may become
`failed`, two kinds of command skip a status (`CommandExecutor`); a failing
publish deadlocks its own thread (`LogSink`), so that with the sink attached a
lost connection is not established again and a signal does not end the process
(`MqttClient`, `Agent`); a subscription that fails is not tried again before the
next connection (`MqttClient`); rollback restores nothing, an update after a
replacement works beside the installed file, a restart may be answered with
`failed`, a death between rename and permissions leaves a binary that cannot be
executed (`Updater`); the watchdog never restarts a service, the
collector publishes no final batch, an acknowledgement after the timeout touches
a dead frame, credentials that could not be saved are used all the same
(`Agent`, `Onboarding`); malformed answers do not unload a plugin, levels are
compared with their case (`Collection`); and the installer's with a configuration
that it cannot write, with an earlier installation and with `prerm` (`Installer`).

### Bounds

* `buffer_overlap`: batches of 2 and a cap of 3 with 4 rows, so that a table
  needs several batches, reaches its cap and is pruned while flushes hold
  batches; `PruneExtra` 1 stands for 1000, and is below the cap as 1000 is below
  100000. Two flushes are enough for every pair of steps to interleave; the
  theorems do not depend on their number.
* `delivery_services`: one service with and one without the second fallback, two
  flushes, two messages, which make up to three rows; the cap is 2, so that rows
  are pruned too.
* `commands`: two commands of every kind, with and without a `command_id`. A child that does not end blocks every
  later command; the two liveness properties are about behaviours without one.
* `reconnection`: two losses, two loops and two topics: the loop of the second loss
  meets the thread that sets up after the first, and both meet the disconnection.
  The theorems have no such bound. `mqtt_race` is the same with one topic and
  without the sink.
* `logsink_threads`: three threads; two suffice for a circle of two mutexes.
* `life`: two device ids, so that a lost file can lead to a new one; one restart,
  after a crash or after the end. The constraint `IdsInOrder` leaves out the
  states in which the second id is known and the first is not: ids only differ by
  their names. Without the scanner: its loop is the
  collector's, and `AgentProofs` covers both. Tokens of every length from 1 to
  34, which has every residue of the blocks of the cipher and of the groups of
  base64; the theorem has no such bound.
* `updates`: three updates, so that one can begin after another has replaced the
  binary and failed; `update_overlap` needs two.
* `collection`: three plugins (two that fail around one that does not), answers of
  up to two entries, batches of two, two rounds. `ScansOwnSubnet` looks at every
  prefix from 16 to 32 and at addresses on both sides of the octet and network
  boundaries.
* `installer`: three commands (install, install again or uninstall, uninstall),
  two codes, two servers.
* Symmetry is used over the flushing threads of `buffer_overlap` and over the
  plugins of `collection`, which check no liveness; the specifications treat them
  alike.
* `CHECK_DEADLOCK FALSE` where the system may stop: `stop()` has returned, the
  client is destroyed, the agent has ended, all losses, updates, rounds or
  commands of the bound are used, or (`logsink_threads` once a publish has
  failed) a thread waits for itself.

### Fairness

Weak fairness of a thread that is inside a function: the operating system
schedules it, and the calls it makes to SQLite, Paho and curl return (curl has a
timeout). `stop()` is assumed to be scheduled once called, a child that ends by
itself to end, and a round of a service to end, each of its calls having a
timeout, as long as no thread blocks in a record.

The last condition is a real one. A publish that is refused or fails once the log
sink is attached blocks its own thread, and every thread that logs or publishes
after it (`LogSink`). `MqttClient` and `Agent` have this as behaviour: there, a
step that logs or publishes is enabled, and fair, only while records flow.
`EveryCommandAnswered` and `StopWhileBusyReturns` (results are published by the
worker), `UpdateEnds` (progress and results are published by the update) and
`FlushEmptiesTable` (each row is) assume that a publish returns, with success or
with `false`: they hold before the sink is attached, and afterwards as long as
the connection holds and Paho takes each message. The connection is outside
`CommandExecutor` and `Updater`. In `Delivery`, what a refused publish does to its
message is modelled and what it does to its thread is not.

The broker publishes the will of a connection that has ended once its
keep-alive is over. Strong fairness only for what is tried again and again: a
loop that dials is let in at last (`DialOk` in `MqttClient`, `DialRegister` in
`Onboarding`), and a backend that is asked again and again accepts before the
timeout at last. Nothing makes a message arrive, a command come, a connection
last, a signal come, a timeout fire or a spurious wakeup happen; `Agent` does
not even assume that a connection lost before the sink was attached is established
again.

Nothing makes `ExecutorEnds` happen: a `stop()` of the command worker that has
missed its wakeup returns only if one more command arrives. One assumption is part
of the actions: what a client accepts on a connection that holds reaches the
broker (`PublishStatus` of `Agent`).

## 4. Proofs

| Module | Proved, for all instances |
|---|---|
| `DeliveryProofs` | `LocalBuffer`: `TypeOK`, `NoLoss`, `HandedOverInOrder`, `RemovalJustified`, `CapacityBound`, `DuplicateWindow`, `SecondCopyHasCause`, `Spec => Outbox!Spec`; `Delivery`: `DeliveryTypeOK`, `HandedOverReachesClient`, `Accounted`, that it uses the buffer by its own operations, `DeliverySpec => Outbox!Spec` |
| `MqttClientProofs` | `TypeOK`, `OneDialer`, `NoDialWhileUp`, `UpIsKnown`, `SubscribedOnceSetUp` |
| `LogSinkProofs` | `TypeOK` with the ownership of the mutexes, `NoDeadlock`, `GuardIsScoped` |
| `CommandExecutorProofs` | `TypeOK`, `NoSleepOnWork`, `Lifecycle`, `OneAtATime` |
| `AgentProofs` | `RunsRegistered`, `CredentialsKept`, `NoSleepOverTrigger`, `TakenDownInOrder`; `TokenSurvives`, for all tokens, vectors and hosts (`RoundTrip`, `OwnHostDecrypts`) |
| `CollectionProofs` | `OnlyFailedUnloaded`, `EntriesHandedOver`; `ScansOwnSubnet`, for all addresses (`NetworkScanned`) |
| `UpdaterProofs` | `TypeOK`, `OnlyVerifiedInstalled`, `BackupHeld`, `AnswerMatchesFiles`, all for `Overlap = FALSE` |
| `InstallerProofs` | `ProtectedUntilRemoved`, `InstalledRuns` |

The assumptions are those of the modules: limits are naturals, or positive where
the code has a positive constant; a value that stands for "none" is no other
value. The sets of threads, flushes, commands, ids, updates, codes and servers
may be infinite.

**LocalBuffer.** `HandedOverInOrder` is not inductive: a flush publishes from a batch read a
while ago. `IInv` adds what a batch still knows about the table: every id below
`nextId` and no other is accounted for (`Assigned`); what precedes a row of a
batch is in the same batch, or was published or pruned (`BatchIsPrefix`); the
row whose DELETE is next has been published (`DeletePublished`); with a single
flush, a row of its batch not yet reached was not published, unless its DELETE
was lost (`BatchIsFresh`); and the table itself is ordered: whatever is older
than a row that is published was published or pruned. `Oldest` and `Excess` are
characterised by lemmas (`OldestIsPrefix`, `OldestIsLarge`, `ExcessMakesRoom`),
so that no step of the main proofs looks at a cardinality. For the refinement,
`nextId - 1`, `published` and `pruned` are the abstract `accepted`, `delivered`
and `dropped`: `Store` is an `Accept`, the first hand-over of a row a `Deliver`
or, after it was pruned, a `DeliverDropped`, and every other step stutters.

**Delivery.** Each of its steps is a step of `LocalBuffer` or leaves the table
alone (`DeliveryUsesBuffer`), so that all of the above holds in the composition,
the refinement included (`DeliveryImplementsOutbox`). `Accounted` is inductive
with `NoLoss` and with what was handed over: a row leaves the table only for the
client or the pruned rows, and a service's hand only by a store.

**MqttClient.** There is one token: a thread that seeks to connect, a connection
that is up, or a call of `onConnectionLost`. Each step turns one into the next
and none makes one out of nothing (`OneToken`). `disconnect()` takes the token away,
and one step later the flag; that `main` is in no `subscribe()` then
(`CallsFirst`) is part of the invariant, and `HungUp` says from which step on
the flag no longer counts. `SubscribedOnceSetUp` needs, in addition, that a topic
which was neither granted nor refused is still to come from the thread that sets
the connection up (`TopicsComing`).

**LogSink.** A mutex belongs to the thread that has it on its chain of calls,
below the top or at a top that no longer waits (`Ownership`), and no chain has a
mutex twice in this way (`NoneTwice`), for chains of any length. Until a publish
fails only a record makes a nested call, a publish (`PlainChain`): whoever holds
`pub_mutex_` then waits for nothing, which excludes every circle. For the guard,
the owner of the sink's mutex is the thread that has set it.

**CommandExecutor.** What was published about a command follows from the place of
the worker (`Stage`, `Closed`); a command in the queue is untouched, is there
once, and is not the one that is executed. That the worker blocks on an empty
queue only (`Wakeful`) gives `NoSleepOnWork`.

**Agent.** `StartInv`: complete credentials in memory and in the file are issued
ones, an acknowledgement that is on its way or received is for the id in memory,
and there is no token in the file while the agent is on its way to rewrite it.
`ServiceInv`: the place of the main thread says which services have ended, which
run, and whether the plugins are loaded, whether or not a record has blocked
somebody. `WithScanner` is a constant.

**Updater.** The one update that is under way owns the files beside the binary
(`OneAtATime`); what they hold follows from its place (`Good`): up to the rename
the installed file is the one it found and the path of the running binary the one
it began with, before the rename the download is verified, afterwards the
installed file is the update's or, for one that began on a replaced image, still
the former. The installed file lacks its bits only under an update that is at
`permissions`, or when the agent is down (`Startable`).

**Installer.** What the steps of a command have done up to its next one (`Done`,
`Allowed`), and that what it has written for the service is left as it is
(`Settled`), over any history of earlier commands.

**Collection.** `CollectionInv` has four parts next to the types. `Gone`: what was
cleaned up is what `loadAll` had loaded and is not loaded any more, and what is
left is in its order. `Marked`: the indices still to be removed are exactly the
places of failed plugins, in increasing order, which is why erasing the last of
them leaves the others right (`MarksRemoved`). `GivenOnce`: no entry is given
twice, because each comes from a plugin already asked. `Batched`: the entries
kept so far are the allowed part of what was given, and the batches, one behind
the other, are the entries up to `start`. What the loops of a source keep and
what batches contain are recursive functions on sequences: the proofs show that
these functions exist (`NatRecursion`, `KeptUnfolds`, `FlattenUnfolds`), then
what they compute, by induction (`KeptIsPart`, `FlattenAppend`). Induction is
stated for a set (`SetInduction`) and proved from its smallest missing element.

**Subnet.** A mask of n ones is 2^16 - 2^(32 - n), whose leading ones
`detectLocalSubnet` counts bit by bit (`LeadingOnesOfMask`); a network is the
numbers with the same quotient by its size, so that the addresses scanned are a
whole network without its ends (`WholeNetwork`, `HostsOfNetwork`), or the first
254 hosts of a larger one.

**Token.** `RoundTrip` goes over the text in groups of four characters. At the
start of each group `b64Decode` has `bits = -8` and has put out the bytes of the
groups before; within a group the low bits of `val`, which is all that the
shift looks at, are those of the byte that is not complete yet (`AfterTwo`,
`AfterThird`, `AfterFourth`), whatever the bits above them are: the overflow of
`val` does no harm. The padding ends the loop, and adds no byte
(`DecodePadding`). Under the right key the padding of the cipher is what was
added; under another the last byte differs, so that another length is cut off,
or nothing is accepted (`OwnHostDecrypts`). This holds for the cipher of the model, a
shift of each byte, which stands for AES by what it does to lengths and padding.

Only model-checked: the liveness properties (`FlushEmptiesTable`, `LoopConnects`,
`EveryCommandAnswered`, `StopWhileBusyReturns`, `RegistrationEnds`,
`ShutdownDisconnects`, `OfflineAtLast`, `UpdateEnds`), since fairness and `ENABLED` are
out of the provers' reach.

## 5. Not modelled

* I/O and formatting: metrics, journal, plugins' contents, sockets, curl,
  OpenSSL, JSON text (except that `dump()` throws on invalid UTF-8).
* The probes of a network scan (a window of 32 `std::async` tasks, whose results
  only meet in the payload) and `parsePorts`.
* The Windows and macOS variants: the installers, the readers of the system log,
  `runShell` and the update on Windows belong to other builds.
* The connection options and TLS.
* `size()` of the buffer: a read without a caller. `MessageQueue`: no code
  instantiates it.
* The other fields of the configuration: read once, constants of the modules.
* Objects destroyed while detached threads use them, and the data race on the
  logger's sinks: undefined behaviour, listed as hazards.
* Packaging other than `prerm`, the build and the continuous integration.

## 6. What could follow

* Refinement: the `link` of `Delivery` implemented by `MqttClient`.
* The probes of the scanner, if they get state of their own.
* A composition of `Updater` with `Agent`: the signal of a restart during an
  update, in place of `Restarted` at any point.
