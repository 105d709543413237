# Formal model of the esp-arduino-ebus firmware

The firmware connects a heating installation's eBUS to WiFi. This directory
holds TLA+ modules translated from its source, the TLC configurations that
model-check them on small instances, and TLAPS proofs of what holds for every
instance. Paths below are relative to the repository (`src/...`, `include/...`).

## 1. The system

The flag `EBUS_INTERNAL` selects one of two firmware variants.

* **Bridge** (default). TCP clients on ports 3333 (plain), 3334 (read-only) and
  3335 (*enhanced*: commands and answers) are connected with the bus. An
  enhanced client asks for the bus with `CMD_START`; the adapter arbitrates for
  it and answers `started`, `failed` or `error_ebus`.
* **Internal**. The adapter is itself a bus participant: the ebus library
  (a submodule, not in the tree) polls commands; the results go to MQTT and HTTP.

### Components, state, operations, interactions

| Component | State | Operations | Used by / calls |
|---|---|---|---|
| `BusState` (`include/bridge/bus_state.hpp`) | bus state, previous state, last master | `data(symbol)` | BusType, Arbitration |
| `Arbitration` (`src/bridge/arbitration.cpp`) | arbitrating, second round, address, restart count | `start`, `data(symbol)` | BusType; writes to the UART |
| `BusType` (`src/bridge/bus_type.cpp`) | the two above, `client_fd_`, `queue_`; the global arbitration slot | `receive`, `read`, `setArbitrationClient`, `clearArbitrationClient` | data loop |
| Bridge clients (`src/bridge/client.cpp`) | three tables of descriptors, three listening sockets, two tasks | accept, read commands, forward symbols and answers, close | `client_accept`, `data_loop` |
| `App` (`src/app/app.cpp`) | service objects, boot copy of the configuration | start, stop, apply configuration, callbacks | everything |
| Configuration (`src/config`) | key/value store in NVS; the copy read at boot | load, save key by key, partial change, reset | App, HTTP |
| WiFi manager (`src/network/wifi_network_manager.cpp`) | station, access point, light | event handler, connect, scan | App |
| MQTT client (`src/app/mqtt.cpp`) | outgoing queue (bounded, oldest dropped), task, stop and exit flags, connection, one mutex | enqueue, publish, start, stop, task, events | commands, monitor, cron |
| MQTT HA (`src/app/mqtt_ha.cpp`) | none of its own; the broker holds the topics | publish/remove discovery | command manager, MQTT client |
| Command manager (`src/app/command_manager.cpp`, `command.cpp`) | list of commands with their values, poll identifiers, fixed pools, one mutex | insert, remove, wipe, load, save, update | HTTP, MQTT, App, ebus library |
| Cron (`src/app/cron.cpp`) | rules, last triggered minutes, file | tick, replace, load, save | App, HTTP |
| System monitor (`src/system/system_monitor.cpp`) | two bounded queues, tap ring | push, drain | ebus library, MQTT, HTTP |
| Logger (`src/system/logger.cpp`) | ring of lines, print queue | log, read since | every task |
| String pool (`src/system/string_pool.cpp`) | interned strings, 8-bit count | intern, look up | command manager |
| Upgrade (`src/system/upgrade_manager.cpp`, `esp_ota_manager.cpp`) | upload state, OTA handle, UDP/TCP push | upload chunk, push, restart | HTTP, App |
| HTTP and API (`src/network/http*.cpp`, `src/api`) | none of their own | parse, call, format | all of the above |
| DNS, SNTP, ADC, PWM, identity, status | trivial | | |

### Where it is hard

* *Several adapters on one wire.* Correctness of the arbitration is a property
  of all adapters together: what one writes the other reads back ANDed, symbols
  are lost, an adapter is late, an adapter boots in the middle of a telegram.
* *One slot, many clients.* The request is a pair of globals written by client
  commands and read at every symbol, by an arbitration that takes up to four
  symbol times; answers wait in a queue and are routed by descriptor number.
* *Two tasks, one table.* `client_accept` and `data_loop` have the same priority
  and write the client tables without a lock.
* *Internal variant.* The bus thread, the monitor's task, the mqtt task, the task
  of the MQTT library and the HTTP server's task meet in the command list, in two
  bounded queues of which one drops its newest and the other its oldest entry, and
  in two mutexes. Entries and tasks hold pointers into the list beyond its lock.
* *Persistence.* Configuration is written key by key from a copy that is as old as
  the last start; files are truncated before they are written; a restart may come
  between any two steps.
* *Stopping.* An upgrade stops the services from outside: it waits a second for the
  mqtt task, deletes the monitor's task wherever it is, and never starts anything
  again. Two ways of upgrading share one partition and do not know of each other.
* *Time.* The clock starts in 1970, is set by the network and may go back.

The complete list, each item at its line with the properties that cover it, is
`hazards` in `PROJECT.json`.

### What makes each component correct

* Arbitration: at most one owner; never a write into a foreign telegram; every
  adapter tells its client the truth about who owns the bus; the best priority
  class wins; every request gets an answer.
* Bridge: the running arbitration is the one the slot asks for; answers go to
  the client that waits for them, once, with its address; the slot is freed;
  no connection gets lost.
* Command manager: the polled items are those of the listed commands; saved and
  loaded lists agree; limits belong to the command they were given for.
* From the bus to the broker: no value is lost silently, none goes back; removed
  commands leave no topics; a reconnect announces everything again; nothing is
  published after the stop; no two tasks wait for each other.
* Configuration: what was promised holds after the next start; a request changes
  nothing that it does not give.
* Cron: an accepted rule can fire; it fires at most once a minute.
* WiFi: the station finds back to its router.
* Upgrade: the bus rests while flash is written; what was promised is booted.

## 2. Modules

| Module | Models | Role |
|---|---|---|
| `BusState` | class BusState | operators on a record `[state, previous, master]` |
| `Arbitration` | class Arbitration | operators on `[arbitrating, second, address, restarts]` |
| `BusType` | class BusType, the slot | `Receive`: one symbol through one adapter |
| `BusLock` | | abstract: the bus as a lock |
| `EbusLine` | several adapters, the wire, their clients | state machine; implements `BusLock` |
| `Bridge` | clients, slot, queue and bus of one adapter | state machine |
| `ClientSlots` | one client table, every access a step | state machine |
| `Commands` | command list, poll items, pools and file of the internal variant | state machine; implements `SavedList` |
| `SavedList` | | abstract: a list that is edited row by row, saved, and comes back |
| `Mqtt` | the MQTT client, its queue and task, the discovery topics | actions, a part of `Telemetry` |
| `Telemetry` | the way from the bus to the broker: bus thread, monitor, list, `Mqtt`, HTTP requests, stop | state machine, composes `Mqtt` with the rest |
| `Settings` | configuration: boot copy, stored keys, requests | actions, a part of `Device` |
| `Upgrade` | both ways of upgrading over one partition | actions, a part of `Device` |
| `Wifi` | station, access point, reconnect | actions, a part of `Device` |
| `Cron` | schedules, validation, tick, rules and their file | operators and actions, a part of `Device` |
| `Device` | the four above with restarts and power failures | state machine, composes them |
| `MCEbusLine`, `MCBridge`, `MCClientSlots`, `MCCommands`, `MCTelemetry`, `MCDevice` | | instances for TLC |
| `BusTypeProofs`, `EbusLineProofs`, `BridgeProofs`, `ClientSlotsProofs`, `CommandsProofs`, `TelemetryProofs`, `DeviceProofs` | | theorems |

`BusState` <- `Arbitration` <- `BusType` are pure operators (an object is a
record, a method an operator on it), so that `EbusLine` (many adapters, one
client each) and `Bridge` (one adapter, many clients) use the same translation
of the code. Operators that are marked *Mutant* are wrong versions of
the operator that follows; they show that a property can fail and no specification uses them.

### Correspondence with the code

**BusState, Arbitration, BusType.** `BusData` is `BusState::data`: the switch over
the states becomes two functions, `OnSyn` and `OnSymbol`. `StartResult` and
`ArbStart` are `Arbitration::start`; `ArbOutcome`, `ArbAfter`, `JoinsSecond` and
`WritesSecond` are the result, the new object, and the two side effects of
`Arbitration::data`. Lateness (`bus.available()`, or more than 4456 us since the
start bit) is one flag `behind`. `Receive` is `BusType::receive`
including the restart that falls through to the idle case, which reads the slot
again and may start at once on the SYN that took the place of the lost address.
The comment above the restart tests in `arbitration.cpp` (lines 89 to 91) speaks
of two restarts; the code, and therefore the model, makes up to three in the
first round, and counts a restart from the second round twice, since both tests
increment.

**EbusLine.** One step is one symbol time. The variable `written` is what an adapter puts
on the wire for the next symbol; `Contend` lets any non-empty part of the
writers reach the wire (`Lossy`), the wire carries the AND of the addresses;
`Syn` is the SYN generator, or a symbol time in which everything written got lost;
`Transmit` is a byte of the owner's telegram, which may look like an address;
`Request`, `Cancel` and `Reboot` happen at any time between symbols.
Clients are taken to keep to the protocol: they send bytes only while their
adapter owns the bus (the code passes on `CMD_SEND` at any time), and a payload
contains no bare SYN.
`holds` and `news` are history: who has won in this telegram and what each
adapter has just told its client.

**Bridge.** Actions are the turns of `data_loop` (`Start`, `Cancel`, `Malformed`,
`Take`, `Pop`, `Forward`) and of `client_accept` (`Accept`), and the peer
(`Hangup`). `dataProcess` reads a symbol, then pops one entry, then forwards it:
`Take` or `Pop` set `popped`, `Forward` sends the head; `Accept` and `Hangup` may
come between, commands may not. `asked` is history: what the peer of a
connection waits for. `mode` is fixed at the start and says how the clients
behave, which separates what holds always from what patient clients may expect:
patient clients ask once and wait; in the other modes clients withdraw, or go away, and
ask again at any time. A second `CMD_START` of the client that owns the slot is a
repeat: it is accepted and the slot keeps the first address (`client.cpp`, lines 291 to 302).

**ClientSlots.** `Bridge` takes accept and close as one step. Here every access to an
element of the table, and each of `shutdown` and `close`, is a step.
`closeSocket` takes a reference, so the element is read again for each call.

**Commands.** Only the main task while it boots and the HTTP server's task
afterwards change the list, and the lock is taken per command, so that an action
is one row: `Put` is `fromTabular` (or `fromJson`), `insertCommand` and the
callback that `App::initServices` installs. `Insert`, `RemoveCommand`,
`RemoveAll`, `Wipe`, `Save`, `Load`, `Upload` are the HTTP handlers; loading and uploading go on
row by row (`job`, `todo`, `LoadRow`, `LoadDone`). `Restart` may come between
any two steps, and `SaveFile` may leave any beginning of the list, which covers a
power failure while the file is written and a full file system. The list has its
order, since the file is written in that order and loaded in it; a command has a
key, whether it is polled, a write command and one limit (the code has a minimum
and a maximum for each field, in one pool). The controller of the ebus library is
external: it gives an item any identifier that is not in use, or none.

**Mqtt and Telemetry.** A value is a version: the number of the telegram that
carried it, so that "newer" means something; `latest` is history, what the bus last
said for a command. `telegrams` is the monitor's queue, `outgoing` the MQTT queue.
`OnTelegram` is the callback on the bus thread; `TakeTelegram`, `BeginUpdate`,
`EndUpdate` and `Updated` are the turns of the monitor's task, split where the
commands mutex is taken, where the bytes of the value are half written (`Torn`),
where the update is queued, and where the mutex is given back.
`Enqueue` is `enqueueOutgoing` with both its gates and the first `xQueueSend`;
`MakeRoom` is the `xQueueReceive` of a producer that found the queue full, and `Resend` the
second `xQueueSend`. Other tasks may come before each of them, so that the entry dropped
need not be the oldest, or is the producer's own. The mqtt task (`task`) is at one place per lock, wait or publication of
its loop. `PublishFound` reads the value after the lock of `findCommand` is
given back, whatever the list looks like by then; `Read` and `PublishRead` are the two
halves of a read over MQTT, with the same window. `Unknown` stands for a pointer
whose element has moved, and may mean any listed command or none. `sent` says
whether the client took a message; it does only with a connection.
`InsertCommand` to `Wiped` are the HTTP requests with the callbacks
that `App::initServices` installs. `StopSignal` to `StopServices` is `App::stop`
up to the point where the monitor's task is deleted. `missed` is history
and says of what something was lost. For a value that is an entry dropped from a full
queue or with the list, a publication refused, and also what the gates turn away without
counting it, which the code does on purpose ("refresh cyclically"). For the discovery as a
whole (`Device`) it is only what is counted or logged, and only in the present connection:
an entry that the gate turns away is not in it, and so no excuse. `early` says that the
broker connected before the task had made its queue, which until the stop is the one case
in which this happens.

**Settings.** `nvs` is what is stored, `config` the copy read at boot.
`Merged` is `mergeFlatJson` into a copy of `config`; `WriteSetting` writes and
commits one key, fails, or fails with the value written; `EndSave` answers.
`promised` and `given` are history: for each setting what a client was last told to be
saved, until a request gives that setting another value or everything is erased on
request; and what the request under way names. At a start the flash may be erased, since
`ensureNvsReady` does so when it is full or of a newer version, or be unreadable, so that
the device runs with the defaults (`BootSettings`).
Numbers that are zero and strings that are empty are one value, `Empty`, since
the code takes both for missing when it reads them (`Loaded`).

**Upgrade.** An upload (or a download, which differs in `Refuse` only) runs on the HTTP
server's task, a push on its own. `Prepare` and `Stopped` are the hook, `App::stop`;
`Open`, `WritePiece`, `EndImage`, `Select` are the calls to the OTA library; flash that
both have written since it was erased holds neither image, so a piece is the set
of its writers. `Fail` is every error path; the services stay stopped, as in the code.

**Wifi.** One action per event. An attempt may fail whether the router is there or not;
the driver may also refuse to begin one (`"refused"`), which nobody notices, since the result
of `esp_wifi_connect` is ignored. A network is always configured, since `begin`
replaces a missing name by a default. `Guests` and `Router` are the surroundings.

**Cron.** A schedule is five sets of parts (`*`, a number or a range, each with a
step); `MatchPart` and `ValidPart` are the two functions of the code, with the
day 7 and the weekend as they treat them. `Tick` is one call; the lock is held
throughout. A rule whose command is gone is marked as executed all the same.

**Device.** The HTTP server's task does one thing at a time (`HttpIdle`); everything
else interleaves. `Boot` brings the parts together, after a restart that was
promised (`Restart`), one that anybody asks for, or a power failure (`Fails`).

## 3. Runs

| Run | Instance | Shows |
|---|---|---|
| `EbusLine_faults` | 2 adapters of different class, losses, lateness, withdrawals, reboots | `IInv`, `MutualExclusion`, `NoCollision`, `LostNamesWinner`, `StartedNamesSelf`, `ImplementsLock`, `RequestAnswered` |
| `EbusLine_three` | 3 adapters, no losses or reboots | `ClassIInv`, `BestClassWins` |
| `Bridge` | 2 places, 2 descriptors, 3 symbols, 2 addresses to ask with, all modes | `IInv`, `ArbitrationServesSlot`, `PatientAnswers`, `RequestAnswered`, `SlotFreed`, `OnlyWithdrawalUnseats`, `OnlyEstrangement` |
| `Bridge_cancel` | as above with one address, clients withdraw | `OnlyOneClientInArbitration` is violated |
| `Bridge_reuse` | the same, clients go away | `AnswersAreAsked` is violated |
| `ClientSlots_race` | 2 places, 3 descriptors, 4 connections | `NoConnectionLost` is violated |
| `Commands` | 3 keys for 2 places, 2 write commands and 2 limited keys for pools of 1, 3 identifiers | `IInv`, `CommandsOwnItems`, `BootRestores`, `OnlyWipeOrphans`, `LoadedLimits`, `ImplementsList` |
| `Telemetry` | 2 commands, one of them with a profile and a number; queues of 2; 3 telegrams, 2 links, 2 edits, 1 stop, in six mixtures | `IInv`, `Fresh`, `NeverBackwards`, `RemovalWithdraws`, `StoppedSilent`, `OnlyCrossing`, `DeadlockStays`, `Delivered`, `Rediscovered` |
| `Telemetry_deadlock` | as above, one link and two edits | `NoDeadlock` is violated |
| `Telemetry_early` | as above, two links only | `RediscoveredAlways` is violated |
| `Device` | 3 settings, 3 rules over the turn of a year, 2 pieces of firmware; requests, failures, losses in seven mixtures | `IInv`, `PromisesStand`, `UnsaidKept`, `QuietFlash`, `SelectedBoots`, `RulesFire`, `FiresOnce`, `Reconnects` |
| `Device_password` | as above, two requests, no restart | `KeepsStored` is violated |

**Bounds and why they are enough.**
`EbusLine_three` uses the addresses 0x30, 0x11 and 0x70: 0x30 and 0x70 have the
same class, and the AND of all three is 0x10, nobody's address, so both rounds,
joining and not joining the second, winning and losing in it, all occur. Two
adapters suffice with faults, since each property relates two of them; the
payload byte equals an address, so that a telegram cannot be told from an
arbitration by content. `MaxRestarts` is the code's 3. In `Bridge`, two places and
two descriptors make refusal, reuse of a descriptor and two competing clients
happen; the clients ask with 0x30 or 0x10, of the same class (in the two violations 0x30
only), and both are on the line, so that all outcomes occur, the second round included. `MaxQueue` says how
long the queue may be when a symbol comes: the loop turns many times in the 4 ms
of a symbol, so TLC uses the shortest bound, 0 (an answer may still wait while its client
asks again). The proofs lift this bound and
those on places, descriptors, symbols and addresses for the safety properties.
The restart count needs no bound: the code bounds it. In `ClientSlots`
`MaxConns` bounds how many connections are made; the shortest
counterexample needs two. In `Commands` the list and both pools overflow, a
command is replaced by one that is polled or not, with or without a limit, and a
file of two rows is cut after none, one or both. An upload has one row (`MaxUpload`); a
load has two. Identifiers are symmetric: nothing compares them but for equality.

In `Telemetry` what comes from outside is
bounded by `Budgets`, a set of mixtures rather than one large bound for all: three
telegrams fill each queue of two and overflow it; two links make a reconnect; an edit
inserts, removes or wipes while telegrams, entries and publications are under way, and
two of them remove what an entry was just queued for; a stop meets the task at every place. Everything inside is unbounded. Telegrams
that match no command are errors and fill the same queues. `Device`
has a password, a flag and a number, saved in this order with any failures; four
requests, among them empty ones; rules with ranges, steps, the weekend and one that
must be refused, for the last minute of a Saturday in 2022 and the first two of a Sunday in
2023; a file that holds one rule of three; three attempts to upgrade from
two sides; clock settings forwards and backwards. Attempts to connect have no budget: any number of
them may fail. The parts of
`Device` share few variables, which is why each mixture is small where the others are large.
The runs of both have `CHECK_DEADLOCK FALSE`: a stopped device, and one whose budgets are used
up, has nothing left to do.

`BestClassWins` is checked without losses and reboots on purpose: an address
that is lost does not compete, and an adapter that has just booted may be one
symbol time out of phase and take part in a second round as if it were the first.
The other safety properties hold nevertheless, which is the point of
`EbusLine_faults`. `ClassIInv` contains `IInv`, so that `EbusLine_three` checks with
three adapters, too, what mutual exclusion rests on.

**Fairness.** *EbusLine*: weak fairness of the wire (a SYN or the contention comes;
the SYN generator of the bus never stops and telegrams are finite), strong
fairness of a start in time: an adapter whose client waits is not late at every
SYN it could answer, since the data loop polls the UART without pause. Nothing
is assumed about winning: an adapter may always lose, and writes may always be
lost; the restart limit ends that. *Bridge*: weak fairness of `Pop` and `Forward`
(the loop runs), strong fairness of SYNs and of a start in time, as above.
Nothing is assumed about clients.
*Telemetry*: weak fairness of each task (monitor, HTTP server, mqtt task, each producer that
has yet to make room or to send again): FreeRTOS runs them by priority and each blocks when
it has nothing to do.
Nothing is assumed of the bus, the broker, the link and the clients, so that
`Delivered` and `Rediscovered` say what the tasks do with what comes. Both except
the deadlock of finding 5. *Device*: weak fairness of a
successful attempt to connect: while the router stays and the station goes on trying, the
driver gets it an address. Nothing is assumed about the router, the clients of the access
point, failed attempts, or failures.

**Findings.** Those without a run of their own, 4 and 7, are exceptions that a property
names and a theorem proves to be the only ones. (1) `CMD_START` with SYN clears the slot although the arbitration
of its owner is on the bus; another client can take the slot, and the end of the
first arbitration erases its request, which is never answered. (2) A connection
that ends leaves its request behind; a new client with the same descriptor number
gets the answer. (3) `closeSocket` in `data_loop` and `handleNewClient` in
`client_accept` can interleave so that a connection stays open and in no table.
(4) `wipeCommands` clears the list without the removed callback, so that the
controller goes on polling for commands that no longer exist, until a restart, although
the callbacks are there "to keep ebusController in sync with the CommandManager";
`OnlyWipeOrphans` names it as the one exception.
(5) A request that removes a command holds the commands mutex and asks for the MQTT
mutex, to withdraw the topic; the mqtt task that publishes a single number holds the
MQTT mutex and asks for the commands mutex, for its limits. Each waits for ever, and the
monitor with them. (6) A request is completed from the copy read at boot and writes every
key, so that what an earlier request stored since the last start goes back to the value of
that start: a second request that leaves the password empty writes the old password over
the one just stored, although empty means "keep the stored one"; `PromisesStand` names this
step (`Reverted`), for all settings. (7) A number that is zero is taken for
missing when it is read: an offset of 0 is valid, is answered as saved, and comes back as 50
(`TakenForUnset`). (8) The client is started before the task that makes the queue; a
broker that answers in between gets no discovery while that connection lasts, unless the
device gets a new IP address: the entry is turned away without being counted or logged,
although "discovery re-runs on every (re)connect".

## 4. Proofs

All obligations are proved by SMT, Zenon and LS4, for every value of the
constants allowed by the assumptions `RestartAssumption` (the limit is a natural
number), `LineAssumption` (distinct eBUS master addresses, payload without SYN),
`BridgeAssumption` and `CommandsAssumption` (typing, finitely many keys and write
commands), `MqttAssumption` and `TelemetryAssumption` (typing, distinct marks, queues that
hold something), `SettingsAssumption`, `UpgradeAssumption`, the assumption of `Cron` and
`DeviceAssumption` (typing; marks that are no values).

*EbusLine* (`EbusLineProofs`): `Invariance` proves `Spec => []IInv`; from it
`BusIsExclusive`, `TelegramsAreSafe`, `LosersKnowWinner`, `WinnerKnowsItself`, and the
refinement `LineImplementsLock`. Mutual exclusion is not inductive: that
two adapters cannot both win follows because adapters agree whether the
last symbol was a SYN (`InStep`), a write happens only right after one
(`WritesAfterSyn`), nobody owns the bus then (`FreeAfterSyn`), an arbitration is
always for the adapter's own address and lives only until the second symbol after a
SYN (`AllSound`), addresses differ, and so the one that
reads back its own address is alone. `MasterIsHolder` is
what carries the winner's name over to the symbol at which the losers report it.
That part does not need that the wire is an AND: any byte that reaches all will do.

The priorities do. `WiredAndIsAnd` shows that the rule of the model for two writers, the
smaller of each nibble, is what a wired AND does, bit by bit: the nibbles of a master's
address are 0, 1, 3, 7 and 15, each a part of the next. `RoundsInvariance` proves
`ClassIInv` for a bus without losses and reboots (hypotheses of the theorem; section 3
says why): all adapters deduce the same from the bus (`SameBeat`); all who
compete write in the first round and only those of its class in the second
(`RoundsWrite`); and the address seen has the best class of all who still compete
(`RoundsNarrow`), since the smallest low nibble, which is the class, gets through.
`BestPriorityWins` follows for any number of adapters.

*Bridge* (`BridgeProofs`): `Invariance` proves `Spec => []IInv`; from it
`ArbitrationOwnsSlot` and `AnswersMatchRequests`. The strengthening, for patient
clients: the slot holds a request somebody waits for (`SlotIsAsked`), a queued answer
belongs to a waiting client that is not the slot's (`AnswersAreOwed`), so that the
next answer cannot be the client's second.

Two more pairs of theorems say what else these promises depend on, in every mode.
`SlotIsKept`: the only step that takes the slot from an arbitration is a withdrawal while
it runs (`Overtaken`); hence `WithoutOvertakingOne`, a bridge without such steps has one
client in arbitration. `AnswersStayDue`: as long as all that is under way for a client (its
request, its arbitration, its answer) belongs to what it asked last (`DueTo`), this
remains so unless (`Estranged`) a connection gets a descriptor of which something is still
under way (`Inherits`), a client withdraws what is on the bus or answered
(`WithdrawsLate`), or it asks again before the answer, in which case the answer carries the
first address, or a second answer follows the one that already waits (`AsksAgain`). Hence
`WithoutEstrangementAsked`: a bridge without these three kinds of steps gives every answer to
who asked for it. So finding 1 has this one cause, and answers nobody asked for, of which
finding 2 is one way, have these three and no others: clients may hang up, be thrown out
and withdraw at all other times.

*ClientSlots* (`ClientSlotsProofs`): `LostOnlyInWindow` shows that a connection gets lost
only when `client_accept` stores it in the very element that `data_loop` has closed and not
yet cleared (`Window`): the race of finding 3 is the only cause. `AcceptLosesNoConnection`
follows for the regular and read-only ports, where only `client_accept` writes the table
(`Malformed = FALSE`).

*Commands* (`CommandsProofs`): `Invariance` proves `Spec => []IInv`; from it
`ItemsAreOwned`, `SavedIsRestored`, `OthersKeepSync`, `LimitsAreLoaded`. That a restart
restores what was saved (`BootRestores`) needs more than the boot itself: the file
was written from a list whose keys differ and whose write commands and limits
were in bounded pools (`PoolsHold`), so the file fits them (`FileFits`); while it is
loaded the pools hold only what the file brought (`BootPools`), a proper part
as long as the row at hand is not in it, and so there is a place for the row.
The same argument fails for a load into a running adapter, where earlier
commands may have filled the pools, and the module does not claim it.
`ListImplementsSavedList` is the refinement: under the mapping `Stored` every step is a
step of `SavedList` or none. While the adapter boots the abstract list is the file, which
is why a row that finds no place, or one that comes twice, would show; an edit is proved to
touch one row and to keep the keys apart (`EditStep`), a save to keep a beginning of
the list (`SaveStep`). `WithoutWipeInSync`: without `wipeCommands` the controller polls for
listed commands only, which is all there is to finding 4.

*Telemetry* (`TelemetryProofs`): `Invariance` proves `Spec => []IInv`; from it
`ValuesAreFresh`, `ValuesNeverGoBack`, `StoppedIsSilent` and `RemovalIsWithdrawn`.
`Fresh` is not inductive: that an update on its way will bring the last value
needs that a copied value is the last one unless a newer telegram waits
(`UpdatesArrive`), that telegrams are copied in the order in which they were seen
(`VersionsInOrder`: what is published or copied is older than all that waits),
that the mutex has one holder (`LockOwned`), and that the task's own creation of the
queue throws nothing away (`StopsInOrder`: nothing is queued before). The proof falls
in two parts, `Base` (locks, requests, stop) and `Flow` (telegrams, values, queue); most
steps are `Harmless` (every update stays on its way, is published, or is known to be
lost), and one lemma shows that these keep `Flow` (`HarmlessKeeps`). The steps that move
telegrams or change values, and those that change the list, have a lemma each.
The queue has its own (`EnqueueFacts`, `MakeRoomFacts`, `ResendFacts`, `EraseFacts`).
`DeadlockIsOne` is about all tasks that can wait for a mutex while they hold one: wherever
two or three of them wait for each other in a circle, it is the crossing of finding 5, because
the holder of the commands lock waits for nothing else (`HolderWaits`). `DeadlockIsForever`:
nothing gets the two tasks out of it; the stop of an upgrade waits for the same mutex
and does not return either.

*Device* (`DeviceProofs`): `Invariance` proves `Spec => []IInv`; from it
`SavedIsApplied`, `UnsaidIsKept`, `FlashIsQuiet`, `SelectedIsBooted`, `RulesFireOnce`, and
`RulesAreLive`. Each part has an invariant of its own (`SavesInOrder`,
`StopsFirst`, `Selects`, `WifiTells`, `Noted`), and a step of one part leaves the
others alone; only the restart meets all. `SavedIsApplied` is about
promises: one that stands (`Stands`: the next start would read what was promised) goes on
standing through every step, and every start runs with it, whatever requests for other
settings, failures in the middle of them and restarts do, with three exceptions: flash that
is lost at a start, and the steps of findings 6 and 7. `FaultlessApplies` draws the sum: in
a behaviour without these three kinds of steps every promise stands always and every start
loads all that was promised (`SavedIsLoaded`), so that the two findings have no other cause.
`UnsaidIsKept` bounds finding 6 from the other side: what is not given changes only back to
the value the device runs with.

*Only model-checked*: liveness (`RequestAnswered`, `SlotFreed`, `Delivered`,
`Rediscovered`, `Reconnects`), because the prover has neither fairness nor ENABLED, and the
violations of section 3, which are counterexamples; for findings 1 to 7 theorems say what
their causes are. That finding 8 has no other cause than an early connect
is what the run `Telemetry` shows (`Rediscovered`). What `BestClassWins` is with losses and reboots is not claimed.

## 5. Not modelled

*Bridge variant.* Time stamps and statistics of the bus (they affect log lines only,
apart from lateness); the plain byte streams of ports 3333 and 3334 (they own no
arbitration; what they write appears as symbols of the bus); the builds with software
serial or with the asynchronous task, which are not the default; start and stop of the
bridge's tasks.

*Commands.* Decoding and formatting of values; a row that does not fit the reader's
buffer; a file system that cannot be mounted; the string pool (keys have identifiers
of their own, that is, the pool is not full; what its 8-bit count does at 256 strings is
listed as a hazard). `nextActiveCommand` is called by nobody.

*Telemetry.* Requests over MQTT that write to the bus or change the list, a new IP address, which queues the
discovery once more (`app.cpp`, lines 99 to 107), the forwarding of log lines, the entries that nothing queues
(`data`, `ha_enable`, `ha_disable`), several fields per command, reconnecting inside the MQTT library.
A producer that meets the queue while `stopTask` deletes it would stop at an assertion; in
the model the entry is lost. Time is left out: the second that `stopTask` waits may be over at any moment.
Manual reads, the scan of clients and the tap ring of the system monitor. The client
library calls the event handler without a lock of its own, as far as the model goes; what
`DeadlockIsOne` says is about the mutexes of the repository.

*Device.* An `esp_wifi_set_mode` that fails in `begin`. After a start that could not read its
flash a request writes the defaults over what is stored, which is finding 6 again. A date
that never comes, such as 30 February: the code checks field by field, and so does `RulesFire`. Keys that `AppConfig` does not know (stored as they come), the reset pin at
start-up, a service that cannot be started, WiFi scan and static address, progress
reports and the authentication of the push, the rollback of the boot loader (external). `Tick`
is one step, although `App::stop` waits half a second for the cron task and does
not join it. The file of rules is taken to hold any subset of the rules that fits, which
covers what littlefs leaves of it after a failure.

*Not at all.* Logger (a ring whose contents are wording), HTTP parsing and answers,
DNS, SNTP servers, hardware access, identity and status: parsing and formatting, pure
I/O, or read-only facts. The ebus library is not in the tree.

## 6. Plan

1. *(done)* Arbitration, bus end, clients.
2. *(done)* `Commands`: the list against the poll items, the pools and the file.
3. *(done)* `Mqtt`, `Telemetry`: from the bus to the broker, against requests and the stop.
4. *(done)* `Settings`, `Upgrade`, `Wifi`, `Cron`, `Device`.
5. Open: requests over MQTT that write to the bus (they share `Commands`' callbacks);
   the string pool under `Commands`, so that identifiers may run out; an abstract
   specification of `Telemetry` (a map of last values with a known loss) and the
   refinement, of which `IInv` has the facts; one of `ClientSlots`, a table whose elements
   change at once, and the refinement outside `Window`, which would tie it to `Bridge`.
