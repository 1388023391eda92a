# The Bluetti Cloud integration in TLA+

This directory holds TLA+ models of the Home Assistant integration in
`custom_components/bluetti_cloud`, the TLC configurations that check them on
small instances, and proofs, checked by TLAPS, of the properties that matter
most for every instance.

The integration's difficulty is not in its arithmetic but in who does what
when: one asyncio event loop, an executor thread that opens TLS connections,
paho's network thread, a REST poller, an MQTT poller, and devices that answer
late, twice, or not at all with frames that carry no request identifier.

Paths below are relative to `custom_components/bluetti_cloud/` unless they
start with `README.md` or `tests/`, which are the repository's.

## 1. Inventory

| Component | Source | State it keeps | Operations | Status |
|---|---|---|---|---|
| Request/reply transport | `mqtt/transport.py` | `_waiters`: open requests and their futures | `request`, `on_frame`, `fail`, `abort` | modelled, proved |
| MQTT lifecycle | `mqtt_manager.py` (start, stop, reconnect), `__init__.py` | `_stopping`, `_mqtt_connected`, `_mqtt_client`, `_reconnect_task`, `_poll_task`, `_topic_to_sn` | `async_start`, `async_stop`, `_cleanup_mqtt_client`, `_schedule_reconnect`, `_reconnect_loop`, setup and unload | modelled, proved |
| MQTT client | `api/mqtt_client.py` | the paho object, its network thread, the temporary PEM files | `async_prepare`, `connect_blocking`, `cleanup_pem_files`, `disconnect`, `subscribe`, `send_*` | modelled, proved |
| Reconnect policy | `mqtt/connection.py` | `_attempt` | `next_delay`, `reset`, `classify_failure` | modelled, proved |
| Coordinator and REST refresh | `coordinator.py` | `data`, `_last_good_data`, `update_interval`, `_profiles` | `_async_update_data`, availability, profile resolution | modelled, proved |
| MQTT overlay and pushes | `mqtt_manager.py` | `overlays` | `_note_seen`, `_update_mqtt_data`, `_push_mqtt_update`, the processing of each block | modelled, proved |
| Polling loop and message handler | `mqtt_manager.py` | `_pending_request`, `_unsupported_registers`, `_pack_counts`, `_fc16_devices`, `_last_push` | `_poll_loop` and below, `_handle_mqtt_message` and below | modelled, proved |
| V1 battery packs | `mqtt_manager.py`, `sensor.py` | `_pack_counts`, pack slots, selected pack | cycling by pack-select writes, sensors per pack | modelled, proved |
| Expansions (V2 nodes) | `mqtt_manager.py`, `subdevice.py`, `sensor.py`, `binary_sensor.py` | `overlays[sn]["nodes"]` | node lists, pack records folded in, entities per node | modelled, proved |
| Control entities | `switch.py`, `number.py`, `select.py`, `entity.py` | optimistic values in the entity and in `coordinator.data` | creation, writes and their confirmation | modelled, proved but for the confirmation |
| Read-only entities | `sensor.py`, `binary_sensor.py`, `subdevice.py`, `entity.py` | none of their own | present fields of `coordinator.data`, while available | partly: creation and availability |
| REST client, authentication | `api/client.py` | token and its expiry | `login`, `_ensure_authenticated`, `_request` with one retry on code 805 | modelled, proved but for liveness |
| Configuration flow | `config_flow.py`, `__init__.py` | the dialogue's devices and choice; the entry's data | adding an account, choosing devices, reconfiguring; set-up, reload, removal | modelled, proved |
| Device profiles | `api/profiles.py` | none | `get_profile`, every registered profile | modelled, proved |
| Framing | `api/modbus.py` | none | block layouts, identification by size, guards on writes | partly: no CRC, envelope bytes or scaling; proved |
| TOTP, encryption | `api/totp.py`, `api/crypto.py` | none | pure functions on bytes | not modelled |

### How they interact

* Home Assistant calls `async_setup_entry`: a first REST refresh, then
  `async_start`, then the platforms. `async_start` awaits `async_prepare`
  (certificate over HTTPS) and hands `connect_blocking` to the executor.
* paho's thread passes each message to the event loop with
  `call_soon_threadsafe`. The handler runs between the awaits of every task. It
  settles futures of the transport, changes `overlays`, and pushes the merged
  data to the entities through the coordinator.
* The poll task calls `Transport.request` for one block after another, with one
  transport per device and one `_pending_request` for all of them.
* The refresh merges REST with the overlays, and notices on its way that the
  MQTT client has lost its link; it then cleans up and schedules the reconnect
  task.
* Entities read `coordinator.data`; a control entity writes to the device
  through the client and puts the value it wrote into `coordinator.data`. They
  write their states, and judge whether they are available, only when a refresh or
  a push calls them.
* Every client writes its certificate and key to the same two paths. The clients
  of one entry follow one another; those of several entries, and a thread that a
  stop has left behind, do not.
* A dialogue ends in an entry being made, or changed and reloaded. Each set-up
  makes a REST client of its own and logs in; the service ends the token of an
  earlier login.

### What is hard, and what makes each part correct

* **Transport.** Several requests may wait at once, and a reply can race the
  deadline, a refusal, an abort and a cancellation. Correct: each future is
  settled once, each request ends, no entry stays behind, a recognised frame
  answers only a request for its own block, the oldest request that fits wins,
  and the answer to an open request is never dropped.
* **Lifecycle.** A cancelled task leaves its executor thread running; the
  account has a single MQTT session; a lost link is seen only by the next
  refresh. Correct: never two attempts at once, never a client nobody can
  disconnect, nothing alive after a stop, waits within the bounds the broker
  tolerates, a loss always followed by a reconnection.
* **Data.** A refresh spans many awaits, with pushes and writes in between, and
  may fail at each. Correct: what only REST provides is neither lost nor set
  back, contact times in the cache do not go back, and the switch shown ends up
  being the one the user asked for.
* **Polling.** Answers, pushes and refusals of several devices come between the
  steps of one task that has laid out its cycle before. Correct: a request is
  ended only by the device it was made to, a refused block is not asked again, a
  device's refusals do not silence another, discovery and pack reads go on for
  ever.
* **Discovery.** Packs and nodes are found before, while and after the entity
  platforms are set up; the next pack is selected on the strength of a report that
  may be older than selects under way, and a node list takes away what pack
  reads had added. Correct: what is counted has its entities, once; the cycle
  reaches every slot for ever; the readings come back.

* **Settings.** One setting is told by up to four blocks and echoes, whose layout
  and registers differ by generation, and the generation may not be known yet when
  the entity is made. Frames are told apart by size and by what was asked last.
  A device answers with the registers it has, and its reply may then have the size
  of another block. Registers next to the right one power a device off. Correct: a
  frame is parsed as what it is and never past its end, only what was asked for is
  changed, in the device's own dialect, and what is shown comes right again whenever
  the setting is reported.
* **Certificates.** The key is on disk between three awaits and the clean-up, which may
  come between the thread's reading of a path and its opening of the file.
  Correct: an attempt loads the pair it downloaded; no key stays behind.
* **Session.** Dialogues overlap with one another and with set-up, reload and
  removal of the entry; the token ends at any await. Correct: an account has one
  entry, whose devices all have their model in it; a client that is used logs in again.
* **Fallback.** Each push restarts the timer of the refresh, which alone notices
  that the link is lost, and that only when it begins, before it awaits two requests
  for each device. Correct: silence is shown, the loss is noticed and REST is read
  within the intervals promised and the time a refresh takes.

`PROJECT.json` lists each hazard at its line, with the properties that watch
it, or why none does.

## 2. Modules

    RequestReply          what the transport promises (abstract)
       ^ implemented by
    Transport  <--------- TransportProofs      MCTransport
    MqttLifecycle <------ LifecycleProofs      MCMqttLifecycle
    Certificates <------- CertificatesProofs   MCCertificates
       (several of MqttLifecycle's managers, seen from the files)
    DeviceData <--------- DeviceDataProofs     MCDeviceData
    Polling <------------ PollingProofs        MCPolling
       (sees the transport as RequestReply does)
    Discovery <---------- DiscoveryProofs      MCDiscovery
       (its fairness of node lists and pack records is what Polling shows)
    Blocks                registers, layouts, guards, profiles (no state)
       ^ extended by
    Control <------------ ControlProofs        MCControl
       (polling, handler, entity and device put together, for one setting)
    Session <------------ EntryProofs          MCSession
    Fallback <----------- EntryProofs
       (REST and MQTT put together, in time)

Event-loop code between two awaits is one action; an `await` is a boundary
between actions. Code in another thread has actions of its own. Operators named
as "mutated forms" in a module are not part of the model: each stands for a
plausible bug in one operator and shows, when it takes that operator's place,
that the property it is paired with in `PROJECT.json` notices.

### Transport and RequestReply

| Model | Code |
|---|---|
| `waiters` | `_waiters`, a list that is only appended to and removed from; as requests are numbered in issue order, a set of numbers determines it |
| `expected`, `future`, `answer` | an entry's `_Pending`, its future's state, its result |
| `signal` | a cancellation pending on the task: `wait_for`'s deadline or the owner |
| `Request`, `RequestUnsent` | `request` up to its await, or up to the exception of `_send` |
| `Resume` | the `finally` clause and the return or raise of `request` |
| `Timeout`, `Cancel` | the deadline; cancellation of the poll task |
| `OnFrame`, `Fail`, `Abort` | `on_frame`, `fail`, `abort` |
| `DeviceReplies`, `DevicePushes`, `wire` | device and broker: any delay, loss, duplicates, reordering |

`wait_for` as of Python 3.12 is modelled: a deadline that passes before the
task has run again wins over a result that has arrived, an outside cancellation
is never swallowed. `on_unsolicited` is left out because nothing sets it.
`RequestReply` has no list and no pending cancellation: a frame goes to the
oldest open request it fits among all there are. That `Transport` implements it
says that the list never hides an open request from the handler.

### MqttLifecycle

| Model | Code |
|---|---|
| `stopping`, `flag`, `held`, `poll`, `loop` | `_stopping`, `_mqtt_connected`, `_mqtt_client is not None`, `_poll_task`, `_reconnect_task` |
| `phase`, `owner` | the `async_start` in progress and who awaits it |
| `thread` | how far `connect_blocking` is in the executor |
| `paho`, `network` | the newest paho object and its network thread |
| `attempt`, `delay` | `ReconnectPolicy._attempt`, the wait chosen |
| `interval` | `coordinator.update_interval` |
| `known`, `topics` | devices whose `sub_sn` is known; subscribed topics |
| `Prepared`, `StartReturns` | the parts of `async_start` between its awaits |
| `SetupFails`, `LoopFails`, `LoopDies` | the handlers of a failed attempt in `async_setup_entry` and in `_reconnect_loop` |
| `Thread...` | the steps of `connect_blocking` |
| `RefreshDetectsLoss`, `Stop` | the check in `_async_update_data`; `async_stop` at unload |
| `LinkDrops`, `PahoReconnects` | the network, and paho's own reconnection |

Delays are whole seconds at the two ends of the jitter. `OverflowAt` is the
attempt at which the float product in `next_delay` overflows: 1024 in Python, a
parameter here so that TLC reaches it.

### DeviceData

| Model | Code |
|---|---|
| `data`, `cache`, `shared` | `coordinator.data`, `_last_good_data`, and whether they are one object |
| `overlays` | `manager.overlays` |
| `phase`, `listing`, `at`, `fetched`, `result` | where the refresh awaits and its local variables |
| `asked`, `state`, `cloud` | writes the user made, those the device applied, those the cloud has heard of (environment) |
| `RefreshStarts` ... `EnergyAnswers` | `_async_update_data`, cut at its awaits |
| `ListFails`, `AliveIsNull`, `RefreshRaises` | its failures: handled by the cache, handled per device, not handled |
| `SettingsArrive`, `EchoArrives`, `OtherBlockArrives`, `QuietFrame` | `_handle_mqtt_message` by what a frame tells |
| `UserWrites` | `_send_switch_command` and `set_optimistic` |

A device's dict is reduced to three keys, one for each way a field gets its
value: `switch` (REST, MQTT and the user), `energy` (REST only), `last_seen`
(both, with a merge rule of its own). Values are times or counts of writes, so
that older and newer can be told apart.

### Polling

| Model | Code |
|---|---|
| `task`, `at`, `plan` | `_poll_task`, and the position in the nested loops of a cycle |
| `pending` | `_pending_request` |
| `answer` | the result of the one open request |
| `unsupported`, `packs`, `streaming`, `fc16` | `_unsupported_registers`, `_pack_counts` or the node list, the devices for which `is_streaming`, `_fc16_devices` |
| `Wake`, `Resume`, `GoOn` | `_poll_loop`, `_poll_cycle_for`, `_poll_once`, `_poll_battery_nodes`, `_poll_register` between two awaits |
| `ReadReply`, `NodeReply`, `Push`, `Refusal` | the branches of `_handle_mqtt_message` |
| `Start`, `Cleanup`, `TaskEnds` | `_start_polling`, `_cleanup_mqtt_client`, the cancelled task's end |
| `owed` | devices that have a refusal under way (environment) |

Since one task makes all requests, a transport has at most one entry here, and
`RequestReply` reduces to: a fitting frame of the polled device settles it.

### Discovery

| Model | Code |
|---|---|
| `kind`, `slots` | which of the three ways of telling its packs a device has; `pack_num_max`, hence `_pack_slots` |
| `reports`, `selects`, `applied`, `selected`, `link` | frames between device and event loop; select writes of QoS 1 not acknowledged, and how many of them the device applied (environment) |
| `discovered`, `count` | `_discovered_packs`, `_pack_counts` |
| `listed`, `recorded`, `seen` | the nodes of the overlay, those with `has_battery`, `_discovered_nodes` |
| `ready`, `packSensors`, `entities` | platforms whose `async_setup_entry` has run; `created_packs`; `created_nodes`, as the number of times entities were added |
| `missed` | history: nodes known but not in the list when a platform was set up |
| `ReportArrives` | `_process_fc16_data`, `_process_per_pack_data`, `_send_pack_select` and the callback they lead to |
| `MainInfoArrives` | `_process_pack_main_info` |
| `NodeListArrives`, `PackRecordArrives` | `_process_node_info` and the callbacks; `_process_pack_item_v2` |
| `SetUp` | `async_setup_entry` of `sensor.py` and of `binary_sensor.py` |

Which nodes a list has is left open: any list may follow any other. Whether a
reported pack shows data is open in the same way, since an idle or an absent pack
reports zeros. After a reconnection paho sends unacknowledged selects again, in
order, applied or not, and the device may thus jump back.

### Blocks and Control

| Model | Code |
|---|---|
| `Blocks`: registers, `identify_block`, `parse_...` | the constants and parsers of `api/modbus.py`: a parser is the set of fields it reports, each with its place, its width and the length the data must have |
| `build_switch_payload`, `build_setting_payload` | the guards of the write builders: the values they accept for a register |
| `get_profile` and the profiles | `api/profiles.py` |
| `model`, `key` | the configured model; the setting that is followed |
| `version`, `listed`, `entity` | what a refresh has resolved of the profile; whether `sub_sn` is known; whether the platform made the entity |
| `fc16`, `streaming`, `unsupported`, `pending`, `link` | as in `Polling` |
| `regular` | whether the V2 cycle under way asks for the regular blocks |
| `outbound`, `inbound`, `regs` | messages and frames under way; the device's registers (environment) |
| `overlay`, `data`, `cache`, `attr` | the value of the setting in the overlay, in `coordinator.data`, in `_last_good_data`, in the entity's `_attr_...` |
| `shared` | the data and the cached data are one dict, as they are after a refresh and until a push |
| `wanted` | history: the values the user asked for |
| `UserWrites` | `_send_switch_command`, `async_set_native_value`, `async_select_option` with `send_switch_command` and `send_setting_command` |
| `CycleBegins`, `StreamEnds` | `_poll_once` looks whether the device streams; nothing was pushed for `PUSH_ACTIVE_WINDOW` |
| `Ask`, `RequestEnds` | `_poll_register` for any block of a cycle that is not marked as unsupported, and the end of its request, by an answer or the deadline |
| `Handle` | `_handle_mqtt_message` to the push: `Route` for the block a frame is taken for, `Layout` for the parser, `Told` for what it says of the setting; an error marks what is pending |
| `RefreshCached` | a refresh whose listing fails, or misses the device: the cached value is put back |
| `DeviceAnswers`, `DeviceSilent`, `DeviceRefuses`, `DevicePushes`, `DeviceVolunteers` | the device, and the network that loses what it sends |
| `RefreshLists`, `SetUp`, `LinkUp`, `LinkDown` | the refresh, `async_setup_entry` of the platform, the connection |

A byte is modelled by the register it is in: reading byte 29 of a settings frame
gives what the device has in the register there, and `Junk` where no setting is.
So a parser that reads a field in the wrong place shows a wrong value. The device
answers and pushes what the code, its comments and its tests take it to: a
reply has all the registers asked for, `SizeAsked`, or fewer, any length of `Short`,
as the pack record of 180 bytes for 208 and the cell block of 44 for 50 that the
repository captured (`mqtt/transport.py:48-52`, `tests/test_replay.py:243-250`).

### Certificates

| Model | Code |
|---|---|
| `entry`, `held` | which manager made a client, and whether `_mqtt_client` is still that one |
| `at` | `async_prepare`, then the steps of `connect_blocking` in its thread |
| `paths` | `_pem_cert` and `_pem_key` are set |
| `cert`, `key` | whose content each of the two files has |
| `running`, `abandoned` | managers not stopping; history: a stop left behind a thread that had not set its paths |
| `SetUp`, `Attempt`, `CleansUp`, `Stop` | the manager's handlers, as far as they reach the client |
| `Downloads` ... `Connects`, `Fails` | the steps between which files are written and loaded |
| `ReadsPath` | the thread evaluates `self._pem_cert` or `self._pem_key`; opening the file is the next step |
| `Collected` | a client that nobody refers to any more is gone |

### Session

| Model | Code |
|---|---|
| `flow` | each dialogue: its step, its unique id, `self._devices`, the options its form offers, the input it is handling |
| `entry`, `selected`, `named` | the state of an account's entry; `entry.data["devices"]`; the keys of `entry.data["device_info"]` |
| `token`, `call` | the client's token; where a `_request` of it awaits |
| `SubmitUser` ... `SubmitDevices`, `Reconfigure` ... `SubmitForm` | the steps of `config_flow.py`, cut at their awaits, each with its failures |
| `Reload`, `Remove`, `LoginAtSetUp`, `LoginFailsAtSetUp` | Home Assistant and `async_setup_entry` |
| `Asks` ... `CallFails`, `Loses` | `_request`; the token expires or another login ends it |

Home Assistant is external: that a second dialogue with the same unique id is
refused, and that a removed entry's dialogues go with it, is taken from how the
code relies on it.

### Fallback

| Model | Code |
|---|---|
| `due`, `interval` | the coordinator's timer and `update_interval` |
| `link`, `connected`, `lost` | the client's connection; `_mqtt_connected`; how long they have differed |
| `overlay`, `cache`, `data` | ages of `last_seen` in each of the three |
| `running`, `left`, `result` | a refresh is under way, the devices it has yet to read, the ages in its `result` |
| `success`, `shown` | `last_update_success`; which entities were written as available |
| `since`, `pushed`, `silence` | history: time since the last refresh began or ended, pushes since then, time since a device was heard |
| `RefreshBegins` | `_async_update_data` to its first await: the only look at the link |
| `ReadsDevice`, `MissesDevice` | one device of the loop, with the time its requests take before it |
| `RefreshEnds`, `RefreshFails`, `RefreshRaises` | its ways to end, after any time up to `Longest`; `Concludes` is what the coordinator then does |
| `Push`, `QuietFrame` | a frame with and without `async_set_updated_data` |
| `Start`, `LinkDrops`, `PahoReconnects`, `Tick` | a connection is made; the network; time |

## 3. Runs

| Run | Asks | Result |
|---|---|---|
| `transport` | does the list hold the open requests and nothing else, are futures settled once, does every request end, and does `Transport` implement `RequestReply`? | yes |
| `lifecycle` | is the connection's life safe, overflow included, and is the integration back on line once the broker relents? | yes |
| `lifecycle_orphan` | is there no session after a stop? | no |
| `device_data` | what is shown and cached under every interleaving of refresh, frames and writes? | what REST provides is kept, contact times do not go back, the switch settles |
| `polling` | matching, marking and progress of polling | holds |
| `polling_refused` | are only refused blocks skipped? | no |
| `discovery` | entities for what is found, progress of the cycle, return of readings | holds |
| `discovery_internal` | does a main unit whose pack is read get its battery shown? | no |
| `control` | are frames parsed as what they are and only as far as they reach, is nothing changed but what was asked for, and does what is shown come right whenever the setting is reported? | yes, but for the replies `RoutedAsSent` names; and for good, unless frames go on being mistaken or refreshes go on failing |
| `certificates` | does an attempt load the pair it downloaded, and does no key stay behind? | yes, but for the two ways the properties name |
| `session` | are entries created once, with the model of each device, and do their clients log in again? | yes, where requests are made |
| `fallback` | are silence, a lost link and the next reading of REST in time? | yes, a refresh under way included |

### Bounds, and why they are enough

* `Transport`: two requests, two addresses, two blocks of which one is not
  recognised by size. Matching, overtaking, stealing and duplicates all concern
  a frame and two entries. Every wait, deadline, cancellation and frame order is
  explored. The proofs lift the bound.
* `MqttLifecycle`: two devices, failure counts up to `MaxAttempt` (the fifth
  wait is past the cap), with the overflow at that bound. The counter stops at
  the bound, so runs of failures are not cut short. The other value of `RestOnly`
  is covered by the proofs. `lifecycle_orphan` needs one failure, and uses symmetry.
* `DeviceData`: one hybrid device and one whose telemetry is null (as the
  AC300's is), two instants, one write. Two instants tell older from newer;
  refresh, frame and write interleave freely. The list of the cloud may miss any
  device.
* `Polling`: an APEX 300 (with none, or two batteries) and a polled V1 device
  (with none or one pack), and `MaxMarked` marked requests: one that a device
  refuses and one wrongly marked. Refusals beyond that bound are not received,
  which leaves the request to its deadline.
* `Discovery`: one device of each kind. A pushing one with three slots, as many as
  `MaxPacks`, so that the guard's boundary is met, with two reports and two
  selects under way: enough for a report to be older than a select, for a select
  to be sent twice, and for both to be lost. A V2 one with a main unit that has a
  pack, an expansion battery and a hub; all lists of these, in any order.
* `Control`: one model of each kind (a V1 device that pushes, one that is polled, a
  registered V2 device and one that is not in the registry), an output and a setting of
  the grid block, which are told by different blocks. One write, and one message each way
  (`MaxOnWire`): a late answer is one that is there when the next request is made. Short
  replies of 180 and 44 bytes, the two lengths that were captured; every block that is
  longer may be cut to them. Pushes of the settings block of 60 bytes, a whole one, and
  of 24, which ends after the AC output. The polled V1 device has one request marked as
  refused, any of its requests; that the others refuse none (`MaxMarked`) only makes them
  be asked for more. 351,922 states. In a larger instance without fairness all four kinds
  of setting and eight pushed blocks were checked (1,162,496 states), in a smaller one two
  writes and refusals of all devices with `WritesSettle` (246,887 states), in both with the
  inductive invariant; the proofs cover every setting, size and bound.
* `Certificates`: two accounts and three clients at a time, the least with which an
  entry has a client that it has dropped while another entry connects. Only safety
  is checked there, with symmetry. 321,723 states.
* `Session`: one account, two dialogues, two devices; accounts share nothing but the
  test of `MayAdd`. The inductive invariant was also checked with two accounts
  (1,988,894 states). 6,424 states.
* `Fallback`: `Fast` 1, `Slow` 2 and `Stale` 3 units for the code's 30, 60 and 600
  seconds, and refreshes of up to `Longest` = 1 unit: an interval fits into the time a
  device may be silent, and the time of a refresh can be told from none. `Longest`
  stands for the number of requests times the timeout of the HTTP session, which the
  integration does not set. The proofs cover every value with `Fast <= Slow`. The steps
  of a refresh, a push and a loss may come in any order within a unit. 1,695,639 states.

### Fairness

* `Transport`: `Resume` and `Timeout` of each request, for the event loop runs
  ready tasks and due timers. Nothing of the device or the broker.
* `MqttLifecycle`: the steps of `async_start`, of the reconnect task and of the
  executor thread (all their network calls have timeouts), and the refresh that
  detects a loss: it is put off by each push, but no push arrives without a link,
  and `LossInTime` shows that it then comes within a refresh under way and one
  interval. `BackOnline`
  assumes in addition strong fairness of the successful outcomes: a broker that
  refuses for ever is not the code's fault.
* `DeviceData`: a device applies the writes it got and its settings arrive again
  and again. Nothing of the refresh.
* `Polling`: sleeps and deadlines end, ready tasks run. Nothing of the devices.
* `Discovery`: frames that have arrived are handled, platforms are set up; a device
  keeps reporting, applies selects, lists its nodes and answers pack reads again
  and again, for it is asked again and again (`ExpansionsAskedForEver`,
  `PacksReadForEver`). That the link holds is a premise of `EverySlotReported`.
* `Control`: frames that have arrived are handled, and nothing else. That the link holds
  in the end, and that the block of the setting comes again and again, are premises of
  `WritesSettle`: the code does not make it come, for a device that streams is not
  asked for it (`mqtt_manager.py:462`), nor is one for which it is marked as refused
  (`:570`), be it by the refusal of another block.
* `Session`: neither logins nor answers fail every time. That requests go on being made
  is a premise of `TokenRenewed`: each push restarts the timer of the refresh
  (`mqtt_manager.py:1310`), which may then never come. Nothing of the user.
* `Certificates` and `Fallback` state safety only; what happens in time in
  `Fallback` is safety because time is in its state.

Deadlock is checked in every run.

## 4. Where the code and its documentation part

Each of these is a run that TLC refutes; `PROJECT.json` quotes both sides.

1. *A session may survive the stop* (`lifecycle_orphan`). Cancelling the reconnect
   task does not stop `connect_blocking`.
2. *A late refusal marks the wrong block* (`polling_refused`), of whichever device
   was asked last; it is skipped from then on. `OnlyRefusersAreMarked` shows what
   does hold: a device that refuses nothing is never affected.
3. *The internal battery gets no entities* (`discovery_internal`). The callbacks run
   on freshly parsed lists, in which no node has `has_battery`; only a pack record
   that arrives between the first list and the set-up of the sensor platform is in
   time. `OneSetOfEntities` shows that expansion batteries are not affected.

Others are exceptions that a property of a passing run names, because without them
TLC finds it violated:

* *The reconnect task can die* (`BackOnline`). `2 ** attempt` no longer fits the
  float product after 1024 failures in a row, inside the `except` clause
  (`mqtt/connection.py:86`); no one schedules another task. `README.md:360` says
  that it keeps retrying.
* *Some replies are not recognised, or mistaken* (`RoutedAsSent`, `WritesSettle`). A pack
  record of 180 bytes, which is a V1 device's whole one and an AP300's, is not in
  `_BLOCK_BY_SIZE` (`mqtt_manager.py:832`), so a late one is taken for the block
  pending then (`:639`), and may even set a switch. The same goes for a block cut to a
  size no table has; one cut to another's size is taken for that, as a settings block of
  42 to 58 bytes is for a cell block.
* *A refresh can take a confirmed setting back* (`WritesSettle`). One that fails, or whose
  list lacks the device, shows `_last_good_data` (`coordinator.py:283`, `:299`), in which
  no push has put the setting, until the next push.
* *A lost link can go unnoticed through a whole refresh* (`LossInTime`). The link is
  looked at before the first of its requests (`coordinator.py:269`) and then only an
  interval after the last.
* *A silent device can stay available* (`SilenceShows`). A refresh that fails returns
  `_last_good_data`, which pushes do not update (`coordinator.py:283`); a device
  that has no `last_seen` there, as REST gives none for an AC300, counts as
  reachable for ever.
* *The key can outlive a stop* (`KeyIsAccountedFor`), and *another entry's pair can be
  loaded* (`LoadsItsOwn`): a thread left behind by a stop writes files that nobody
  unlinks, also one that had read the path of a file and not yet opened it when the
  stop unlinked them; and the paths are the same for all entries
  (`api/mqtt_client.py:274`).
* *A listing without a protocol version guesses the generation* (`SentUnderstood`) of a
  model that is not in the registry, and writes go out in that dialect.

Seen while modelling, and in no property:

* An optimistic value is taken back by the next frame, whatever that is about, until
  the setting arrives (`entity.py:42`); `SwitchSettles` and `WritesSettle` show that
  it comes right again. Echoes of numbers and of the charging mode are not used.
* The overlay's frozen contact time and values replace newer ones of REST
  (`coordinator.py:443`) after MQTT is lost.
* Steady pushes put the REST refresh off for ever (`mqtt_manager.py:1310`), also
  for a device that has REST only, in spite of `mqtt_manager.py:299-302`. A token that
  ends meanwhile is not renewed.
* A login that fails at set-up raises an error that Home Assistant takes for final,
  whereas a failing first refresh is retried. The retry after code 805 lets network
  errors through that its callers do not handle, and a second 805 is taken for an
  empty answer.
* A reconfigure form shown after an error offers no devices; submitted as it is, it
  stores an empty selection.
* The first reconnection after a failed set-up does not wait; devices whose `sub_sn`
  is learnt late are polled but not subscribed to.
* With an empty slot between two packs, sensors are made for packs 1 to 2 instead of
  1 and 3; a device with more than `MAX_PACKS` slots is stuck at the last the guard
  lets through; a streaming V2 device that does not push its settings blocks is not
  asked for them.
* The branch for unsolicited frames by length is never reached, as `identify_block`
  knows both lengths.

## 5. Proofs

The proof modules have one shape: an inductive invariant `IInv` (checked by TLC
before it was proved), `InitIInv`, `NextIInv` with one step per action, and the
theorems that follow. They assume only the named assumptions on the constants.

* **TransportProofs.** `IInv` adds to the stated invariants how the four views of
  a request agree: the number of requests issued, the status of the task, the
  state of its future, and the entry. Neither half of `ListIsOpen` (`OpenIsListed`
  and `NoLeak`) is inductive without them: a resumed task removes its entry, so its
  future must be known to be settled. From it: types, `ListIsOpen`, the order of
  replies and refusals, `RecognisedAnswersOwnBlock`, `SettledOnce`, and the
  refinement of `RequestReply`, for any number of requests, addresses and blocks.
  `NoAnswerIgnored` needs `RepliesFit` besides, inductive together with `IInv`: a
  frame under way fits the request it answers, so while that request is open the
  handler finds an entry to settle, its own or an older one.
* **LifecycleProofs.** `IInv` adds `Control`: who waits for the attempt in
  progress, how far its executor thread has come, and that the link is down while
  a reconnect task sleeps or starts. From it: all safety properties of the run,
  `NoLostSession` among them, for any devices, any overflow point and both values
  of `RestOnly`. `WaitBounds` does the arithmetic of doubling, stretching, jitter
  and caps once.
* **DeviceDataProofs.** `IInv` adds that an overlay never has a REST-only field,
  that one shared object has one value, and that a refresh has finished exactly
  the devices before the present one, with contact times no older than the
  cache's. From it: types, `RestFieldsKept`, `CachedContactAdvances`, for any
  devices, times and numbers of writes. `RestContactShown` needs `Contacts`
  besides, inductive together with `IInv`: no contact time is ahead of the clock, so
  one that a refresh has just got is as new as any in the cache, and no other step
  renews the cached ones until the refresh ends. `FinishedSeen` says what the merge
  of REST, overlay and cache does to it.

* **PollingProofs.** `IInv` adds that a request under way has no answer yet and
  that only a device that refuses something owes a refusal. The lemmas
  `AskFacts` and `GoOnFacts` say what the task's run to its next await can end
  in, `DeliverFacts` what a frame can do. From it: types, `HintIsCurrent`,
  `AnsweredByAsked`, `OnlyRefusersAreMarked` and `RefusedNotAskedAgain`, for any
  devices, packs and refusals.

* **DiscoveryProofs.** `IInv` adds that the count of a pushing device is the size of
  the set it has discovered, which is why a count that changes without a new
  pack, which the code does not announce, never occurs; and that entities exist
  only for nodes seen, on platforms set up. `CreatedOnce` says what one list adds,
  for a callback and for a set-up alike. From it: types, with the range of all
  slots, `CountedPacksHaveSensors` and `OneSetOfEntities`, for any slots and nodes.

* **CertificatesProofs.** `IInv` adds `Slots`, what the state of a client says of who
  holds it and whether its files will be unlinked, and that whoever owns a file has
  its paths set unless an exception is on record, that of a thread which has read a path
  and not yet opened the file included. `CleanupType`, `CleanupSlots` and
  `CleanupFiles` say once what `_cleanup_mqtt_client` does, for four actions. From
  it: types, `KeyIsAccountedFor` and `LoadsItsOwn`, for any entries and clients.

* **ControlProofs.** `IInv` adds `Generations`, what the version that a refresh has
  listed says of the model; `MessagesFit`, that a write under way, if the device
  understands it, is to the setting's register with a value asked for, and that only
  the blocks of a polling cycle are read; and `FramesFit`, that a frame under way is an
  echo of the setting, a reply to such a read, whole or shorter, an error or a push,
  and carries a value the setting accepts. None of the five properties is inductive without them: what a parser finds depends on
  which block the frame is, and this on what was asked for. The proof has three
  layers. The tables come first, each looked up once: `PayloadTable` and
  `OwnTable` for the values and the register of a setting, `ProfileTable` for the
  dialect of a profile, `LayoutWithin` for the extent of each layout, which is proved
  for any length and any count a frame may claim, not only those of the run. Then
  what the handler makes of a frame: `RouteFits`, that it is taken for the block it
  is (180-byte pack records and cut blocks apart), and `FrameTold`, that what it tells of the setting is a
  value of the setting. Then one lemma per action. From it: types,
  `RoutedAsSent`, `ReadsInside`, `OnlyAskedChanges` and `SentUnderstood`, for any of
  the models and settings, any nodes, any sizes of pushed blocks and of
  short replies, any number of messages under way and refused requests, and any values the user asks for.

* **EntryProofs** has what is proved of a config entry, in two parts of which neither
  uses the other.

  For `Session`, `IInv` adds `Forms`, that what a form offers is what the dialogue
  knows and that an account being added has no entry, and `Claims`, that it is being
  added by one dialogue. `SelectedIsNamed` is not inductive without the one,
  `CreatesNew` not without both. From it both, for any accounts, devices and
  dialogues.

  For `Fallback`, `FallbackIInv` adds `Timer`, that the link was lost no longer ago than
  the refresh under way began or, between refreshes, that the time since the loss and
  the timer add up to no more than `Round`, and the time since the last refresh and the
  timer to no more than the interval; and `Contacts`, that no contact time is newer than
  the last contact was, the ones already in the result of a refresh included, and that
  one shown as recent is not too old when entities are next written. From it
  `SilenceShows`, `LossInTime` and `ReadInTime`, for any intervals and any `Longest`.

What no constant bounds is proved; what remains bounded in these theorems is
what `MaxRequests`, `MaxTime`, `MaxWrites`, `MaxMarked`, `MaxOnWire`, `MaxAttempt` and
`Longest` bound,
each an arbitrary number there. The proofs rest on the `...Assumption`s of the
modules, which TLC evaluates in every run, and on nothing else.

Every invariant and every action property that a passing run checks is a theorem.
Left to TLC are the liveness properties, whose proofs would reason about fairness
and ENABLED, which is out of TLAPS's reach: `EveryRequestEnds`, `BackOnline`,
`SwitchSettles`, `ExpansionsAskedForEver`, `PacksReadForEver`, `EverySlotReported`,
`ReadingsReturn`, `WritesSettle` and `TokenRenewed`.

One thing in `Control` is as it is for the provers' sake: the model written
`"Elite200V2"` has a name with spaces in the code.

## 6. Not modelled, and why

Encryption and TOTP relate bytes to a remote service's; the repository's fixtures
cover them. Of the framing, the CRC, the bytes of the envelope and the scaling of
readings are left out: what is written and shown is the raw value. Read-only
entities have no state beyond their creation, which `Discovery` has, and their
availability, which `Fallback` has. Device identity is fixed: no device changes its
model or `sub_sn` once known. Logging is left out. paho's own data races
(`_subscriptions` iterated by its thread) are below the grain of these models.

In `Control` the pack reads of a V1 device are allowed from the start, and pack and
cell records are always taken to lead to a push: both allow more than the code
does. A refresh of a setting is one step there, as its awaits are in `DeviceData` and in
`Fallback`.

## 7. Plan

Done, in this order: `RequestReply`, `Transport`, `MqttLifecycle`, `DeviceData`,
`Polling`, `Discovery`, `Blocks` and `Control`, `Certificates`, `Session`, `Fallback`.

Next:

1. Further refinements: the request of `Polling` as one of `RequestReply`'s, and a
   client of `Certificates` as the attempt of a `MqttLifecycle`.
2. `_subscriptions` between paho's thread and the event loop, below the level of a
   handler.
3. Changing device identity: a `sub_sn` that a later refresh changes, and the send
   closure that keeps the old one.
