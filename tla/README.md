# TLA+ models of iot-dev-sys

iot-dev-sys is a cloud service for fleets of drink machines: devices are
activated over HTTP, report over MQTT, and belong to tenants; the service keeps
a registry in memory, orders, firmware, faults, organisations and accounts, and
stores part of it in PostgreSQL. This directory holds TLA+ models of it, the
TLC runs that check them and TLAPS proofs about them. Source paths below are
relative to the repository.

## 1. Inventory

One process, several kinds of threads:

| thread | code | touches |
|---|---|---|
| HTTP handlers, one detached thread per connection | `src/middleware/communication/api_server.cpp:96`, routes in `src/main.cpp` | every manager, the database |
| MQTT callback thread, one message at a time | `src/middleware/communication/mqtt_client.cpp`, `src/app/message_router.cpp` | DeviceManager, OrderManager, FaultManager, OtaManager |
| main loop, every 100 ms | `src/main.cpp:2439` | the offline sweep, the connection flag |

Parts, what they keep, and what makes them correct:

| part | state | operations | correct when |
|---|---|---|---|
| DeviceManager | tenants -> devices (`tenants_`), one mutex | heartbeat, register, remove, status, migrate, sweep, load | no acknowledged device gets lost, keys and fields agree, silent devices turn OFFLINE |
| activation, migration, deletion routes | rows in `devices`, `activation_tokens` | several statements each, no transaction | an answered activation survives crashes and races; one identity per hardware uid |
| MessageRouter | none; reads the topic, looks the tenant up, then calls a manager | heartbeat, event, property, status, OTA progress; topics for devices | a message reaches the handler of its type, as one of its sender |
| OrderManager | queue (10), brewing slot, history; **no mutex** | create, cancel, pay, start, complete, fail, load | the queue keeps to its depth and no accepted order gets lost; without a lock both hold within limits only |
| OtaManager, firmware routes | versions, upgrade records, files on disk | register, upload, delete, push, grayscale, progress, latest | an answered upload keeps its file and is known; latest is latest |
| FaultManager | active faults | add, resolve, load, reassign | no stored fault is lost; faults of deleted devices stay visible |
| OrgManager, AccountManager | tree of organisations, accounts, token blacklist | create, update, delete, login, logout, password | no orphans, scopes match the tree, a dead token stays dead |
| MqttClient (with Paho, or embedded), ApiServer | connection flag, sockets, threads | connect, reconnect, publish, receive; accept, dispatch, stop | shutdown completes, in an order that closes nothing in use; requests reach their handler |
| DeviceTypeManager | tables `device_types`, `device_models`; nothing in memory | create, update, delete | no duplicates, no write on a check that has gone stale |
| RecipeManager | a list; **no mutex** | create, update, remove, load, seed | the list is what the answers of the running process say; a restart undoes them |
| tenant key routes | the one row of `mqtt_tenant_config` | verify, put, delete, in single statements | no key that nobody has vouched for |
| Database | one connection, one mutex per statement | open, create tables, migrate; execute, query | the schema is what is recorded; UNIQUE and foreign keys hold |
| LogManager | the current file and its rotated ones, one mutex | write, rotate, open | no line is lost between the oldest kept and the newest |
| TlsManager, HttpClient, ConfigManager, HAL | keys, sockets, a file, stubs | I/O | not used by the service (section 5) |

What is hard here: nothing spans two critical sections. Handlers read under one
lock and write under another; memory and table are changed one after the other
and a failure of the second is often ignored; OrderManager is called from many
threads without a lock; a restart rebuilds memory from whatever the tables
hold. The repository's unit tests (`test/app`) call one manager from one thread
with no database, so none of this is covered by them. `PROJECT.json` lists the
hazards at their lines, those that are not covered yet included.

## 2. Modules

| module | models | uses |
|---|---|---|
| `DeviceManager` | `device_manager.cpp`: the registry, one action per locked method | - |
| `DevicePlatform` | the routes, the MQTT callback, the sweep, the tables and crashes around the registry | EXTENDS `DeviceManager` |
| `DeviceContract` | what the service promises its clients, without threads, tables or tenants | instantiated by `DevicePlatform` |
| `OrderManager` | `order_manager.cpp`, its routes and the `order_completed` event | - |
| `LatestFirmware` | the search of `GET /api/v1/ota/firmwares/latest` | - |
| `Organisations` | `org_manager.cpp`: the tree, its routes, seed data, table and restarts | - |
| `Accounts` | `account_manager.cpp`: accounts, logins and tokens next to the organisations | EXTENDS `Organisations` |
| `RouteDispatch` | `api_server.cpp`: how a connection finds the handler of its request | - |
| `OtaManager` | `ota_manager.cpp`, the firmware routes, the files and the scan at the start | - |
| `FirmwareStore` | both users of the firmware directory | EXTENDS `LatestFirmware`, `OtaManager` |
| `FaultManager` | `fault_detector.cpp`, fault events and the resolve route | EXTENDS `DeviceManager` |
| `DeviceTypes` | `device_type_manager.cpp`, its routes and tables | - |
| `LogFiles` | `log_manager.cpp`: writing and rotating | - |
| `Recipes` | `recipe_manager.cpp` and the routes that change recipes | - |
| `TenantKey` | the routes of the tenant key, its verification and its row | - |
| `Configuration` | what operators configure, as one system | EXTENDS `DeviceTypes`, INSTANCE `Recipes`, `TenantKey` |
| `TopicDispatch` | subscriptions, `ParsedTopic`, the dispatch of `message_router.cpp` | - |
| `Dispatch` | both entrances, HTTP and MQTT | EXTENDS `RouteDispatch`, INSTANCE `TopicDispatch` |
| `Schema` | `Database::open`, `init_schema`, `migrate_if_needed` | - |
| `EmbeddedMqtt` | `mqtt_client.cpp` without Paho | - |
| `Middleware` | the parts below the managers | EXTENDS `LogFiles`, INSTANCE `Schema`, `EmbeddedMqtt` |
| `Service` | `main` from start to exit, the accept thread, `mqtt_client.cpp` with Paho | - |
| `ServiceParts` | the life of the process, and how what arrives finds its handler | EXTENDS `Service`, `Dispatch` |
| `MC...` | symmetry and data for TLC | the module named |
| `DeviceManagerProofs`, `DevicePlatformProofs`, `FaultProofs` | theorems about the registry, the platform and the contract, faults | the first is used by the other two |
| `OrderProofs`, `FirmwareProofs`, `AccountsProofs` | theorems about orders; `LatestFirmware` and `OtaManager`; `Organisations` and `Accounts` | - |
| `ServiceProofs` | theorems about `Service` and `Dispatch` | - |
| `SupportProofs` | theorems about `Configuration` and `Middleware` | - |

`Configuration`, `Dispatch`, `Middleware`, `FirmwareStore` and `ServiceParts` put
parts side by side that share no variable and no lock. A behaviour of such a
system is one behaviour of each part, interleaved, and every property speaks of
one part; so a variable that never changes (`section`, `entrance`, `part`, `view`,
`half`) says which part moves, and the states that TLC visits add up instead of
multiplying.

### DeviceManager and DevicePlatform

`tenants` is `tenants_`; a tenant without devices and one without a key in the map
are the same here, since only `list_tenants` tells them apart, for a line of the log.
A device id is the pair of hardware uid and model key that `generate_device_id`
hashes. A record keeps its `tenant_id` field, `network_status` and the time
since its last heartbeat, capped one tick past the timeout because nothing
tells longer silences apart.

`row` and `token` are the tables; `hardware_uid` is UNIQUE and a token row
blocks the deletion of its device row. `api[h]` is the program counter of one
connection and the locals it carries from one critical section to the next:

| route | steps |
|---|---|
| `POST /device/activate` | `ActivateExisting`, or `ActivateNew`, `ActivateInsert`, `ActivateToken`; then `ActivateRegister` |
| `PUT /devices/{id}/tenant` | `MigrateMemory`, `MigrateRow` |
| `DELETE /devices/{id}` | `DeleteFind`, `DeleteRemove`, `DeleteTokens`, `DeleteRow` |

`ActivateRegister` is one step because `register_device` upserts the row while
it holds `mutex_`. `mqtt` is the callback thread between looking the tenant up
and using it; `todo` is what `check_offline_devices` listed and has not marked.
`Restart` is a crash at any point followed by `load_from_database`.

Two history variables say what clients may rely on. `owed` holds the devices
whose activation was answered with success and for which no DELETE has run
since. An activation that races a DELETE of the same device may be overtaken by
it; so a handler adds to `owed` only while it is in `claim`, that is, if no
DELETE of its device came after it found or inserted the row.

Left out: the `tenants` table (rows are only added, before they are needed; a
failed add is a failure of the next statement), failing SELECTs, product, model
and firmware fields, `work_status` (only ever IDLE), and the checks of an
activation request that can only reject it.

### OrderManager

An order is its id and status. Actors are the threads that call the manager,
which has no mutex. Every method is split between its test and its change, where
other threads can come in; a search of the deque and the change at the place
found are one step, because races inside one `std::deque` operation have no
defined outcome. `EndBrewing` takes whatever is in the slot by then: another
order, or, where a second thread has emptied it, the bytes of some order, since
reading an empty `optional` is undefined. `accepted` counts what callers were
told is accepted, `replaced` lists the orders that another one took the slot
from; nothing in the code keeps those. `table` is the orders table: only orders
of MQTT events get there, since an order of the API is inserted with an empty,
unquoted `created_at`. `load_from_database` puts every row into the history.
`emergency_stop` has no caller.

### LatestFirmware

`left` is what the directory iteration still has to visit, in any order; `mark`
holds the four running maxima of the loop. Files come and go while it runs,
versions 0.x and names without a version among them.

### Organisations and Accounts

`orgs` and `orgRow` are memory and table, by id; a path is the sequence of ids
that the code writes as `/1/2/3`. Every method holds its manager's mutex and is
one action; the result of every statement is ignored, so with `MayFail` a write
may be lost and memory and table part. `Reload` is `load_from_database`: ids go
on above the highest stored one, so the id of a deleted organisation can come
back. `seeding` and `seedingAcc` are what `seed_mock_data` has still to create;
a crash in between leaves part of it, and no seeding the next time.

`Accounts` adds accounts, the blacklist of tokens and the clock. `login` is split
where the code lets go of the lock and goes on with its copy of the account;
`create_account` is not split at its check of the organisation, because a
deletion in between looks at no account and may as well come after it. A
token is an account id and a second, all that `generate_token` puts into it.
`sessions` remembers who got which token, from which process, and whether the
account had a row by then; `disabled` which accounts an answered request has
disabled; `unsaved` the accounts whose last change was not stored, which nobody
is told. The routes check no token themselves, so any client may call them. A
login's last write, `last_login_at`, is left out.

### RouteDispatch

A path is the sequence of its segments. The routes are in an `unordered_map`, so
any route that a loop accepts may be the first one it meets; registration order
plays no part. The dispatcher compares only what a route has before its first
parameter, so the handlers of the routes that go on after it look at the path
again (`Accepts`) and answer 404 when it is not theirs: by its last segment, or,
for the routes in `Anywhere`, by searching the rest for the word. `ServiceRoutes` in
`MCServiceParts` is the table that `main.cpp` registers. A request whose segments
hold a brace themselves is left out.

### OtaManager

`registry` is `firmware_versions_`, `disk` the files and `records` the upgrade
records. A request is cut between its calls of the manager and its operations
on files; nothing writes the firmwares table, so after a `Restart` the registry
is what the scan of the directory finds. There is one product. A file has the
name that the client gives (`filename=`, `file_name`) or that of its version, and
the scan takes the version from the name (`Stem`), whatever version was uploaded
under it; of two files with one stem it registers the first, in any order of
the directory. `kept` holds the uploads that were answered and that neither a
DELETE nor another file of that name has touched since; `KnownBy` is the version
under which such an upload is known, its own in the process that took it, the
one in its file name afterwards. `claim` is to `kept` what it is to `owed` above.
A progress report for a device without a record reads through the end iterator
and ends the process (`ProgressUnknown`).

### FaultManager

`active` and `faultRow` are memory and table. An event looks the tenant up
(`ReceiveEvent`) and calls the manager in a later step; registering, migrating and
removing devices, the actions of `DeviceManager`, come in between. `Start` loads
every row, since nothing marks one resolved, and gives the faults of unknown
devices to the first one listed. `resolved` counts what `resolve_fault` took out
in this process.

### DeviceTypes

The manager keeps nothing in memory and locks nothing: a request is its checks
and, in a later step, its write. A failing SELECT finds nothing, as in
`Database::query`. The UNIQUE and FOREIGN KEY constraints are PostgreSQL's
(`Refused`). A statement may fail, and the answer of one that was carried out may
be lost, so that the client is told it failed. `created` counts the creations
that were answered with success.

### LogFiles

The steps are the operations on the file system that `write` and `rotate`
perform under the mutex, because a crash may come between any two. A line is
its number, and `FileLimit` is a number of lines.

### Recipes and TenantKey

A recipe is its id, the list a sequence that may hold an id twice. A request is
split between its lookup and its change, `pending` being the change to come;
races inside one operation of the vector have no defined outcome and are left
out. `offered` follows the answers, over restarts too: a POST or PUT answered with
success adds the id, a DELETE takes it out; `answered` holds the ids for which
the running process has given such an answer. Nothing writes the recipes table,
so a restart loads the same rows, or seeds, whatever was answered before.

`keyRow` is the row of `mqtt_tenant_config`. `saving[h]` is a request past its
verification: it loads the name, saves key and name, loads the key and saves
both again, each a statement of its own that may fail. `vouched` holds the keys
that an organisation, a tenant or the broker has confirmed at some time. The
verification may find any subset of what is there, since its SELECTs may fail
and the broker may be out of reach. The names of two organisations are not told
apart from their keys.

### TopicDispatch

A topic is the sequence of its levels. `Arrive` is what the broker may deliver
for a subscription, with or without `$T/{tenant}` before it, under ids that look
like other levels (`v1`, `$T`, empty); `ArriveWill` is the second subscription of
`main`. `OnMessage` parses and dispatches. `Send` builds a topic for a device.

### Schema

`step` is the table to create next, then the statement of the migration. A
statement may be refused on a connection that goes on working (a lock or
statement timeout, a deadlock), or the connection may break, before or after the
server carried the statement out, and stays broken for the process; a crash may
come anywhere, and a new process starts over. Databases of older releases have
the tables without `model_key` and version 0 or 1. What `init_schema` is told is
looked at, what `migrate_if_needed` is told is not. `refused` says that a statement
of this start has failed, `gap` that an ALTER TABLE was refused without breaking
the connection.

### EmbeddedMqtt

`caller` is `main` between `connect` and the end of `disconnect`, `receiver` the
receive thread. It tests `running`, reads the socket's number after that
(`BeginReceive`), and calls `recv`, which returns a packet, or fails on a timeout,
a broken connection or the closed socket; so the thread ends after five seconds
of silence. A `recv` that waits while `disconnect` closes the socket may still
return what was on its way.

### Service

`pc` is where `main` is. The other actors are the accept thread (`acceptor`),
the detached handler threads (`handlers`), and Paho's thread, which runs
`message_arrived` (`callback`) and `connection_lost` one at a time. `connected`
is the client's flag, `link` and `subs` what the broker side really has, `shown`
the copy that the health route answers. `accept` is cut from the test of
`running`, `connect` from the setting of its flag, and `stop` into flag, socket
and join. The signal may come at any point. A route that throws ends the process
(`HandlerThrows`), because nothing in its thread catches it.

Assumed of Paho: a token waited for is completed in the end, destroying the
client lets a running callback finish, a clean session loses its
subscriptions with the connection, and reconnecting restores the connection
only.

## 3. Runs

| run | instance | checks |
|---|---|---|
| `platform_requests` | 2 handlers, 1 uid, 2 model keys, 2 tenants; all routes; failing writes; 1 crash | `TypeOK`, `KeyMatchesField`, `AckedDeviceDurable`, `OneIdentityPerUid`, `AckedDeviceManaged`, `ContractHolds` |
| `platform_liveness` | 1 handler, 1 device, 2 tenants; all routes and uplinks, clock, timeout 1, 1 crash, `FairSpec` | `SweepNeverRevives`, `OnlineNeedsHeartbeats` |
| `orders` | 2 threads, 1 client id and 1 seeded order, queue of 1, 3 orders, 1 crash | `QueueOvershoot`, `LostInSlotOnly`, `StoredOrdersListed` |
| `orders_lost` | the same; a violation | `AllOrdersListed` |
| `organisations` | a seeded company and department, 3 tenant ids, ids up to 4, failing writes, 1 crash | `OrgTypeOK`, `TenantsUnique`, `ScopeCoversTree`, `ScopeWithinTree` |
| `sessions` | 1 organisation, 3 user names, account ids up to 2, 2 passwords, 1 session that expires, failing writes, 1 crash | `AccountTypeOK`, `TokenKeepsUser`, `DisabledStaysOut`, `RestartKeepsAccounts` |
| `firmware` | 6 files: numbers that differ in one place, equal versions, two versions 0.x, no version; 2 clients, 2 versions, 2 file names, either for either version, 1 machine, 2 registered versions at once, 1 crash | `LatestIsHighest`, `UploadsKept` |
| `faults` | 2 devices, 2 tenants, 1 code, 3 faults, failing inserts, 1 crash | `StoredFaultsListed`, `StartAdoptsFaults` |
| `configuration` | 2 clients; 3 types of which 2 are seeded, 1 model; 2 recipes, one seeded, a list of up to 4; 1 tenant, 1 key that only the broker knows and the default one; failing statements, lost answers, any number of crashes | `CreatedOnce`, `ChecksStayTrue`, `RecipesAsAnswered`, `KeyVouchedFor` |
| `middleware` | 3 rotated files of 2 lines, 20 lines, 4 crashes; 13 tables, 4 starts, 3 kinds of old database, refused statements; 1 client, fair threads | `NothingLostBetween`, `FilesBounded`, `SchemaAsRecorded`, `FlagMeansReceiving`, `DisconnectReturns` |
| `service` | 2 topics, 2 handler threads, fair threads; the service's route table, called with 4 values for every parameter, `""`, `latest` and `devices` among them; 4 device ids, 3 tenants and 3 commands, odd ones among them | `CallbacksBeforeClose`, `ShutdownCompletes`, `HealthFollowsFlag`, `FindsHandler`, `WrongHandlerRefuses`, `TopicsUnderstood` |
| `route_conflict` | the same with two requests below `/accounts/{id}`; a violation | `NoPrefixConflict` |

Properties in words:

- `AckedDeviceDurable`, `AckedDeviceManaged`: an acknowledged device has its row
  and is found in the registry until a DELETE of it runs, through migrations,
  races, failed writes and crashes.
- `OneIdentityPerUid`: two model keys sent for one uid are never both
  acknowledged, although the lookup and the insert are separate statements.
- `ContractHolds`: the platform implements `DeviceContract`.
- `KeyMatchesField`: the tenant a record names is the one it is stored under;
  the sweep depends on it.
- `SweepNeverRevives`: the sweep creates nothing that was removed between its
  two lock scopes.
- `OnlineNeedsHeartbeats`: a device shown ONLINE for ever keeps sending.
- `QueueOvershoot`: threads that pass the depth test together make the queue too
  long, but by fewer orders than there are threads. `LostInSlotOnly`: an
  accepted order gets lost only where `start_brewing` of another thread takes
  the slot from it; all other methods, with their tests and changes interleaved
  in any way, keep every order. `StoredOrdersListed`: every order with a row is
  listed, with the same exception, and without it after a restart.
- `LatestIsHighest`: the answer is the highest of the files compared, in any
  order of reading, unless versions 0.x meet names without a version and nothing
  from 1.0.0 on is there.
- `TenantsUnique`: no two organisations share a tenant id, whatever was deleted,
  lost or reloaded.
- `ScopeCoversTree`, `ScopeWithinTree`: the organisations that `get_org_scope`
  finds by path are the ones that parent links put below, although a deleted
  organisation may leave inactive children and its id may be given out again.
- `TokenKeepsUser`: a token that `verify_token` accepts is of the user who
  logged in, except in one case: `create_account` ignores a failed insert, and
  after a crash the next account gets the id of the one that was never stored,
  and answers to its token. `DisabledStaysOut`: once an account is disabled none
  of its tokens is accepted, one whose login was under way included, and after a
  restart if the change was stored. `RestartKeepsAccounts`: a restart keeps
  every account whose last change was stored, whatever failed before.
- `FindsHandler`: a request that fits a route gets to a handler, and to the one
  of a fixed path if there is one. `WrongHandlerRefuses`: it may be the wrong
  handler, but that one does nothing, unless the last parameter is the very word
  it looks for (`GET /tenants/devices`).
- `UploadsKept`: an answered upload has its file, and the manager knows a
  version for it - its own, or after a restart the one in its file name - until
  a DELETE of that version, or of one that names the file, or another file of
  that name.
- `StoredFaultsListed`: of every code at least as many faults are listed as were
  stored and not resolved. `StartAdoptsFaults`: after a start no fault is with a
  device that is gone, if there is any device.
- `CreatedOnce`: at most one client is told that it created a code, and the code
  stays. `ChecksStayTrue`: what a request found is there when it writes.
- `RecipesAsAnswered`: the list offers exactly the recipes that the answers of
  this process say there are, also where two POSTs that raced put one in twice
  (`remove_recipe` takes out all of them) and where a PUT brings a deleted one
  back; for recipes about which only an earlier process answered, what the table
  or the seed holds.
- `KeyVouchedFor`: the row that the verification asks last never holds a key or
  a name that nothing else has confirmed, however requests mix and fail.
- `TopicsUnderstood`: a message reaches the handler of its type as one of its
  sender, for every id but the empty one; what is built for a device reads back.
- `SchemaAsRecorded`: a running service has every table; if no statement of its
  start failed, version 2 is on record; and behind a recorded version 2 is the
  column, unless an ALTER TABLE was once refused on a connection that went on
  working - of all failures the only one that a migration without checks covers
  up.
- `FlagMeansReceiving`: a client that says it is connected has a thread that
  receives; after `disconnect` nothing is in the callback. `DisconnectReturns`:
  a `disconnect` that has begun ends, whatever the broker sends.
- `NothingLostBetween`: read from the oldest file to the newest, no line is
  missing, whatever crashes cut rotations short. `FilesBounded`: a file exceeds
  its limit by one line for a crash at most.
- `CallbacksBeforeClose`: no message is handled with the database closed or the
  client destroyed. `ShutdownCompletes`: a signal ends the process whatever it
  is doing. `HealthFollowsFlag`: the health route ends up answering the client's
  flag.

Two runs find what the code and its comments disagree about:

- `orders_lost`: `order_manager.h:36` says that `list_all_orders` lists all orders.
  Two threads pass the test of `start_brewing` (`order_manager.cpp:82`) before
  either fills the slot; the second order takes the place of the first, which is
  neither queued nor brewed nor in the history from then on.
- `route_conflict`: `main.cpp:2303` registers `PUT /accounts/{id}/password` before
  `PUT /accounts/{id}` "to avoid prefix conflict". Routes are looked for in a hash
  map (`api_server.cpp:218`), registration order decides nothing, and where the map
  has the first one first, `PUT /accounts/7` is answered with 404.

The models also show, without a run of their own, where the code and what is
said about it part (SRS is `software-requirements-specification.md`):

- a heartbeat looks the tenant up, the activation completes, and the heartbeat
  auto-registers the device in the default tenant as well
  (`message_router.cpp:86`; SRS 419: one tenant);
- a heartbeat between the sweep's listing and its marking is overwritten
  (`device_manager.cpp:191`; SRS 450: offline after missed heartbeats);
- two threads pass the depth test of `create_order` (`order_manager.cpp:25`) and the
  queue exceeds its depth (SRS 532), which `QueueBounded` states;
- the Will Message carries a number, is read as no status and marks the device
  ONLINE (`message_router.cpp:154`);
- racing requests leave memory and table with different tenants for a device,
  and a restart decides for the table (`main.cpp:460`);
- orders of the API are never stored (`database.cpp:1003`);
- an unversioned firmware file replaces the best one while that is a 0.x
  version (`main.cpp:1132`), against the comment at `main.cpp:1136`, which
  `UnversionedSkipped` states;
- a version uploaded under another file name is not known any more after a
  restart, but the one in the name is (`main.cpp:225`; the comment at
  `main.cpp:212`: "survives restart"), which `VersionsSurvive` states;
- the token of an account that was never stored is accepted for whoever gets its
  id after a crash (`account_manager.cpp:127`);
- a refused ALTER TABLE is followed by recording version 2, and no later start
  adds the column (`database.cpp:465`);
- the upload route sets no `file_name`, so DELETE leaves the file and the version
  is back after a restart (`main.cpp:1346`); a pending push does not hold a
  deletion up, although the comment counts it as active (`ota_manager.cpp:252`);
- resolved faults are open again after a restart (`fault_detector.cpp:81`), and a
  reassigned fault keeps the tenant of its old device (`fault_detector.cpp:142`);
- a device type can be inactive and have active models
  (`device_type_manager.cpp:46`);
- a deleted organisation leaves its accounts behind (`org_manager.cpp:211`); a
  restart revives logged-out tokens and old passwords
  (`account_manager.cpp:242`, `170`);
- after an automatic reconnect the flag stays down and nothing is subscribed:
  the service neither hears nor sends, and the "restored" branch of the loop
  (`main.cpp:2460`) is never taken (`mqtt_client.cpp:34`); handler threads may
  run on while `main` closes the database (`api_server.cpp:96`); an error of
  `accept` ends the accept thread for good while `is_running` stays true
  (`api_server.cpp:94`);
- what arrives on `+/iot/+/+/status`, subscribed to for Will Messages
  (`main.cpp:2422`), has no `v1` in its second level and is always dropped
  (`types.h:360`); an empty device id is dropped as well;
- the embedded client is deaf after five seconds without a packet, and nothing
  connects it again (`mqtt_client.cpp:225`, `244`), while `main` goes on running;
- racing requests can leave the key of one tenant with the name of another
  (`main.cpp:1777`), and a failing load empties a column;
- racing POSTs list a recipe twice (`recipe_manager.cpp:49`), and no change of a
  recipe survives a restart.

Bounds. Two handlers suffice for every race of two requests, which is what the
properties speak of; the proofs remove the bound. One uid with two model keys is
the case in which identities compete; a third tenant adds no new case since
steps compare tenants only for equality with the one at hand. A second crash
starts from a state like the first one's (memory equals table). `Timeout = 0`
with `ClockRuns = FALSE` is used where ages do not matter. The order bounds let
the queue fill past its depth, the same id come twice, an order be replaced in
the slot, and every order reach the history. Four organisation ids give a path
of three with one id to spare for a reuse; `TokenLife = 0` and `MaxTime = 1` let
a token be live in the second of its login and expired in the next; with two ids
and three user names an id whose account was never stored goes to another user.
Two registered versions are one twice, or two that claim one file name; two
files that mean one version need a third name, and are left to the proof; three
faults are a repeated one and one of the other device; twenty lines fill all
four files and push the oldest ones out, with four crashes in rotations. Four
starts let three break off in different places before one that runs. Four
recipes in the list are two ids pushed twice. Counting successful creations up
to two is enough to see a second one. Two topics let a connection be lost
between two subscriptions.

Symmetry is used by safety runs only. `RequestSymmetry` exchanges connections,
model keys and tenants; without uplinks no step reads `DefaultTenant`. The
deadlock check is off in `orders`, `orders_lost`, `organisations`, `sessions` and
`middleware`, whose bounds may leave nothing to do, or whose client has ended;
`Service` ends in a step of its own (`Ended`), so there a deadlock would be one.

Fairness. `FairSpec` assumes that the sweep is called and finishes
(`SweepList`, `SweepMark`) and that time passes (`Tick`): the main loop calls
`check_offline_devices` every 30 s for as long as the service runs and nothing
in it blocks for ever. Nothing is assumed of clients, devices or handlers.
`ServiceFairness` assumes that `main`, the accept thread and Paho's thread are
scheduled: main's waits end by a timeout, by the token or by the thread they
join, the accept thread polls every 10 ms, and a callback runs to its end. Nothing
is assumed of the signal, clients, handler threads, broker and network.
`PartsSpec` has the same fairness, for the behaviours that follow the process.
`MiddlewareSpec` assumes that `main` goes on with a `disconnect` it has begun and
that the receive thread makes its steps: it is scheduled, its `recv` returns
within the socket's timeout (`SO_RCVTIMEO`, five seconds), and the callback
returns. It does not assume
that main ever disconnects or that the broker sends anything, and a broker
that always sends in time is covered: `running` ends the loop.

## 4. Proofs

`tlapm` checks every step of these; they hold for all values of the constants
that satisfy the named assumptions: `DeviceAssumption`, `PlatformAssumption`,
`FaultAssumption`, `OrderAssumption`, `FilesAssumption`, `OtaAssumption`,
`OrgAssumption`, `AccountAssumption`, `RouteAssumption`, `TopicAssumption`,
`CatalogueAssumption`, `RecipeAssumption`, `LogAssumption`, `MiddlewareAssumption`,
`ServiceAssumption`. They give the constants their types, keep different kinds of
values apart (no order, version or request is `None`), and say of seed data what
can be read off the code: the seeded queue fits into the queue. `OtaAssumption` says
that the stem of a default name is its version; `RouteAssumption` gives the route
table the shape that `main` registers: where a route goes on after its first
parameter, the other ones with parameters below the same beginning end there.
One of them excludes a value: `LogAssumption` wants `FileLimit > 1`, see below.

| theorem | statement |
|---|---|
| `DeviceManagerProofs!ManagerSafe` | `ManagerSpec => []KeyMatchesField`, under any calls |
| `DevicePlatformProofs!PlatformTypes` | `Spec => []TypeOK` |
| `DevicePlatformProofs!AcknowledgementsKept` | `Spec => [](AckedDeviceDurable /\ AckedDeviceManaged)` |
| `DevicePlatformProofs!IdentitiesUnique` | `Spec => []OneIdentityPerUid` |
| `DevicePlatformProofs!PlatformImplementsManager` | `Spec => ManagerSpec`: the platform uses the registry through its operations only |
| `DevicePlatformProofs!PlatformRegistrySafe` | `Spec => []KeyMatchesField`, by the refinement |
| `DevicePlatformProofs!ServiceKeepsContract` | `Spec => ContractHolds`: the platform implements `DeviceContract` |
| `DevicePlatformProofs!SweepRevivesNothing` | `Spec => SweepNeverRevives` |
| `FaultProofs!FaultsKept`, `FaultsAdopted` | `FaultSpec => []StoredFaultsListed`, `FaultSpec => StartAdoptsFaults` |
| `OrderProofs!QueueOvershootsLittle` | `OrderSpec => []QueueOvershoot`, for any number of threads |
| `OrderProofs!OrdersLostInSlotOnly` | `OrderSpec => []LostInSlotOnly`, for any number of threads |
| `OrderProofs!StoredOrdersFound` | `OrderSpec => []StoredOrdersListed`, for any number of threads |
| `FirmwareProofs!LatestCorrect` | `LatestSpec => []LatestIsHighest`, for any files |
| `FirmwareProofs!UploadsSafe` | `OtaSpec => []UploadsKept`, for any file names |
| `AccountsProofs!OrgSafe` | `OrgSpec => [](OrgTypeOK /\ TenantsUnique /\ ScopeCoversTree /\ ScopeWithinTree)`, with failing writes |
| `AccountsProofs!AccountTypesKept` | `AccountSpec => []AccountTypeOK`, with failing writes |
| `AccountsProofs!AccountsUseOrganisations` | `AccountSpec => OrgSpec` |
| `AccountsProofs!OrganisationsNextToAccounts` | what `OrgSafe` says, of `AccountSpec`, by the refinement |
| `AccountsProofs!SessionsSafe` | `AccountSpec => [](TokenKeepsUser /\ DisabledStaysOut)`, with failing writes |
| `AccountsProofs!RestartsKeepAccounts` | `AccountSpec => RestartKeepsAccounts`, with failing writes |
| `ServiceProofs!CallbacksSafe` | `ServiceSpec => []CallbacksBeforeClose` |
| `ServiceProofs!DispatchCorrect` | `RouteSpec => [](FindsHandler /\ WrongHandlerRefuses)`, for any route table of that shape |
| `ServiceProofs!TopicsReadBothWays` | `DispatchSpec => []TopicsUnderstood`, for any ids and commands |
| `ServiceProofs!RequestsNextToMessages` | `DispatchSpec => RouteSpec /\ [](FindsHandler /\ WrongHandlerRefuses)` |
| `SupportProofs!CatalogueSafe` | `CatalogueSpec => [](CatalogueTypeOK /\ CreatedOnce /\ ChecksStayTrue)`, with failing statements and lost answers |
| `SupportProofs!ConfiguredTypesSafe` | the same two properties of `ConfigSpec` |
| `SupportProofs!SavedKeyVouchedFor` | `ConfigSpec => []KeyVouchedFor` |
| `SupportProofs!RecipesKept` | `ConfigSpec => []RecipesAsAnswered` |
| `SupportProofs!ClientFlagHonest` | `MiddlewareSpec => []FlagMeansReceiving` |
| `SupportProofs!SchemaUpToDate` | `MiddlewareSpec => []SchemaAsRecorded` |
| `SupportProofs!LogsKept` | `MiddlewareSpec => [](NothingLostBetween /\ FilesBounded)` |

`AcknowledgedFound`, `OrganisationsTyped`, `ScopesContained`, `DisabledShutOut`,
`ChecksHold` and `LogSizeBounded` state single properties of these conjunctions.

### The argument

**Devices.** `AckedDeviceDurable` is not inductive: a handler about to answer
adds its device to `owed`, so its row must be there already. `ClaimsHaveRows`
says that of every handler in `claim`; it is kept because the only step that
drops a row (`DeleteRow`) takes the device's handlers out of `claim` in the same
step. `AckedDeviceManaged` then needs both halves: `ActivateRegister` adds a
device to memory and to `owed` together, `MigrateDevice` moves but never drops,
`DeleteRemove` disowns, and a restart reloads from rows that
`AckedDeviceDurable` guarantees. `OneIdentityPerUid` follows from
`AckedDeviceDurable` and `RowsUnique`, the UNIQUE constraint, which every
statement keeps. `PlatformInv` is the conjunction.

The contract is refined step by step, from the same invariant. Whether a device
is found depends on `tenants` alone, so each operation of the registry gets a
lemma on what it does to the set of devices found: `register_device` and a
heartbeat add at most one (`Discover`, `Promise`), `remove_device` takes away at
most one and ends the promise (`Withdraw`), `migrate_device` and the sweep change
nothing. A restart is `Reborn`, and that a new process serves whatever was
promised is `AckedDeviceDurable` once more. `SweepNeverRevives` needs no more
than `TypeOK`: the mark looks the device up again under the lock and returns when
it is gone.

**Faults.** `StoredFaultsListed` compares counts, and `FaultInv` adds only types
to it; but it needs those of the registry as well (`ManagerInv`), since the
tenant a fault is booked with is read from a record. The lemmas say what
appending, removing one element, reversing and reassigning do to the number of
faults with a code. `StartAdoptsFaults` then is what reassigning does to every
position.

**Orders.** The manager has no mutex, so nothing that a method has tested need
hold when it makes its change, and the invariant says what is left. `DepthKept`
counts the threads between the depth test and the push together with the queue:
a thread that passes the test finds room for one, and at most the other threads
are past it already. `Balanced` counts for every id: queued, brewing, in the
history or replaced is at least accepted. It is an inequality because ending a
brew that another thread has just ended puts the bytes of some order into the
history. `RowsAccepted`, that an id with a row has been accepted, makes
`StoredOrdersListed` a consequence.

**Firmware.** `LatestInv` adds that the running maxima are those of the chosen
file; the step uses that not ranking above is transitive and that `is_newer`
agrees with the ranking wherever versions 0.x and unversioned names are not all
there is. As long as they are, nothing is claimed, and the first file from 1.0.0
on replaces whatever was chosen. `UploadsKept` needs `ClaimsHaveFiles`: an upload
that may still be answered has written its file and nobody has deleted it or
written over it since. A restart then finds every kept file in the directory,
and the scan registers its stem, under this file or another one; `disk` must be
finite for that.

**Organisations and accounts.** Scopes are not inductive. `WellFormed` says that
a path ends with its own id after the parent's and has no id at or above
`next_id_`, so that an id handed out again is in no path that is left; `Linked`
says that where one path has the id of another organisation, that one's path is
its beginning. Both are needed of memory, of the table and between the two,
because a restart makes one the other and rows can outlive their organisation.
From them, `Below` and `get_org_scope` agree by following a path downwards
(`InvWithin`) and parent links upwards (`InvCovers`). For sessions, `Mirrored` says
that the table has no account that memory lacks and differs only in passwords
and, for `unsaved` accounts, in the active flag or by missing them; `Held` that the
account of a token is in the table, if it was stored, and in memory, if the
token is of this process, with its user. Between the two, a restart drops
unstored accounts and nothing else.

**Both entrances.** `Progress` says what each phase knows of the loops before
it. A route that ends with its first parameter and takes a request fits it; a
route that goes on and takes one that it does not fit has, by the shape of the
table, only routes of one segment more next to it, so that the request ends
where the handler looks for its last word. `TopicInv` adds `InboxInv` to
`TopicsUnderstood`: what waits was delivered for a subscription. What the parser
does with such a topic is a lemma with one case for each length of the prefix
and one for ids that look like levels; what it does with a topic that the
service builds is a second one.

**Configuration.** `CatalogueInv` is inductive as the conjunction of its three
parts: `ChecksStayTrue` is what lets an update or a model's insert keep
`CreatedOnce`, and it is kept because no write removes a row, a lost answer
included. `KeyInv` says of the keys and names that requests under way carry what
`KeyVouchedFor` says of the row; each statement moves one of them, and `vouched`
only grows. `RecipeInv` adds types; the work is in what pushing, replacing and
erasing do to the set of a list.

**Middleware.** `EmbeddedInv`: the callback runs on the receive thread only,
which exists only after `connect`, from the first step of `disconnect` on
`running` stays reset, and the thread finds the socket closed only after that.
`SchemaInv`: the tables before the one being created exist, all do once the
migration has begun, and a migration that still has its connection when it
records version 2 has added the column or seen its ALTER TABLE refused.
`LogInv`: `RotationInv` says that the position a file is about to move to is
free, so that no rename overwrites lines before the oldest file has been
removed; `GrowthInv` that an open file is below its limit. The proof failed for
a limit of one line, and rightly so: after a rotation `write` puts the line that
filled the old file into the new one as well, without looking at the limit, so
with a limit of one the new file is full already and takes another line before
it is rotated. The service's limit is 50 MB.

**The process.** `CallbacksBeforeClose` needs `OnlineInv`: the connection is up only
between the broker's answer and the disconnect, a callback runs only then or
until the client is reset, and the database is open all that time.

TLC has checked the inductive invariants on the runs of section 3 as well.

Only model-checked: liveness (`OnlineNeedsHeartbeats`, `ShutdownCompletes`,
`HealthFollowsFlag`, `DisconnectReturns`), which together with ENABLED is beyond the
prover. Every other property of section 3 is the statement of a theorem.

Two operators have the form they have because of the proofs. `Copies` counts
positions instead of filtering the list, and `EraseAll` gives the list that
`remove_if` and `erase` leave by where its elements were; `SelectSeq`, which
either could use, is defined by a recursion that the prover cannot unfold.

## 5. Not modelled, and the plan

Not modelled, and why:

- `TlsManager`: `main` calls `init` and ignores what it answers; nothing reads
  its state, and storing, loading and renewing credentials have no caller.
- `HttpClient`, `ConfigManager` and the HAL stubs have no caller in the service.
  `PUT /api/v1/config` answers and changes nothing.
- `OrgManager` telling the broker's API about tenants (`org_manager.cpp:22` to
  `92`): requests to another system whose answers are ignored.
- read-only routes, `export_recent`, the audit log: they change nothing that
  anything else reads.
- the download of firmware with ranges, the encoding of MQTT packets and HTTP
  messages: bytes, without a state between calls.
- two products in `OtaManager`, and what has no defined outcome: two threads
  inside one operation of an unlocked container (`ota_manager.cpp:59`).

Next:

1. Lemmas towards the liveness properties that need no fairness, such as what
   holds at each stage of a shutdown (`ShutdownCompletes`) and that the sweep's
   list shrinks with each mark (`OnlineNeedsHeartbeats`).
2. Whether `OneIdentityPerUid` and `AckedDeviceManaged` can be restated of
   `DeviceContract` and obtained from the refinement alone.
