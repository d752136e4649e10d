# TLA+ specifications of the GPS tracker firmware

The firmware (`src/src`) runs on an MTK 2503/6261 module as one task. `main.c`
creates the modules and runs two timer handlers, every 10 ms and every second;
everything else happens in callbacks of the SDK (bearer and socket events, DNS
answers, received SMS, recording results, serial data). All handlers run to
completion on that task, so two handlers never interleave inside one another;
what makes the code hard is the order in which ticks, callbacks and failures
arrive, and power, which may fail between any two writes to flash.

## Inventory

| part | files | state | operations | talks to |
|---|---|---|---|---|
| position-record store | `gps_save.c` | RAM deque `s_gps_data`, cache `s_gps_sending`, `s_his_dat`, history file | push, peek/commit, confirm, save, read back, evict, delete | gps_service, protocol, hard_ware, command |
| main connection | `gps_service.c` | connection status, timers, saved acknowledgement counter | tick, connect, login, heartbeat, push, close, destroy | socket, protocol, gps_save, gprs |
| bearer | `gprs.c` | INIT, CALL_OK, ACTIVATED, TIME_PROC, FAILED, last good time | tick, attach/activate callbacks, destroy, reboot check | all services |
| sockets and DNS | `socket.c` | table of sockets, request list, the one running query | connect, send, receive, query, callback, tick | every service |
| aiding data | `agps_service.c` | connection, the file being received, the file on flash | fetch time, fetch blocks, write to the chip | socket, gps |
| configuration service | `config_service.c` | connection, when it last succeeded, `s_configs` | ask, apply, confirm, recreate the main service | socket, config_save |
| log service | `log_service.c` | connection, queue of pointers to logs | upload, send | everything |
| firmware update | `update_service.c`, `update_file.c` | window of requested blocks, bits of stored blocks, resume file, image | request, store block, finish, rename, resume | socket, file system |
| recorder | `recoder.c` | ring of three files, two 64-bit block maps | record, upload, acknowledge, delete | gps_service, SDK callbacks |
| configuration storage | `config_save.c` | three copies: retained RAM, main file, minor file | save, recover at boot | everything |
| system state, relay | `system_state.c`, `relay.c` | one file with a CRC; what the user ordered, the pin | save, read at boot, cut, restore | everything |
| SMS | `sms.c` | queue, error count | send, callback, timer | command |
| Wi-Fi scan | `wifi.c` | UNINIT, INIT, SCAN, DEINIT, FAIL | create, destroy, tick, callbacks | gps_service, auto_test |
| power alarms, arming | `hard_ware.c` | a filter in RAM and a status bit for each alarm, the ignition, timers | every second, commands, reboot | system_state, g_sensor |
| motion, power saving | `g_sensor.c`, `main.c` | samples, work state, vehicle state, main timers | sample, sleep, wake, alarm | gps, hard_ware |
| receiver | `gps.c`, `uart.c`, `nmea_protocol.c` | what is known of the chip, port, filtered fix, queue of positions | power, look for the chip, parse, report | gps_service, agps_service |
| protocols | `protocol*.c` | fifo of received bytes, time of the first incomplete message, registration | pack, receive, dispatch | gps_service, command |
| commands | `command.c` | none of its own | parse and answer text commands | everything |
| queues | `fifo.c`, `circular_queue.c` | byte ring, overwriting value ring | insert, peek, pop | everything |
| calendar | `utility.c` | none | conversions of time, filter of changes | everything |
| filters | `kalman.c`, `matrix.c`, ... | filter state | numeric | gps |
| the rest | `gsm.c`, `call.c`, `led.c`, `watch_dog.c`, `auto_test.c`, `json.c` | counters | device I/O, text | |

What makes each of them correct, in the order in which it matters to an owner
of a tracker:

* the store loses no record it accepted, except by the eviction of a full file
  or with RAM at a power failure; it keeps each record once; its file stays
  readable whatever fails;
* a record leaves the in-flight cache when the server has it, and not before;
* after any failure of bearer, DNS, socket or server the main connection is
  attempted again, or the device reboots; it gets through its login whatever
  the last connection left in its buffers;
* a parked car is armed, a shaken one wakes the device, a cut supply is
  reported, and what is known of place and speed is not out of date;
* an update is installed only when every block was stored, and a crash leaves
  either image usable;
* settings, status and relay orders survive a crash at any point of a save;
* recordings, logs, text messages and aiding data arrive whole and leave the
  queues that hold them.

The hazards behind these statements are in `PROJECT.json`, each at its line.

## Modules

Each component is a module with its own `Init`, `Next` and fairness; six modules
compose the ones that share a concern and are what TLC runs.

| module | models | state ↔ code |
|---|---|---|
| `RecordStore` | the promise of the store | `pending`, `confirmed`, `evicted`: no RAM, no file |
| `GpsSave` | `gps_save.c` and its callers in `gps_service.c`, `protocol.c`, `hard_ware.c`, `command.c` | `ram` = `s_gps_data`, `cache` = `s_gps_sending`, `recordNum` = `s_his_dat.record_num`, `fileOk`/`count`/`frame` = the file on disk, `up` = `gps_data_init` has run; `pc`, `ret`, `draining`, `after`, `inHand`, `idx`, `newIdx`, `delNum` = where the running handler is |
| `SendCache` | `gps_service_confirm_cache`, `gps_service_cache_send` and the acknowledgement counter of the connection | `cache` = lengths in `s_gps_sending`, `savedAck` = `saved_socket_ack`, `base`/`sent`/`acked` = the byte stream of the connection, `working` = the status WORK |
| `DnsArbiter` | the lookup part of `socket.c`, the init procedures that ask and `gps_service_change_config` | `requested`, `fail` = the `GetHostItem`s, `cur`/`curName`/`curStatus` = `current_get_host`, `addr` and `ipCache` of each service, `pending` = what the SDK is looking up |
| `GprsLink` | `gprs.c` and the connection machines of `gps_service.c`, `config_service.c`, `update_service.c` | `gprs` = `s_gprs.status`; `link[s]` = status, socket, `status_fail_count`, fifo and `excuted_get_host` of a service; `badLong`, `silentLong` = the two clocks of `gprs_check_need_reboot` |
| `Receive` | login and the receive loop: `gps_service.c`, `protocol.c` and the parsers of the three protocols | `fifo`, `wire` = bytes received and on their way; `part` = `packet_error_start`; `registered` = `CFG_JT_ISREGISTERED` |
| `Jt808` | registration, login and parameters of `protocol_jt808.c` | `ram`, `disk` = the settings as they are used and as they are saved; `said`, `coming` = the message without an answer, the answer; `codes` = what the platforms know |
| `ConfigFetch` | `config_service.c` as a client | `s` = `s_config_socket` with its buffer, `mine` = the version that is saved, `net` = answers on their way |
| `LogUpload` | `log_service.c` | `queue` = `s_log_data_fifo`, `memory` = what it points to, `status`/`fails` = the socket |
| `Sms` | `sms.c` | `message_queue`, `send_error_times`, `flights` = messages the modem is sending, `timer` |
| `Wifi` | `wifi.c` and its two callers | `status`, `inited`, `fail_count`, `caller` = `s_wifi`; `asked` = requests the chip has not answered |
| `UpdateFile` | `update_file.c` and the part of `update_service.c` that starts and ends a download | `ext` = `s_file_extend`, `target`/`minor` = the two images, `upgrade`/`disk` = the file being downloaded as the program reads it and as it is sure to survive, `saved` = the state file, `fsock` = `s_file_socket`, `pc` = where the running handler is |
| `Agps` | `agps_service.c` and the chip's side of it in `gps.c` | `s` = the service with its buffer and the file it receives, `disk` = the file on flash, `aid` = the exchange with the chip |
| `Recoder` | `recoder.c` | `status`, `cb` = `s_recoder`; `state`, `up`, `in`/`out`, `sendIndex`, `sendCount`, `voice` = `s_recoder_ctrl`; `mic` and `due` = what the SDK records and has yet to report |
| `ConfigStore` | `config_save.c` and the commands and messages that set what it stores | `cfg` = `s_configs`, `work`/`work2` = `s_Para`/`s_Para2`, `copy` = the three places, `nv` = the type in NVRAM, `step`/`left` = where a save is |
| `SystemState` | `system_state.c`, `relay.c`, the boot order and the restart | `st`/`file` = `s_system_state` in RAM and on flash, `pin` = the relay, `retained`, `logged` = what the boot log reads |
| `Power` | the alarms and the charging of `hard_ware.c` | `rec` = the `StateRecord`s, `bits` = the status bits, `percent` = `battery_voltage_percent` |
| `Defence` | the ignition and the arming of `hard_ware.c`, the shake alarm of `g_sensor.c` | `acc` = `acc_record`, `arming`, `checking` = the two timers, `defence`, `manual` |
| `Motion` | `g_sensor.c` and the timers of `main.c` | `work` = the work state, `chain` = the two main timers, `vehicle` = the vehicle state |
| `GpsReceiver` | how `gps.c` finds the chip | `type`, `baud`, `internal` = `s_gps`, `saved` = `CFG_GPS_TYPE`, `check` = its timer |
| `Serial` | how `uart.c` and `fifo.c` cut what the chip says into sentences | `rcv_fifo`; `air` = what the port has not read |
| `GpsFix` | what `gps.c` makes of the sentences | `flags`, `rec`, `st` = the fix, its filter and the state others see; `scan` = the Wi-Fi scan for a place without a fix |
| `Rings`, `BoundedQueue` | `fifo.c` and `circular_queue.c`, and what they promise | `fifo`, `queue` = indices and cells |
| `Calendar` | the conversions of time in `utility.c` | `now`, `date` = seconds and the calendar that counts days |
| `Records`, `Storage`, `Transfers`, `Server`, `Link`, `Device` | compositions, below | `part` = the component that moves |
| `GpsSaveProofs`, `UpdateProofs` | theorems about `GpsSave` and `UpdateFile`, used by the next two and by `TransferProofs` | |
| `RecordsProofs`, `StorageProofs` | theorems about `Records`, and about `Storage`, `ConfigStore` and `Calendar` | |
| `LinkProofs`, `ServerProofs`, `TransferProofs`, `DeviceProofs` | theorems about `Link`, `Server`, `Transfers`, `Device` and about each of their parts | |

How they fit together. `GpsSave` and `SendCache` share the in-flight cache: the
first keeps which records are in it, the second how many bytes they are worth.
`DnsArbiter` provides what `GprsLink` calls `known`, a looked-up address;
`GprsLink` provides the connection that `UpdateFile`, `SendCache`, `Agps`,
`ConfigFetch`, `LogUpload` and `Recoder` use, and whose loss is an action of each.
`Receive` is what happens on the main connection before and while it works.
`Serial` gives `GpsReceiver` and `GpsFix` their sentences, `Agps` the receiver its
data; `Motion` switches the receiver, and `Defence` reads what `Motion` says of the
vehicle. Each module takes what another one decides as a free choice, so that its
properties hold whatever that one does.

A composition `EXTENDS` or instantiates its components, which share no variable,
and lets one of them, `part`, move while the others stay as they began. Nothing is
gained by interleaving components that cannot see each other: a run checks each
of them completely, in one state space and with one set of properties. The
safety properties of a composition say for each part what the part's own module
states and comments; the liveness properties have the fairness of the part
(`BearerFair`, `RecorderFair`, ...) as their premise, so that one part's fairness
assumes nothing of another.

### GpsSave

A handler of the firmware is a sequence of steps, one per file operation:
`pc` names the operation it is about to execute. `idle` is the only place where
a new handler may start (`ReportOffline`, `ReportOnline`, `SendNewest`,
`SaveToHistoryFile`, `ConfirmCache`, `HisFileDelete`), and `Crash` may strike at
every `pc`. `gps_data_save_file` is `SaveHead`, `HisFileCreate`, `SaveLoop`,
`SaveFrame`, `SaveEnd` with `gps_his_file_delete_record` (`Evict...`) called from
inside its loop; `gps_data_read_file` is the `Read...` actions. Both may be
called from `gps_service_push_to_stack`, which itself is called from the loop of
`gps_service_save_to_history_file` (`Drain`), so `ret`, `draining` and `after`
hold what the C stack holds.

`Faults` names the failures of the environment: power (`crash`), short reads
and failing writes (`read`, `write`), failing allocations (`alloc`), a socket
that refuses (`send`), and the commands that delete the file (`wipe`). A write
of one frame is atomic: the SDK's file system commits a 100-byte write or does
not. Records are numbers in the order in which they are produced; their bytes
and lengths are abstracted. The history variables `produced`, `confirmed`,
`evicted`, `lost` record what happened to each.

### SendCache

The protocols have no answer to a position record. The device therefore reads
the number of bytes that the peer's TCP has acknowledged (`GM_GetTcpStatus`),
subtracts the value saved when the cache was last empty, and confirms as many of
the oldest records as that difference covers. The module keeps the true stream
offsets next to what the code sees, the counter modulo `Width`. The first bytes of a
connection are the login (`Connect`); its answer acknowledges them and is followed by
device data and a heartbeat (`LoggedIn`), and only then records are sent.

### DnsArbiter

A `DnsTick` is one call of `gprs_timer_proc`: `gm_socket_get_host_timer_proc`, then
the init procedure of every service that is in INIT, in the order of the access
ids. A name that resolves is represented by itself, so an entry of the IP cache
tells which name it answers. Answers may never come (`Expire`), may be invalid,
and, if `LateAnswers`, may come after the lookup was given up. The branch of the
timer procedure for a missing socket and the own-address branch of
`gps_service_init_proc` cannot be reached from these states and are left out.

### GprsLink

Each action is one timer procedure, one SDK callback or one command with every
call it makes; which sends and connects inside it fail is a choice. So one
`WorkProc` may find its heartbeat refused, destroy the service, give up the
bearer and destroy the other services, as in the code. AGPS and log services,
on which no other depends, have modules of their own. A service without a server
name behaves like one whose name was looked up already (`asked`).

### Receive and Jt808

Bytes are tokens: a JT808 frame is its flag, two parts of its body and its flag,
a message of the other protocols its head and the rest. A read brings any part of
what is on its way; the queue and `packet_error_start` outlive the connection, so
that a login can meet half a message of the day before. `Jt808` has the other
side of a login: the device registers, is given a code, logs in with it, may be
refused, forgotten, or sent to another platform by a parameter. Its parameters
have three values, one of which the range check refuses, and a message may end in
the middle of an item.

### Agps, ConfigFetch, LogUpload

The three services with connections of their own. What they have in common is
what makes them hard: no answer names its request, the datagrams of `ConfigFetch` are lost and doubled,
and the buffer of received bytes outlives the socket. `stale` (in `Agps` and
`ConfigFetch`) notes that an answer of an earlier connection was taken, and the
properties say what holds as long as none was. A receiver that needs aiding
data, one that finds its position without, and one that is switched off are all
choices of `Agps`. Two branches of `agps_service.c` are dead and not modelled: the
connection is a stream (`config_service_agps_socket_type` returns nothing else), so the
repetitions of a datagram (523) do not happen, and every call of
`agps_service_require_to_gps` has FALSE for `re_download` (the one with TRUE, `gps.c:508`,
is a comment), so `agps_service_reset` (1621, 1747) is never called.

### Sms and Wifi

Both wait for callbacks that may come late, twice in a row, or to somebody who
did not ask. `flights` is a bag: the modem may be sending the same message several
times. A report without a result, after which `send_sms_callback` returns and starts no
timer (`sms.c:98`), is left out: whether the SDK ever gives one cannot be seen from the
repository, and if it did the queue would wait for the next `sms_send`.
A `Wifi` callback may answer a search that was destroyed in the meantime, and the chip may
refuse a request at once, which only `wifi_init_proc` notices (`Requests`).

### UpdateFile

A handler that makes several file operations is one action for each of them, and
`Crash` may strike between any two. What was not committed or closed survives
block by block, or not (`Survives`); a state file that is being written may be
torn. An image is a version and a length in blocks; the byte sum is taken to
tell an image from any mixture of blocks. The file socket may connect, be lost
or be forgotten by a second `UPDATE_READY` at any time. `Late` lets blocks of an
earlier download arrive, whose messages name no file; `Steady` excludes that
something closes in the seconds between an update and its reboot. Left out:
images for another customer (they are refused), the failure of a rename whose
source is there and whose destination is not, and the counting of retries,
which are exhausted at any moment (`GiveUp`). The server offers only images
that the device does not run.

### Recoder

One tick of `recoder_timer_proc` first sees to the recording and then to the
upload, so the recording actions end with `Upload`, on the slots as the first
part left them. Clocks are choices: a recording may be stopped and a pack sent
again at any tick. `got`, which the code does not have, is what the server
received of each file. Answers come late, in any order, or not at all. Two
constants name what the code relies on and does not ensure. `Distinct`:
recordings in the ring begin at different seconds, none at second 0, for
`find_voice_file_index_by_time` returns a file as soon as the last byte of the
time agrees. `LateResult` is FALSE: a stopped recording is reported before the
next session creates its files. Left out are `res_state`, which is only shown to
the user, and what `recoder_control_init` does to open file handles.

### ConfigStore and SystemState

A save of the settings writes retained RAM, the main and the minor file one after
the other (`Clear`, `Fill` for each), a boot reads what it finds, repairs it and
saves it again. There are some hundred settings; those that are packed in the
same way are represented by one: `edition` is copied as it is, `static` is a bit
kept negated, `number` is a text that may be too long, `server` decides whether
anything is packed, `protocol` and `version` share a byte, `volume` is packed and
never unpacked. `SystemState` has one file written in place; `half` is a restoring
of the relay that lost power between its two saves. A status file too short to be read
is written by the next save only (`system_state.c:485`), two seconds after the boot at the
latest; `Boot` writes it at once. Nothing is read differently, since a short file and
the cleared status are read as the same.

### Power, Defence, Motion

Voltages are classes (below 7 V, normal, high; below 15 %, between, 20 % and
more) and a second is a step. The hold times are constants, since what matters is
that the value holds or does not. `Power` has what is kept twice, `Defence` two
timers that act on what was true when they were started, `Motion` the timers that
stop each other. A sample of the sensor is a class of acceleration and a shake.

### GpsReceiver, Serial, GpsFix

`Serial` cuts pieces of lines, packets and noise at any place, since a read may;
what gps.c is handed is compared with what the chip said. `GpsReceiver` tries
speeds and powers until the chip is heard. `GpsFix` filters the fix and chooses
what is reported.

### Rings and Calendar

`Rings` has the indices and cells of both buffers and is shown, and proved, to
implement `BoundedQueue`. `Calendar` counts days one after the other from 1970 and
compares the conversions of `utility.c` with the count on the way. A loop that
subtracts years or months while they are over is the choice of the year or month that
is the first not to be over, and the days added year by year are a multiple of
365 and the number of leap years among them. The end of 2099 is where the module ends:
`util_localtime` takes every fourth year for a leap year and 2100 is none, although
`time_t` (an unsigned int, `inc/C_H/time.h:66`) goes on until 2106.

## Runs

| run | parts and bounds | shows |
|---|---|---|
| `Records` | `GpsSave` twice: 3 records with crashes and refused sends, 4 records without faults and with fairness; RAM 2, cache 1, file 3 | `Conservation`, `NoDurableLoss`; `QuietStore` (refinement of `RecordStore`), `QuietOnce`, `QuietReported` |
| `Storage` | `GpsSave` with all six faults (RAM 1, cache 1, file 2), `ConfigStore` (2 types, 2 changes), `UpdateFile` with late blocks and `Steady`, `Calendar` (to 2038) | `StorageTypeOK`, `FileSound`, `FileWhole`, `RestoredSettings`, `FirmwareKept`, `CalendarAgrees` |
| `Transfers` | `UpdateFile` (images of 2 and 3 blocks, window 2, `Steady`), `Agps` (files of 2 blocks, 2 files, 2 losses, restarts among them), `Recoder` (2 files, 2 packs, an index modulo 3), `Rings` (3 cells, 2 values) | `TransfersTypeOK`, `AlwaysBootable`, `Updated`, `AidingWhole`, `AidingComes`, `AckedWasReceived`, `NoOverwrite`, `RecorderGoesOn`, `RingsAreQueues` |
| `Server` | `SendCache` (cache 2, counter modulo 20), `Receive` (3 protocols, 9 tokens), `Jt808` (3 codes, 2 parameter messages, 2 breaks), `ConfigFetch`, `LogUpload` (room 2, 4 logs), `Sms` (queue 2, 4 messages), `Wifi` (3 searches) | `ServerTypeOK`, `NoOverCount`, `AnswersTaken`, `SomebodyGoesOn`, `ServicesEnd`, `MessagesEnd` |
| `Link` | `GprsLink` (3 services, 2 attempts, 2-bit counts), `DnsArbiter` (2 services, 2 names, 3 attempts), `SystemState` (2 restarts, 3 orders) | `LinkTypeOK`, `SocketsNeedBearer`, `SocketsMatchStatus`, `SlotConsistent`, `CacheIsOwn`, `UpdateSpared`, `RelayAgrees`, `RelayObeys`, `LinkRecovers` |
| `Device` | `Power`, `Defence`, `Motion`, `GpsReceiver`, `GpsFix`, `Serial`, each with a restart or a fault; hold times of 2 to 12, 4 frames on the port read in pieces of up to 5 | `DeviceTypeOK`, `SensorsAgree`, `MovementKnown`, `AlarmsCome`, `PositionsCome` |
| `SendCacheAcked` | `SendCache` (records of 2 bytes, other messages of 1 or 2, nothing escaped) | violated: a record is confirmed before any byte of it was acknowledged |
| `LinkConfig` | `GprsLink` as above, fair | violated: after a bearer loss the configuration server may never be asked again |
| `UpdateBrick` | one image of 2 blocks, connections lost before the reboot | violated: no image is left |
| `CalendarGps` | `Calendar` | violated: GPS week and second are a month off |
| `ReceiveSkip` | `Receive`, JT808 only | violated: after a half message and a skip the queue begins with the end of a message |
| `SmsSent` | `Sms` | violated: a message leaves the queue unsent |

Several properties are conjunctions of what the parts' modules state; each name
in the comment of such a property is a definition, with its own comment, of the
module that has the part.

Bounds. `MaxRecord` (how many records are produced) and `StreamMax` (how many
bytes a connection carries), and likewise the `Max...` constants of the other
modules, are cut-offs of an unbounded history; the rest are capacities of the
code made small. With a RAM deque of 2 and a file of 3 a single save can
fill, evict and append in all combinations, one record more than the file holds
makes eviction happen, and one more than RAM makes reading back leave frames
behind that move down. A counter modulo 20 that may start at 17 wraps within
every connection of interest. Two services are enough for a low and a high
priority and for a slot that changes hands; two names for an answer that is not
the one that was asked for; three attempts for a first, a middle and a last one.
`MaxRepeat` and `Width` of `GprsLink` stand for 3 and 256: one failure before the
last, and a count that wraps. The images of `UpdateFile` have a window that is
full and is also the last, and a window followed by a shorter one, which is where
the state file is written; two lengths make a state file and a file that do not
fit together. Two different images of one length are left out of the runs on
purpose: see the hazard at `update_file.c:951`. The index of `Recoder` counts
modulo 3, which 2 files do not divide as 256 is not divided by 3, and two packs
make an answer to one of them leave the other to be sent again. Files of two
blocks and a server that has two of them one after the other are enough for the
halves of two to be joined. Two changes of the settings and power failing any
number of times make a boot choose between the last save and the one before. Four
logs overfill a queue of two; three searches let a callback of the first meet the
third. The receive queue holds two frames and a part. Hold times of two are the
shortest that a single second does not reach, and a day and an hour become 2
because only their being passed matters. `LastDay` is 24853, the last whole day
of a signed 32-bit clock; a stride of 85000 seconds, a little less than a day,
makes each day occur and every hour of a day. The days from there to the end of
2099, whose seconds TLC cannot count in its integers, are left to the proof.

Fairness. The task that runs a handler is the only one, and timers are started
again by the handler they run, so timer procedures and running handlers are
weakly fair; their timeouts pass. Strong fairness stands for "again and again,
although it may be interrupted in between": sending and confirming records,
connecting a socket, datagrams that arrive in the end. Each module states its
own fairness beside its specification and gives the reason.
In `Records`, `SendNewest` and `ConfirmCache` are strongly fair in the quiet
store: the 1 s timer calls `protocol_send_gps_msg` for ever while logged in and the
server acknowledges what it receives. In `SendCache` the peer acknowledges what was
sent and goes on answering heartbeats while it is connected. In `DnsArbiter` the
timer ticks and time passes; no lookup need ever be answered. In `GprsLink` the
timer procedures run and their timeouts pass, nothing of the network or the user
is fair, and the liveness properties name what they exempt: a user who drops the
bearer for ever, and for `GpsComesBack` a configuration service whose name is
never looked up or whose socket fails for ever, since it alone recreates the main
service. In `UpdateFile` a handler that runs goes on, timers run, and the server
offers an image and sends the blocks that were asked for; `EventuallyUpdated`
requires something only of behaviours in which, from some time on, nothing fails
(`Calm`). In `Recoder` the timer runs and the SDK ends recordings; the server need
not answer. In `Agps`, `ConfigFetch` and `LogUpload` servers answer what arrives
and losses are bounded. In `Receive` and `Jt808` platforms answer, a login that is
not answered is repeated or given up by the timer. In `Sms` the modem reports a
result; in `Wifi` the chip answers and scans that find nothing are bounded, since a
search over an empty band restarts itself without end (`wifi.c:335`). In `Device`
seconds pass, and nothing of the car, the user or the chip is fair.

Each property of a passing run has a mutant: the definition named in
`PROJECT.json` is replaced by a faulty form of it, kept beside it in the module,
and TLC then finds the property violated. Where a property joins several modules
there are more operators marked "Mutant": one for each part, which break the same
property when put in the place of the definition that follows them:

| property | further mutants |
|---|---|
| `FirmwareKept` | `MinorKept`, `BlockTrusted` |
| `RelayAgrees` | `RestoredOnly`, `Unexplained` |
| `AidingComes` | `NoAidings` |
| `AckedWasReceived`, `RecorderGoesOn` | `AllButLast`; `DeletedLocked` |
| `AnswersTaken` | `ValidAll`, `KeptAlways`, `PopsEarly` |
| `SomebodyGoesOn` | `StaysInited` |
| `ServicesEnd` | `CoveredLate`, `StaysInited` |
| `MessagesEnd` | `StillRegistered`, `StartsUnset` |
| `CacheIsOwn` | `ChangeConfigKeepsCache` |
| `LinkTypeOK`, `RelayObeys` | `TickTimeoutOnceMore`; `MayCutAtRest` |
| `LinkRecovers` | `RecreatedUnlessDead`, `TickTimeoutUncounted`, `IsFirstFromAbove` |
| `SensorsAgree` | `DisarmsLate` |
| `MovementKnown` | `NothingLeft`, `SpeedsOnce`, `NextSpeedFixed` |
| `AlarmsCome` | `CreatedFull`, `ArmsMoving` |
| `PositionsCome` | `StartsNot` |

## What the violated runs show

* `socket.h:64` says that the acknowledged sequence number confirms that
  position data was received. After the answer to the login the device sends its data
  and a heartbeat, then the first record, and the counter saved is that of the login.
  When the bytes of device data and heartbeat are acknowledged they are taken for the
  record's, so it leaves the cache although none of its bytes has arrived, and is lost
  when the connection breaks then. The same holds of any message sent before a
  record and acknowledged after the counter was saved.
* `config_service.c:780` says that the configuration service is kept for
  reconnecting. Its transition table allows nothing out of ERROR, where
  `config_service_destroy` puts it when the bearer is lost, so the server is not
  asked again before the next reboot.
* `main.c:221` says that one of the two images certainly exists. If the bearer is
  lost after an update was installed and before the device reboots,
  `update_service_result_to_server` runs again with the old result; there is nothing
  left to rename, and the removal that follows deletes the only image.
* `utility.h:366` says that `util_mtktime_to_gpstime` gives the week and the second
  of the week. Its loop over the months ends one month early, so from February on
  the receiver is aided with a time that is a month old.
* `protocol.c:56` says that after a wrong message the next loop reads the head of a
  message. When a connection breaks in the middle of a JT808 frame, the first half
  stays in the queue, and the flag that begins the next frame is taken for its
  end. The body that is left has no start; it is skipped up to its end flag, which
  looks like a start, and with the flag that begins the message after it makes an empty
  frame. So every frame is taken from its end to the next start, until something
  resets the queue.
* `sms.c:108` says that what was sent is removed from the queue. `sms_send` starts
  the head again whenever a message is put in, and two successes of one message
  remove it and the next, which nobody sent.

Seen while modelling, without a run of their own.

Store and network: a full history file evicts the
frames at its start, which after a lost connection need not be the oldest records;
the DNS timer always serves the lowest access id, so while the main server's name
does not resolve no other service gets a lookup; a server that cannot be reached
never leads to the reboot of `gprs_check_need_reboot`, because only an established
connection checks the heartbeats.
An answer of DNS is compared with the name of the current lookup and not with the
name that was answered, although `socket.c:61` says that each service judges
whether a lookup is its own: with `LateAnswers` TRUE TLC finds `CacheIsOwn`
violated, an address stored for another name. Whether the SDK delivers an answer
after the 10 s timeout cannot be seen from the repository.

Recorder: with `Distinct` FALSE or `LateResult` TRUE TLC finds
`AckedWasReceived` violated, a file given up as answered that the server does not
have; with `LateResult` TRUE also `NoOverwrite`. A file that the SDK failed to write leaves
the ring without having been sent, and from then on the number of waiting recordings
is not that of the files: with three files TLC then shows one overwritten while another
is free. When 256 recordings could not be
sent the two indices of the ring meet again, the queue seems empty, and if its file
is locked for sending the recorder waits for it for ever (`Overtaken`, which
`EventuallyLeaves` and `RecordsOn` exempt). `RecodeResultEnum` counts from 0 where
`gm_record.h` counts from 1 with a failure, so a failed recording is treated as
complete, and a full disc like the end of the file: it ends the session, and a
later START does nothing until a STOP.

Settings and status: the recording volume is packed and never unpacked
(`config_save.c:1991`), so a restart forgets it, and a server address that cannot
be packed makes the next boot take the defaults for everything; `RestoredSettings`
says exactly this. The alarm modes are packed, and no command and no message ever
sets them. At boot a cut of the relay that waited for a low speed is carried out
whatever the speed (`relay.c:43`). Between sleep and work the mask 0x0007ffff also
clears the bit of the high voltage (`system_state.c:443`), and
`hard_ware_is_charge_voltage_ready` compares the battery of devices other than W
with 7 V, so their percentage only ever falls until the next boot (`LowStays`).

JT808: the case of the server's address falls through to that of its port, so the
port becomes what the first bytes of the address make of it, even for a device
whose server is locked (`protocol_jt808.c:1402`); the seconds a speed must last are
answered with the turn angle (1799), and a message that is cut short leaves its
first parameters in RAM, unsaved and unacknowledged.

Receiver: a chip whose type is saved wrong is looked for at its wrong speed for
ever, with a restart every ten minutes (`RestartNeeded`), and a port that fails to
open ends the search until the receiver is switched off and on (`gps.c:815`). A fix
that is lost in the interval in which it has held long enough is announced as "3D"
although no position came with it: until that is over the relay reads the speed of the
position before, and the check after a minute takes the place for reported
(`SpeedFresh`, `Settled`). A constant speed that was reported before the receiver was
closed or lost its fix counts until the next position, so a car that is parked then
goes on being said to drive (`StillIsStatic`).

Serial: noise without a line's end, or a packet cut by a read, costs the next line, and
packets between do not help: the line is the first thing in the queue whose end is
looked for with the noise before it.

## Proofs

`GpsSaveProofs` proves, for every value of the constants and every set of
failures, that `IInv` is inductive: `TypeOK`, `FileSound`, `CallInv` (where a
handler can be and what it still holds) and `ScanInv` (how the two indices of a
copying loop relate to the file). `FileSound` alone is not inductive: that no
frame below the header's count is blank after a loop has copied frames down
follows only from `newIdx <= idx`, from what lies below `recordNum`, and from the
eviction that always removes at least one frame before the next append. From
`IInv` follow `TypeCorrect` and `FileAlwaysSound`.

The second half assumes `MildFaults`, that is no failing reads, writes and
allocations and no remote deletion, but crashes anywhere and refused sends. Three
conjuncts are added: `CopyInv` (a copying loop overwrites only what it has a copy
of or gave up), `FlowInv` (a save empties RAM, and a handler ends with nothing
left to insert) and `EvictInv` (a save evicts at most once, exactly as many
frames as it appends). Each is preserved by every action, one step per action;
`SafeInvariance`, `EvictionIsTight`, `NoDurableRecordLost` and `RecordsConserved`
follow. The only assumptions on constants are that the capacities are natural
numbers, that RAM and cache have room for one record, and that the file holds at
least as many records as RAM.

The last part has no failures at all. `OnceInv` says that RAM, cache, file and
what a handler has in hand share no record, that none of them holds one twice, and that
none of these records was confirmed or evicted. Each step then does to the stored
records one of four things (`Tracked`): nothing, or it accepts, confirms or evicts
one; a copying loop does nothing because the frame above `recordNum` that it reads is
counted no longer when the one it writes is. `Counted` adds the places up, so `StoredOnce`
follows, and `StoreImplementsRecordStore` is the refinement of `RecordStore` with the
stored records for `pending`; that it never evicts while the file has room is the guard
of `Evict`. `RecordsProofs` carries both over to the quiet store of `Records`, an instance
with capacities and faults of its own, together with `Conservation` and `NoDurableLoss` for the
two stores.

`LinkProofs` proves the types and the three invariants of `GprsLink` for all
`MaxRepeat` and `Width`. The argument follows the calls: for each operation that
several handlers share (`Finished`, `GpsDestroyed`, `AllDestroyed`,
`DestroyGprs`, `ConnectionOk`, ...) a lemma says what it does to the links, and
each handler is then a case distinction over those lemmas. The invariant is the
conjunction per service, so that a service that is destroyed from inside another
one's handler needs no special treatment. Of `DnsArbiter` it proves the types and
`SlotConsistent` for any number of services and names, and `CacheIsOwn` if late
answers are dropped; the invariant behind it says that what the SDK is looking up is
the name of the current lookup (`PendingIsCurrent`), which a late answer breaks. Of
`SystemState` it proves that pin, status in RAM, status file and the last order
belong together (`StateInv`): `Placed` says what each phase of a restart and of a
torn write may leave, `Noted` what the boot log finds. `RelayAgrees` and the action
property `RelayObeys` follow. `LinkImplementsParts` takes every behaviour of the
composition to one of each part, and with it the parts' theorems become those of
the properties that the run `Link` checks, the action property `UpdateSpared` among
them.

`ServerProofs` proves the three invariants of `Server`, one inductive invariant for
each part, and joins them in `ServerInv`. `SendCache` (`Counting`): what was
acknowledged, what was sent and what the cache holds differ by what the counter was
saved at, so that a difference modulo the width of the counter is the true one as
long as less than that width is under way. `ConfigFetch` (`FetchInv`): everything in
the buffer or on its way is no older than the connection, or is marked `stale`; an
answer repeated by the network is the point where this could fail. `LogUpload`: a
pointer is in the queue or its memory is free, never both. `Receive` and `Jt808`
(`IncomingInv`, `RegisterInv`): which message an answer still to come can be about,
and that settings in RAM and on flash differ only in the middle of a message.
`Sms`: a message in the queue has the modem or the timer. `Wifi`: failures beyond the limit are covered by answers still
to come (`Unanswered`), which bounds the count.

`TransferProofs` proves the types of `Recoder` and `Agps`, `NoOverwrite`,
`AckedWasReceived`, `AidingWhole`, and joins them with `UpdateProofs` and
the rings (`TransfersImplementParts`). For the recorder `RunInv` says which slot
is being recorded and by whom, `WaitInv` that the slots between the two indices are
the complete recordings, as long as the queue was not lapped, and `SentInv`
that each answer, on its way or taken, stands for a pack that the server
has. `RunInv` is what makes the others inductive: a slot that is given to a new
recording is none whose packs are under way. For the aiding data `ServiceInv`
relates the file being received to the requests made for it and to
the exchange with the chip, and `WholeInv` says that all blocks held and all
requests open are of one file of the server, unless an answer of an earlier
connection was read.

`UpdateProofs` is about `Steps`, the specification without its fairness. It proves,
for all versions, lengths and windows, the types under
every failure, and under `Steady` that a whole image always boots and that no
third copy exists. `TypeOK` is not inductive: what survives a crash is a file only
because both views of it have one length, and what a handler does next depends on
what is open (`FileInv`). `AlwaysBootable` needs `SwapInv`: while images are
exchanged, which of the three files exist and that the one to be renamed is whole;
and that a result which says "updated" and is not being reported any more means
that the reboot is under way. `ResumeStored` needs `ResumeInv`: outside a download
both views of the file are the same; in it, every block below the window or marked
in it was stored; and a file as long as the image of the state file has every block before
the point where that continues (`Backs`), whatever part of a write survived.
It is proved under `OneLength`, that no two images on offer have the same length. This
is not a convenience: without it the statement is false, which is the hazard at
`update_file.c:951`.

`StorageProofs` proves, for all device types and any number of changes and
restarts, the types, `FileWhole` and `RestoredSettings`, the latter two as long as no write
fails. `FileWhole` is inductive once it is known which lists of places may be left
at each step (`RepairLists`, `SaveLists`): a file is cleared only when the other
one is whole or is the one just filled. For `RestoredSettings` the invariant
(`StoreInv`) says that each whole copy, and what a boot has read, is the packed
form of settings in `legit`; a lemma shows that unpacking the packed form of
settings gives what `Restorable` allows.

Of the `Calendar` it proves `CalendarAgrees` for every second up to the end of 2099.
The invariant (`DateInv`) is that the day shown is the day counted: the days
before its year (`StartOf`, a quotient) and before its month (`MonthStart`), and its day.
That midnight keeps it is arithmetic over the twelve months of two kinds of year
(`NextDay`). The rest is about the conversions alone: the days that `util_gmtime` adds year by
year are that quotient (`DaysAdded`); exactly one year and one month contain a
given day (`YearOfDays`, `MonthOfDay`), so that loops and table find it; four years
have 1461 days wherever they start, so that the periods of `util_localtime` lead to
the same year (`YearOfPeriods`); and its detour around the 29th of February gives the
same month (`LocalDates`).

For `Storage` itself `StorageInv` is the conjunction of the invariants of the four
parts: with every fault of the file system (`IInv`), of the settings, of the calendar, and of the
firmware with `Late` and, of that which needs it, under `Steady`, a constant of `Storage`
that the run sets to TRUE and the code does not ensure (run `UpdateBrick`). Since the module of the firmware is an
instance, `FirmwareNext` first shows, action by action, that its steps are those
`UpdateProofs` is about; its lemmas are then cited of the instance. All six properties of
the run `Storage` are theorems. Of these `FirmwareKept` has `Steady` and `OneLength` as premises,
its first two conjuncts only `Steady` (`FirmwareBoots`).

Of the `Rings` `TransferProofs` proves for any sizes that both buffers implement the queues of
`BoundedQueue`: the sequence of cells from the read to the write index is the
content of the queue, and each operation of the code is the queue's operation or a
stutter. The arithmetic of indices that wrap is in lemmas about `Wrap` and the
number of waiting cells. `NewestRead` is that reading backwards from the newest
value sees those values and no others.

`DeviceProofs` proves an inductive invariant for each part of `Device` and joins
them in `DeviceInv`; `DeviceAssumption` is all that is assumed. `AlarmsAgree` and
`DrivingDisarmed` are inductive with the types (`PowerInv`, `ArmingInv`; the latter also
knows that an orderly start leaves no order of the user). `Motion`: a car that has been
parked for some seconds is known to stand, or as many seconds went into learning
gravity and into calm samples (`Noticed`). `GpsReceiver`: a search that can succeed
takes two rounds for each fault and one that is heard (`RoundsBounded`), a kind saved
wrong is never heard (`Unheard`), and what is tried is what is saved, or both speeds
(`Tried`). `GpsFix`: the filter of "3D" has counted two sentences without a fix for
each interval that the position is old (`FixYoung`), and it drops "3D" when its hold is
reached (`FixHeld`).

Of `Serial` it proves that reads cut lines anywhere and none is lost without a cause,
for any lengths of reads, buffer and queue. `SerialInv` says that what the port has not
read is the end of what was said, with nothing missing (`Stream`); that what stays in
the queue has no end that is looked for and, before a frame nothing spoils, is nothing
but the text of that frame (`Waiting`); that what was accepted was said before all that
was not (`InOrder`); and that a line that was read and nothing spoils was accepted or
has its end in the queue (`Kept`). `Waiting` is what makes the others inductive: the
next read must continue exactly where the last one stopped. The loop of
`gps_port_on_receive` is a recursive function: that it exists (`LoopExists`), that each
pass takes a piece or is the last, and that it ends with nothing left to take out
(`SentencesAre`) are proved by the least counterexample, as the sums below.

The sums that count bytes (`Total` in `SendCache`) are recursive functions; that the
sum is a natural number and grows with the sequence is proved, like what is counted from
year to year in `Calendar`, by the principle of the least counterexample (`WFMin` of `WellFoundedInduction`), since the library's induction
theorems themselves take an operator as a parameter, which no installed prover
instantiates.

The provers' encoding of `Len` contains an axiom that holds of sequences only (that
the domain of any function is `1 .. Len`), from which something false of other
functions can be derived. Every proof was therefore also checked with that axiom
restricted to sequences, and no step depends on it.

Every invariant and every action property that a passing run checks is a theorem, and so
are the two refinements. Only model-checked are the liveness properties, which are out of
the prover's reach: `QuietReported`, `Updated`, `AidingComes`, `RecorderGoesOn`,
`ServicesEnd`, `MessagesEnd`, `LinkRecovers`, `AlarmsCome`, `PositionsCome`.

## Not modelled

Everything with status `not_modelled` in `PROJECT.json`: filters and matrices are
floating-point numerics; GSM, calls, lamps and watchdog pins are thin layers over the
SDK; JSON is text. Of the modelled components, what the "partly" notes name: the
layout of messages (a message is what its receiver tells apart), the parsing of text
commands, the fields of NMEA sentences and the corrections of distance and heading,
the crash, brake and turn alarms (comparisons of accelerations), and the factory
self test, which only drives the others.

## Plan

1. `Receive` and `SendCache` over one connection, so that what a reconnect leaves in
   the queue meets the counter of acknowledgements.
2. The socket table as a variable of `DnsArbiter`, with AGPS and log services in
   `GprsLink`.
3. The crash, brake and turn alarms of `g_sensor.c` with their delayed checks.
