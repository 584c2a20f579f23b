# Sensorlogger in TLA+

Models, model-checking runs and proofs for Sensorlogger, the program of this
repository. It collects measurements from Tinkerforge Bricklets, MQTT topics,
HomeMatic system variables and JSON files, publishes them, and writes
statistics of them into logbooks. The specifications are
translated from the sources in `src/` and `include/`.

## 1 The system

### 1.1 Threads

| thread | what it runs |
|---|---|
| main | `main()` calls `logger::trigger()` every 100 ms, for ever: every sensor's `measure()`, every logbook's `write()`, the supervision of the Brick Daemon |
| Tinkerforge | created by the bindings: callbacks of input Bricklets (`callback_io4`, `callback_io16`, `callback_io_v2`), enumeration and connection callbacks |
| Paho | created by the MQTT client: a receiving thread (`message_arrived`, `connected`) and a sending thread (`connection_lost`, `on_failure`) |

They share the sensors, their measurement stores and event counters without a
lock. Every action of the models is one whole call of a shared object; the data
races within one call are listed as a hazard and not modelled.

### 1.2 Components

| component | state | operations | correct when |
|---|---|---|---|
| measurement store, `measurements.cpp` | `_values`, `_timestamps` | add, set only, clean, statistics of a window | it keeps what a column may ask for, and the newest value last |
| sensor, `sensor.cpp` | `_timestamp_lastMeasurement` (the gate), `_nReadFailures`, `_lastValuePublished`, retention time | `addRawMeasurement`, `addReadFailure`, `publishLastEvent`, `clean` | one measurement per rest period; failures counted; retries in time; the last value is published |
| kinds of sensors, `sensor_*.cpp` | keys, UIDs, topics | `measure`, `poll`, `registerCallback`, the event handlers | no reading is taken in vain; an unreadable sensor is noticed |
| event counter, `counter.cpp` | cycles with counts and distances | count, start a cycle, sum over cycles, frequencies | every event is in one cycle; distances are distances of events |
| column, logbook, `column.cpp`, `logbook.cpp` | evaluation period, next entry, the file | configure, write an entry | every cycle has one entry, which evaluates its measurements; events are counted once; the file keeps its entries |
| main loop, supervision, `main.cpp`, `logger.cpp` | read failures of all sensors, restart attempts | `trigger` | commands are justified, in order, and come when they are needed |
| Tinkerforge connection, `tinkerforge.cpp`, `tinkerforge_callback.cpp` | connection, registered callbacks | connect, enumerate, register | callbacks survive a reconnection and lose no events |
| MQTT, `mqttbroker.cpp`, `mqttmanager.cpp` | `_isConnected`, client ID, session | connect, reconnect, publish, receive | a lost connection comes back with its subscriptions; the status topic is true |
| readout buffer, `readoutbuffer.cpp` | content of each file or page, time of reading | read, age | sensors of a pass share one content, younger than the buffer time; servers are not asked twice |
| JSON, `json.cpp` | a tree of nodes | parse, look up | a document gives its values, a part of one gives none |
| configuration, `logger.cpp` | everything above | load | every value is one the rest can work with |
| HomeMatic, HTTP, messages | none | requests, output | — |

The vendored `tinkerforge/` bindings are 115 files, 112 of which only pack and
unpack packets; the third that matters, `ip_connection.cpp`, is modelled where
the program depends on it (section 2). The libraries Paho and libcurl, the Brick
Daemon, the brokers and servers are the environment.

### 1.3 How a measurement travels

`measure()` reads a polled sensor when its gate is open: the distance of the
pass's clock reading to the last measurement is at least the rest period.
`addRawMeasurement()` tests the gate again with a fresh clock reading, rounds
the time down to the sensor's slot, stores and counts the value.
`addReadFailure()` moves the gate for the retry. Input Bricklets and MQTT
messages call `addRawMeasurement()` on their own threads. After `measure()` has
returned true the main thread publishes the last value. When a cycle of a
logbook is over, `write()` evaluates column after column, publishing each value
(which may take long), rewrites the file, and only then starts new counting
cycles and computes the time of the next entry. The end of `trigger()` looks at
the read failures of the Bricklets and executes the restart or reboot command.

A JSON sensor gets its text from the buffer, which asks the server or opens the
file when its content is older than a pass needs. A Tinkerforge sensor with a
trigger event is registered by the callback thread when the Bricklet answers an
enumeration: it is polled once, its counters are reset, and its handler put into
a device of its own. Connections, to the Brick Daemon and to MQTT brokers, come
and go under all of this, and are restored by whoever notices.

### 1.4 What is hard

* the gate is tested with two clocks and moved by three functions;
* slow readings, publications and commands, after which any time has passed;
* events between any two steps of the main thread;
* a counter shared by columns that each ask it to start its cycle, and reset by
  registrations at any time;
* entries that are late, slow, or more than a cycle late;
* a zero that stands for "none yet" or "for ever";
* counts of failures and attempts with several causes of being reset, and polls
  that are not counted at all;
* an IPConnection that any thread replaces while others use it;
* reconnections that only callbacks of another library's threads keep going;
* a file that is emptied and written again at each entry;
* documents that are read while they are written.

The list `hazards` of `PROJECT.json` has each at its line, with the
properties that watch it, or the reason why none does.

## 2 The modules

| module | models | role |
|---|---|---|
| `Timestamps` | `timeDiff`, slots | operators |
| `Measurements` | `measurements.cpp` | operators on stores |
| `Sensor` | `sensor.cpp` | operators on a sensor's state |
| `Counter` | `counter.cpp` | operators on counters |
| `BrickletPoll` | the table of `sensorTinkerforge::poll()` | operators on replies |
| `Json` | the reader of `json.cpp` | operators on texts |
| `JsonDocument` | what a JSON document is, how it is written and what it says, without the reader | grammar |
| `Acquisition` | measuring half of `trigger()`, `measure()` of all kinds, event handlers | specification |
| `Logbook` | `logbook::write()`, columns, their configuration; one sensor with its counter and registrations | specification |
| `EventLedger` | what a count column promises | abstract specification |
| `LogbookFile` | the file part of `write()` | specification |
| `EntryLog` | what a logbook's file promises | abstract specification |
| `BrickdSupervision` | last part of `trigger()` | specification |
| `TinkerforgeConnection` | `tinkerforge.cpp`, `registerCallback()`, `tinkerforge_callback.cpp`, device table and queue of `ip_connection.cpp` | specification |
| `MqttBroker` | `mqttbroker.cpp`, `mqttmanager.cpp`, subscriptions of `sensor_mqtt.cpp` | specification |
| `Readout` | `measure()` of JSON and HomeMatic sensors, `readoutbuffer.cpp`, `httpRequest()`, `homematic::getValue()` | specification |
| `MCAcquisition`, `MCLogbook`, `MCBrickdSupervision`, `MCTinkerforgeConnection`, `MCMqttBroker`, `MCReadout` | small instances | model checking |
| `Sensor_proofs`, `Acquisition_proofs`, `Logbook_proofs`, `LogbookFile_proofs`, `BrickdSupervision_proofs`, `TinkerforgeConnection_proofs`, `MqttBroker_proofs`, `Readout_proofs` | | lemmas and theorems |

How they compose: `Acquisition`, `Logbook` and `Readout` use the same `Sensor`
and `Measurements`, so that there is one definition of `addRawMeasurement()`.
`Logbook` composes sensor, counter and columns and implements `EventLedger`;
`LogbookFile` implements `EntryLog`. `Readout` composes the sensors with the
buffer, the JSON reader (`Json`) and the servers; what `Acquisition` takes as the
environment's choice, whether a reading succeeds, is decided there.
`BrickdSupervision` takes the polls of `Acquisition` without their times and
lets `BrickletPoll` decide what a Bricklet's reply is counted as.

### 2.1 State

| variable | code |
|---|---|
| `now` | the system clock, in ms (a tick stands for the shortest time that matters) |
| `current` | the argument of `measure()`: `currentTimestamp()` at the start of the pass |
| `phase`, `turn`, `col` | the program counter of the main thread: where in `trigger()` it is, at which sensor or column |
| `sensor[i].lastMeasurement`, `.stored`, `.readFailures`, `.lastValuePublished` | `_timestamp_lastMeasurement`, `_m`, `_nReadFailures`, `_lastValuePublished` |
| `outgoing` | `payload` in `publishLastEvent()` |
| `mqtt[b]` | the receiving thread of broker `b`: where in `message_arrived()` it is, at which sensor, and its own `payload` |
| `keep` | `_keepValuesFor_ms` |
| `counter` | `_nCyclesToStore`, `_counters`, `_currentCounter` |
| `next_logentry`, `slot`, `line` | `_timestamp_next_logentry`; `currentTimeSlot` and `columnValues` of `write()` |
| `loglines`, `readable`, `entry`, `file`, `limit`, `pc` | the vector of `write()`, whether the file opened for reading, its new line, the file on disk, `_maxEntries`, where in `write()` it is |
| `attempts`, `readFailures` | `_brickd_restart_attempt_counter`, `_nReadFailures` |
| `open`, `current`, `recon`, `worker`, `queue` (`TinkerforgeConnection`) | the socket, the connection's callback thread, the place of each thread in `reconnect()`, of a callback thread in `enumerateTFSensors()`, and its packets |
| `table`, `callback`, `replaced`, `handler`, `armed` | the device table of the IP connection, `_tinkerforgeCallback` and its device, devices that lost their entry, devices with a handler, interrupts enabled in the Bricklet |
| `isConnected`, `clientID`; `link`, `receiver`, `sender`, `at` | `_isConnected`, `_clientID`; the client's view of its connection, what its two threads are doing, the sensor the loop of `connected()` is at |
| `sessions`, `subscribed`, `refused`, `status` | what the broker at the other end knows |
| `file[f]`, `trial` (`Readout`) | `_content`, `_last_read_timestamp` of a `readoutFile`; the attempt at opening a file |

A measurement is named by its timestamp, and a store is a set of timestamps.
The code's stores are vectors; with distinct, increasing timestamps the two say
the same. The clock of the models does not go back, and distinctness is
theorem `OneMeasurementPerSlot`. Values are data that no property of these
modules tells apart, except in `Json`, where a text is a sequence of tokens and a
value one token. A line of a logbook's file is the number of its entry,
negative when only a part of it was written.

History variables, which no guard reads, say what happened: `accepted` (arrival
times of recorded measurements), `failedAt`, `streak`, `delivered`, `fedBy`, `entries`,
`reported`, `reply`, `failed`, `restarts`, `missed`, `damaged`, `least`, `used`,
`asked`.

Two threads of this program use objects that a third has deleted. Such a call is
undefined; the models let it have the effect it would have on the memory's
present owner, or none, or let it end the program, and do not follow a program
that has ended.

### 2.2 Actions

`Acquisition`: a pass is `Trigger`, then for each sensor `Skip` (gate closed, or an
MQTT sensor), `MeasureCallback`, or `StartRead` followed by `ReadOk`, `ReadFail`,
`Unreachable` (`poll()` without a connection) or `ReadNothing` (`poll()` of a
channel that is not there); a true answer leads to `PublishNothing`, or to
`PublishRead` and `PublishDone`; the pass ends with `CheckReadFailures`. A reading
and a publication are two steps each because time passes and other threads run in
between. `CallbackEvent` is the Tinkerforge thread. The thread of each broker takes
`MessageArrived`, and when the message was recorded publishes it itself:
`MessageUnpublished`, or `MessageRead` and `MessageDone`. `Tick` is allowed wherever
the main thread waits for something outside; a step that only computes takes less
than a tick.

`Logbook`: `AddColumn` is the construction of a column by `loadConfig()`. A pass
is `Trigger`, one of `NotDue`, `MeasureCallback`, `StartRead` with `ReadOk` or
`ReadFail`, and then `NoEntry`, or `StartEntry`, one `Evaluate` per column,
`WriteFile`, one `StartCycle` per column. When the sensor is a callback sensor,
`CallbackEvent`, and the two halves of a registration, `RegisterPoll` and
`ResetCounters`, may come in between any two of them.

`LogbookFile`: `StartWrite`, `Read`, `Trim` (or `TrimForEver`, with a limit of
0), `Open`, `WriteLine` per line, `Close`; `ReadFails`, `OpenFails` and `WriteFails`
are the file system's, `Crash` comes between any two, and `Restart` reads a
configuration with any limit.

`BrickdSupervision`: for each Bricklet `NotDue`, `PollOk`, `PollFailed`,
`PollWithoutEffect`, `PollUnreachable` or `PollCrashes`, which ends the program;
then `AllWell`, `Restart` or `Reboot`.

`TinkerforgeConnection`: `StartReconnect`, `Connect`, `ConnectFails` and `WakeUp`
are the steps of `reconnect()` for the main thread (`MainReconnects`) and for
callback threads (`WorkerStep`), which otherwise dispatch packets
(`DispatchEdge`, `DispatchEnumerate`) and register a sensor after the other
(`DeleteCallback`, `PollFirst`, `FailedAttempt`, `RegisterCallback`,
`NextSensor`). `MeasurePolls` is the periodic poll of the main thread, whose
device takes part in the table like all others. `DaemonStops`, the moment the
program notices the end of its connection, `DaemonStarts`, `EnumerateAnswer`,
`HotPlug` and `Edge` are the environment's.

`MqttBroker`: `ConnectToMQTTBroker` at the start; `Connected`, `Announce`,
`Subscribe` and `SubscribeEnd` are `connected()`; `ConnectionLost` or
`OnFailure`, then `Reconnect`, are the sending thread; `Publish` comes from
anywhere. `Accept`, `LinkBreaks` and `Expire` (of a session, with its will) are
client and broker, `NetworkChange` the network. A broker may drop a session while it
is not reachable and the client still believes it is connected: until the client
notices, its connection is half-open, the status message of `connected()` gets lost,
and its subscriptions are neither granted nor refused (`IsOpen`). Messages on a
session that is open are taken as delivered, as TCP does or breaks the link.

`Readout`: `Trigger`, then for each sensor `NotDue`, `ReadBuffered`, or
`StartRead` followed by `Receive` or `RequestFails`; a file may be locked
(`FileIsLocked`) and not open the second time (`FileFails`);
`HomematicAnswer` has the six kinds of answers `getValue()` tells apart. An
exception nobody catches leads to phase `ended`.

## 3 The runs

The clock stops at `MaxTime`, queues, threads and entries have bounds of their
own (`MaxQueue`, `Threads`, `MaxEntry`, `MaxRegistrations`); all else is finite
because of them. The runs that hold:

| run | instance | states | properties |
|---|---|---|---|
| `AcquisitionPolled` | JSON sensor, rest 3, retry 1, keep 4; Tinkerforge counter, rest 2, retry 4; times 8 to 15 | 992,265 | `SlotOnce`, `ReadingIsTaken`, `FailuresCounted`, `RetryInTime` |
| `AcquisitionEvents` | MQTT sensor fed by the threads of two brokers, JSON and callback sensor, rest 2; stores of two measurements; times 11 to 14 | 2,088,606 | `RetentionComplete`, `NewestRetained`, `PublishedIsLatest` |
| `LogbookPolled` | cycle 4, rest 2; mean, count and a moving count over two cycles; times 11 to 20 | 369,650 | `EventsCountedOnce`, `MovingCountIsSum`, `ShortestGap`, `OneEntryPerCycle`, `WindowExact`, `KeepsLedger` |
| `LogbookCallback` | the same columns, sensor fed by the other thread, one registration; times 11 to 17 | 3,658,623 | `NeverOvercounted`, `CountsItsOwn` |
| `LogbookFile` | limits 0, 2 and 3, five entries, any faults | 15,177 | `FileIsTail`, `IsTable`, `KeepsTheLog` |
| `Supervision` | PTC, PTC 2.0, GPS 2.0 with channel 8, an IO-4 2.0 with channel 4, which it does not have, and a Bricklet that the Brick Daemon never names; two failures, two restarts allowed | 160,758 | `CommandsAreJustified`, `RebootAfterRestarts`, `PersistentFailureEscalates` |
| `TinkerforgeCallbacks` | two event sensors on an IO-4, a polled Bricklet, two callback threads, one packet waiting | 707,406 | `RegistrationStands`, `EdgesAreCounted`, `Registers` |
| `MqttReconnect` | two brokers, one with a domain of topics, two subscriptions | 117,224 | `NobodyGivesUp`, `SessionComplete`, `StatusTruthful`, `Recovers` |
| `Readout` | two sensors on a URL, one on a file, a HomeMatic variable; two documents; buffer time 1, times 5 to 7 | 137,175 | `SameContentInPass`, `FreshContent`, `ReadsTheDocument`, `TornGivesNothing`, `AsksOnce` |

All but `AcquisitionEvents` and `LogbookCallback`, whose modules' types the runs
beside them check, also check `TypeOK`. In `AcquisitionEvents` the brokers are
symmetric: they differ in nothing but their names, and no property tells them apart.

Why the bounds are enough. In
`AcquisitionPolled` the retry time is shorter than the rest period for one
sensor and longer for the other, the eight instants hold two rest periods of
either and a retention time, and two failures in a row reach the limit that
resets all counts. In `AcquisitionEvents` the four instants lie in three
slots: the stores of two measurements overflow, filled by the main thread or by two
others that feed one sensor, with retention times near and above what two
measurements span, and a value is under way on one thread while another records and
publishes before, during and after it. The ten
instants of `LogbookPolled` hold three ends of cycles, hence entries on time,
late, slow, and with a skipped cycle, and let the moving count look back; in
`LogbookCallback` one registration can poll before, and reset after, any step of
an entry. In `LogbookFile` five entries go over the limit of three, and a
restart can go from the limit 0 to two and back with torn lines in the file; a file
that cannot be read may have any of these lines.
`Supervision` has every way through the end of `poll()`: a probe that answers,
does not answer, is not there, with the failure counted and not counted; a channel
whose answer ends the program; a channel without a request; a type without a poll. It
does not check deadlock because the program may end. The third callback
thread of `TinkerforgeCallbacks` would be a third connection during one
registration; two already delete each other's devices. `Readout`
reaches each age of a buffered content, and the file is found after every single
token of its text. Its documents nest objects in objects, arrays and the other way
round, and hold a number in a string and an escaped quotation mark; TLC evaluates
that they are documents of `JsonDocument` and say what the run expects of the reader
(`DocumentsAreWritten`). It does not check deadlock either, since an uncaught
exception ends the program.

### 3.1 What the code does otherwise than its documentation says

Each of these runs checks one property that states what `README.md` of the
repository or a comment of the code says; TLC finds the behaviour of the code
that violates it.

| run | property | what the run shows |
|---|---|---|
| `LostEvents` | `EventsCountedOnce` | an event between evaluation and new cycle is in no entry, though `count` is "Number of measurements, or number of events in case of an externally triggered sensor" (`README.md:795`) |
| `MqttTermination` | `RunsForEver` | a value published between the loss of a connection and `connection_lost()` makes the client throw what no handler of the program catches |
| `SimultaneousEdges` | `EdgesAreCounted` | two pins of an IO-4 Bricklet that change in one interrupt are counted by neither sensor: the handler compares the mask as a whole |

Three more disagreements are in the models and have no property of their own:

| source | what the model has | what the documentation says |
|---|---|---|
| `sensor_tinkerforge.cpp:1902,2052`, `bricklet_gps_v2.cpp:1556` | `PollCrashes`, which `Supervision` reaches: the first answer for one of the channels 6 to 8 of a GPS 2.0 or 3.0 ends the program, since the binding copies the numbers of the satellites to the null pointer that `poll()` gave it | `README.md:877` lists these channels as values that can be read |
| `sensor_tinkerforge.cpp:22,82,2093` | `Uncounted`: a Bricklet that the Brick Daemon never names fails for ever and is never counted, since the constructor's `setDeviceType(0)` has set the flag behind which `poll()` would count it | "If the limit is reached, [...] `brickd_restart_command` is executed" (`README.md:226`) |
| `sensor.cpp:317` | `PublishRead`, `CallbackEvent`, `PublishDone`: an event of another thread that is recorded while the one before it is being published is marked as published and is not | the topic is there "to publish the received [...] sensor value" (`README.md:363`) |

The first two need no particular order of steps, and a test with such a Bricklet
shows them. Of the third, `PublishedIsLatest` says for which sensors it cannot happen.

Also read in the code while modelling:

*Rest periods, retries, publication.* The gate is moved to the start of a slot, so
that two events closer than the rest period are recorded with a slot boundary
between them (`sensor.cpp:243`). `sensorTinkerforge::measure()` overrides the retry
time (`sensor_tinkerforge.cpp:2125`): a Bricklet that failed waits a whole rest
period. What happens to the events of a callback sensor, which is recorded and
published by different threads, also happens to an MQTT sensor whose messages come
from two brokers, each with its own thread; `PublishedIsLatest` speaks of sensors
that one thread has recorded and published. The retry time of a reading that fails late
counts from the last measurement (`sensor.cpp:197`), so that the next pass may read
again at once.

*Entries and counts.* A period shorter than the cycle has 0 cycles, which means
"for ever" (`column.cpp:114`). The distance of the first count of a counter is
the time since 1970 (`counter.cpp:21`), so that the lowest frequency is nearly 0.
An entry that is written late evaluates measurements of the next cycle, which the
next entry evaluates again, since the window has no end (`measurements.cpp:108`);
`WindowExact` states when it is exact. A cycle that ends during a late or slow
`write()` gets no entry (`logbook.cpp:112,260`). A registration between the end
of a cycle and its entry resets what the entry should count, and its poll, when
the entry is evaluated before the reset, counts as an event;
`NeverOvercounted` speaks of behaviours without registrations, `CountsItsOwn` of
all. With `max_entries` 0 the loop that trims the file erases from an empty vector
(`logbook.cpp:199`). A file that is there but does not open for reading counts as no
file (`logbook.cpp:179`): if it opens for writing, the old entries are gone. The model
has this fault (`ReadFails`), and `EntryLog` says what it costs (`StartOver`).

*Supervision.* Without a connection to the Brick Daemon no failure is counted and no
command executed (`sensor_tinkerforge.cpp:190`). A PTC Bricklet's unanswered
question for its probe reads as "no probe"; of the PTC 2.0 that is only logged
(`:1523`); `PersistentFailureEscalates` speaks of neither that one nor of the
Bricklets that are not named. Channels above 3 of the IO-4 2.0 and the Industrial
Digital In 4 2.0, above 15 of the IO-16 2.0 and above 8 of the GPS 2.0 and 3.0
return true without a measurement, and the gate stays open; a type that `poll()`
does not know falls through and is not counted, like one that is missing. Channels 8
to 15 of the IO-16 always read 0. The restart attempts are never reset by a success
(`logger.cpp:1059`): restarts that did help lead to a reboot all the same.

*Tinkerforge callbacks.* The IO-4 2.0, IO-16 and IO-16 2.0 register themselves,
not the sensor, as the user data that the handler casts to a sensor
(`tinkerforge_callback.cpp:134,183,232`). The interrupts of the IO-16 are enabled
for pins 0 to 3 only (`:186`). `_tinkerforgeCallback` is deleted before the
connection is tested and keeps its value, so that the next registration deletes
it again. A connection the daemon has closed leaves its callback thread behind.
A registration that has failed twice is not tried again before the next
enumeration. A periodic sensor on the UID of an event sensor takes the entry of
the device table, and with it the callback, until the next enumeration. Two
threads that meet in `reconnect()` can disconnect each other time after time;
`Registers` has a premise against it.

*Readings.* `json.cpp` looks up characters with `at()` beyond the end of some
texts and throws what nobody catches; brackets in strings are counted as
brackets, an empty string reads as 0, and a string of two escapes in a row is
misread; a sensor without keys never measures. An empty HomeMatic value is
recorded as 0. A retry within the buffer time is given the failure of the first
attempt.

### 3.2 Fairness

`BrickdSupervision`: `WF_vars(Next)`, since `main()` calls `trigger()` in an endless
loop and no step of a pass waits for another thread. `SF_vars(Attempt(i))`: a pass
finds a Bricklet due or not; it becomes due again and again, because its gate opens
after the rest period whatever the last poll did, and then is polled, as long as no
answer has ended the program. An attempt is enabled in every pass and not in
between, so that weak fairness would not do. No reply is assumed to be fair.
`PersistentFailureEscalates` therefore speaks of behaviours in which from some time
on a Bricklet's replies are all failures while the program runs, and needs
`MaxReadFailures` and the attempts to be reached in spite of the resets that other
Bricklets cause.

`MqttBroker`: weak fairness of the first connection, of each of the client's two
threads and of what the client does by itself (accepting or giving up an attempt,
noticing a broken link, also one that the broker has closed while it could not be
reached: its answer to the next ping or message says so). They are loops of threads
that wait for nothing but their own sleep. The network is not fair: `Recovers`
assumes that a broker stays reachable and nothing about how often it went before.

`TinkerforgeConnection`: weak fairness of the main loop's `reconnect()`, of each
callback thread, and of the answers to an enumeration. The daemon, the Bricklets'
resets and their time-outs are not fair; `Registers` assumes that the daemon stays
and that threads do not meet in `reconnect()` for ever, and allows a
registration that has failed.

## 4 The proofs

All theorems hold for every value of the constants that the modules' assumptions
allow: any number and kinds of sensors, any rest, retry and retention times, any
columns and cycle times, any limits, brokers, topics and files. The assumptions
exclude rest periods, retry times and cycle times of 0, require that the clock
starts later than the configured times (it counts from 1970), and for
`TinkerforgeConnection` that the main thread is none of the callback threads. Where
a property holds only in some configurations the theorem names them in its `ASSUME`;
they are given below, with what happens outside them. The configurations of the runs
satisfy them. Every invariant and action property of a passing run is stated by a
theorem; what the runs check beyond that is at the end of this section.

**`Sensor_proofs`** has the facts about the operators: a slot starts at or before
its time and less than a period before it, is a multiple of the period, and two
times at least a slot apart lie in different slots; what `AddValue` keeps; that
`clean()` keeps the newest; what `AddRawMeasurement` and `AddReadFailure` do to a
sensor that satisfies the invariant, and to its type. `Retains` says for each
recorded measurement that is not stored why it is not, and that a store is finite
and never above its limit. The point of the argument is a store that was full and
loses values to `clean()`: those that went before because it was full are older
still (`CleanRetains`). That a full store loses exactly one value rests on the
well-foundedness of the natural numbers (`HasOldest`, `OldestGoes`).

**`Acquisition_proofs`**: `TypeOK` (`TypeCorrect`), `SlotOnce`
(`OneMeasurementPerSlot`), `ReadingIsTaken` (`ReadingsAreTaken`), `FailuresCounted`
(`FailuresAreCounted`), `NewestRetained` (`NewestIsRetained`), `RetryInTime`
(`RetriesInTime`), `PublishedIsLatest` (`PublishedValueIsLatest`). None is inductive
alone. The inductive invariant `IInv` adds what relates a sensor to its recorded
measurements (`SensorOK`: the gate is at or past every recorded slot and never in
the future, everything stored was recorded, the newest recorded slot is stored until
it is too old), that the pass's clock reading is not later than the clock, and that
a polled sensor which the pass has not reached yet was last touched before the pass
began (`PassOK`): the code's time difference is absolute, and only then does it mean
that so much time has passed. One lemma per action; the actions that leave all
sensors alone share `QuietStep`, those that change one share `OneSensorStep`.
`PublishedIsLatest` has an invariant on top of it, `PInv`: a store that is not empty
holds the newest recorded value, and a value under way, on the main thread
(`OutgoingOK`) or on that of a broker (`MqttOK`), is the newest of its sensor if one
thread both records and publishes it (`OneThread`): the main thread a polled sensor,
the only broker that has brought messages (`fedBy`) an MQTT sensor.
`RetentionComplete` (`MeasurementsAreRetained`) has `Retains` for every sensor: each
step leaves a store alone, cleans it at a time at which no column may ask for more,
or records (`StoresStep`).

**`Logbook_proofs`** has, for all configurations, `TypeOK` (`TypeCorrect`),
`OneEntryPerCycle` (`EntriesAreOrdered`) and `CountsItsOwn` (`CyclesCountTheirOwn`).
The types need that the sum of the counts of any number of cycles is a number;
`Counts` is a fold, and what is said of it is proved by the least cycle at which it
would fail (`SumOfCounts`). The others have a condition each.

* `EventsCountedOnce` (`PolledEventsAreCountedOnce`) for a sensor fed by the main
  thread and columns of at least one cycle; the run `LostEvents` shows that the
  first condition is needed, `column.cpp:114` that the second is. The argument: an
  event comes only in phase `reading`, between entries; the number of recorded
  events is what was reported plus the current cycle, where "reported" includes the
  columns of the entry under way in the phases in which the counter has not started
  its new cycle yet; and when the first column starts the cycle the entry's slot is
  later than the current cycle's start, because the next entry is always scheduled
  beyond the clock. That last fact also gives the order of the entries.
* `KeepsLedger` (`LedgerIsKept`), the refinement, under the same conditions and with
  a column that counts over one cycle. A reading is `Event` of `EventLedger`, the
  evaluation of the column is `Entry`, and every other step leaves ledger and
  pending events alone: from then on until the first column starts the new cycle the
  refinement mapping takes the pending events for reported, though they are still in
  the counter.
* `NeverOvercounted` (`EventsAreNeverReportedTwice`), with either feeder, for
  columns of at least one cycle. Without a registration the current cycle has always
  begun before the next entry's slot, so that the entry does end it, and with it
  what was reported (`NoneTwice`).
* `MovingCountIsSum` (`MovingCountsAreSums`), polled, columns of at least one cycle:
  the counter keeps as many cycles as any column asks for (`Stores`), and the one
  before the current cycle is exactly what the last entry reported (`PreviousKept`);
  that the other columns ask for a new cycle of the same slot again moves neither.
* `ShortestGap` (`ShortestGapIsKept`), for every polled sensor, and for any other
  except between the reset of a registration and its end. `cycleCounter::count`
  starts from a last event at time 0 (`counter.cpp:21`), so the first distance of a
  counter is the time since 1970: the run must not last longer than the clock had
  run when it began. The invariant `Known` says of the current cycle that it knows
  its last event and the shortest gap so far, or none and that first distance.
* `WindowExact` (`WindowsAreExact`), polled, if the rest period divides the cycle
  time and the columns' periods, and a store holds a period of measurements. The
  invariant `Windows` relates the store, through `Retains` and `SensorOK`, to what
  was recorded, and the time for which the sensor keeps values to the longest
  column's period. Both conditions are needed, as TLC shows on `LogbookPolled` with
  other numbers: at a cycle of 5 and a rest period of 2 the entry for 15, written at
  16, evaluates the measurement of slot 16, since `column::getValue` sets no upper
  end to its period; with a store of one measurement it lacks the one before.

**`LogbookFile_proofs`**: `TypeOK` (`TypeCorrect`), `FileIsTail` (`TailIsKept`),
`IsTable` (`FileStaysATable`) and the refinement `KeepsTheLog`
(`FileImplementsTheLog`), for every limit and any crashes and failed writes; and
that a file that has just been written respects the limit, even if an earlier one
allowed more (`LimitIsRespected`, which the runs check as part of the refinement).
The invariant says that the file is a header and a table of entries (`FileOK`), that
what `write()` has read and trimmed are its newest entries (`MemoryOK`), or nothing
if the file could not be read (`Found`), that a file being written is the beginning
of header, these entries and the new one (`WritingOK`), that nothing of it has gone
to the file before it is opened (`FlushedOK`), and that nothing is missing unless
something went wrong (`Complete`). Under the mapping emptying the file is
`AddEntry`, or `StartOver` if it could not be read, since from then on the list is
what is in memory; the attempt to read is `TryToRead`; a failed write and a crash in
the middle of one are `LoseEnd`, a restart is `NewLimit`, and all other steps are
invisible. `Lines`, the entries of a file, is a recursive function; its facts
(`LinesAreRest`, `NewestRemain`, `ContentLines`) are proved once from its
definition, again by the least position at which they fail (`LeastNumber`).

**`BrickdSupervision_proofs`**: `TypeOK`, `CommandsAreJustified`
(`OnlyJustifiedCommands`), `RebootAfterRestarts` (`RebootsFollowRestarts`), for
Bricklets of any types and channels. The invariant: while the program runs, a
Bricklet this pass has still to poll is below the limit, the counted failures of
each Bricklet never exceed those since its last success or the last command, and the
attempts are the restarts since the last reboot.

**`TinkerforgeConnection_proofs`**: `TypeOK` (`TypeCorrect`), `RegistrationStands`
(`RegistrationsStand`) and `EdgesAreCounted` (`EdgesAreNotMissed`), for any sensors,
Bricklets, callback threads and queues. The invariant: what a thread in
`enumerateTFSensors()` works on (`WorkersOK`); the device table finds devices of the
right Bricklet (`TableOK`); a callback that was deleted while a connection is open
will be passed by the connection's thread once more (`DeletedComesBack`); a Bricklet
is registered, or has an answer to come, or a thread is at it, or it has failed
(`RegisteredOrDue`); and an edge that waits was received when nothing was under way
(`EdgesComeFirst`). `EdgesAreNotMissed` is about IO-4 Bricklets of which one pin
changes at a time. The run `SimultaneousEdges` shows that the latter is needed; the
handlers of the other types are not given their sensor
(`tinkerforge_callback.cpp:134,183,232`).

**`MqttBroker_proofs`**: `TypeOK` (`MqttTypeCorrect`), `NobodyGivesUp`
(`BrokersAreNotGivenUp`), `SessionComplete` (`SessionsAreComplete`),
`StatusTruthful` (`StatusIsTrue`), for any set of brokers. The invariant relates the
two threads that write `_isConnected` to the link: the sending thread is busy only
while it is down (`SenderOK`), a link that is up has been noted once `connected()`
is past its first line (`ReceiverOK`), whose loop has treated every sensor before
the one it is at (`LoopOK`). And the broker knows the program under one client ID
only (`SessionsOK`), so that accepting a session ends the one before, and no will is
left to come; a session that expires in spite of a link that is up leaves the broker
without any, and both `SessionComplete`, as to the topics, and `StatusTruthful` speak
of sessions the broker has.

**`Readout_proofs`**: `SameContentInPass` (`OneDocumentPerPass`), `FreshContent`
(`ContentIsFresh`), `AsksOnce` (`ServersAreAskedOnce`). The invariant `BufferInv`
adds that a content was not read before the pass that asked for it began
(`TimesOK`), that what this pass has given to a sensor is still in the buffer
(`SharedOK`), that nothing else reads a file while the main thread waits for it
(`WaitingOK`), and that every request but the one under way has been noted as a
reading, successful or not (`AskedOK`). They hold whatever the reader makes of the
contents. `TypeOK` (`TypeCorrect`) adds the types of the sensors, which the lemmas
of `Sensor_proofs` keep.

`TornGivesNothing` (`TornDocumentsGiveNothing`) is about the reader itself, for all
texts that are one object whose closing bracket, as `findCorrespondingBracket()`
finds it, is their last token (`OneObject`; white space after it is excluded because
a cut before it leaves the document whole, and a closing bracket within a string
because the code counts it). The functions of `Json` are recursive in the position;
that they exist is shown by extending a solution of their equations one position to
the left at a time (`SeekExtends`, `StripExtends`), and what they compute by
induction from the end of the text (`Backwards`). In a beginning of the text the
search finds the same bracket or none (`SeekInCut`), and the stripped text is a
proper beginning of the whole one or nothing (`StripInCut`); so the outermost
bracket is missing and `parse()` fails, or the text is white space and the program
ends before it gives anything to the sensor (`GivenWasRead`). An empty text has no
nodes, whatever the keys (`NothingAtKeys`).

`ReadsTheDocument` (`DocumentsAreRead`) is the other half: of a whole document every
sensor gets what the document says under its keys. What a document says is defined
without the reader, in `JsonDocument`: a document is its tokens, and for every
string, object and array the position where it ends and those where its members'
values begin; it says under a key what its first member of that name holds. The
theorem holds for all documents of this grammar, all texts that have white space
between their tokens, and all keys. The grammar leaves out what the reader does not
read: brackets within strings, which `findCorrespondingBracket()` counts, and a
document that is an array. The argument has four parts.

1. *Brackets.* A search that enters a string, an object or an array comes out
   behind it at the depth it had (`StringEnds`, `ContainerCloses`), by induction from
   the end of the document over the items of all objects and arrays (`ItemInduction`);
   hence the bracket found for an object or array is its own.
2. *Parsing.* `Members` satisfies the equation of its recursion (`ParseEquation`), so
   one member is parsed as a name, a colon and the value up to the next comma or
   bracket (`LeafEnds`, `ItemParsed`), and an object as the nodes of its items
   (`ItemsParsed`, `DocumentParsed`), by the same induction.
3. *Look-up.* `element()` finds in these nodes the first one of that name, or the one
   at that position (`KeyFound`), and along the keys the value the grammar names
   (`ReachEquation`, `ValueReached`).
4. *White space.* What `stripWhiteSpaces()` makes of a text is the document's tokens
   (`TextStripped`), since a space within a string stands between its quotation marks.

A document whose text ends in its last token also satisfies `OneObject`
(`DocumentIsOneObject`), so that both theorems are about the documents of the run.

Only model-checked:

* `PersistentFailureEscalates`, `Recovers` and `Registers`: liveness, whose proof
  needs fairness and `ENABLED`.
* what the runs with an expected violation show.

## 5 Not modelled

* The statistics of `measurements.cpp` (mean, median, deviations, confidence)
  and the frequencies of `counter.cpp`: functions of their arguments over
  floating-point numbers. Which measurements and counts they are computed from is
  modelled.
* Which of a Bricklet's values a channel stands for, factor and offset; the text
  of error codes and device types.
* Of `json.cpp`: printing, setters, units of durations. Of `loadConfig()`: what
  reads a value into a field once, before any other thread runs.
* `message()`, `executeSystemCommand()`, `homematic::publish()`: output without
  state.
* The 112 generated files of Bricks and Bricklets in `tinkerforge/`, which are
  most of the repository's lines (about 92,000 of 100,000): each function packs
  its arguments, sends one packet and unpacks the answer. The models have what is
  visible of that, an answer or none. Of `ip_connection.cpp`: sending, receiving
  and waking up threads below the level of packets, authentication.
* Data races within one call of a shared object: an action is one whole call.
* A system clock that is set back: a store would no longer be a set of
  timestamps.

What could follow: documents with brackets in strings, for which the reader would
have to skip strings while it searches; the statistics as functions over integers.

## 6 Running

    tlc -workers 2 -config AcquisitionPolled.cfg MCAcquisition
    tlapm Acquisition_proofs.tla
    tlapm Logbook_proofs.tla

`PROJECT.json` lists the module and configuration of every run, the lines every
definition translates, and for every property a mutant of the model that it
catches.
