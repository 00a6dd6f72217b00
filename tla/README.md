# Verification of the wifi_applications repository

TLA+ models of the programs in this repository, TLC runs that check them on small
instances, and proofs of their central properties for every value of the constants
(TLAPS 1.4.5). File and line numbers refer to `src/`; firmware file names are shortened
(`sensor.c` is `wifi_asset_tracking/src/sl_wifi_asset_tracking_sensor.c`, and so on).

| module | what it is |
|---|---|
| `TelemetryPipeline` | sensor, JSON, Wi-Fi and Azure tasks, the two queues between them |
| `LossyFifo` | what the pipeline promises: a channel that keeps the order of its values and may lose them |
| `TelemetryPipelineProofs` | theorems about `TelemetryPipeline` |
| `RecoveryTask` | recovery task, status structure, reports, sensor timers |
| `RecoveryTaskProofs` | theorems about `RecoveryTask` |
| `SensorBus` | the sensor tasks transfer by transfer: I2C bus, timers, GNSS retries |
| `SensorBusProofs` | theorems about `SensorBus` and about the messages of `Readings` |
| `JsonWriter`, `JsonMessages` | the JSON writer call by call, the messages as calls of it |
| `JsonGrammar` | what the writer promises: the grammar of JSON, as a reference |
| `JsonProofs` | theorems about `JsonWriter` and `JsonMessages` |
| `Readings` | sensors, converter and writer composed |
| `WifiSchedule` | when the Wi-Fi task sends its packets and how long it sleeps |
| `WifiConnection` | how the Wi-Fi task connects and sets the clock |
| `CloudConnection` | how a task connects to the IoT hub |
| `Connectivity` | Wi-Fi, Azure and recovery task composed over these |
| `ConnectivityProofs` | theorems about `WifiSchedule` and `Connectivity` |
| `Sessions` | login, logout and expiry in the dashboard's backend |
| `DeviceMonitor` | event handler and cron job of the backend, composed with `Sessions` |
| `BackendProofs` | theorems about `DeviceMonitor` |
| `SntpClient`, `WeatherUpdate` | the weather display's time client; its data update with HTTP and SNTP |
| `WeatherProofs` | theorems about `WeatherUpdate` |
| `Calendar`, `CalendarProofs` | local time; the day of the week in both firmwares, against the Gregorian calendar |
| `MC...` | symmetry sets, constants and bounds for TLC |

## 1. The system

Three programs live in the repository.

**A. Asset tracking firmware** (C, FreeRTOS on one core, `wifi_asset_tracking/src`, `inc`).

| component | state | operations | talks to |
|---|---|---|---|
| sensor tasks (temperature/RH, IMU, GNSS; priority 1) | local reading, probe status, retry count | probe, read, queue a reading | sensor queue; resume JSON and recovery |
| I2C semaphore and sensor timers | binary semaphore, one-shot timers | take, give, expire | the timer callback gives the semaphore and changes the probe status |
| JSON task (2) | local reading | convert, send | both queues; resumes Azure |
| Wi-Fi task (1) | packets due, schedule, frame status | connect once, frame keep-alive and Wi-Fi packets, report an outage | MQTT queue; resumes sensors, Azure, recovery |
| Azure task (3) | local package | connect, receive, publish, report | MQTT queue; resumes recovery |
| recovery task (4) | none of its own; the status structure | give up or recreate sensors, reconnect Wi-Fi and cloud, stop | deletes and creates tasks |
| LCD task (4) | queue of 5 messages | print | every task sends to it |
| Wi-Fi/SNTP/RTC, TLS/IoT hub | interface, clock, socket | connect, retry, disconnect | called by the tasks above |
| start and stop | tasks, queues, mutexes, timers | create, delete | everything |

The tasks share two queues, each guarded by a mutex for writing and receiving but read for
their length without it; they suspend themselves when they have nothing to do and are
resumed by `if (eSuspended == eTaskGetState(t)) vTaskResume(t)`; and they share the status
structure, which nothing guards (only `recovery_progress_status` has a mutex).

**B. Dashboard** (NestJS backend, React frontend, `wifi_asset_tracking/dashboard`): an Event
Hub subscriber, a cron of one second, sessions and database documents shared by both.

**C. Weather display** (C, CMSIS-RTOS, `wifi_weather_display`): a timer sets an event flag,
a thread fetches weather, air quality and time, a second one draws.

What is hard in them, line by line, is the list "hazards" of `PROJECT.json`. In short:
test-then-suspend in two steps; queue lengths and statuses read before blocking calls and
used after them; results of `xQueueReceive` ignored; eviction from full queues by several
writers; reports swallowed while the recovery task is busy; timers that fire while the
transfer still runs; deletion of a task that owns something; retry counters; in the
backend, cron and event handler interleaving at every `await`; in the weather display, late
answers and hand-written date arithmetic.

Properties that make each component correct:

* pipeline: readings are published in order and at most once; no task is left asleep over
  work; nobody owns a mutex for ever; every reading keeps its type; a backlog is published.
* recovery: a task exists exactly as long as its sensor is not given up; every failure that
  is noticed is repaired or given up; no outage is forgotten; the recovery task comes to rest.
* Wi-Fi schedule: the delay is the distance to the next packet; neither schedule runs away.
* sensor bus: one transfer at a time; a deleted task leaves nothing taken.
* JSON: every message is one JSON text within its buffer, and is not given up for its length.
* Wi-Fi and Azure connection: success means connected; no socket is left open.
* device monitor: a disconnect is announced once; what is stored belongs to its session.
* sessions: at most one active session.
* weather: values shown come from one complete answer, the clock is set to local time; date
  functions agree with the calendar.

Where the code does not have one of these in general, the property of the model says when it
does, and a hazard of `PROJECT.json` says what happens otherwise.

## 2. Plan

In the order of importance; all but 6 is done.

1. `TelemetryPipeline` with its abstract channel `LossyFifo`, and `TelemetryPipelineProofs`.
2. `RecoveryTask` with `RecoveryTaskProofs`.
3. `WifiSchedule`: the schedule arithmetic of the Wi-Fi task.
4. `SensorBus` with `SensorBusProofs`, and `JsonWriter` with `JsonMessages` and `JsonProofs`,
   composed in `Readings`.
5. `CloudConnection` and `WifiConnection`, composed with `WifiSchedule` in `Connectivity`,
   with `ConnectivityProofs`.
6. The order of deletion at shutdown and the LCD queue: see section 11.
7. `Sessions` and `DeviceMonitor` with `BackendProofs`; `WeatherUpdate` with `SntpClient`
   and `WeatherProofs`;
   `Calendar` with `CalendarProofs`.

Every invariant and action property that a run checks is proved, and so is the refinement of
`LossyFifo`.

## 3. TelemetryPipeline

**State.** `pc` (where each task is), `holder` (owner of each queue mutex), the two queues,
the tasks' local records `reading`, `converting`, `publishing`, the Wi-Fi task's `todo` and
`framedOk` (`ka_status`, `wifi_status`), `online`, and a history variable `published`. A
reading is the pair of the sensor it was taken from and its `sensor_type`; payloads,
time stamps and JSON text are left out. The local records keep what they hold until the next
receive, as in the code: a receive from an empty queue would convert or publish it again.

**Steps.** One action is the code of one task between two points where another task can be
observed to run. Testing a queue's length and `vTaskSuspend` are two actions, and so are
sending, evicting, sending again, giving the mutex and resuming the next task. The section
of the JSON task's last mutex is one action, since whoever preempts it can only read the
queue's length or wait. The functions differ per sensor only in reading and formatting, so
there is one `SensorStep(s)`; line numbers in the map are those of the temperature task.

**Scheduling.** `MayRun(t)` is fixed-priority preemption on one core: a task runs when it
does not wait for a mutex and no ready task has a higher effective priority. The effective
priority includes inheritance (`Donors`), since the queue mutexes are made by
`xSemaphoreCreateMutex`. Equal priorities interleave at every step (time slicing). Delays
and network calls end at any time. FreeRTOS is not in the repository; this part of the
model is external, from the calls the code makes.

**Network.** `online` changes at any time. Who reports and repairs an outage is the
subject of `RecoveryTask`.

**What it promises.** `LossyFifo` is a channel whose values are sent at one end, may be lost
anywhere, and are delivered in order and once. Packets of the Wi-Fi task travel between the
readings and get into the channel anywhere (`Disturb`), as a packet is put into the MQTT queue
while newer readings still wait behind; they are noise, of which nothing is promised. Readings are
not: one that is converted or published again because a queue was empty is one that nobody sent.
The refinement maps the channel to what the Azure task holds, the MQTT queue, the reading
of the JSON task and the sensor queue, in that order (`InFlight`).

Runs (all on `MCTelemetryPipeline`):

| cfg | instance | checks | distinct states |
|---|---|---|---|
| `PipelineSensors` | 2 sensors, queues 2 and 3, the Wi-Fi packet only, symmetry | `TypeOK`, `NoLostJsonWakeup`, `JsonReceivesReading`, `OneReadingPerSensor`, `NoSensorOverflow`, `ReadingsKeepTheirSource`, `HolderIsActive`, refinement `ReadingsPublishedInOrder` | 2.89 M |
| `PipelineOverflow` | 2 sensors, queues 1 and 1, the Wi-Fi packet only, symmetry | `NoLostJsonWakeup`, `JsonReceivesReading` | 1.28 M |
| `PipelineLiveness` | 1 sensor, queues 1 and 2, fairness | `NoLostAzureWakeup`, `AzureReceivesPackage`, `SensorQueueDrains`, `BacklogIsPublished` | 0.23 M |
| `PipelineFullQueueComment` | 1 sensor, queues 1 and 2 | `FullMqttQueueIsReleased`, violated | |

The bounds. What matters about the sensor queue is whether it has a place for every sensor task
(shipped: 3 tasks, 10 places) or not; both cases are run, with two tasks that can interfere. The
MQTT queue is full, and evicted from, in all of them. `JsonRelease` needs as many readings as the
MQTT queue has places: never with the shipped sizes (10 against 20), possible in
`PipelineOverflow`, impossible in the others. That is why `AzureReceivesPackage` and
`ReadingsPublishedInOrder` are checked there: if JSON could release packages, the Azure task could
meet an empty queue and publish the package it still holds a second time. `Rounds` says which
packets may fall due together; the runs with two sensors have one packet per round to keep the
number of states down, `PipelineLiveness` every combination.

Two sensor tasks are enough for TLC because they are symmetric and the first theorem below
covers any number of them.

Fairness. The sensor, JSON and Wi-Fi tasks are strongly fair: they are preempted again and
again, but every blocking call of a higher task has a timeout and the network is slow
compared with the CPU, so each gets the CPU in the end. The Azure task, highest of the
four, is weakly fair. `SF(WifiFrame)` says that the real-time clock can be read now and
then. `NetworkChanges` is not fair: an outage may last for ever.

Findings. `FullMqttQueueIsReleased`: the comment of json_data_handler.c:777 speaks of the MQTT
queue, the code looks at the sensor queue; during an outage the newest readings are dropped
silently while keep-alive packets push out old ones. The branch for a full sensor queue
(sensor.c:374) sends back the oldest reading instead of the latest and loses the type of
the task's later readings; `SensorQueueNeverFull` proves that it cannot be entered with the
shipped sizes.

## 4. RecoveryTask

**State.** `pc`, the I2C semaphore, probe status and retry count of each sensor, Wi-Fi and
cloud status, and `progress` (`recovery_progress_status`). `look` is how far the recovery task
has come in a round of its loop. `overlooked` is history: a failing sensor was reported while
the recovery task was awake, so that its resumption had no effect. Queues and packets are left out:
whether the Azure task finds a package is a choice.

**Steps.** As above. The recovery task (4) outranks the Azure task (3), which outranks the
others (1 and 2). In its loop the recovery task looks at one sensor after the other and then at the
network, and suspends itself; each of these is a step (`StartsLooking`, `LooksOn`, `GiveUp`,
`Recreate`, ..., `NothingToDo`, `RecoverySleeps`), because the timer service task, whose
priority is set outside this repository, may run between any two of them. The other tasks run
only when it sleeps or blocks in the network (`rssi`, `retryWifi`, `retryCloud`). A sensor
timer expires at any time while its transfer runs, and the transfer may return afterwards
(`probingLate`, `readingLate`); its callback finds the recovery task suspended and resumes it, or
finds it awake and does nothing more (`TimerExpires`). A transfer is one
step from taking the semaphore to starting the timer, and one from stopping it to giving; those
two are taken apart in `SensorBus`. Connecting and retrying are choices of their outcomes.
`StopApplication` ends every task, so the model stops there and the runs say
`CHECK_DEADLOCK FALSE`.

Runs (all on `MCRecoveryTask`):

| cfg | instance | checks | distinct states |
|---|---|---|---|
| `Recovery` | 2 sensors, 2 retries, fairness | `TypeOK`, `GivenUpMeansDeleted`, `CloudOutageHandled`, `FailuresNotOverslept`, `RecoveryComesToRest`, `SensorFailuresServed` | 0.98 M |
| `RecoverySuspendComment` | 1 sensor, 3 retries | `SuspendsWithNothingToDo`, violated | |
| `RecoveryStartupComment` | 1 sensor, 3 retries | `SuspendedOnlyWithoutWifi`, violated | |
| `RecoveryShutdownComment` | 1 sensor, 3 retries | `SamplesOnlyWithWifi`, violated | |

Two sensors show one failing while another is served or given up, or looked at, or while the
recovery task falls asleep, and a recovery task whose retries run out with 2 as with 3; the
recovery loop treats the sensors by the same text in a fixed order.

Fairness. The recovery task, the highest, and the Azure task are weakly fair, their blocking
calls time out. A sensor task that is about to resume recovery is strongly fair
(`SensorResumesRecovery`), as the CPU is free again and again; its other steps, timers, Wi-Fi
rounds and outages are not fair.

What it shows. The timer's callback that finds the recovery task awake leaves the failure to
a task that may have passed that sensor, or be about to suspend itself: nobody then serves it
until something else wakes the recovery task. `FailuresNotOverslept` says that this is the only
way in which the recovery task sleeps over a failing sensor, and `SensorFailuresServed`
that without it every failed sensor is reconnected or given up.

Findings. The recovery task serves the first sensor in trouble and suspends itself without
a look at the rest (app.c:434 against the comment at 729): an outage noticed in the
meantime, or whose report woke it, is left unserved, and `SL_RECOVERY_INPROGRESS` may stay
set. At the start, a sensor task that has seen Wi-Fi not connected may suspend itself after the
only resumption it gets (sensor.c:307-311 against wifi_handler.c:131-151): the property looks at
the state past that resumption, with Wi-Fi connected and the sensor's probing successful. And
when connecting Wi-Fi fails for good before a sensor was probed, the recovery task suspends
itself instead of stopping the application (app.c:334-347), the Wi-Fi task goes on past the
comment that it comes there only if connected (wifi_handler.c:131), and the sensors are sampled
with no connection and a clock that was never set.

## 5. From the sensors to the text of a message: SensorBus, JsonWriter, Readings

`RecoveryTask` has a sensor task in a few steps and one transfer. `SensorBus` has all its
transfers, each in four steps: take the semaphore (`TakeBus`), start the timer and the
transfer (`StartTimer`), return and stop the timer (`TransferReturns`), give the semaphore
and go on (`GiveBus`). The recovery task can delete a task between any two of them.

**State.** `at` and `stage` say where a task is and in which transfer; `busFree` is the binary
semaphore `i2c_mutex_handler`, `timer` the one-shot timers, `queueMutex` the mutex of the sensor
queue (`"lost"` when its owner was deleted), `handed` the reading in that queue, which the JSON
task takes before any sensor task goes on. The GNSS task has its two counters, `fixRetry` and
`dataRetry`. `asked`, `overrun` and `ranOn` are history.

**Steps.** A probe is two transfers under one hold of the semaphore, each with the timer started
and stopped; an IMU reading takes it twice, a GNSS reading as often as its two retry loops make
it. A timer may expire during the transfer and the transfer return all the same; or its task may
be deleted, while it transfers or at any other step. The recovery task is here what it does to the
sensor tasks (`DeleteTask`, `RecreateTask`) and runs before them; while it is away in the network
they go on.

**The writer.** `JsonWriter` has one operator per call of the API: it takes the record of the
writer (bytes written, pending comma, last token, stack of containers) and returns it, or
`Fails`. Strings are a length and a number of bytes that escaping adds. `CallValid` is the
writer's own rules, which only a debug build checks. `WriterAssumption` asks for chunks of two
bytes: with one there would be no room for what follows a long name, its quote and its
colon. `text` is not in the code: each call also
feeds its tokens to `JsonGrammar`, so that the writer's bookkeeping is compared with the grammar
instead of with itself. `JsonMessages` has the six converters as sequences of calls; the
first that fails ends the message (`MakeCall`, `Write`). `MessagesAssumption` says that the
room the writer asks for a number is enough for the numbers of the messages.

**Composition.** `Readings` is `SensorBus` with what the JSON task makes of the reading in the
queue and with the messages the other tasks frame whenever they like: `ToFrame` are the messages
that may be framed in a state, `Framings` what their calls come to. Each message is framed by a
writer of its own, so framing changes no state and is no action.

| cfg | instance | checks | distinct states |
|---|---|---|---|
| `Readings` | 3 sensors, 2 retries each, buffer and limits as shipped | `TypeOK`, `BusExclusive`, `LocksNotLost`, `MessagesAreJson`, `GivenUpOnlyForLongName`, `NoDiscardWithoutTry` | 4.97 M |

All three tasks are there, since they differ. Two retries show a retry that is used and one
that is the last. The sizes of the writer are those of the code (buffer 200, chunk 64); values
are taken at their shortest and their longest, network names at the writer's boundary between
short and long strings (10, 11) and at the longest, 32 characters, with as many to escape as
fit (3), one more, and all of them as six bytes each.

What it shows. Two tasks are on the bus at once only after a timer has expired since it was
last idle: the semaphore given twice does no harm beyond that (`BusExclusive`). A task deleted
in a transfer leaves the semaphore taken, but its timer still runs and gives it. A task that
runs on after its timer has expired, because the recovery task is away in the network, is deleted
when that comes back, wherever it is: having taken the semaphore without having started the timer,
or having stopped the timer without having given the semaphore, it takes the bus with it for ever,
and in the hand-over the mutex of the sensor queue. `LocksNotLost` says that nothing but
a task that ran on can lose them. `retry_count` is not reset when a reading succeeds, so later
readings have fewer tries; still each has one (`NoDiscardWithoutTry`). Every message that is queued
is one JSON text within its buffer (`MessagesAreJson`). One that does not fit is given up silently:
that happens to the Wi-Fi message of a network whose name takes more than 35 bytes when
escaped, every time, and to no other message (`GivenUpOnlyForLongName`).

## 6. The network: WifiSchedule, WifiConnection, CloudConnection, Connectivity

`WifiSchedule` is the loop of `sl_capture_wifi_data_task` without its packets. `lastKa`,
`lastWifi`, `due` and `taskDelay` are the variables of the code; `Now`, the later of the two times,
is the schedule's own clock, since it moves by the delay of each round. `BothNext`, `KaNext` and
`WifiNext` are the three branches of the case analysis, `Remaining` the correction for the time a
round took.

`WifiConnection` is what comes before that loop: network processor, interface, profile, SNTP,
with the retries of `sl_retry_wifi_connection(true)`. `TryFails` has the variable the retry loop
decides by: after a failing clock it is still the success of `sl_net_get_profile`. `SntpOutcomes`
are the ways in which network time, default date and RTC can succeed or fail.

`CloudConnection` is one task's way to the hub, one action per blocking call: certificates and
DNS, socket, TLS, hub, and the disconnection before each retry. It is parameterised by the task,
because the Azure task and the recovery task run it over the same `client_socket_id` and
hub client without a lock.

`Connectivity` composes them with the status structure, `recovery_progress_status` and the two
tasks' own code. Wi-Fi and the recovery task's sensors are reduced to what they make it do;
the data loop of the Azure task, the subject of `TelemetryPipeline`, to publishing and its
failures. Where `RecoveryTask` has a reconnection as one step that succeeds, here it may fail
at every call. `StopApplication` disconnects and `StopEnds` ends everything.

| cfg | instance | checks | distinct states |
|---|---|---|---|
| `WifiSchedule` | intervals 2 and 3, offset 3/2, rounds up to 3, horizon 6, 2 retries each, 2 sockets | `TypeOK`, `SchedulesArePeriodic`, `DelayReachesNextPacket`, `WifiUpWhenConnected`, `SocketsNotLeaked`, `ConnectedHasSession`, `AzureTaskServes` | 2.75 M |

As in the shipped configuration (10 s, and 60 to 600 s) the keep-alive interval is the shorter
one; unlike with 10 s and 60 s it does not divide the other, so that the Wi-Fi packet comes
alone, between two keep-alive packets, and together with one. The arms for a shorter Wi-Fi
interval, which the limits in demo_config.h exclude, are covered by the proofs. Rounds may be
longer than the delay and than twice the delay, so that every case of `Remaining` occurs. The
delay is bounded by 3: it grows by the offset in each round without Wi-Fi, which nothing in the code
stops. Two retries show a try after a failed one and the last one; two sockets, one for each of
the tasks that connect, and socket 0 is the number `client_socket_id` has before there is one.

What it shows. When Wi-Fi counts as connected the interface is up and the clock set, except
after a failing clock in the last try, which is reported as a success with the interface down
(wifi_handler.c:845). No socket is left open and a cloud status CONNECTED means a session on an open
socket, although error paths close sockets whose number they keep, as long as Wi-Fi is not
reported lost before the Azure task has connected (`lostEarly`). In that case both tasks connect at
once and one socket is lost; or the recovery task connects in the Azure task's place, which
then finds the status CONNECTED, suspends itself in its first loop and never publishes
(azure_handler.c:64-97). That nothing else brings this about is `AzureTaskServes`.

## 7. The dashboard's backend: Sessions, DeviceMonitor

Node runs one callback at a time, and other requests, the cron job and the event handler at
every `await`: one action is one database operation with the code up to the next.

**State.** The collections: `sessions`, `telemetry`, `keepAlive` and `stamps` (the status and the
time stamps of device and sensors). `login`, `logout`, `handler`, `run` and `reset` say where each
activity is. Time is counted in sessions created (`created`, `era`, `born`); that a device or sensor
has been silent for too long is `late`. `announced` and `overlapped` are history, and so are
`checked` and `stored` in a reading.

An upsert is one operation that leaves one document; MongoDB promises that for documents it finds,
not for two upserts at once into an empty collection without a unique index, which can
leave two. The model does not have that.

**Steps.** `CheckActiveSession`, `DeleteSession`, `CreateSession`, `ClearTelemetry` are the four
operations of a login. `Receive` is the check of a message against the session, after which the
handler works through its documents; the subscription calls it for one batch at a time. The cron
job starts every second whether or not its last run has ended, so there are several (`Runs`), and
the reset it starts without an active session is not awaited and goes on beside them. Any activity
may end half way by a database error or a restart (`LoginCut`, `LogoutCut`, `HandlerCut`,
`CronCut`, `ResetCut`). A run of the cron job emits an event before it writes the status that
keeps the next one from emitting it (iot-connection.service.ts:439, 117). A run that ends
between the two leaves the status true, and the next run announces again, any number of times:
`announced` counts the announcements since the status was last set, less those of such runs. A
logout needs no session. Sessions expire at any time. The four sensors are handled by the same text; one
stands for all.

| cfg | instance | checks | distinct states |
|---|---|---|---|
| `Backend` | 2 logins, 2 cron runs, 2 sessions, 1 stored reading, 2 operations under way, any number of runs cut short, symmetry | `TypeOK`, `OneSession`, `TelemetryOfSession`, `AnnouncedOnce` | 4.94 M |

Two operations under way at once show every race of two activities; the proofs (section 10) have
no such bound. One stored reading is enough, since the property speaks of each by itself. Two
sessions are the one a reading was published in and the next.

What it shows. There is one session unless two logins overlap between check and save. What is
stored was published in the session that shows it, but for two cases: the login has not deleted
the old data (yet, or ever, when it is cut short), or the handler found an earlier session and
stored its reading after the new one was created. A disconnection is announced at most once per
overlapping run, and once more for each run that failed after announcing it: nothing bounds how
many of these there are. That an announcement is true when it is made does not hold, nor that the
cron deletes no reading of a new session; see the hazards.

## 8. The weather display: WeatherUpdate, SntpClient

All threads have one priority and are sliced by the timer, so every action can be followed
by one of another thread.

**State.** `at` is where the updating thread is; `appBuffer` what is at each of the places of
`app_buffer`, which HTTP and SNTP share: pieces of answers, or a date, each marked with the
request or update it is from. So are `weather`, `aqi`, `datetime` and `calendar`, which makes "the
value shown is from this answer" a statement about the state. `rspReceived`, `bufferIndex` and
`callbackEvent` are the flags and the index the callbacks write and the thread reads.

`datetime` and `calendar` have the fields of the date that the conversion changes: month, hour and
minute. `Dates` are the dates the network may give.

**Steps.** An answer comes in pieces, at any time, also after its request was given up (`Piece`);
it may fail (`FailedPiece`) or be dropped. A wait for SNTP ends by the event of its kind or by its
timeout, after which the event may still come. `ParseDate` converts the date as `parse_datetime`
does (section 9), `SetCalendar` may fail, which the code only prints. `ShowClock` is the drawing
thread reading the calendar into the `datetime_config` it shares with the update.

| cfg | instance | checks | distinct states |
|---|---|---|---|
| `Weather` (on `MCWeather`) | 2 updates, 1 fault, answers of 2 pieces, a buffer of 3 places, 4 dates, UTC+5:30 | `TypeOK`, `ShowsOwnAnswer`, `ClockFromNetwork` | 5.92 M |

Two updates of two requests each show an answer served to the next request of the same and of
the other kind; answers of two pieces show a half one, and a buffer of three places a piece that
does not fit after a half one. The four dates are converted with a carry of the minutes, in August,
with local time on the next day, and with minutes that come to 60. One fault
is enough, since what is shown is promised only up to the first; a failure to set the calendar is not
counted among the faults.

What it shows. As long as nothing failed, what is shown comes from the whole of its own answer,
and the calendar, when it can be set, is set from the date SNTP gave unless the drawing thread
read the calendar in between. It is set to local time exactly when the date is `Convertible`: not
in August, and neither hours nor minutes carried out of the day, below zero, or to 60. With the
shipped offsets of zero only August is left of these. Each exception is needed: one failed answer
is enough for later answers to be taken for each other, because `http_response_status` does not
reset a failure and the callback does not reset the index. `TypeOK` bounds how far the index can
run on.

## 9. Calendar

Zeller's congruence of sl_wd_ntp.c, with its eight-bit fields, and the table of wifi_handler.c,
as operators beside the Gregorian calendar as a count of days: the theorems of section 10
cover every date. `LocalHour`, `LocalMinute` and `convertMonthToEnum` are the conversion of
`parse_datetime` in its eight-bit fields; the run `Weather` uses them, and the theorem
`ClockSetFromNetwork` is about every date and time zone.

## 10. Proofs

`tlapm` proves every obligation of the eight modules of proofs. The theorems about the pipeline
are about `Spec` (no fairness) with `Sensors`, `SensorCap` and `MqttCap` arbitrary, from
`PipelineAssumption` (sensors exist and are not called like other tasks; queues have a place).
Those marked * also assume `RoomForEverySensor`: finitely many sensor tasks, at most `SensorCap`
(3 and 10). Those marked + assume `SensorQueueIsSmaller`: `SensorCap < MqttCap` (10 and 20).

| theorem | states |
|---|---|
| `TypeCorrect` | `[]TypeOK` |
| `MutexHoldersActive` | `[]HolderIsActive` |
| `OneReading` * | `[]OneReadingPerSensor` |
| `SensorQueueNeverFull` * | `[]NoSensorOverflow` |
| `JsonWakesUp` | `[]NoLostJsonWakeup` |
| `JsonAlwaysReceives` | `[]JsonReceivesReading` |
| `ReadingsKeepSource` * | `[]ReadingsKeepTheirSource` |
| `PublishedInOrder` + | `ReadingsPublishedInOrder`: the pipeline implements `LossyFifo` |
| `AzureWakesUp` | `[]NoLostAzureWakeup` |
| `AzureAlwaysReceives` + | `[]AzureReceivesPackage` |

About `WifiSchedule`, for arbitrary positive intervals and offset, rounds of any length and
outages at any time (`ScheduleAssumption`):

| theorem | states |
|---|---|
| `ScheduleTypes` | `[]TypeOK` |
| `BothSchedulesPeriodic` | `[]SchedulesArePeriodic` |
| `DelaysReachNextPacket` | `DelayReachesNextPacket` |

About the JSON writer and the messages, for any sizes (`WriterAssumption`, `MessagesAssumption`);
`FirmwareSizes` are those of the firmware or more generous ones: a buffer of at least 200
bytes, chunks of at most 64, numbers of at most 11 and 33, containers nested three deep. Network
names may have any length:

| theorem | states |
|---|---|
| `WriterFollowsGrammar` | after any calls that keep the rules and succeed, the text is the beginning of a JSON text and within the buffer |
| `MessagesWellFramed` | each message is one JSON text or is given up; with `FirmwareSizes` only a Wi-Fi message is, whose network's name is longer than 35 bytes when escaped |

About `SensorBus`, for arbitrary positive numbers of retries (`BusAssumption`):

| theorem | states |
|---|---|
| `TypesCorrect` | `[]TypeOK` |
| `BusIsExclusive` | `[]BusExclusive` |
| `LocksLostOnlyAfterRunningOn` | `[]LocksNotLost` |
| `DiscardsOnlyAfterTry` | `NoDiscardWithoutTry` |
| `AlwaysJson` | `[]MessagesAreJson`, of `Readings` |
| `OthersNeverGivenUp` | with `FirmwareSizes`, `[]GivenUpOnlyForLongName`, of `Readings` |

About `RecoveryTask`, for any sensors in any order and any number of retries
(`RecoveryAssumption`):

| theorem | states |
|---|---|
| `TypesCorrect` | `[]TypeOK` |
| `DeletedWhenGivenUp` | `[]GivenUpMeansDeleted` |
| `NoFailureOverslept` | `[]FailuresNotOverslept` |
| `OutagesHandled` | `[]CloudOutageHandled` |

About `Connectivity`, for arbitrary positive intervals and numbers of retries and any set of
sockets (`ScheduleAssumption`, `WifiAssumption`, `CloudAssumption`); here `NetworkSpec`, which has
none of the bounds of the run:

| theorem | states |
|---|---|
| `WifiIsUp` | `[]WifiUpWhenConnected` |
| `NoSocketLeaks` | `[]SocketsNotLeaked` |
| `ConnectedIsReal` | `[]ConnectedHasSession` |
| `AzureServesItself` | `[]AzureTaskServes` |
| `NetworkKeepsSchedule` | `[](TypeOK /\ SchedulesArePeriodic)` and `DelayReachesNextPacket`, in the composition |
| `NetworkImplementsSchedule` | `NetworkSpec => Schedule!Spec`: a refinement of `WifiSchedule` |

About `DeviceMonitor`, for any number of logins and cron runs (finitely many), sessions and
stored readings (`SessionsAssumption`, `MonitorAssumption`):

| theorem | states |
|---|---|
| `BackendTypes` | `[]TypeOK` |
| `AtMostOneSession` | `[]OneSession` |
| `StoredTelemetryIsOfSession` | `[]TelemetryOfSession` |
| `DisconnectionAnnouncedOnce` | `[]AnnouncedOnce` |

About `WeatherUpdate`, for any number of updates, faults and pieces of an answer that fits into
the buffer (`WeatherAssumption`):

| theorem | states |
|---|---|
| `WeatherTypes` | `[]TypeOK` |
| `OwnAnswerShown` | `[]ShowsOwnAnswer` |
| `ClockSetFromNetwork` | `[]ClockFromNetwork`, for any dates and offsets of less than a day and an hour |

About `Calendar`, without assumptions:

| theorem | states |
|---|---|
| `TrackerDayIsRight` | `sl_get_day_of_week` is right on every date of every year |
| `WeatherDayIsRight` | `calculateDayOfWeek` as `parse_datetime` calls it is right on every date from 2001 to 2099, except in August |
| `AugustDayIsWrong` | on every day of August of these years it is wrong |

*Schedules.* `TypeOK` and `SchedulesArePeriodic` are inductive together: a difference such as
`NextKa - lastWifi` is a natural number only because neither schedule is an interval behind.

*Types and mutexes.* `TypeOK` is not inductive: after an eviction the record is sent without
a test, so the queue bound needs the fact that the evicting task owns the mutex and the place
it made is still there. `TypeInv` adds `MutexInv` (a task is inside a section exactly when it
owns the mutex) and `RoomInv`.

*The JSON task.* `WakeInv` holds whatever the numbers and sizes: JSON suspends itself over an
empty queue only, because a sensor task runs only while JSON is suspended or waits for the
mutex; whoever queues a reading then is still to resume it; and the reading JSON has seen is
there when it owns the mutex, because a task that evicts the only one puts it back under that
mutex.

*One reading per sensor.* The heart is a scheduling fact, `JsonWaits`: a sensor task runs
only while JSON is suspended on an empty queue or waits for the sensor mutex. It holds
because JSON outranks the sensor tasks, because the only other thing JSON waits for is the
MQTT mutex, and because who owns that inherits JSON's priority and never sleeps
(`JsonFirst`, `SensorDonors`). `OneInv` then says why JSON may be asleep (`WakeupInv`: whoever
has queued something is still to resume it) and that a task whose reading waits is not about
to send (`SourceInv`). A task that takes the mutex therefore has nothing waiting
(`NothingWaiting`), and with a place for each task there is room (`RoomLeft`, by counting the
sources of the waiting readings).

*Types of readings.* Nothing but the eviction branch writes `sensor_type`, and `OneInv` rules
that branch out.

*Order.* In the refinement each step of the pipeline is one step of the channel or a stutter. A
sensor task sends at the end, JSON and Azure move a reading between places that are next to
each other, an eviction and a release lose one, and a packet is put in at the end of the MQTT
queue, before what waits behind. That the Azure and the JSON task never receive from an empty queue
(`AzureAlwaysReceives`, `JsonAlwaysReceives`) is what keeps a record they still hold from going out
twice. `ChannelInv` says that what was published last counts until the Azure task looks at its
queue again.

*The Azure task.* Between its look at the MQTT queue and its `vTaskSuspend` it is alone
(`AzureAlone`): nobody has its priority or inherits it, since it waits for no mutex there. So it
falls asleep over an empty queue only, and `AzureInv` follows those who fill it: a round of the
Wi-Fi task that has queued a packet remembers it in the packet's status, because a packet is
taken off the list when its status is set. For what it receives, `PublishInv` says that the queue
it found filled is empty afterwards only while the Wi-Fi task replaces a package under the mutex;
JSON takes packages away only when as many readings wait as the MQTT queue has places, more than
the smaller sensor queue can hold.

*JSON.* `FollowsGrammar` ties the writer's record to the grammar's: the same stack, a comma due
exactly when the grammar expects one, and the next token one that the last kind allows. Each call
that keeps the rules keeps it. A sequence of calls is a function from the numbers up to its length
to the states of the message (`IsRun`, `RunExists`, `RunUnique`), and what holds of all runs is
shown by the least number for which it does not (`SetInduction`, an induction over a set of
numbers, so that no operator is a parameter). The messages are put together like their calls:
`Writes` says of a piece where it may stand, how many bytes it writes at most, how much room it
asks for, and how deep it nests, and there is one lemma for joining two pieces, one for a name
with a value, one for a container. What a piece needs is more than it writes, since the writer
asks for whole chunks: with 200 bytes the Wi-Fi message is the one that just fits.

*The bus.* `OnlyOneInv` adds to `BusExclusive` that the semaphore is taken while somebody is
between taking and giving it and no timer has expired. For the locks, `LateInv` says that, as
long as no task has run on past its timer, a timer runs during a transfer only and the task of a
failing sensor is in a transfer or between two readings: that is where it is deleted. `HeldInv`
says that there is a timer, or a task about to start or give, for a semaphore that is taken, and
`MutexInv` ties the queue mutex to the place of its owner.
`RetryInv` says that the receiver has been asked when its answer is dealt with, and that a try
is left outside the loop: only then is the first pass of the loop never the last one.

*Supervision.* That a task is deleted exactly when its sensor is given up is inductive. For the
failures recovery does not sleep over, `Unserved` is a failed sensor that nobody has reported
while recovery was awake. `SleepInv` says that there is one at most, because only the report that
wakes the recovery task leaves one; that the recovery task, when it is in its loop, has not yet
looked at it (`LookedServed`); and that outside of the loop there is none (`AllServed`).
`CloudOutageHandled` only says that the recovery task is awake, which does not exclude that it is
in its loop and about to suspend itself over a failed sensor; `OutageInv` says that it is on its
way to a connection.

*Network.* Everything rests on turns (`TurnsInv`): without an early report the recovery task has
nothing to do with the network before the Azure task has connected, and when it reconnects the
Azure task is past its own connecting. So one task connects at a time, and `SocketsInv` follows
that one through its calls: nothing is open where a socket is about to be created. `LoopFirst`
says that nobody does anything before the Wi-Fi task is in its loop. The refinement maps
`connected` of the schedule to `wifiAt # "loop" \/ connected`, since the schedule begins as if
Wi-Fi were there and nothing reads it before the loop; only a round or a delay moves the other
variables (`OthersLeaveSchedule`), so every other step is `ConnectionChanges` or a stutter.

*One session.* `OneSession` is kept by a login that saves only because of what its earlier steps
found. `OneInv` adds: without overlap at most one login is between check and save, and while
one is about to save there is no session document.

*Telemetry.* `TelemetryInv` adds that nothing is marked with a session that has not been created
yet, and that what the handler holds was published in the session it found: a session that
shows an older reading was then created between the check and the saving.

*Announcements.* `AnnouncedInv` counts. While the status is still true, every run that has
announced the disconnection is still about to set it to false, or was cut short before it did and
its announcement taken off the count, so the count is at most the number of such runs; once it is
false nobody new gets that far. For a sensor the runs that have read its status as true and may still announce are
counted with those that have. Only a message sets the status again, and then the count starts
anew.

*Types of the backend.* A login creates its session after its check, so the number of sessions stays
within its bound only with those counted that are still to create one (`CountInv`). That
a collection written by upsert has one document is kept by writing all of it
(`KeepAliveInv`, `StampsInv`).

*Own answers.* `ServedInv` says that, as long as nothing failed, at most one answer is on its way,
that of the request the thread waits for, and that the index is the number of its pieces that have
come and stand in the buffer in order. It needs `EventInv`: SNTP, whose dates go into the same
buffer, has an event on its way only while the thread waits for it, since the last event was never
of the kind that is asked for next. `DateInv` follows the date from the buffer through its
conversion to the calendar; what the conversion comes to is a matter of the lemmas `Shifted` and
`LocalTime`, by cases of which bytes wrap around.

*The index of the buffer.* The index is reset by a complete answer only. `IndexInv` counts the
pieces but the last of all answers so far: each moves the index by one place at most.

*Days of the week.* Both sides are reduced to sums whose floors of quarters and
hundredths are the same; a month is a case of twelve, and years move by whole weeks and leap
days (`NextDay`, `LeapDay`, `WholeWeeks`).

Only model-checked: liveness (`SensorQueueDrains`, `BacklogIsPublished`, `RecoveryComesToRest`,
`SensorFailuresServed`), as TLAPS has no liveness under fairness and no ENABLED; and that each
comment of the four violated runs does not hold, which is a behaviour TLC shows.

## 11. Not modelled

*LCD task.* Five messages in a queue that every task writes without a lock. Its steps are few
(test the queue, suspend; send, receive when full, send again), but whoever comes between two of
them makes a line be lost, shown twice, or stay until the next one comes, the line about the
shutdown included. The code claims no more than best effort, and no property of it that holds
would be worth a run.

*Deletion at shutdown.* app.c:747-880 deletes queues and mutexes before the tasks that use
them. What a task does with a deleted queue is decided by the heap of FreeRTOS, which is not in
the repository; the models stop when the stopping begins (`StopApplication`). Likewise failures
to create tasks and queues at the start end the program at once.

*Text.* Scanning the SNTP date into its fields (sl_wd_ntp.c, wifi_handler.c), the wording of JSON
messages and LCD lines, and the fields of the weather server's answers.

*Left out for good.* cJSON (vendored); of the vendored JSON writer, the calls the firmware does not
make; the drivers of sensors and display; the frontend and the backend's queries, which keep no
state of their own; drawing.

`WifiWake` of `TelemetryPipeline` lets any non-empty set of packets be due; `WifiSchedule` says
which ones are (never none).
