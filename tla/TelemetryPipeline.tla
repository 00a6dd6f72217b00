-------------------------- MODULE TelemetryPipeline --------------------------
(***************************************************************************)
(* The telemetry path of the Wi-Fi asset tracking firmware: sensor tasks    *)
(* put readings on the sensor data queue, the JSON task converts them and   *)
(* puts them on the MQTT package queue together with the packets of the     *)
(* Wi-Fi task, and the Azure task publishes them.                           *)
(*                                                                          *)
(* The tasks share one core under FreeRTOS fixed-priority preemption.  One  *)
(* action is the code of one task from one point where another task can be  *)
(* observed to run to the next (an RTOS call or a blocking SDK call).       *)
(* MayRun says when the scheduler lets a task take such a step.             *)
(*                                                                          *)
(* Connection status, outage reports and the recovery task are the subject  *)
(* of RecoveryTask; here the network is up or down as it pleases.           *)
(***************************************************************************)
EXTENDS Naturals, Sequences, SequencesExt

CONSTANTS
  Sensors,      \* the sensor tasks (temperature/RH, IMU, GNSS)
  SensorCap,    \* MAX_SIZE_OF_SENSOR_DATA_QUEUE
  MqttCap,      \* MAX_SIZE_OF_MQTT_PACKAGE_QUEUE
  Rounds        \* the sets of packets that fall due together at the Wi-Fi task

Packets    == {"keepAlive", "wifiData"}
OtherTasks == {"json", "wifi", "azure"}
Tasks      == Sensors \cup OtherTasks

\* (Definitions named Bad... are plausible bugs, used only to see that the
\* properties notice them.)
BadPrio == [t \in Tasks |-> IF t = "azure" THEN 3 ELSE 1]

\* PRIORITY_*: the sensor tasks and the Wi-Fi task are equal and lowest.
Prio == [t \in Tasks |-> CASE t = "json"  -> 2
                           [] t = "azure" -> 3
                           [] OTHER       -> 1]

ASSUME PipelineAssumption ==
  /\ Sensors # {}
  /\ Sensors \cap (OtherTasks \cup {"none"}) = {}
  /\ SensorCap \in Nat \ {0}
  /\ MqttCap \in Nat \ {0}
  /\ Rounds \subseteq (SUBSET Packets) \ {{}}

VARIABLES
  pc,               \* where each task is
  holder,           \* owner of each queue mutex
  sensorQueue,      \* sensor_data_queue_handler
  mqttQueue,        \* mqtt_package_queue_handler
  reading,          \* the sensor tasks' local si7021/bmi270/gnss_reading
  converting,       \* the JSON task's sensor_data_queue_reading
  publishing,       \* the Azure task's mqtt_data_queue_reading
  todo,             \* the packets the Wi-Fi task still has to frame this round
  framedOk,         \* ka_status and wifi_status of the Wi-Fi task are OK
  online,           \* Wi-Fi and cloud status CONNECTED and the RSSI readable
  published         \* history: the reading just published, until Azure goes on

queueVars   == <<sensorQueue, mqttQueue>>
wifiVars    == <<todo, framedOk>>
bufferVars  == <<reading, converting, publishing>>
vars == <<pc, holder, sensorQueue, mqttQueue, reading, converting, publishing,
          todo, framedOk, online, published>>

None     == "none"
Mutexes  == {"sensorMutex", "mqttMutex"}

\* A reading carries the sensor it was taken from and its sensor_type tag.
Readings     == [source : Sensors, tag : Sensors]
PacketMessage == [source |-> "wifi", tag |-> "wifi"]
Messages     == Readings \cup {PacketMessage}
\* A local record before it is first filled, and nothing just published.
Nothing      == [source |-> None, tag |-> None]

-----------------------------------------------------------------------------
(* Scheduling                                                               *)

\* A task at one of these points holds no CPU: it is delayed, suspended, or in
\* a blocking network or I2C call.
Waiting == {"delay", "emptySuspended", "offlineSuspended", "connectSuspended",
            "frame", "connect", "rssi", "publish"}

\* The points where a task asks for a queue mutex with portMAX_DELAY.
TakePoints == [m \in Mutexes |-> IF m = "sensorMutex"
                                 THEN {"takeSensor"}
                                 ELSE {"takeMqtt", "takeToRelease"}]

Blocked(t) == \E m \in Mutexes : holder[m] # None /\ pc[t] \in TakePoints[m]
Ready(t)   == pc[t] \notin Waiting /\ ~Blocked(t)

\* Whose priority a task runs at: its own and, by priority inheritance, that
\* of the tasks waiting for a mutex it holds.
Held(t)    == {m \in Mutexes : holder[m] = t}
Waiters(m) == {u \in Tasks : pc[u] \in TakePoints[m]}
Donors(t)  == {t} \cup UNION {Waiters(m) : m \in Held(t)}

Outranks(u, t) == \E d \in Donors(u) : \A e \in Donors(t) : Prio[d] > Prio[e]

\* The scheduler lets t take a step: t does not wait for a mutex and no task
\* of a higher effective priority could use the CPU.
MayRun(t) == /\ ~Blocked(t)
             /\ \A u \in Tasks \ {t} : Ready(u) => ~Outranks(u, t)

At(t, point)    == pc[t] = point /\ MayRun(t)
Goto(t, point)  == pc' = [pc EXCEPT ![t] = point]

BadAfterResume(u) ==
  CASE pc[u] = "connectSuspended" -> "connectCheck"
    [] pc[u] = "emptySuspended"   -> "check"
    [] OTHER                      -> pc[u]

\* vTaskResume(u) when eTaskGetState(u) is eSuspended: where u continues.
AfterResume(u) ==
  CASE pc[u] = "connectSuspended"                       -> "connectCheck"
    [] pc[u] \in {"emptySuspended", "offlineSuspended"} -> "check"
    [] OTHER                                            -> pc[u]

GotoAndResume(t, point, u) == pc' = [pc EXCEPT ![t] = point, ![u] = AfterResume(u)]

Take(t, m, point) == /\ holder[m] = None
                     /\ holder' = [holder EXCEPT ![m] = t]
                     /\ Goto(t, point)

-----------------------------------------------------------------------------
(* Sensor tasks                                                             *)

\* vTaskDelay expires, the sensor is read and time-stamped; the local record
\* takes the new data and keeps the sensor_type it had.
SensorCapture(s) ==
  /\ At(s, "delay")
  /\ reading' = [reading EXCEPT ![s].source = s]
  /\ Goto(s, "takeSensor")
  /\ UNCHANGED <<holder, queueVars, converting, publishing, wifiVars, online, published>>

SensorTake(s) ==
  /\ At(s, "takeSensor")
  /\ Take(s, "sensorMutex", "send")
  /\ UNCHANGED <<queueVars, bufferVars, wifiVars, online, published>>

SensorSend(s) ==
  /\ At(s, "send")
  /\ IF Len(sensorQueue) < SensorCap
     THEN sensorQueue' = Append(sensorQueue, reading[s]) /\ Goto(s, "giveSensor")
     ELSE UNCHANGED sensorQueue /\ Goto(s, "evict")
  /\ UNCHANGED <<holder, mqttQueue, bufferVars, wifiVars, online, published>>

\* The queue is full: xQueueReceive overwrites the task's own record.
SensorEvict(s) ==
  /\ At(s, "evict")
  /\ sensorQueue # <<>>
  /\ reading' = [reading EXCEPT ![s] = Head(sensorQueue)]
  /\ sensorQueue' = Tail(sensorQueue)
  /\ Goto(s, "resend")
  /\ UNCHANGED <<holder, mqttQueue, converting, publishing, wifiVars, online, published>>

\* "again send latest ... data": the record just received goes back.
SensorResend(s) ==
  /\ At(s, "resend")
  /\ sensorQueue' = Append(sensorQueue, reading[s])
  /\ Goto(s, "giveSensor")
  /\ UNCHANGED <<holder, mqttQueue, bufferVars, wifiVars, online, published>>

BadSensorGive(s) ==
  /\ At(s, "giveSensor")
  /\ Goto(s, "resumeJson")
  /\ UNCHANGED <<holder, queueVars, bufferVars, wifiVars, online, published>>

SensorGive(s) ==
  /\ At(s, "giveSensor")
  /\ holder' = [holder EXCEPT !["sensorMutex"] = None]
  /\ Goto(s, "resumeJson")
  /\ UNCHANGED <<queueVars, bufferVars, wifiVars, online, published>>

BadSensorResumeJson(s) ==
  /\ At(s, "resumeJson")
  /\ Goto(s, "delay")
  /\ UNCHANGED <<holder, queueVars, bufferVars, wifiVars, online, published>>

SensorResumeJson(s) ==
  /\ At(s, "resumeJson")
  /\ GotoAndResume(s, "delay", "json")
  /\ UNCHANGED <<holder, queueVars, bufferVars, wifiVars, online, published>>

SensorStep(s) ==
  \/ SensorCapture(s) \/ SensorTake(s) \/ SensorSend(s) \/ SensorEvict(s)
  \/ SensorResend(s)  \/ SensorGive(s) \/ SensorResumeJson(s)

-----------------------------------------------------------------------------
(* JSON data converter task                                                 *)

BadJsonCheck ==
  /\ At("json", "check")
  /\ Goto("json", "takeSensor")
  /\ UNCHANGED <<holder, queueVars, bufferVars, wifiVars, online, published>>

\* "Check whether MQTT data queue is full" compares the capacity of the MQTT
\* queue with the number of readings in the sensor queue.
JsonCheck ==
  /\ At("json", "check")
  /\ Goto("json", IF sensorQueue = <<>> THEN "suspend"
                  ELSE IF Len(sensorQueue) = MqttCap THEN "takeToRelease"
                  ELSE "takeSensor")
  /\ UNCHANGED <<holder, queueVars, bufferVars, wifiVars, online, published>>

JsonSuspend ==
  /\ At("json", "suspend")
  /\ Goto("json", "emptySuspended")
  /\ UNCHANGED <<holder, queueVars, bufferVars, wifiVars, online, published>>

\* Take the MQTT mutex, receive one package if there is one, give it back.
JsonRelease ==
  /\ At("json", "takeToRelease")
  /\ mqttQueue' = IF mqttQueue = <<>> THEN <<>> ELSE Tail(mqttQueue)
  /\ Goto("json", "takeSensor")
  /\ UNCHANGED <<holder, sensorQueue, bufferVars, wifiVars, online, published>>

JsonTake ==
  /\ At("json", "takeSensor")
  /\ Take("json", "sensorMutex", "receive")
  /\ UNCHANGED <<queueVars, bufferVars, wifiVars, online, published>>

\* The result of xQueueReceive is not looked at: on an empty queue the record
\* of the previous round is converted again.
JsonReceive ==
  /\ At("json", "receive")
  /\ IF sensorQueue = <<>>
     THEN UNCHANGED <<sensorQueue, converting>>
     ELSE converting' = Head(sensorQueue) /\ sensorQueue' = Tail(sensorQueue)
  /\ holder' = [holder EXCEPT !["sensorMutex"] = None]
  /\ Goto("json", "convert")
  /\ UNCHANGED <<mqttQueue, reading, publishing, wifiVars, online, published>>

\* A JSON writer error abandons the reading.
JsonConvert ==
  /\ At("json", "convert")
  /\ \E point \in {"takeMqtt", "check"} : Goto("json", point)
  /\ UNCHANGED <<holder, queueVars, bufferVars, wifiVars, online, published>>

BadJsonSend ==
  /\ At("json", "takeMqtt")
  /\ mqttQueue' = IF Len(mqttQueue) < MqttCap THEN <<converting>> \o mqttQueue
                  ELSE mqttQueue
  /\ Goto("json", "resumeAzure")
  /\ UNCHANGED <<holder, sensorQueue, bufferVars, wifiVars, online, published>>

\* The last part of every conversion: under the MQTT mutex the package is
\* sent if the queue has room and dropped if not; OK is returned either way.
\* (One step: who preempts the section can only read the queue's length or
\* wait for the mutex.)
JsonSend ==
  /\ At("json", "takeMqtt")
  /\ mqttQueue' = IF Len(mqttQueue) < MqttCap THEN Append(mqttQueue, converting)
                  ELSE mqttQueue
  /\ Goto("json", "resumeAzure")
  /\ UNCHANGED <<holder, sensorQueue, bufferVars, wifiVars, online, published>>

JsonResumeAzure ==
  /\ At("json", "resumeAzure")
  /\ GotoAndResume("json", "check", "azure")
  /\ UNCHANGED <<holder, queueVars, bufferVars, wifiVars, online, published>>

JsonStep == \/ JsonCheck   \/ JsonSuspend \/ JsonRelease \/ JsonTake
            \/ JsonReceive \/ JsonConvert \/ JsonSend    \/ JsonResumeAzure

-----------------------------------------------------------------------------
(* Wi-Fi data task                                                          *)

\* The keep-alive packet of a round is framed before the Wi-Fi packet.
Packet == IF "keepAlive" \in todo THEN "keepAlive" ELSE "wifiData"
PacketDone == /\ todo' = todo \ {Packet}
              /\ Goto("wifi", IF todo = {Packet} THEN "resumeAzure" ELSE "frame")

\* A round starts when the delay is over and Wi-Fi is connected (the cloud need
\* not be).
WifiWake ==
  /\ At("wifi", "delay")
  /\ todo' \in Rounds
  /\ Goto("wifi", "frame")
  /\ UNCHANGED <<holder, queueVars, bufferVars, framedOk, online, published>>

WifiFrame ==
  /\ At("wifi", "frame")
  /\ Goto("wifi", "takeMqtt")
  /\ UNCHANGED <<holder, queueVars, bufferVars, wifiVars, online, published>>

\* No time stamp, or the JSON writer fails.
WifiFrameFails ==
  /\ At("wifi", "frame")
  /\ framedOk' = [framedOk EXCEPT ![Packet] = FALSE]
  /\ PacketDone
  /\ UNCHANGED <<holder, queueVars, bufferVars, online, published>>

\* RSSI or MAC address cannot be read: SL_STATUS_WIFI_CONNECTION_LOST, which
\* ends the round after the outage is reported.
WifiConnectionLost ==
  /\ At("wifi", "frame")
  /\ Packet = "wifiData"
  /\ framedOk' = [framedOk EXCEPT !["wifiData"] = FALSE]
  /\ todo' = {}
  /\ Goto("wifi", "resumeAzure")
  /\ UNCHANGED <<holder, queueVars, bufferVars, online, published>>

WifiTake ==
  /\ At("wifi", "takeMqtt")
  /\ Take("wifi", "mqttMutex", "send")
  /\ UNCHANGED <<queueVars, bufferVars, wifiVars, online, published>>

WifiSend ==
  /\ At("wifi", "send")
  /\ IF Len(mqttQueue) < MqttCap
     THEN mqttQueue' = Append(mqttQueue, PacketMessage) /\ Goto("wifi", "giveMqtt")
     ELSE UNCHANGED mqttQueue /\ Goto("wifi", "evict")
  /\ UNCHANGED <<holder, sensorQueue, bufferVars, wifiVars, online, published>>

BadWifiEvict ==
  /\ At("wifi", "evict")
  /\ mqttQueue # <<>>
  /\ Goto("wifi", "resend")
  /\ UNCHANGED <<holder, queueVars, bufferVars, wifiVars, online, published>>

\* Full: the oldest package is received into a scratch record ...
WifiEvict ==
  /\ At("wifi", "evict")
  /\ mqttQueue # <<>>
  /\ mqttQueue' = Tail(mqttQueue)
  /\ Goto("wifi", "resend")
  /\ UNCHANGED <<holder, sensorQueue, bufferVars, wifiVars, online, published>>

\* ... and the new one is sent again.
WifiResend ==
  /\ At("wifi", "resend")
  /\ mqttQueue' = Append(mqttQueue, PacketMessage)
  /\ Goto("wifi", "giveMqtt")
  /\ UNCHANGED <<holder, sensorQueue, bufferVars, wifiVars, online, published>>

WifiGive ==
  /\ At("wifi", "giveMqtt")
  /\ holder' = [holder EXCEPT !["mqttMutex"] = None]
  /\ framedOk' = [framedOk EXCEPT ![Packet] = TRUE]
  /\ PacketDone
  /\ UNCHANGED <<queueVars, bufferVars, online, published>>

BadWifiResumeAzure ==
  /\ At("wifi", "resumeAzure")
  /\ IF \A p \in Packets : framedOk[p]
     THEN GotoAndResume("wifi", "delay", "azure")
     ELSE Goto("wifi", "delay")
  /\ UNCHANGED <<holder, queueVars, bufferVars, wifiVars, online, published>>

WifiResumeAzure ==
  /\ At("wifi", "resumeAzure")
  /\ IF \E p \in Packets : framedOk[p]
     THEN GotoAndResume("wifi", "delay", "azure")
     ELSE Goto("wifi", "delay")
  /\ UNCHANGED <<holder, queueVars, bufferVars, wifiVars, online, published>>

WifiStep == \/ WifiWake \/ WifiFrame \/ WifiFrameFails \/ WifiConnectionLost
            \/ WifiTake \/ WifiSend \/ WifiEvict \/ WifiResend
            \/ WifiGive \/ WifiResumeAzure

-----------------------------------------------------------------------------
(* Azure cloud communication task                                           *)

\* First loop: connect if Wi-Fi is up and no connection was made yet.
ConnectCheck ==
  /\ At("azure", "connectCheck")
  /\ \E point \in {"connect", "connectSuspended"} : Goto("azure", point)
  /\ UNCHANGED <<holder, queueVars, bufferVars, wifiVars, online, published>>

Connect ==
  /\ At("azure", "connect")
  /\ \E point \in {"check", "connectCheck"} : Goto("azure", point)
  /\ UNCHANGED <<holder, queueVars, bufferVars, wifiVars, online, published>>

BadAzureCheck ==
  /\ At("azure", "check")
  /\ Goto("azure", "rssi")
  /\ published' = Nothing
  /\ UNCHANGED <<holder, queueVars, bufferVars, wifiVars, online>>

AzureCheck ==
  /\ At("azure", "check")
  /\ Goto("azure", IF mqttQueue = <<>> THEN "suspend" ELSE "rssi")
  /\ published' = Nothing
  /\ UNCHANGED <<holder, queueVars, bufferVars, wifiVars, online>>

AzureSuspend ==
  /\ At("azure", "suspend")
  /\ Goto("azure", "emptySuspended")
  /\ UNCHANGED <<holder, queueVars, bufferVars, wifiVars, online, published>>

\* The RSSI is asked for (blocking); only with it and both connections up does
\* Azure go on to publish.
AzureGate ==
  /\ At("azure", "rssi")
  /\ Goto("azure", IF online THEN "takeMqtt" ELSE "offlineSuspended")
  /\ UNCHANGED <<holder, queueVars, bufferVars, wifiVars, online, published>>

AzureTake ==
  /\ At("azure", "takeMqtt")
  /\ Take("azure", "mqttMutex", "receive")
  /\ UNCHANGED <<queueVars, bufferVars, wifiVars, online, published>>

\* Again the result of xQueueReceive is not looked at: on an empty queue the
\* package of the previous round, which the record still holds, is published.
AzureReceive ==
  /\ At("azure", "receive")
  /\ IF mqttQueue = <<>>
     THEN UNCHANGED <<mqttQueue, publishing>>
     ELSE publishing' = Head(mqttQueue) /\ mqttQueue' = Tail(mqttQueue)
  /\ holder' = [holder EXCEPT !["mqttMutex"] = None]
  /\ Goto("azure", "publish")
  /\ UNCHANGED <<sensorQueue, reading, converting, wifiVars, online, published>>

Published ==
  /\ At("azure", "publish")
  /\ published' = IF publishing = PacketMessage THEN Nothing ELSE publishing
  /\ Goto("azure", "check")
  /\ UNCHANGED <<holder, queueVars, bufferVars, wifiVars, online>>

\* QoS 0, and the package is not put back.
PublishFails ==
  /\ At("azure", "publish")
  /\ Goto("azure", "check")
  /\ UNCHANGED <<holder, queueVars, bufferVars, wifiVars, online, published>>

AzureStep == \/ ConnectCheck \/ Connect   \/ AzureCheck   \/ AzureSuspend
             \/ AzureGate    \/ AzureTake \/ AzureReceive \/ Published
             \/ PublishFails

\* Outages and recoveries come at any time.
NetworkChanges ==
  /\ online' = ~online
  /\ UNCHANGED <<pc, holder, queueVars, bufferVars, wifiVars, published>>

-----------------------------------------------------------------------------
\* The Wi-Fi task has connected and resumed the sensor tasks and enters its
\* loop; JSON and Azure ran once and suspended themselves.
Init ==
  /\ pc = [t \in Tasks |-> CASE t = "json"  -> "emptySuspended"
                             [] t = "azure" -> "connectSuspended"
                             [] OTHER       -> "delay"]
  /\ holder = [m \in Mutexes |-> None]
  /\ sensorQueue = <<>>
  /\ mqttQueue = <<>>
  /\ reading = [s \in Sensors |-> [source |-> s, tag |-> s]]
  /\ converting = Nothing
  /\ publishing = Nothing
  /\ todo = {}
  /\ framedOk = [p \in Packets |-> TRUE]
  /\ online \in BOOLEAN
  /\ published = Nothing

Next == \/ \E s \in Sensors : SensorStep(s)
        \/ JsonStep
        \/ WifiStep
        \/ AzureStep
        \/ NetworkChanges

Spec == Init /\ [][Next]_vars

\* Every blocking call has a timeout and the network is slow compared with the
\* CPU, so a task that can run again and again gets the CPU in the end.
Fairness == /\ \A s \in Sensors : SF_vars(SensorStep(s))
            /\ SF_vars(JsonStep)
            /\ SF_vars(WifiStep)
            /\ SF_vars(WifiFrame)   \* the clock can be read now and then
            /\ WF_vars(AzureStep)

FairSpec == Spec /\ Fairness

-----------------------------------------------------------------------------
(* Properties                                                               *)

SensorPoints == {"delay", "takeSensor", "send", "evict", "resend", "giveSensor",
                 "resumeJson"}
JsonPoints   == {"check", "suspend", "emptySuspended", "takeToRelease", "takeSensor",
                 "receive", "convert", "takeMqtt", "resumeAzure"}
WifiPoints   == {"delay", "frame", "takeMqtt", "send", "evict", "resend", "giveMqtt",
                 "resumeAzure"}
AzurePoints  == {"connectCheck", "connectSuspended", "connect", "check", "suspend",
                 "emptySuspended", "rssi", "offlineSuspended", "takeMqtt", "receive",
                 "publish"}

\* Every task is at a point of its own code, the queues are within their
\* sizes and every record holds what its C type can hold.
TypeOK ==
  /\ pc \in [Tasks -> SensorPoints \cup JsonPoints \cup WifiPoints \cup AzurePoints]
  /\ \A s \in Sensors : pc[s] \in SensorPoints
  /\ pc["json"] \in JsonPoints
  /\ pc["wifi"] \in WifiPoints
  /\ pc["azure"] \in AzurePoints
  /\ holder \in [Mutexes -> Tasks \cup {None}]
  /\ sensorQueue \in Seq(Readings)
  /\ Len(sensorQueue) <= SensorCap
  /\ mqttQueue \in Seq(Messages \cup {Nothing})
  /\ Len(mqttQueue) <= MqttCap
  /\ reading \in [Sensors -> Readings]
  /\ converting \in Readings \cup {Nothing}
  /\ publishing \in Messages \cup {Nothing}
  /\ todo \subseteq Packets
  /\ framedOk \in [Packets -> BOOLEAN]
  /\ online \in BOOLEAN
  /\ published \in Readings \cup {Nothing}

\* A JSON task that suspended itself on an empty sensor queue is never left
\* asleep over a reading: some sensor task is still to check and resume it.
\* Its emptiness check and vTaskSuspend are two steps with nothing but its
\* priority between them and a lost wake-up.
NoLostJsonWakeup ==
  pc["json"] = "emptySuspended" /\ sensorQueue # <<>> =>
    \E s \in Sensors : pc[s] \in {"giveSensor", "resumeJson"}

\* The same for an Azure task that suspended itself on an empty MQTT queue:
\* JSON, or the Wi-Fi task in a round that framed something, is to resume it.
NoLostAzureWakeup ==
  pc["azure"] = "emptySuspended" /\ mqttQueue # <<>> =>
    \/ pc["json"] = "resumeAzure"
    \/ pc["wifi"] = "giveMqtt"
    \/ pc["wifi"] # "delay" /\ \E p \in Packets \ todo : framedOk[p]

\* JSON reads the number of waiting readings without the mutex and receives
\* later without looking at the result: between the two nothing may empty the
\* queue, or the previous reading would be converted twice.
JsonReceivesReading == pc["json"] = "receive" => sensorQueue # <<>>

\* Azure reads the number of waiting packages, asks for the RSSI (a blocking
\* call during which the Wi-Fi task may evict), takes the mutex and receives
\* without looking at the result: the queue must not be empty by then, or the
\* previous package would be published twice.
AzureReceivesPackage == pc["azure"] = "receive" => mqttQueue # <<>>

\* However the sensor tasks interleave, JSON drains what one of them queued
\* before that task can queue again: no two waiting readings have one source.
OneReadingPerSensor ==
  \A i, j \in 1..Len(sensorQueue) :
    sensorQueue[i].source = sensorQueue[j].source => i = j

\* Consequently the branch for a full sensor queue, which would send back the
\* oldest reading under the type of another sensor, is never entered.
NoSensorOverflow == \A s \in Sensors : pc[s] # "evict"

\* The sensor_type is set once, before a sensor task's loop; the eviction branch
\* would overwrite it with that of another sensor for all later readings.
\* Every queued reading is tagged with the type of the sensor it came from.
ReadingsKeepTheirSource ==
  \A i \in 1..Len(sensorQueue) : sensorQueue[i].tag = sensorQueue[i].source

\* Only the owner's own points lie between taking and giving a mutex, and the
\* owner never sleeps there: nobody waits for a mutex for ever.
HolderIsActive ==
  \A m \in Mutexes : holder[m] # None =>
    pc[holder[m]] \in {"send", "evict", "resend", "giveSensor", "giveMqtt", "receive"}

\* Queued readings are converted, whatever the network does.
SensorQueueDrains == sensorQueue # <<>> ~> sensorQueue = <<>>

Connected == pc["azure"] \notin {"connectCheck", "connect", "connectSuspended"}

\* Once connected and with the network up, the Azure task never rests over a
\* backlog: it publishes again and again or the queue runs empty, although
\* nobody wakes the task when an outage ends.
BacklogIsPublished ==
  <>[](online /\ Connected) =>
    []<>(mqttQueue = <<>> \/ pc["azure"] = "publish")

-----------------------------------------------------------------------------
(* Refinement: the sensor readings on their way                             *)

\* What the Azure and the JSON task have taken from a queue and not yet passed on.
Hand(holds, m) == IF holds THEN <<m>> ELSE <<>>
AzureHand == Hand(pc["azure"] = "publish", publishing)
JsonHand  == Hand(pc["json"] \in {"convert", "takeMqtt"}, converting)

\* What is on its way to be published, oldest first.
InFlight == AzureHand \o mqttQueue \o JsonHand \o sensorQueue

\* Only the packets of the Wi-Fi task are noise among the readings: a reading
\* converted or published again because a queue was empty would be one that
\* nobody sent.
Channel == INSTANCE LossyFifo
  WITH Values <- Readings, Noise <- {PacketMessage},
       channel <- InFlight, delivered <- published

\* Over both queues and three tasks readings may be lost but are published in
\* the order they were queued, none twice and none that was not sent, although
\* both receivers keep their last record and ignore the result of a receive.
ReadingsPublishedInOrder == Channel!Spec

-----------------------------------------------------------------------------
(* What a comment of the code says and the code does not do                 *)

\* "Check whether MQTT data queue is full" (json_data_handler.c:777): when it
\* is, JSON releases a package before it converts the next reading.
FullMqttQueueIsReleased ==
  [][pc["json"] = "check" /\ sensorQueue # <<>> /\ Len(mqttQueue) = MqttCap
     /\ pc'["json"] # "check" => pc'["json"] = "takeToRelease"]_vars
==============================================================================
