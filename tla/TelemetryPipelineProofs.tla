----------------------- MODULE TelemetryPipelineProofs -----------------------
(***************************************************************************)
(* Theorems about TelemetryPipeline, for any number of sensor tasks and any *)
(* sizes of the two queues.                                                 *)
(***************************************************************************)
EXTENDS TelemetryPipeline, FiniteSetTheorems, SequenceTheorems, TLAPS

-----------------------------------------------------------------------------
(* Part 1.  Types and mutexes                                               *)

SensorSection == {"send", "evict", "resend", "giveSensor"}
WifiSection   == {"send", "evict", "resend", "giveMqtt"}

\* A task is between taking and giving a mutex exactly when it owns it.
MutexInv ==
  /\ \A s \in Sensors : pc[s] \in SensorSection <=> holder["sensorMutex"] = s
  /\ pc["json"] = "receive" <=> holder["sensorMutex"] = "json"
  /\ pc["wifi"] \in WifiSection <=> holder["mqttMutex"] = "wifi"
  /\ pc["azure"] = "receive" <=> holder["mqttMutex"] = "azure"
  /\ holder["sensorMutex"] \in Sensors \cup {"json", None}
  /\ holder["mqttMutex"] \in {"wifi", "azure", None}

\* The owner that evicted a record finds the room it made.
RoomInv ==
  /\ \A s \in Sensors : pc[s] = "resend" => Len(sensorQueue) < SensorCap
  /\ pc["wifi"] = "resend" => Len(mqttQueue) < MqttCap

TypeInv == TypeOK /\ MutexInv /\ RoomInv

\* "none" and the names of the other tasks are no sensors.
LEMMA Names ==
  ASSUME NEW s \in Sensors
  PROVE  s \notin {"json", "wifi", "azure", "none"}
BY PipelineAssumption DEF OtherTasks

\* The queue sizes.
LEMMA Sizes == SensorCap \in Nat \ {0} /\ MqttCap \in Nat \ {0}
BY PipelineAssumption

\* What may fall due together at the Wi-Fi task.
LEMMA RoundPackets == \A due \in Rounds : due \subseteq Packets /\ due # {}
BY PipelineAssumption

\* A task that runs at the start of an MQTT section finds the mutex free.
LEMMA MqttMutexFree ==
  ASSUME TypeOK, At("json", "takeMqtt") \/ At("json", "takeToRelease")
  PROVE  holder["mqttMutex"] = None
BY DEF TypeOK, At, MayRun, Blocked, TakePoints, Mutexes, None

\* Where vTaskResume leaves the JSON task and the Azure task.
LEMMA ResumedJson ==
  ASSUME pc["json"] \in JsonPoints
  PROVE  AfterResume("json") =
           IF pc["json"] = "emptySuspended" THEN "check" ELSE pc["json"]
BY DEF AfterResume, JsonPoints

\* The same for the Azure task, which has three places to be suspended at.
LEMMA ResumedAzure ==
  ASSUME pc["azure"] \in AzurePoints
  PROVE  /\ AfterResume("azure") \in AzurePoints
         /\ AfterResume("azure") = "receive" <=> pc["azure"] = "receive"
BY DEF AfterResume, AzurePoints

\* Sending to and receiving from a queue.
LEMMA SendType ==
  ASSUME NEW S, NEW q \in Seq(S), NEW e \in S
  PROVE  Append(q, e) \in Seq(S) /\ Len(Append(q, e)) = Len(q) + 1 /\ Len(q) \in Nat
OBVIOUS

\* What is left of a queue after xQueueReceive.
LEMMA ReceiveType ==
  ASSUME NEW S, NEW q \in Seq(S), q # <<>>
  PROVE  /\ Head(q) \in S
         /\ Tail(q) \in Seq(S)
         /\ Len(q) \in Nat
         /\ Len(Tail(q)) = Len(q) - 1
OBVIOUS

\* What the operations on the two queues do to them.
LEMMA SensorSendEffect ==
  ASSUME TypeOK, NEW s \in Sensors, SensorSend(s)
  PROVE  /\ At(s, "send")
         /\ Goto(s, "giveSensor") \/ Goto(s, "evict")
         /\ sensorQueue' \in Seq(Readings)
         /\ Len(sensorQueue') <= SensorCap
         /\ UNCHANGED <<holder, mqttQueue, bufferVars, wifiVars, online, published>>
<1>1. /\ sensorQueue \in Seq(Readings)
      /\ Len(sensorQueue) <= SensorCap
      /\ reading[s] \in Readings
  BY DEF TypeOK
<1>2. CASE Len(sensorQueue) < SensorCap
  BY <1>1, <1>2, SendType, PipelineAssumption DEF SensorSend
<1>3. CASE ~(Len(sensorQueue) < SensorCap)
  BY <1>1, <1>3 DEF SensorSend
<1>q. QED  BY <1>2, <1>3

\* Evicting moves the oldest reading into the sensor task's record.
LEMMA SensorEvictEffect ==
  ASSUME TypeOK, NEW s \in Sensors, SensorEvict(s)
  PROVE  /\ Head(sensorQueue) \in Readings
         /\ sensorQueue' \in Seq(Readings)
         /\ Len(sensorQueue') < SensorCap
<1>1. /\ sensorQueue \in Seq(Readings)
      /\ Len(sensorQueue) <= SensorCap
      /\ sensorQueue # <<>>
      /\ sensorQueue' = Tail(sensorQueue)
  BY DEF TypeOK, SensorEvict
<1>q. QED  BY <1>1, ReceiveType, PipelineAssumption

\* JSON receives what is there, or nothing.
LEMMA JsonReceiveEffect ==
  ASSUME TypeOK, JsonReceive
  PROVE  /\ At("json", "receive")
         /\ Goto("json", "convert")
         /\ holder' = [holder EXCEPT !["sensorMutex"] = None]
         /\ sensorQueue' \in Seq(Readings)
         /\ Len(sensorQueue') <= Len(sensorQueue)
         /\ Len(sensorQueue') \in Nat
         /\ Len(sensorQueue) \in Nat
         /\ converting' \in Readings \cup {Nothing}
         /\ UNCHANGED <<mqttQueue, reading, publishing, wifiVars, online, published>>
<1>1. sensorQueue \in Seq(Readings) /\ converting \in Readings \cup {Nothing}
  BY DEF TypeOK
<1>2. CASE sensorQueue = <<>>
  BY <1>1, <1>2 DEF JsonReceive
<1>3. CASE sensorQueue # <<>>
  <2>1. converting' = Head(sensorQueue) /\ sensorQueue' = Tail(sensorQueue)
    BY <1>3 DEF JsonReceive
  <2>q. QED  BY <1>1, <1>3, <2>1, ReceiveType DEF JsonReceive
<1>q. QED  BY <1>2, <1>3

\* The Wi-Fi task's send, as for the sensor queue.
LEMMA WifiSendEffect ==
  ASSUME TypeOK, WifiSend
  PROVE  /\ At("wifi", "send")
         /\ Goto("wifi", "giveMqtt") \/ Goto("wifi", "evict")
         /\ mqttQueue' \in Seq(Messages \cup {Nothing})
         /\ Len(mqttQueue') <= MqttCap
         /\ UNCHANGED <<holder, sensorQueue, bufferVars, wifiVars, online, published>>
<1>1. /\ mqttQueue \in Seq(Messages \cup {Nothing})
      /\ Len(mqttQueue) <= MqttCap
      /\ PacketMessage \in Messages \cup {Nothing}
  BY DEF TypeOK, Messages
<1>2. CASE Len(mqttQueue) < MqttCap
  <2>1. mqttQueue' = Append(mqttQueue, PacketMessage)
    BY <1>2 DEF WifiSend
  <2>q. QED  BY <1>1, <1>2, <2>1, SendType, PipelineAssumption DEF WifiSend
<1>3. CASE ~(Len(mqttQueue) < MqttCap)
  BY <1>1, <1>3 DEF WifiSend
<1>q. QED  BY <1>2, <1>3

\* Azure receives what is there, or nothing.
LEMMA AzureReceiveEffect ==
  ASSUME TypeOK, AzureReceive
  PROVE  /\ At("azure", "receive")
         /\ Goto("azure", "publish")
         /\ holder' = [holder EXCEPT !["mqttMutex"] = None]
         /\ mqttQueue' \in Seq(Messages \cup {Nothing})
         /\ Len(mqttQueue') <= Len(mqttQueue)
         /\ Len(mqttQueue') \in Nat
         /\ Len(mqttQueue) \in Nat
         /\ publishing' \in Messages \cup {Nothing}
         /\ UNCHANGED <<sensorQueue, reading, converting, wifiVars, online, published>>
<1>1. /\ mqttQueue \in Seq(Messages \cup {Nothing})
      /\ publishing \in Messages \cup {Nothing}
  BY DEF TypeOK
<1>2. CASE mqttQueue = <<>>
  BY <1>1, <1>2 DEF AzureReceive
<1>3. CASE mqttQueue # <<>>
  <2>1. publishing' = Head(mqttQueue) /\ mqttQueue' = Tail(mqttQueue)
    BY <1>3 DEF AzureReceive
  <2>q. QED  BY <1>1, <1>3, <2>1, ReceiveType DEF AzureReceive
<1>q. QED  BY <1>2, <1>3

\* TypeInv holds at the start; its owners are all None.
LEMMA InitTypeInv == Init => TypeInv
BY PipelineAssumption, Names
DEF Init, TypeInv, TypeOK, MutexInv, RoomInv, SensorSection, WifiSection,
    Tasks, OtherTasks, Mutexes, Readings, Messages, PacketMessage, Nothing, None, Packets,
    SensorPoints, JsonPoints, WifiPoints, AzurePoints

\* A full queue: the owner of the sensor mutex moves on inside its section.
LEMMA QueueFull ==
  ASSUME TypeInv, NEW s \in Sensors, SensorSend(s), Goto(s, "evict")
  PROVE  MutexInv' /\ RoomInv'
<1>1. /\ pc \in [Tasks -> SensorPoints \cup JsonPoints \cup WifiPoints \cup AzurePoints]
      /\ s \in Tasks
      /\ pc[s] \in SensorSection
      /\ UNCHANGED <<holder, mqttQueue>>
  BY DEF TypeInv, TypeOK, Tasks, SensorSend, At, SensorSection, queueVars
<1>2. pc'[s] = "evict" /\ \A t \in Tasks : t # s => pc'[t] = pc[t]
  BY <1>1 DEF Goto
<1>3. \A t \in Sensors : t # s => t \in Tasks /\ pc[t] \notin SensorSection
  BY <1>1 DEF TypeInv, MutexInv, Tasks
<1>4. pc'["json"] = pc["json"] /\ pc'["wifi"] = pc["wifi"] /\ pc'["azure"] = pc["azure"]
  BY <1>2, Names DEF Tasks, OtherTasks
<1>5. \A t \in Sensors : pc'[t] \in SensorSection <=> holder["sensorMutex"] = t
  BY <1>1, <1>2, <1>3 DEF TypeInv, MutexInv, SensorSection, Tasks
<1>6. MutexInv'
  BY <1>1, <1>2, <1>3, <1>4, <1>5 DEF TypeInv, MutexInv, SensorSection
<1>7. RoomInv'
  BY <1>1, <1>2, <1>3, <1>4 DEF TypeInv, RoomInv, SensorSection
<1>q. QED  BY <1>6, <1>7

\* TypeInv and the steps of a sensor task.
LEMMA SensorTypeInv ==
  ASSUME TypeInv, NEW s \in Sensors, SensorStep(s)
  PROVE  TypeInv'
<1>. USE Sizes, Names
     DEF TypeInv, TypeOK, MutexInv, RoomInv, SensorSection, WifiSection,
         Tasks, OtherTasks, Mutexes, Readings, Messages, PacketMessage, Nothing, None, Packets,
         SensorPoints, JsonPoints, WifiPoints, AzurePoints, queueVars, bufferVars, wifiVars,
         At, Goto, Take, GotoAndResume
<1>1. CASE SensorCapture(s)
  BY <1>1 DEF SensorCapture
<1>2. CASE SensorTake(s)
  BY <1>2 DEF SensorTake
<1>3. CASE SensorSend(s)
  <2>1. /\ At(s, "send")
        /\ Goto(s, "giveSensor") \/ Goto(s, "evict")
        /\ sensorQueue' \in Seq(Readings)
        /\ Len(sensorQueue') <= SensorCap
        /\ UNCHANGED <<holder, mqttQueue, bufferVars, wifiVars, online, published>>
    BY <1>3, SensorSendEffect
  <2>2. CASE Goto(s, "giveSensor")
    BY <2>1, <2>2
  <2>3. CASE Goto(s, "evict")
    <3>1. TypeOK'    BY <2>1, <2>3
    <3>2. MutexInv' /\ RoomInv'
      BY <1>3, <2>3, QueueFull
    <3>q. QED  BY <3>1, <3>2
  <2>4. QED BY <2>1, <2>2, <2>3
<1>4. CASE SensorEvict(s)
  <2>1. /\ Head(sensorQueue) \in Readings
        /\ sensorQueue' \in Seq(Readings)
        /\ Len(sensorQueue') < SensorCap
    BY <1>4, SensorEvictEffect
  <2>4. QED BY <1>4, <2>1 DEF SensorEvict
<1>5. CASE SensorResend(s)
  BY <1>5 DEF SensorResend
<1>6. CASE SensorGive(s)
  BY <1>6 DEF SensorGive
<1>7. CASE SensorResumeJson(s)
  BY <1>7, ResumedJson DEF SensorResumeJson
<1>q. QED  BY <1>1, <1>2, <1>3, <1>4, <1>5, <1>6, <1>7 DEF SensorStep

\* TypeInv and the steps of the JSON task.
LEMMA JsonTypeInv ==
  ASSUME TypeInv, JsonStep
  PROVE  TypeInv'
<1>. USE Sizes, Names
     DEF TypeInv, TypeOK, MutexInv, RoomInv, SensorSection, WifiSection,
         Tasks, OtherTasks, Mutexes, Readings, Messages, PacketMessage, Nothing, None, Packets,
         SensorPoints, JsonPoints, WifiPoints, AzurePoints, queueVars, bufferVars, wifiVars,
         At, Goto, Take, GotoAndResume
<1>1. CASE JsonCheck
  BY <1>1 DEF JsonCheck
<1>2. CASE JsonSuspend
  BY <1>2 DEF JsonSuspend
<1>3. CASE JsonRelease
  BY <1>3, MqttMutexFree DEF JsonRelease
<1>4. CASE JsonTake
  BY <1>4 DEF JsonTake
<1>5. CASE JsonReceive
  <2>1. /\ At("json", "receive")
        /\ Goto("json", "convert")
        /\ holder' = [holder EXCEPT !["sensorMutex"] = None]
        /\ sensorQueue' \in Seq(Readings)
        /\ Len(sensorQueue') <= Len(sensorQueue)
        /\ Len(sensorQueue') \in Nat
        /\ Len(sensorQueue) \in Nat
        /\ converting' \in Readings \cup {Nothing}
        /\ UNCHANGED <<mqttQueue, reading, publishing, wifiVars, online, published>>
    BY <1>5, JsonReceiveEffect
  <2>q. QED  BY <2>1
<1>6. CASE JsonConvert
  BY <1>6 DEF JsonConvert
<1>7. CASE JsonSend
  BY <1>7, MqttMutexFree DEF JsonSend
<1>8. CASE JsonResumeAzure
  BY <1>8, ResumedAzure DEF JsonResumeAzure
<1>q. QED  BY <1>1, <1>2, <1>3, <1>4, <1>5, <1>6, <1>7, <1>8 DEF JsonStep

\* TypeInv and the steps of the Wi-Fi task.
LEMMA WifiTypeInv ==
  ASSUME TypeInv, WifiStep
  PROVE  TypeInv'
<1>. USE Sizes, Names
     DEF TypeInv, TypeOK, MutexInv, RoomInv, SensorSection, WifiSection,
         Tasks, OtherTasks, Mutexes, Readings, Messages, PacketMessage, Nothing, None, Packets,
         SensorPoints, JsonPoints, WifiPoints, AzurePoints, queueVars, bufferVars, wifiVars,
         At, Goto, Take, GotoAndResume
<1>1. CASE WifiWake
  BY <1>1, RoundPackets DEF WifiWake
<1>2. CASE WifiFrame
  BY <1>2 DEF WifiFrame
<1>3. CASE WifiFrameFails
  BY <1>3 DEF WifiFrameFails, PacketDone, Packet
<1>4. CASE WifiConnectionLost
  BY <1>4 DEF WifiConnectionLost, Packet
<1>5. CASE WifiTake
  BY <1>5 DEF WifiTake
<1>6. CASE WifiSend
  <2>1. /\ At("wifi", "send")
        /\ Goto("wifi", "giveMqtt") \/ Goto("wifi", "evict")
        /\ mqttQueue' \in Seq(Messages \cup {Nothing})
        /\ Len(mqttQueue') <= MqttCap
        /\ UNCHANGED <<holder, sensorQueue, bufferVars, wifiVars, online, published>>
    BY <1>6, WifiSendEffect
  <2>2. CASE Goto("wifi", "giveMqtt")
    BY <2>1, <2>2
  <2>3. CASE Goto("wifi", "evict")
    BY <2>1, <2>3
  <2>q. QED  BY <2>1, <2>2, <2>3
<1>7. CASE WifiEvict
  BY <1>7 DEF WifiEvict
<1>8. CASE WifiResend
  BY <1>8 DEF WifiResend
<1>9. CASE WifiGive
  BY <1>9 DEF WifiGive, PacketDone, Packet
<1>10. CASE WifiResumeAzure
  BY <1>10, ResumedAzure DEF WifiResumeAzure
<1>q. QED  BY <1>1, <1>2, <1>3, <1>4, <1>5, <1>6, <1>7, <1>8, <1>9, <1>10 DEF WifiStep

\* TypeInv and the steps of the Azure task.
LEMMA AzureTypeInv ==
  ASSUME TypeInv, AzureStep
  PROVE  TypeInv'
<1>. USE Sizes, Names
     DEF TypeInv, TypeOK, MutexInv, RoomInv, SensorSection, WifiSection,
         Tasks, OtherTasks, Mutexes, Readings, Messages, PacketMessage, Nothing, None, Packets,
         SensorPoints, JsonPoints, WifiPoints, AzurePoints, queueVars, bufferVars, wifiVars,
         At, Goto, Take, GotoAndResume
<1>1. CASE ConnectCheck
  BY <1>1 DEF ConnectCheck
<1>2. CASE Connect
  BY <1>2 DEF Connect
<1>3. CASE AzureCheck
  BY <1>3 DEF AzureCheck
<1>4. CASE AzureSuspend
  BY <1>4 DEF AzureSuspend
<1>5. CASE AzureGate
  BY <1>5 DEF AzureGate
<1>6. CASE AzureTake
  BY <1>6 DEF AzureTake
<1>7. CASE AzureReceive
  <2>1. /\ At("azure", "receive")
        /\ Goto("azure", "publish")
        /\ holder' = [holder EXCEPT !["mqttMutex"] = None]
        /\ mqttQueue' \in Seq(Messages \cup {Nothing})
        /\ Len(mqttQueue') <= Len(mqttQueue)
        /\ Len(mqttQueue') \in Nat
        /\ Len(mqttQueue) \in Nat
        /\ publishing' \in Messages \cup {Nothing}
        /\ UNCHANGED <<sensorQueue, reading, converting, wifiVars, online, published>>
    BY <1>7, AzureReceiveEffect
  <2>q. QED  BY <2>1
<1>8. CASE Published
  BY <1>8 DEF Published
<1>9. CASE PublishFails
  BY <1>9 DEF PublishFails
<1>q. QED  BY <1>1, <1>2, <1>3, <1>4, <1>5, <1>6, <1>7, <1>8, <1>9 DEF AzureStep

\* TypeInv is inductive.
LEMMA NextTypeInv == TypeInv /\ [Next]_vars => TypeInv'
<1>. SUFFICES ASSUME TypeInv, [Next]_vars PROVE TypeInv'
  OBVIOUS
<1>1. CASE NetworkChanges
  BY <1>1 DEF NetworkChanges, queueVars, bufferVars, wifiVars,
     TypeInv, TypeOK, MutexInv, RoomInv, SensorSection, WifiSection, Tasks, OtherTasks, Mutexes, Readings, Messages, PacketMessage, Nothing, None
<1>2. CASE UNCHANGED vars
  BY <1>2 DEF vars, TypeInv, TypeOK, MutexInv, RoomInv, SensorSection, WifiSection, Tasks, OtherTasks, Mutexes, Readings, Messages, PacketMessage, Nothing, None
<1>q. QED
  BY <1>1, <1>2, SensorTypeInv, JsonTypeInv, WifiTypeInv, AzureTypeInv DEF Next

\* The inductive invariant of part 1: types, who owns which mutex, and room for
\* the record that replaces an evicted one.
THEOREM TypeInvariance == Spec => []TypeInv
  BY InitTypeInv, NextTypeInv, PTL DEF Spec

\* Every task is at a point of its own code, both queues stay within their
\* sizes and every record is one its C type can hold, whatever the tasks do.
THEOREM TypeCorrect == Spec => []TypeOK
<1>1. TypeInv => TypeOK  BY DEF TypeInv
<1>q. QED  BY <1>1, TypeInvariance, PTL

\* No task sleeps, waits for the network or waits for the other mutex while it
\* owns a mutex, for every number of sensors and all queue sizes (also when the
\* sensor queue overflows).
THEOREM MutexHoldersActive == Spec => []HolderIsActive
<1>1. TypeInv => HolderIsActive
  BY DEF TypeInv, TypeOK, MutexInv, HolderIsActive, SensorSection, WifiSection,
         Mutexes, Tasks, OtherTasks, None
<1>q. QED  BY <1>1, TypeInvariance, PTL

-----------------------------------------------------------------------------
(* Part 2.  The JSON task                                                   *)

\* Why JSON may be asleep over a reading, and that the reading it saw, or
\* another, is there when it receives: a sensor task that evicts the only one
\* puts it back under the mutex.
WakeInv ==
  /\ pc["json"] = "suspend" => sensorQueue = <<>>
  /\ NoLostJsonWakeup
  /\ pc["json"] \in {"takeToRelease", "receive"} => sensorQueue # <<>>
  /\ pc["json"] = "takeSensor" =>
       sensorQueue # <<>> \/ \E s \in Sensors : pc[s] = "resend"

\* Priorities of the tasks.
LEMMA Priorities ==
  /\ Prio["json"] = 2
  /\ \A s \in Sensors : Prio[s] = 1
BY Names DEF Prio, Tasks, OtherTasks

\* Whose priority a task runs at.
LEMMA DonorsOf ==
  ASSUME NEW t, NEW d
  PROVE  d \in Donors(t) <=>
           \/ d = t
           \/ /\ d \in Tasks
              /\ \E m \in Mutexes : holder[m] = t /\ pc[d] \in TakePoints[m]
<1>1. \A m : m \in Held(t) <=> m \in Mutexes /\ holder[m] = t
  BY DEF Held
<1>2. \A m : d \in Waiters(m) <=> d \in Tasks /\ pc[d] \in TakePoints[m]
  BY DEF Waiters
<1>q. QED  BY <1>1, <1>2, SMT DEF Donors

\* Who waits for a mutex a sensor task holds: other sensor tasks and JSON.
LEMMA SensorDonors ==
  ASSUME TypeInv, NEW s \in Sensors,
         ~(pc["json"] = "takeSensor" /\ holder["sensorMutex"] = s)
  PROVE  \A d \in Donors(s) : Prio[d] = 1
<1>. SUFFICES ASSUME NEW d \in Donors(s), d # s PROVE d \in Sensors
  BY Priorities
<1>1. PICK m \in Mutexes : holder[m] = s /\ pc[d] \in TakePoints[m]
  BY DonorsOf
<1>2. d \in Tasks
  BY DonorsOf
<1>3. m = "sensorMutex"
  BY <1>1, Names DEF TypeInv, MutexInv, Mutexes, None
<1>4. pc[d] = "takeSensor" /\ holder["sensorMutex"] = s
  BY <1>1, <1>3 DEF TakePoints, Mutexes
<1>5. pc["wifi"] # "takeSensor" /\ pc["azure"] # "takeSensor"
  BY DEF TypeInv, TypeOK, WifiPoints, AzurePoints
<1>q. QED  BY <1>2, <1>4, <1>5 DEF Tasks, OtherTasks

\* A sensor task does not run while a task that runs for JSON could.
LEMMA JsonFirst ==
  ASSUME TypeInv, NEW s \in Sensors, MayRun(s),
         ~(pc["json"] = "takeSensor" /\ holder["sensorMutex"] = s),
         NEW u \in Tasks, u # s, Ready(u), "json" \in Donors(u)
  PROVE  FALSE
<1>1. Outranks(u, s)
  BY SensorDonors, Priorities DEF Outranks
<1>q. QED  BY <1>1 DEF MayRun

\* The scheduling fact everything rests on: a sensor task runs only while JSON
\* sleeps on an empty queue or waits for the mutex of the sensor queue.
LEMMA JsonWaits ==
  ASSUME TypeInv, NEW s \in Sensors, MayRun(s)
  PROVE  \/ pc["json"] = "emptySuspended"
         \/ pc["json"] = "takeSensor" /\ holder["sensorMutex"] # None
<1>. SUFFICES ASSUME pc["json"] # "emptySuspended",
                     ~(pc["json"] = "takeSensor" /\ holder["sensorMutex"] # None)
              PROVE  FALSE
  OBVIOUS
<1>1. /\ ~(pc["json"] = "takeSensor" /\ holder["sensorMutex"] = s)
      /\ "json" \in Tasks /\ "json" # s
      /\ "json" \in Donors("json")
  BY Names, DonorsOf DEF Tasks, OtherTasks, None
<1>2. CASE Ready("json")
  BY <1>1, <1>2, JsonFirst
<1>3. CASE ~Ready("json")
  <2>1. pc["json"] \notin Waiting
    BY DEF TypeInv, TypeOK, JsonPoints, Waiting
  <2>2. PICK m \in Mutexes : holder[m] # None /\ pc["json"] \in TakePoints[m]
    BY <1>3, <2>1 DEF Ready, Blocked
  <2>3. m = "mqttMutex"
    BY <2>2 DEF Mutexes, TakePoints
  <2>4. PICK u \in {"wifi", "azure"} : holder["mqttMutex"] = u
    BY <2>2, <2>3 DEF TypeInv, MutexInv
  <2>5. pc[u] \in WifiSection \cup {"receive"}
    BY <2>4 DEF TypeInv, MutexInv, WifiSection
  <2>6. Ready(u)
    BY <2>5 DEF Ready, Waiting, Blocked, TakePoints, Mutexes, WifiSection
  <2>7. u \in Tasks /\ u # s /\ "json" \in Donors(u)
    BY <2>2, <2>3, <2>4, Names, DonorsOf DEF Tasks, OtherTasks, Mutexes
  <2>q. QED  BY <1>1, <2>6, <2>7, JsonFirst
<1>q. QED  BY <1>2, <1>3

\* The steps of a sensor task: it queues with the resumption still to come.
LEMMA SensorWakeInv ==
  ASSUME TypeInv, WakeInv, NEW s \in Sensors, SensorStep(s)
  PROVE  WakeInv'
<1>1. /\ pc \in [Tasks -> SensorPoints \cup JsonPoints \cup WifiPoints \cup AzurePoints]
      /\ {"json", "wifi", "azure"} \cup Sensors = Tasks
      /\ sensorQueue \in Seq(Readings)
      /\ reading[s] \in Readings
      /\ pc["json"] \in JsonPoints
      /\ s # "json"
  BY Names DEF TypeInv, TypeOK, Tasks, OtherTasks
<1>2. \/ pc["json"] = "emptySuspended"
      \/ pc["json"] = "takeSensor" /\ holder["sensorMutex"] # None
  BY JsonWaits DEF SensorStep, SensorCapture, SensorTake, SensorSend, SensorEvict,
     SensorResend, SensorGive, SensorResumeJson, At
<1>. USE DEF WakeInv, NoLostJsonWakeup
<1>3. CASE SensorCapture(s) \/ SensorTake(s) \/ SensorGive(s)
  <2>1. /\ sensorQueue' = sensorQueue /\ pc'["json"] = pc["json"]
        /\ \A t \in Sensors \ {s} : pc'[t] = pc[t]
        /\ pc[s] # "resend" /\ pc[s] # "resumeJson"
        /\ pc[s] = "giveSensor" => pc'[s] = "resumeJson"
    BY <1>1, <1>3
    DEF SensorCapture, SensorTake, SensorGive, At, Goto, Take, queueVars
  <2>q. QED  BY <1>2, <2>1
<1>4. CASE SensorSend(s)
  <2>1. /\ pc[s] = "send" /\ pc'["json"] = pc["json"]
        /\ \A t \in Sensors \ {s} : pc'[t] = pc[t]
        /\ \/ pc'[s] = "giveSensor" /\ sensorQueue' = Append(sensorQueue, reading[s])
           \/ sensorQueue' = sensorQueue
    BY <1>1, <1>4 DEF SensorSend, At, Goto
  <2>2. CASE pc'[s] = "giveSensor" /\ sensorQueue' = Append(sensorQueue, reading[s])
    <3>1. sensorQueue' # <<>>
      BY <1>1, <2>2
    <3>q. QED  BY <1>2, <2>1, <2>2, <3>1
  <2>3. CASE sensorQueue' = sensorQueue
    BY <1>2, <2>1, <2>3
  <2>q. QED  BY <2>1, <2>2, <2>3
<1>5. CASE SensorEvict(s)
  <2>1. /\ pc[s] = "evict" /\ pc'[s] = "resend" /\ pc'["json"] = pc["json"]
        /\ \A t \in Sensors \ {s} : pc'[t] = pc[t]
        /\ sensorQueue # <<>>
    BY <1>1, <1>5 DEF SensorEvict, At, Goto
  <2>q. QED  BY <1>2, <2>1
<1>6. CASE SensorResend(s)
  <2>1. /\ pc'[s] = "giveSensor" /\ pc'["json"] = pc["json"]
        /\ sensorQueue' = Append(sensorQueue, reading[s])
    BY <1>1, <1>6 DEF SensorResend, At, Goto
  <2>2. sensorQueue' # <<>>
    BY <1>1, <2>1
  <2>q. QED  BY <1>2, <2>1, <2>2
<1>7. CASE SensorResumeJson(s)
  <2>1. /\ pc[s] = "resumeJson" /\ pc'["json"] = AfterResume("json")
        /\ \A t \in Sensors \ {s} : pc'[t] = pc[t]
        /\ sensorQueue' = sensorQueue
    BY <1>1, <1>7, Names DEF SensorResumeJson, At, GotoAndResume, queueVars
  <2>2. AfterResume("json") = IF pc["json"] = "emptySuspended" THEN "check"
                              ELSE pc["json"]
    BY <1>1, ResumedJson
  <2>q. QED  BY <1>2, <2>1, <2>2
<1>q. QED  BY <1>3, <1>4, <1>5, <1>6, <1>7 DEF SensorStep

\* JSON looks at the queue before it suspends itself or asks for the mutex, and
\* gets the mutex from nobody who is in the middle of replacing a reading.
LEMMA JsonWakeInv ==
  ASSUME TypeInv, WakeInv, JsonStep
  PROVE  WakeInv'
<1>1. /\ pc \in [Tasks -> SensorPoints \cup JsonPoints \cup WifiPoints \cup AzurePoints]
      /\ {"json", "wifi", "azure"} \cup Sensors = Tasks
  BY DEF TypeInv, TypeOK, Tasks, OtherTasks
<1>. USE DEF WakeInv, NoLostJsonWakeup
<1>2. CASE JsonReceive
  BY <1>1, <1>2 DEF JsonReceive, Goto
<1>3. CASE JsonTake
  <2>1. /\ pc["json"] = "takeSensor" /\ pc'["json"] = "receive"
        /\ holder["sensorMutex"] = None /\ sensorQueue' = sensorQueue
    BY <1>1, <1>3 DEF JsonTake, At, Take, Goto, queueVars
  <2>2. \A s \in Sensors : pc[s] # "resend"
    BY <2>1, Names DEF TypeInv, MutexInv, SensorSection, None
  <2>q. QED  BY <2>1, <2>2
<1>4. CASE JsonStep /\ ~JsonReceive /\ ~JsonTake
  <2>1. sensorQueue' = sensorQueue
    BY <1>4 DEF JsonStep, JsonCheck, JsonSuspend, JsonRelease, JsonConvert, JsonSend,
         JsonResumeAzure, queueVars
  <2>2. \/ pc'["json"] \in {"check", "convert", "takeMqtt", "resumeAzure"}
        \/ pc'["json"] = "suspend" /\ sensorQueue = <<>>
        \/ pc'["json"] \in {"takeToRelease", "takeSensor"} /\ sensorQueue # <<>>
        \/ pc["json"] = "suspend" /\ pc'["json"] = "emptySuspended"
        \/ pc["json"] = "takeToRelease" /\ pc'["json"] = "takeSensor"
    BY <1>1, <1>4 DEF JsonStep, JsonCheck, JsonSuspend, JsonRelease, JsonConvert,
         JsonSend, JsonResumeAzure, At, Goto, GotoAndResume
  <2>q. QED  BY <2>1, <2>2
<1>q. QED  BY <1>2, <1>3, <1>4

\* The tasks behind the MQTT queue leave the sensor queue, JSON and the sensor
\* tasks alone.
LEMMA BehindMqttQueue ==
  ASSUME TypeInv, WifiStep \/ AzureStep \/ NetworkChanges \/ UNCHANGED vars
  PROVE  /\ UNCHANGED <<sensorQueue, reading>>
         /\ pc'["json"] = pc["json"] /\ \A t \in Sensors : pc'[t] = pc[t]
<1>1. /\ pc \in [Tasks -> SensorPoints \cup JsonPoints \cup WifiPoints \cup AzurePoints]
      /\ {"json", "wifi", "azure"} \cup Sensors = Tasks
  BY DEF TypeInv, TypeOK, Tasks, OtherTasks
<1>2. CASE WifiStep
  <2>1. \/ \E p \in WifiPoints : Goto("wifi", p)
        \/ GotoAndResume("wifi", "delay", "azure")
    BY <1>2 DEF WifiStep, WifiWake, WifiFrame, WifiFrameFails, WifiConnectionLost,
         WifiTake, WifiSend, WifiEvict, WifiResend, WifiGive, WifiResumeAzure,
         Take, PacketDone, WifiPoints
  <2>2. pc'["json"] = pc["json"] /\ \A t \in Sensors : pc'[t] = pc[t]
    BY <1>1, <2>1, Names DEF Goto, GotoAndResume
  <2>3. UNCHANGED <<sensorQueue, reading>>
    BY <1>2 DEF WifiStep, WifiWake, WifiFrame, WifiFrameFails, WifiConnectionLost,
         WifiTake, WifiSend, WifiEvict, WifiResend, WifiGive, WifiResumeAzure,
         queueVars, bufferVars
  <2>q. QED  BY <2>2, <2>3
<1>3. CASE AzureStep
  <2>1. \E p \in AzurePoints : Goto("azure", p)
    BY <1>3 DEF AzureStep, ConnectCheck, Connect, AzureCheck, AzureSuspend, AzureGate,
         AzureTake, AzureReceive, Published, PublishFails, Take, AzurePoints
  <2>2. pc'["json"] = pc["json"] /\ \A t \in Sensors : pc'[t] = pc[t]
    BY <1>1, <2>1, Names DEF Goto
  <2>3. UNCHANGED <<sensorQueue, reading>>
    BY <1>3 DEF AzureStep, ConnectCheck, Connect, AzureCheck, AzureSuspend, AzureGate,
         AzureTake, AzureReceive, Published, PublishFails, queueVars, bufferVars
  <2>q. QED  BY <2>2, <2>3
<1>4. CASE NetworkChanges \/ UNCHANGED vars
  BY <1>4 DEF NetworkChanges, vars, queueVars, bufferVars
<1>q. QED  BY <1>2, <1>3, <1>4

\* The inductive invariant of part 2, with and without overflow.
THEOREM WakeInvariance == Spec => []WakeInv
<1>1. Init => WakeInv
  BY Names DEF Init, WakeInv, NoLostJsonWakeup, Tasks, OtherTasks
<1>2. TypeInv /\ WakeInv /\ [Next]_vars => WakeInv'
  <2>1. ASSUME TypeInv, WakeInv, WifiStep \/ AzureStep \/ NetworkChanges \/ UNCHANGED vars
        PROVE  WakeInv'
    BY <2>1, BehindMqttQueue DEF WakeInv, NoLostJsonWakeup
  <2>q. QED  BY <2>1, SensorWakeInv, JsonWakeInv DEF Next
<1>q. QED  BY <1>1, <1>2, TypeInvariance, PTL DEF Spec

\* JSON is never left asleep over a reading, for every number of sensor tasks and
\* all queue sizes, also when the sensor queue overflows.
THEOREM JsonWakesUp == Spec => []NoLostJsonWakeup
<1>1. WakeInv => NoLostJsonWakeup  BY DEF WakeInv
<1>q. QED  BY <1>1, WakeInvariance, PTL

\* Likewise JSON never receives from an empty queue, although it looks at the
\* queue without the mutex and does not look at the result of xQueueReceive.
THEOREM JsonAlwaysReceives == Spec => []JsonReceivesReading
<1>1. WakeInv => JsonReceivesReading  BY DEF WakeInv, JsonReceivesReading
<1>q. QED  BY <1>1, WakeInvariance, PTL

-----------------------------------------------------------------------------
(* Part 3.  One reading per sensor                                          *)

SourceOf(i) == sensorQueue[i].source

\* While JSON sleeps, whoever has queued something is still to resume it.
WakeupInv ==
  pc["json"] = "emptySuspended" =>
    \A i \in 1..Len(sensorQueue) : pc[SourceOf(i)] \in {"giveSensor", "resumeJson"}

\* A sensor task whose reading waits is not about to send another.
SourceInv ==
  /\ \A s \in Sensors : reading[s].source = s /\ pc[s] \notin {"evict", "resend"}
  /\ \A i \in 1..Len(sensorQueue) : pc[SourceOf(i)] # "send"

OneInv == WakeupInv /\ SourceInv /\ OneReadingPerSensor

\* Every sensor task may have one reading waiting (3 tasks, 10 places).
RoomForEverySensor == IsFiniteSet(Sensors) /\ Cardinality(Sensors) <= SensorCap

\* A waiting reading comes from a sensor.
LEMMA SourceType ==
  ASSUME sensorQueue \in Seq(Readings)
  PROVE  /\ Len(sensorQueue) \in Nat
         /\ \A i \in 1..Len(sensorQueue) : SourceOf(i) \in Sensors
<1>1. \A i \in 1..Len(sensorQueue) : sensorQueue[i] \in Readings
  OBVIOUS
<1>q. QED  BY <1>1 DEF SourceOf, Readings

\* As long as a sensor task has no reading in the queue there is room for one.
LEMMA RoomLeft ==
  ASSUME RoomForEverySensor, TypeOK, OneReadingPerSensor, NEW s \in Sensors,
         \A i \in 1..Len(sensorQueue) : SourceOf(i) # s
  PROVE  Len(sensorQueue) < SensorCap
<1>. DEFINE n == Len(sensorQueue)
            others == Sensors \ {s}
            f == [i \in 1..n |-> SourceOf(i)]
<1>1. n \in Nat /\ \A i \in 1..n : SourceOf(i) \in others
  BY SourceType DEF TypeOK
<1>2. f \in Injection(1..n, others)
  BY <1>1 DEF OneReadingPerSensor, SourceOf, Injection, IsInjective
<1>3. /\ IsFiniteSet(others)
      /\ Cardinality(others) = Cardinality(Sensors) - 1
      /\ Cardinality(Sensors) \in Nat
  BY FS_RemoveElement, FS_CardinalityType DEF RoomForEverySensor
<1>4. Cardinality(1..n) <= Cardinality(others)
  BY <1>2, <1>3, FS_Injection
<1>. HIDE DEF n, others
<1>5. Cardinality(1..n) = n
  BY <1>1, FS_Interval
<1>6. n < SensorCap
  BY <1>1, <1>3, <1>4, <1>5, PipelineAssumption DEF RoomForEverySensor
<1>q. QED  BY <1>6 DEF n

\* Both queues are empty at the start.
LEMMA InitOneInv == Init => OneInv
BY Names DEF Init, OneInv, WakeupInv, SourceInv, OneReadingPerSensor, SourceOf, Tasks,
             OtherTasks

\* What concerns only the Azure task, the Wi-Fi task and the MQTT queue.
LEMMA OthersOneInv ==
  ASSUME OneInv, UNCHANGED <<sensorQueue, reading>>,
         pc'["json"] = pc["json"], \A t \in Sensors : pc'[t] = pc[t],
         sensorQueue \in Seq(Readings)
  PROVE  OneInv'
<1>1. \A i \in 1..Len(sensorQueue) : SourceOf(i) \in Sensors
  BY SourceType
<1>q. QED
  BY <1>1 DEF OneInv, WakeupInv, SourceInv, OneReadingPerSensor, SourceOf

\* The tasks behind the MQTT queue.
LEMMA WifiAzureOneInv ==
  ASSUME TypeInv, OneInv, WifiStep \/ AzureStep \/ NetworkChanges \/ UNCHANGED vars
  PROVE  OneInv'
<1>1. sensorQueue \in Seq(Readings)
  BY DEF TypeInv, TypeOK
<1>q. QED  BY <1>1, BehindMqttQueue, OthersOneInv

\* Receiving the oldest reading.
LEMMA Received ==
  ASSUME OneInv, sensorQueue \in Seq(Readings), sensorQueue # <<>>,
         sensorQueue' = Tail(sensorQueue), reading' = reading,
         \A t \in Sensors : pc'[t] = pc[t], pc'["json"] = "convert"
  PROVE  OneInv'
<1>1. /\ Len(sensorQueue') = Len(sensorQueue) - 1
      /\ Len(sensorQueue') \in Nat /\ Len(sensorQueue) \in Nat
      /\ \A i \in 1..Len(sensorQueue') : i + 1 \in 1..Len(sensorQueue)
                                       /\ sensorQueue'[i] = sensorQueue[i + 1]
  OBVIOUS
<1>2. \A i \in 1..Len(sensorQueue) : SourceOf(i) \in Sensors
  BY SourceType
<1>3. \A i \in 1..Len(sensorQueue') : pc'[SourceOf(i)'] # "send"
  BY <1>1, <1>2 DEF OneInv, SourceInv, SourceOf
<1>4. OneReadingPerSensor'
  <2>. SUFFICES ASSUME NEW i \in 1..Len(sensorQueue'), NEW j \in 1..Len(sensorQueue'),
                       sensorQueue'[i].source = sensorQueue'[j].source
                PROVE  i = j
    BY DEF OneReadingPerSensor
  <2>1. i + 1 = j + 1
    BY <1>1 DEF OneInv, OneReadingPerSensor
  <2>q. QED  BY <1>1, <2>1
<1>q. QED  BY <1>3, <1>4 DEF OneInv, WakeupInv, SourceInv

\* JSON falls asleep only over an empty queue and takes readings away.
LEMMA JsonOneInv ==
  ASSUME TypeInv, WakeInv, OneInv, JsonStep
  PROVE  OneInv'
<1>1. /\ pc \in [Tasks -> SensorPoints \cup JsonPoints \cup WifiPoints \cup AzurePoints]
      /\ {"json", "wifi", "azure"} \cup Sensors = Tasks
      /\ sensorQueue \in Seq(Readings)
      /\ \A i \in 1..Len(sensorQueue) : SourceOf(i) \in Sensors
  BY SourceType DEF TypeInv, TypeOK, Tasks, OtherTasks
<1>2. CASE JsonReceive
  <2>1. sensorQueue # <<>>
    BY <1>2 DEF JsonReceive, At, WakeInv
  <2>2. /\ sensorQueue' = Tail(sensorQueue) /\ reading' = reading
        /\ pc'["json"] = "convert" /\ \A t \in Sensors : pc'[t] = pc[t]
    BY <1>1, <1>2, <2>1, Names DEF JsonReceive, Goto
  <2>q. QED  BY <1>1, <2>1, <2>2, Received
<1>3. CASE JsonStep /\ ~JsonReceive
  <2>1. \/ \E p \in JsonPoints : Goto("json", p)
        \/ GotoAndResume("json", "check", "azure")
    BY <1>3 DEF JsonStep, JsonCheck, JsonSuspend, JsonRelease, JsonTake, JsonConvert,
         JsonSend, JsonResumeAzure, Take, JsonPoints
  <2>2. \A t \in Sensors : pc'[t] = pc[t]
    BY <1>1, <2>1, Names DEF Goto, GotoAndResume
  <2>3. UNCHANGED <<sensorQueue, reading>>
    BY <1>3 DEF JsonStep, JsonCheck, JsonSuspend, JsonRelease, JsonTake, JsonConvert,
         JsonSend, JsonResumeAzure, queueVars, bufferVars
  <2>4. OneReadingPerSensor' /\ SourceInv'
    BY <1>1, <2>2, <2>3 DEF OneInv, SourceInv, OneReadingPerSensor, SourceOf
  <2>5. pc'["json"] = "emptySuspended" => pc["json"] = "suspend"
    BY <1>1, <1>3 DEF JsonStep, JsonCheck, JsonSuspend, JsonRelease, JsonTake,
         JsonConvert, JsonSend, JsonResumeAzure, Take, At, Goto, GotoAndResume
  <2>6. WakeupInv'
    BY <2>3, <2>5 DEF WakeInv, WakeupInv, SourceOf
  <2>q. QED  BY <2>4, <2>6 DEF OneInv
<1>q. QED  BY <1>2, <1>3

\* A sensor task that takes the mutex has no reading waiting: JSON sleeps, and
\* whoever has queued something is still to resume it.
LEMMA NothingWaiting ==
  ASSUME TypeInv, OneInv, NEW s \in Sensors, At(s, "takeSensor"),
         holder["sensorMutex"] = None
  PROVE  \A i \in 1..Len(sensorQueue) : SourceOf(i) # s
<1>1. pc["json"] = "emptySuspended"
  BY JsonWaits DEF At
<1>q. QED  BY <1>1 DEF At, OneInv, WakeupInv

\* Sending a reading of s.
LEMMA Queued ==
  ASSUME OneInv, NEW s \in Sensors, sensorQueue \in Seq(Readings),
         \A i \in 1..Len(sensorQueue) : SourceOf(i) # s,
         reading[s] \in Readings,
         sensorQueue' = Append(sensorQueue, reading[s]), reading' = reading,
         pc'[s] = "giveSensor", \A t \in Sensors \ {s} : pc'[t] = pc[t],
         pc'["json"] = pc["json"]
  PROVE  OneInv'
<1>1. /\ Len(sensorQueue) \in Nat
      /\ Len(sensorQueue') = Len(sensorQueue) + 1
      /\ sensorQueue' # <<>>
      /\ \A i \in 1..Len(sensorQueue') :
           IF i = Len(sensorQueue) + 1 THEN sensorQueue'[i] = reading[s]
           ELSE i \in 1..Len(sensorQueue) /\ sensorQueue'[i] = sensorQueue[i]
  OBVIOUS
<1>2. \A i \in 1..Len(sensorQueue) : SourceOf(i) \in Sensors \ {s}
  BY SourceType
<1>3. \A i \in 1..Len(sensorQueue') :
        IF i = Len(sensorQueue) + 1 THEN SourceOf(i)' = s
        ELSE i \in 1..Len(sensorQueue) /\ SourceOf(i)' = SourceOf(i)
  BY <1>1 DEF SourceOf, OneInv, SourceInv
<1>4. OneReadingPerSensor'
  <2>. SUFFICES ASSUME NEW i \in 1..Len(sensorQueue'), NEW j \in 1..Len(sensorQueue'),
                       SourceOf(i)' = SourceOf(j)'
                PROVE  i = j
    BY DEF OneReadingPerSensor, SourceOf
  <2>1. CASE i \in 1..Len(sensorQueue) /\ j \in 1..Len(sensorQueue)
    <3>1. SourceOf(i) = SourceOf(j)
      BY <1>1, <1>3, <2>1
    <3>q. QED  BY <2>1, <3>1 DEF OneInv, OneReadingPerSensor, SourceOf
  <2>2. CASE i = Len(sensorQueue) + 1 \/ j = Len(sensorQueue) + 1
    BY <1>1, <1>2, <1>3, <2>2
  <2>q. QED  BY <1>1, <2>1, <2>2
<1>5. WakeupInv'
  BY <1>1, <1>2, <1>3 DEF OneInv, WakeupInv
<1>6. SourceInv'
  BY <1>1, <1>2, <1>3 DEF OneInv, SourceInv
<1>q. QED  BY <1>4, <1>5, <1>6 DEF OneInv

\* A sensor task captures, sends and resumes JSON; it never evicts.
LEMMA SensorOneInv ==
  ASSUME RoomForEverySensor, TypeInv, OneInv, NEW s \in Sensors, SensorStep(s)
  PROVE  OneInv'
<1>1. /\ pc \in [Tasks -> SensorPoints \cup JsonPoints \cup WifiPoints \cup AzurePoints]
      /\ {"json", "wifi", "azure"} \cup Sensors = Tasks
      /\ sensorQueue \in Seq(Readings)
      /\ reading \in [Sensors -> Readings]
      /\ s # "json"
      /\ \A i \in 1..Len(sensorQueue) : SourceOf(i) \in Sensors
  BY SourceType, Names DEF TypeInv, TypeOK, Tasks, OtherTasks
<1>2. CASE SensorCapture(s)
  <2>1. /\ pc[s] = "delay" /\ pc'[s] = "takeSensor" /\ pc'["json"] = pc["json"]
        /\ \A t \in Sensors \ {s} : pc'[t] = pc[t]
        /\ sensorQueue' = sensorQueue
        /\ \A t \in Sensors : reading'[t].source = t
    BY <1>1, <1>2 DEF SensorCapture, At, Goto, queueVars, Readings, OneInv, SourceInv
  <2>2. WakeupInv' /\ OneReadingPerSensor'
    BY <1>1, <2>1 DEF OneInv, WakeupInv, OneReadingPerSensor, SourceOf
  <2>3. SourceInv'
    BY <1>1, <2>1 DEF OneInv, SourceInv, SourceOf
  <2>q. QED  BY <2>2, <2>3 DEF OneInv
<1>3. CASE SensorTake(s)
  <2>1. /\ At(s, "takeSensor") /\ holder["sensorMutex"] = None
        /\ pc'[s] = "send" /\ pc'["json"] = pc["json"]
        /\ \A t \in Sensors \ {s} : pc'[t] = pc[t]
        /\ UNCHANGED <<sensorQueue, reading>>
    BY <1>1, <1>3 DEF SensorTake, Take, Goto, queueVars, bufferVars
  <2>2. \A i \in 1..Len(sensorQueue) : SourceOf(i) # s
    BY <2>1, NothingWaiting
  <2>q. QED
    BY <1>1, <2>1, <2>2 DEF OneInv, WakeupInv, SourceInv, OneReadingPerSensor, SourceOf
<1>4. CASE SensorSend(s)
  <2>1. pc[s] = "send" /\ MayRun(s)
    BY <1>4 DEF SensorSend, At
  <2>2. \A i \in 1..Len(sensorQueue) : SourceOf(i) # s
    BY <2>1 DEF OneInv, SourceInv
  <2>3. Len(sensorQueue) < SensorCap
    BY <2>2, RoomLeft DEF OneInv, TypeInv
  <2>4. /\ sensorQueue' = Append(sensorQueue, reading[s])
        /\ reading' = reading
        /\ pc'[s] = "giveSensor" /\ pc'["json"] = pc["json"]
        /\ \A t \in Sensors \ {s} : pc'[t] = pc[t]
    BY <1>1, <1>4, <2>3 DEF SensorSend, Goto, bufferVars
  <2>5. reading[s] \in Readings
    BY <1>1
  <2>q. QED  BY <1>1, <2>2, <2>4, <2>5, Queued
<1>5. CASE SensorEvict(s) \/ SensorResend(s)
  BY <1>5 DEF SensorEvict, SensorResend, At, OneInv, SourceInv
<1>6. CASE SensorGive(s)
  <2>1. /\ pc[s] = "giveSensor" /\ pc'[s] = "resumeJson" /\ pc'["json"] = pc["json"]
        /\ \A t \in Sensors \ {s} : pc'[t] = pc[t]
        /\ UNCHANGED <<sensorQueue, reading>>
    BY <1>1, <1>6 DEF SensorGive, At, Goto, queueVars, bufferVars
  <2>q. QED
    BY <1>1, <2>1 DEF OneInv, WakeupInv, SourceInv, OneReadingPerSensor, SourceOf
<1>7. CASE SensorResumeJson(s)
  <2>1. /\ pc["json"] = "emptySuspended" \/ pc["json"] = "takeSensor"
        /\ pc["json"] \in JsonPoints
    BY <1>7, JsonWaits DEF SensorResumeJson, At, JsonPoints
  <2>2. AfterResume("json") = IF pc["json"] = "emptySuspended" THEN "check"
                              ELSE pc["json"]
    BY <2>1, ResumedJson
  <2>3. /\ pc[s] = "resumeJson" /\ pc'[s] = "delay"
        /\ pc'["json"] = AfterResume("json")
        /\ \A t \in Sensors \ {s} : pc'[t] = pc[t]
        /\ UNCHANGED <<sensorQueue, reading>>
    BY <1>1, <1>7, Names DEF SensorResumeJson, At, GotoAndResume, queueVars, bufferVars
  <2>q. QED
    BY <1>1, <2>1, <2>2, <2>3
    DEF OneInv, WakeupInv, SourceInv, OneReadingPerSensor, SourceOf
<1>q. QED  BY <1>2, <1>3, <1>4, <1>5, <1>6, <1>7 DEF SensorStep

\* Given room for every sensor, OneInv is inductive relative to the others.
LEMMA NextOneInv ==
  RoomForEverySensor => (TypeInv /\ WakeInv /\ OneInv /\ [Next]_vars => OneInv')
BY SensorOneInv, JsonOneInv, WifiAzureOneInv DEF Next

\* The inductive invariant of part 3: why JSON may be asleep, and whose reading
\* may wait while its task does what.
THEOREM OneInvariance ==
  ASSUME RoomForEverySensor
  PROVE  Spec => []OneInv
<1>1. TypeInv /\ WakeInv /\ OneInv /\ [Next]_vars => OneInv'
  BY NextOneInv
<1>q. QED  BY <1>1, InitOneInv, TypeInvariance, WakeInvariance, PTL DEF Spec

\* With room for a reading of every sensor task, the queue never holds two of
\* one task, however many tasks there are and however they interleave.
THEOREM OneReading ==
  ASSUME RoomForEverySensor
  PROVE  Spec => []OneReadingPerSensor
<1>1. OneInv => OneReadingPerSensor  BY DEF OneInv
<1>q. QED  BY <1>1, OneInvariance, PTL

\* Consequently no sensor task ever meets a full queue.
THEOREM SensorQueueNeverFull ==
  ASSUME RoomForEverySensor
  PROVE  Spec => []NoSensorOverflow
<1>1. OneInv => NoSensorOverflow  BY DEF OneInv, SourceInv, NoSensorOverflow
<1>q. QED  BY <1>1, OneInvariance, PTL

-----------------------------------------------------------------------------
(* Part 4.  The type of a reading                                           *)

\* Nothing writes the sensor_type of a task's record but the eviction branch.
TagInv == (\A s \in Sensors : reading[s].tag = s) /\ ReadingsKeepTheirSource

\* Only a sensor task's step puts a reading on the queue: its own record.
LEMMA SensorTagInv ==
  ASSUME RoomForEverySensor, TypeInv, OneInv, TagInv,
         NEW s \in Sensors, SensorStep(s)
  PROVE  TagInv'
<1>1. /\ sensorQueue \in Seq(Readings) /\ Len(sensorQueue) \in Nat
      /\ reading \in [Sensors -> Readings]
      /\ reading[s].source = s /\ reading[s].tag = s
  BY DEF TypeInv, TypeOK, OneInv, SourceInv, TagInv
<1>2. CASE SensorCapture(s)
  <2>1. sensorQueue' = sensorQueue /\ \A t \in Sensors : reading'[t].tag = reading[t].tag
    BY <1>1, <1>2 DEF SensorCapture, queueVars, Readings
  <2>q. QED  BY <2>1 DEF TagInv, ReadingsKeepTheirSource
<1>3. CASE SensorSend(s)
  <2>1. reading' = reading /\ sensorQueue' \in {sensorQueue, Append(sensorQueue, reading[s])}
    BY <1>3 DEF SensorSend, bufferVars
  <2>2. CASE sensorQueue' = sensorQueue
    BY <2>1, <2>2 DEF TagInv, ReadingsKeepTheirSource
  <2>3. CASE sensorQueue' = Append(sensorQueue, reading[s])
    <3>1. \A i \in 1..Len(sensorQueue') :
            IF i = Len(sensorQueue) + 1 THEN sensorQueue'[i] = reading[s]
            ELSE i \in 1..Len(sensorQueue) /\ sensorQueue'[i] = sensorQueue[i]
      BY <1>1, <2>3
    <3>q. QED  BY <1>1, <2>1, <3>1 DEF TagInv, ReadingsKeepTheirSource
  <2>q. QED  BY <2>1, <2>2, <2>3
<1>4. CASE SensorEvict(s) \/ SensorResend(s)
  BY <1>4 DEF SensorEvict, SensorResend, At, OneInv, SourceInv
<1>5. CASE SensorTake(s) \/ SensorGive(s) \/ SensorResumeJson(s)
  BY <1>5 DEF SensorTake, SensorGive, SensorResumeJson, queueVars, bufferVars,
              TagInv, ReadingsKeepTheirSource
<1>q. QED  BY <1>2, <1>3, <1>4, <1>5 DEF SensorStep

\* The other tasks leave the records of the sensor tasks alone; only JSON
\* touches the sensor queue, and it takes the oldest reading away.
LEMMA OthersTagInv ==
  ASSUME TypeInv, TagInv,
         JsonStep \/ WifiStep \/ AzureStep \/ NetworkChanges \/ UNCHANGED vars
  PROVE  TagInv'
<1>1. CASE JsonReceive
  <2>1. /\ reading' = reading
        /\ \/ sensorQueue' = sensorQueue
           \/ sensorQueue # <<>> /\ sensorQueue' = Tail(sensorQueue)
    BY <1>1 DEF JsonReceive
  <2>2. \A i \in 1..Len(sensorQueue') :
          \E j \in 1..Len(sensorQueue) : sensorQueue'[i] = sensorQueue[j]
    <3>1. CASE sensorQueue' = sensorQueue
      BY <3>1
    <3>2. CASE sensorQueue # <<>> /\ sensorQueue' = Tail(sensorQueue)
      <4>1. sensorQueue \in Seq(Readings)
        BY DEF TypeInv, TypeOK
      <4>2. \A i \in 1..Len(Tail(sensorQueue)) :
              i + 1 \in 1..Len(sensorQueue) /\ Tail(sensorQueue)[i] = sensorQueue[i + 1]
        BY <3>2, <4>1
      <4>q. QED  BY <3>2, <4>2
    <3>q. QED  BY <2>1, <3>1, <3>2
  <2>q. QED  BY <2>1, <2>2 DEF TagInv, ReadingsKeepTheirSource
<1>2. CASE ~JsonReceive
  <2>1. UNCHANGED <<sensorQueue, reading>>
    BY <1>2 DEF JsonStep, JsonCheck, JsonSuspend, JsonRelease, JsonTake, JsonConvert,
         JsonSend, JsonResumeAzure, WifiStep, WifiWake, WifiFrame, WifiFrameFails,
         WifiConnectionLost, WifiTake, WifiSend, WifiEvict, WifiResend, WifiGive,
         WifiResumeAzure, AzureStep, ConnectCheck, Connect, AzureCheck, AzureSuspend,
         AzureGate, AzureTake, AzureReceive, Published, PublishFails, NetworkChanges,
         queueVars, bufferVars, vars
  <2>q. QED  BY <2>1 DEF TagInv, ReadingsKeepTheirSource
<1>q. QED  BY <1>1, <1>2

\* With room for a reading of every sensor task, every queued reading carries
\* the type of the sensor it was taken from, for ever.
THEOREM ReadingsKeepSource ==
  ASSUME RoomForEverySensor
  PROVE  Spec => []ReadingsKeepTheirSource
<1>1. Init => TagInv
  BY DEF Init, TagInv, ReadingsKeepTheirSource
<1>2. TypeInv /\ OneInv /\ TagInv /\ [Next]_vars => TagInv'
  BY SensorTagInv, OthersTagInv DEF Next
<1>3. TagInv => ReadingsKeepTheirSource
  BY DEF TagInv
<1>q. QED  BY <1>1, <1>2, <1>3, TypeInvariance, OneInvariance, PTL DEF Spec

-----------------------------------------------------------------------------
(* Part 5.  The Azure task                                                  *)

\* Why the Azure task may be asleep over a package, and that a packet the Wi-Fi
\* task works on is still on its list.
AzureInv ==
  /\ pc["azure"] = "suspend" => mqttQueue = <<>>
  /\ pc["wifi"] \in {"frame", "takeMqtt", "send", "evict", "resend", "giveMqtt"} =>
       todo # {}
  /\ NoLostAzureWakeup

\* Everybody the Azure task does not wait for runs below its priority.
LEMMA BelowAzure ==
  ASSUME NEW t \in Tasks, t # "azure", pc["azure"] = "suspend"
  PROVE  \A d \in Donors(t) : Prio["azure"] > Prio[d]
<1>1. \A d \in Donors(t) : d \in Tasks /\ d # "azure"
  BY DonorsOf DEF TakePoints, Mutexes
<1>2. "azure" \in Tasks /\ Prio["azure"] = 3
  BY Names DEF Prio, Tasks, OtherTasks
<1>3. \A d \in Tasks \ {"azure"} : Prio[d] \in {1, 2}
  BY DEF Prio
<1>q. QED  BY <1>1, <1>2, <1>3

\* The scheduling fact of this part: between its look at the queue and its
\* vTaskSuspend the Azure task is alone.
LEMMA AzureAlone ==
  ASSUME NEW t \in Tasks, t # "azure", pc["azure"] = "suspend"
  PROVE  ~MayRun(t)
<1>1. "azure" \in Tasks /\ "azure" \in Donors("azure")
  BY DonorsOf DEF Tasks, OtherTasks
<1>2. Outranks("azure", t)
  BY <1>1, BelowAzure DEF Outranks
<1>3. Ready("azure")
  BY DEF Ready, Waiting, Blocked, TakePoints, Mutexes
<1>q. QED  BY <1>1, <1>2, <1>3 DEF MayRun

\* A packet taken off the list is none of those still on it.
LEMMA PacketOnList ==
  ASSUME todo \subseteq Packets, todo # {}
  PROVE  Packet \in todo
BY DEF Packet, Packets

\* JSON puts a package on the queue only with the resumption still to come.
LEMMA JsonAzureInv ==
  ASSUME TypeInv, AzureInv, JsonStep
  PROVE  AzureInv'
<1>1. /\ pc \in [Tasks -> SensorPoints \cup JsonPoints \cup WifiPoints \cup AzurePoints]
      /\ {"json", "wifi", "azure"} \subseteq Tasks
      /\ pc["azure"] \in AzurePoints
  BY DEF TypeInv, TypeOK, Tasks, OtherTasks
<1>2. pc["azure"] # "suspend"
  BY <1>1, AzureAlone DEF JsonStep, JsonCheck, JsonSuspend, JsonRelease, JsonTake,
     JsonReceive, JsonConvert, JsonSend, JsonResumeAzure, At
<1>3. UNCHANGED <<todo, framedOk>>
  BY DEF JsonStep, JsonCheck, JsonSuspend, JsonRelease, JsonTake,
     JsonReceive, JsonConvert, JsonSend, JsonResumeAzure, wifiVars
<1>4. CASE JsonResumeAzure
  <2>1. /\ pc'["wifi"] = pc["wifi"] /\ pc'["azure"] = AfterResume("azure")
    BY <1>1, <1>4 DEF JsonResumeAzure, GotoAndResume
  <2>2. AfterResume("azure") \notin {"suspend", "emptySuspended"}
    BY <1>2 DEF AfterResume
  <2>q. QED  BY <1>3, <2>1, <2>2 DEF AzureInv, NoLostAzureWakeup
<1>5. CASE JsonSend
  <2>1. /\ pc'["wifi"] = pc["wifi"] /\ pc'["azure"] = pc["azure"]
        /\ pc'["json"] = "resumeAzure"
    BY <1>1, <1>5 DEF JsonSend, Goto
  <2>q. QED  BY <1>2, <1>3, <2>1 DEF AzureInv, NoLostAzureWakeup
<1>6. CASE JsonStep /\ ~JsonResumeAzure /\ ~JsonSend
  <2>1. /\ pc["json"] # "resumeAzure"
        /\ \E p \in JsonPoints : Goto("json", p)
    BY <1>6 DEF JsonStep, JsonCheck, JsonSuspend, JsonRelease, JsonTake,
       JsonReceive, JsonConvert, At, Take, JsonPoints
  <2>2. pc'["wifi"] = pc["wifi"] /\ pc'["azure"] = pc["azure"]
    BY <1>1, <2>1 DEF Goto
  <2>3. mqttQueue' # <<>> => mqttQueue # <<>>
    BY <1>6 DEF JsonStep, JsonCheck, JsonSuspend, JsonRelease, JsonTake,
       JsonReceive, JsonConvert, queueVars
  <2>q. QED  BY <1>2, <1>3, <2>1, <2>2, <2>3 DEF AzureInv, NoLostAzureWakeup
<1>q. QED  BY <1>4, <1>5, <1>6

\* The Wi-Fi task leaves a round without resuming Azure only when no packet of
\* it was queued.
LEMMA WifiAzureInv ==
  ASSUME TypeInv, AzureInv, WifiStep
  PROVE  AzureInv'
<1>1. /\ pc \in [Tasks -> SensorPoints \cup JsonPoints \cup WifiPoints \cup AzurePoints]
      /\ {"json", "wifi", "azure"} \subseteq Tasks
      /\ framedOk \in [Packets -> BOOLEAN]
      /\ todo \subseteq Packets
  BY DEF TypeInv, TypeOK, Tasks, OtherTasks
<1>2. pc["azure"] # "suspend"
  BY <1>1, AzureAlone DEF WifiStep, WifiWake, WifiFrame, WifiFrameFails,
     WifiConnectionLost, WifiTake, WifiSend, WifiEvict, WifiResend, WifiGive,
     WifiResumeAzure, At
<1>3. ASSUME NEW p, Goto("wifi", p)
      PROVE  /\ pc'["wifi"] = p
             /\ pc'["json"] = pc["json"] /\ pc'["azure"] = pc["azure"]
  BY <1>1, <1>3 DEF Goto
<1>4. CASE WifiWake
  <2>1. todo' \in SUBSET Packets /\ todo' # {}
    BY <1>4, RoundPackets DEF WifiWake
  <2>q. QED  BY <1>2, <1>3, <1>4, <2>1 DEF WifiWake, At, queueVars, AzureInv, NoLostAzureWakeup
<1>5. CASE WifiFrame \/ WifiTake \/ WifiEvict
  <2>1. /\ pc["wifi"] \in {"frame", "takeMqtt", "evict"}
        /\ \E p \in {"takeMqtt", "send", "resend"} : Goto("wifi", p)
        /\ UNCHANGED <<todo, framedOk>>
        /\ mqttQueue' # <<>> => mqttQueue # <<>>
    BY <1>5 DEF WifiFrame, WifiTake, WifiEvict, At, Take, wifiVars, queueVars
  <2>q. QED  BY <1>2, <1>3, <2>1 DEF AzureInv, NoLostAzureWakeup
<1>6. CASE WifiSend
  <2>1. /\ pc["wifi"] = "send"
        /\ UNCHANGED <<todo, framedOk>>
        /\ \/ Goto("wifi", "giveMqtt")
           \/ Goto("wifi", "evict") /\ UNCHANGED mqttQueue
    BY <1>6 DEF WifiSend, At, wifiVars
  <2>q. QED  BY <1>2, <1>3, <2>1 DEF AzureInv, NoLostAzureWakeup
<1>7. CASE WifiResend
  BY <1>2, <1>3, <1>7 DEF WifiResend, At, wifiVars, AzureInv, NoLostAzureWakeup
<1>8. CASE WifiFrameFails \/ WifiGive
  <2>1. /\ pc["wifi"] \in {"frame", "giveMqtt"}
        /\ PacketDone
        /\ UNCHANGED mqttQueue
        /\ \/ framedOk' = [framedOk EXCEPT ![Packet] = TRUE]
           \/ pc["wifi"] = "frame" /\ framedOk' = [framedOk EXCEPT ![Packet] = FALSE]
    BY <1>8 DEF WifiFrameFails, WifiGive, At, queueVars
  <2>2. Packet \in todo /\ Packet \in Packets
    BY <1>1, <2>1, PacketOnList DEF AzureInv
  <2>3. /\ todo' = todo \ {Packet}
        /\ pc'["wifi"] = IF todo = {Packet} THEN "resumeAzure" ELSE "frame"
        /\ pc'["json"] = pc["json"] /\ pc'["azure"] = pc["azure"]
    BY <1>3, <2>1 DEF PacketDone
  <2>4. pc["wifi"] = "giveMqtt" => Packet \notin todo' /\ framedOk'[Packet]
    BY <1>1, <2>1, <2>2, <2>3
  <2>5. \A p \in Packets \ todo : p \notin todo' /\ framedOk'[p] = framedOk[p]
    BY <1>1, <2>1, <2>2, <2>3
  <2>6. pc'["wifi"] = "frame" => todo' # {}
    BY <2>2, <2>3
  <2>7. NoLostAzureWakeup'
    BY <2>1, <2>2, <2>3, <2>4, <2>5 DEF AzureInv, NoLostAzureWakeup
  <2>q. QED  BY <1>2, <2>3, <2>6, <2>7 DEF AzureInv
<1>9. CASE WifiConnectionLost
  <2>1. /\ pc["wifi"] = "frame"
        /\ Packet = "wifiData"
        /\ framedOk' = [framedOk EXCEPT !["wifiData"] = FALSE]
        /\ todo' = {}
        /\ Goto("wifi", "resumeAzure")
        /\ UNCHANGED mqttQueue
    BY <1>9 DEF WifiConnectionLost, At, queueVars
  <2>2. "wifiData" \in todo
    BY <1>1, <2>1, PacketOnList DEF AzureInv
  <2>3. \A p \in Packets \ todo : p \notin todo' /\ framedOk'[p] = framedOk[p]
    BY <1>1, <2>1, <2>2
  <2>4. /\ pc'["wifi"] = "resumeAzure"
        /\ pc'["json"] = pc["json"] /\ pc'["azure"] = pc["azure"]
    BY <1>3, <2>1
  <2>5. NoLostAzureWakeup'
    <3>. SUFFICES ASSUME pc["azure"] = "emptySuspended", mqttQueue # <<>>,
                         pc["json"] # "resumeAzure"
                  PROVE  \E p \in Packets \ todo' : framedOk'[p]
      BY <2>1, <2>4 DEF NoLostAzureWakeup
    <3>1. PICK p \in Packets \ todo : framedOk[p]
      BY <2>1 DEF AzureInv, NoLostAzureWakeup
    <3>q. QED  BY <2>3, <3>1
  <2>q. QED  BY <1>2, <2>4, <2>5 DEF AzureInv
<1>10. CASE WifiResumeAzure
  <2>1. /\ pc["wifi"] = "resumeAzure"
        /\ UNCHANGED <<mqttQueue, todo, framedOk>>
    BY <1>10 DEF WifiResumeAzure, At, queueVars, wifiVars
  <2>2. CASE \E p \in Packets : framedOk[p]
    <3>1. /\ pc'["wifi"] = "delay" /\ pc'["json"] = pc["json"]
          /\ pc'["azure"] = AfterResume("azure")
      BY <1>1, <1>10, <2>2 DEF WifiResumeAzure, GotoAndResume
    <3>2. AfterResume("azure") \notin {"suspend", "emptySuspended"}
      BY <1>2 DEF AfterResume
    <3>q. QED  BY <3>1, <3>2 DEF AzureInv, NoLostAzureWakeup
  <2>3. CASE ~ \E p \in Packets : framedOk[p]
    <3>1. Goto("wifi", "delay")
      BY <1>10, <2>3 DEF WifiResumeAzure
    <3>q. QED  BY <1>2, <1>3, <2>1, <2>3, <3>1 DEF AzureInv, NoLostAzureWakeup
  <2>q. QED  BY <2>2, <2>3
<1>q. QED  BY <1>4, <1>5, <1>6, <1>7, <1>8, <1>9, <1>10 DEF WifiStep

\* The Azure task falls asleep only over an empty queue.
LEMMA AzureAzureInv ==
  ASSUME TypeInv, AzureInv, AzureStep
  PROVE  AzureInv'
<1>1. /\ pc \in [Tasks -> SensorPoints \cup JsonPoints \cup WifiPoints \cup AzurePoints]
      /\ {"json", "wifi", "azure"} \subseteq Tasks
  BY DEF TypeInv, TypeOK, Tasks, OtherTasks
<1>2. UNCHANGED <<todo, framedOk>>
  BY DEF AzureStep, ConnectCheck, Connect, AzureCheck, AzureSuspend, AzureGate,
     AzureTake, AzureReceive, Published, PublishFails, wifiVars
<1>3. \E p \in AzurePoints :
        /\ Goto("azure", p)
        /\ p = "suspend" => mqttQueue' = <<>>
        /\ p = "emptySuspended" => pc["azure"] = "suspend" /\ UNCHANGED mqttQueue
  BY DEF AzureStep, ConnectCheck, Connect, AzureCheck, AzureSuspend, AzureGate,
     AzureTake, AzureReceive, Published, PublishFails, At, Take, queueVars, AzurePoints
<1>4. pc'["wifi"] = pc["wifi"] /\ pc'["json"] = pc["json"]
  BY <1>1, <1>3 DEF Goto
<1>q. QED  BY <1>1, <1>2, <1>3, <1>4 DEF AzureInv, NoLostAzureWakeup, Goto

\* The sensor tasks and the network leave all of it alone.
LEMMA OthersAzureInv ==
  ASSUME TypeInv, AzureInv,
         (\E s \in Sensors : SensorStep(s)) \/ NetworkChanges \/ UNCHANGED vars
  PROVE  AzureInv'
<1>1. /\ pc \in [Tasks -> SensorPoints \cup JsonPoints \cup WifiPoints \cup AzurePoints]
      /\ {"json", "wifi", "azure"} \cup Sensors = Tasks
      /\ pc["json"] \in JsonPoints
  BY DEF TypeInv, TypeOK, Tasks, OtherTasks
<1>2. UNCHANGED <<mqttQueue, todo, framedOk>>
  BY DEF SensorStep, SensorCapture, SensorTake, SensorSend, SensorEvict, SensorResend,
     SensorGive, SensorResumeJson, NetworkChanges, vars, queueVars, wifiVars
<1>3. CASE \E s \in Sensors : SensorStep(s)
  <2>1. PICK s \in Sensors : SensorStep(s)
    BY <1>3
  <2>2. \/ \E p : Goto(s, p)
        \/ GotoAndResume(s, "delay", "json")
    BY <2>1 DEF SensorStep, SensorCapture, SensorTake, SensorSend, SensorEvict,
       SensorResend, SensorGive, SensorResumeJson, Take
  <2>3. /\ pc'["wifi"] = pc["wifi"] /\ pc'["azure"] = pc["azure"]
        /\ pc["json"] = "resumeAzure" => pc'["json"] = "resumeAzure"
    <3>1. CASE \E p : Goto(s, p)
      BY <1>1, <3>1, Names DEF Goto
    <3>2. CASE GotoAndResume(s, "delay", "json")
      BY <1>1, <3>2, Names, ResumedJson DEF GotoAndResume
    <3>q. QED  BY <2>2, <3>1, <3>2
  <2>q. QED  BY <1>2, <2>3 DEF AzureInv, NoLostAzureWakeup
<1>4. CASE NetworkChanges \/ UNCHANGED vars
  BY <1>2, <1>4 DEF NetworkChanges, vars, AzureInv, NoLostAzureWakeup
<1>q. QED  BY <1>3, <1>4

\* Azure is never left asleep over a package, for every number of sensors and
\* all queue sizes: whoever filled the queue is still to resume it.
THEOREM AzureWakesUp == Spec => []NoLostAzureWakeup
<1>1. Init => AzureInv
  BY Names DEF Init, AzureInv, NoLostAzureWakeup, Tasks, OtherTasks
<1>2. TypeInv /\ AzureInv /\ [Next]_vars => AzureInv'
  BY JsonAzureInv, WifiAzureInv, AzureAzureInv, OthersAzureInv DEF Next
<1>3. AzureInv => NoLostAzureWakeup
  BY DEF AzureInv
<1>q. QED  BY <1>1, <1>2, <1>3, TypeInvariance, PTL DEF Spec

\* The sensor queue is smaller than the MQTT queue (10 and 20 places), so that
\* JSON, which compares the one's length with the other's size, releases nothing.
SensorQueueIsSmaller == SensorCap < MqttCap

\* Why the package the Azure task saw, or another, is there when it receives:
\* JSON takes none away and the Wi-Fi task puts one back under the mutex.
PublishInv ==
  /\ pc["json"] # "takeToRelease"
  /\ pc["azure"] \in {"rssi", "takeMqtt"} => mqttQueue # <<>> \/ pc["wifi"] = "resend"
  /\ AzureReceivesPackage

\* JSON finds the number of readings below the size of the MQTT queue, releases
\* no package and only adds some.
LEMMA JsonPublishInv ==
  ASSUME SensorQueueIsSmaller, TypeInv, PublishInv, JsonStep
  PROVE  PublishInv'
<1>1. /\ pc \in [Tasks -> SensorPoints \cup JsonPoints \cup WifiPoints \cup AzurePoints]
      /\ {"json", "wifi", "azure"} \subseteq Tasks
      /\ pc["azure"] \in AzurePoints
      /\ mqttQueue \in Seq(Messages \cup {Nothing})
      /\ converting \in Messages \cup {Nothing}
      /\ Len(sensorQueue) < MqttCap
  <2>1. /\ sensorQueue \in Seq(Readings) /\ Len(sensorQueue) <= SensorCap
        /\ SensorCap \in Nat /\ MqttCap \in Nat
    BY PipelineAssumption DEF TypeInv, TypeOK
  <2>2. Len(sensorQueue) < MqttCap
    BY <2>1 DEF SensorQueueIsSmaller
  <2>q. QED  BY <2>2 DEF TypeInv, TypeOK, Tasks, OtherTasks, Messages
<1>2. pc["json"] # "takeToRelease"
  BY DEF PublishInv
<1>3. mqttQueue # <<>> => mqttQueue' # <<>>
  <2>1. CASE JsonSend
    <3>1. mqttQueue' \in {mqttQueue, Append(mqttQueue, converting)}
      BY <2>1 DEF JsonSend
    <3>q. QED  BY <1>1, <3>1
  <2>2. CASE ~JsonSend
    BY <1>2, <2>2 DEF JsonStep, JsonCheck, JsonSuspend, JsonRelease, JsonTake, JsonReceive,
       JsonConvert, JsonResumeAzure, At, queueVars
  <2>q. QED  BY <2>1, <2>2
<1>4. /\ pc'["json"] # "takeToRelease" /\ pc'["wifi"] = pc["wifi"]
      /\ \/ pc'["azure"] = pc["azure"]
         \/ pc'["azure"] = AfterResume("azure")
  BY <1>1, <1>2 DEF JsonStep, JsonCheck, JsonSuspend, JsonRelease, JsonTake, JsonReceive,
     JsonConvert, JsonSend, JsonResumeAzure, At, Take, Goto, GotoAndResume
<1>5. AfterResume("azure") \in {"rssi", "takeMqtt", "receive"} => AfterResume("azure") = pc["azure"]
  BY DEF AfterResume
<1>q. QED  BY <1>3, <1>4, <1>5 DEF PublishInv, AzureReceivesPackage

\* The Wi-Fi task evicts and sends again in one section of the mutex.
LEMMA WifiPublishInv ==
  ASSUME TypeInv, PublishInv, WifiStep
  PROVE  PublishInv'
<1>1. /\ pc \in [Tasks -> SensorPoints \cup JsonPoints \cup WifiPoints \cup AzurePoints]
      /\ {"json", "wifi", "azure"} \subseteq Tasks
      /\ mqttQueue \in Seq(Messages \cup {Nothing})
      /\ PacketMessage \in Messages \cup {Nothing}
  BY DEF TypeInv, TypeOK, Tasks, OtherTasks, Messages
<1>2. /\ pc'["json"] = pc["json"]
      /\ pc'["azure"] \in {"rssi", "takeMqtt", "receive"} => pc'["azure"] = pc["azure"]
  <2>1. \/ \E p \in WifiPoints : Goto("wifi", p)
        \/ GotoAndResume("wifi", "delay", "azure")
    BY DEF WifiStep, WifiWake, WifiFrame, WifiFrameFails, WifiConnectionLost,
       WifiTake, WifiSend, WifiEvict, WifiResend, WifiGive, WifiResumeAzure,
       Take, PacketDone, WifiPoints
  <2>2. AfterResume("azure") \in {"rssi", "takeMqtt", "receive"}
          => AfterResume("azure") = pc["azure"]
    BY DEF AfterResume
  <2>q. QED  BY <1>1, <2>1, <2>2 DEF Goto, GotoAndResume
<1>3. CASE WifiSend \/ WifiResend
  <2>1. \/ mqttQueue' = Append(mqttQueue, PacketMessage)
        \/ UNCHANGED mqttQueue /\ pc["wifi"] = "send"
    BY <1>3 DEF WifiSend, WifiResend, At
  <2>2. CASE mqttQueue' = Append(mqttQueue, PacketMessage)
    <3>1. mqttQueue' # <<>>
      BY <1>1, <2>2
    <3>q. QED  BY <1>2, <3>1 DEF PublishInv, AzureReceivesPackage
  <2>3. CASE UNCHANGED mqttQueue /\ pc["wifi"] = "send"
    BY <1>2, <2>3 DEF PublishInv, AzureReceivesPackage
  <2>q. QED  BY <2>1, <2>2, <2>3
<1>4. CASE WifiEvict
  <2>1. /\ pc["wifi"] = "evict" /\ pc'["wifi"] = "resend"
        /\ pc'["azure"] = pc["azure"]
    BY <1>1, <1>4 DEF WifiEvict, At, Goto
  <2>2. pc["azure"] # "receive"
    BY <2>1 DEF TypeInv, MutexInv, WifiSection
  <2>q. QED  BY <1>2, <2>1, <2>2 DEF PublishInv, AzureReceivesPackage
<1>5. CASE WifiStep /\ ~WifiSend /\ ~WifiResend /\ ~WifiEvict
  <2>1. UNCHANGED mqttQueue /\ pc["wifi"] # "resend"
    BY <1>5 DEF WifiStep, WifiWake, WifiFrame, WifiFrameFails, WifiConnectionLost,
       WifiTake, WifiGive, WifiResumeAzure, At, queueVars
  <2>q. QED  BY <1>2, <2>1 DEF PublishInv, AzureReceivesPackage
<1>q. QED  BY <1>3, <1>4, <1>5

\* The Azure task looks at the queue first and receives under the mutex.
LEMMA AzurePublishInv ==
  ASSUME TypeInv, PublishInv, AzureStep
  PROVE  PublishInv'
<1>1. /\ pc \in [Tasks -> SensorPoints \cup JsonPoints \cup WifiPoints \cup AzurePoints]
      /\ {"json", "wifi", "azure"} \subseteq Tasks
  BY DEF TypeInv, TypeOK, Tasks, OtherTasks
<1>2. CASE AzureTake
  <2>1. /\ pc["azure"] = "takeMqtt" /\ pc'["azure"] = "receive"
        /\ pc'["json"] = pc["json"]
        /\ holder["mqttMutex"] = None /\ UNCHANGED mqttQueue
    BY <1>1, <1>2 DEF AzureTake, At, Take, Goto, queueVars
  <2>2. pc["wifi"] # "resend"
    BY <2>1 DEF TypeInv, MutexInv, WifiSection, None
  <2>q. QED  BY <2>1, <2>2 DEF PublishInv, AzureReceivesPackage
<1>3. CASE AzureStep /\ ~AzureTake
  <2>1. \E p \in AzurePoints :
          /\ Goto("azure", p)
          /\ p # "receive"
          /\ p = "rssi" => mqttQueue # <<>> /\ UNCHANGED mqttQueue
          /\ p = "takeMqtt" => pc["azure"] = "rssi" /\ UNCHANGED mqttQueue
    BY <1>3 DEF AzureStep, ConnectCheck, Connect, AzureCheck, AzureSuspend, AzureGate,
       AzureReceive, Published, PublishFails, At, queueVars, AzurePoints
  <2>2. /\ pc'["wifi"] = pc["wifi"] /\ pc'["json"] = pc["json"]
        /\ pc'["azure"] # "receive"
        /\ pc'["azure"] = "rssi" => mqttQueue # <<>> /\ UNCHANGED mqttQueue
        /\ pc'["azure"] = "takeMqtt" => pc["azure"] = "rssi" /\ UNCHANGED mqttQueue
    BY <1>1, <2>1 DEF Goto
  <2>q. QED  BY <2>2 DEF PublishInv, AzureReceivesPackage
<1>q. QED  BY <1>2, <1>3

\* The sensor tasks and the network leave all of it alone.
LEMMA OthersPublishInv ==
  ASSUME TypeInv, PublishInv,
         (\E s \in Sensors : SensorStep(s)) \/ NetworkChanges \/ UNCHANGED vars
  PROVE  PublishInv'
<1>1. /\ pc \in [Tasks -> SensorPoints \cup JsonPoints \cup WifiPoints \cup AzurePoints]
      /\ {"json", "wifi", "azure"} \cup Sensors = Tasks
      /\ pc["json"] \in JsonPoints
  BY DEF TypeInv, TypeOK, Tasks, OtherTasks
<1>2. UNCHANGED mqttQueue
  BY DEF SensorStep, SensorCapture, SensorTake, SensorSend, SensorEvict, SensorResend,
     SensorGive, SensorResumeJson, NetworkChanges, vars, queueVars
<1>3. CASE \E s \in Sensors : SensorStep(s)
  <2>1. PICK s \in Sensors : SensorStep(s)
    BY <1>3
  <2>2. \/ \E p : Goto(s, p)
        \/ GotoAndResume(s, "delay", "json")
    BY <2>1 DEF SensorStep, SensorCapture, SensorTake, SensorSend, SensorEvict,
       SensorResend, SensorGive, SensorResumeJson, Take
  <2>3. /\ pc'["wifi"] = pc["wifi"] /\ pc'["azure"] = pc["azure"]
        /\ pc["json"] # "takeToRelease" => pc'["json"] # "takeToRelease"
    <3>1. CASE \E p : Goto(s, p)
      BY <1>1, <3>1, Names DEF Goto
    <3>2. CASE GotoAndResume(s, "delay", "json")
      BY <1>1, <3>2, Names, ResumedJson DEF GotoAndResume
    <3>q. QED  BY <2>2, <3>1, <3>2
  <2>q. QED  BY <1>2, <2>3 DEF PublishInv, AzureReceivesPackage
<1>4. CASE NetworkChanges \/ UNCHANGED vars
  BY <1>2, <1>4 DEF NetworkChanges, vars, PublishInv, AzureReceivesPackage
<1>q. QED  BY <1>3, <1>4

\* With the queue sizes of the firmware the Azure task never receives from an
\* empty queue, although it looks at the queue before a blocking call, without
\* the mutex, and does not look at the result of xQueueReceive.
THEOREM AzureAlwaysReceives ==
  ASSUME SensorQueueIsSmaller
  PROVE  Spec => []AzureReceivesPackage
<1>1. Init => PublishInv
  BY Names DEF Init, PublishInv, AzureReceivesPackage, Tasks, OtherTasks
<1>2. TypeInv /\ PublishInv /\ [Next]_vars => PublishInv'
  BY JsonPublishInv, WifiPublishInv, AzurePublishInv, OthersPublishInv DEF Next
<1>3. PublishInv => AzureReceivesPackage
  BY DEF PublishInv
<1>q. QED  BY <1>1, <1>2, <1>3, TypeInvariance, PTL DEF Spec

-----------------------------------------------------------------------------
(* Part 6.  Readings are published in the order they were queued            *)

\* The two parts of a sequence, cut where it was joined.
LEMMA Parts ==
  ASSUME NEW S, NEW A \in Seq(S), NEW B \in Seq(S)
  PROVE  /\ SubSeq(A \o B, 1, Len(A)) = A
         /\ SubSeq(A \o B, Len(A) + 1, Len(A \o B)) = B
<1>1. /\ A \o B \in Seq(S)
      /\ Len(A \o B) = Len(A) + Len(B)
      /\ \A i \in 1..Len(A) + Len(B) :
           (A \o B)[i] = IF i <= Len(A) THEN A[i] ELSE B[i - Len(A)]
      /\ \A i \in 1..Len(A \o B) : (A \o B)[i] \in S
      /\ Len(A) \in Nat /\ Len(B) \in Nat
  BY ConcatProperties, ElementOfSeq
<1>2. /\ SubSeq(A \o B, 1, Len(A)) \in Seq(S)
      /\ Len(SubSeq(A \o B, 1, Len(A))) = Len(A)
      /\ \A i \in 1..Len(A) : SubSeq(A \o B, 1, Len(A))[i] = A[i]
  <2>1. \A i \in 1..Len(A) : (A \o B)[i] \in S
    BY <1>1
  <2>2. /\ SubSeq(A \o B, 1, Len(A)) \in Seq(S)
        /\ Len(SubSeq(A \o B, 1, Len(A))) = IF 1 <= Len(A) THEN Len(A) - 1 + 1 ELSE 0
        /\ \A i \in 1..Len(A) - 1 + 1 : SubSeq(A \o B, 1, Len(A))[i] = (A \o B)[1 + i - 1]
    BY <1>1, <2>1, 1 \in Int, SubSeqProperties
  <2>q. QED  BY <1>1, <2>2
<1>3. /\ SubSeq(A \o B, Len(A) + 1, Len(A \o B)) \in Seq(S)
      /\ Len(SubSeq(A \o B, Len(A) + 1, Len(A \o B))) = Len(B)
      /\ \A i \in 1..Len(B) : SubSeq(A \o B, Len(A) + 1, Len(A \o B))[i] = B[i]
  <2>. DEFINE m == Len(A) + 1  n == Len(A \o B)  AB == A \o B
  <2>1. /\ m \in Int /\ n \in Int
        /\ \A i \in m..n : AB[i] \in S
    BY <1>1
  <2>3. n - m + 1 = Len(B) /\ (~(m <= n) => Len(B) = 0)
    BY <1>1
  <2>4. \A i \in 1..Len(B) : AB[m + i - 1] = B[i]
    BY <1>1
  <2>. HIDE DEF m, n, AB
  <2>2. /\ SubSeq(AB, m, n) \in Seq(S)
        /\ Len(SubSeq(AB, m, n)) = IF m <= n THEN n - m + 1 ELSE 0
        /\ \A i \in 1..n - m + 1 : SubSeq(AB, m, n)[i] = AB[m + i - 1]
    BY ONLY <2>1, SubSeqProperties
  <2>5. /\ SubSeq(AB, m, n) \in Seq(S)
        /\ Len(SubSeq(AB, m, n)) = Len(B)
        /\ \A i \in 1..Len(B) : SubSeq(AB, m, n)[i] = B[i]
    BY <2>1, <2>2, <2>3, <2>4
  <2>q. QED  BY <2>5 DEF m, n, AB
<1>q. QED  BY <1>2, <1>3, SeqEqual

\* Putting an item between two parts of a sequence.
LEMMA InsertBetween ==
  ASSUME NEW S, NEW A \in Seq(S), NEW B \in Seq(S), NEW x \in S
  PROVE  /\ Len(A) + 1 \in 1..Len(A \o B) + 1
         /\ InsertAt(A \o B, Len(A) + 1, x) = A \o (<<x>> \o B)
<1>1. Len(A) \in Nat /\ Len(B) \in Nat /\ Len(A \o B) = Len(A) + Len(B)
  BY ConcatProperties
<1>2. (Len(A) + 1) - 1 = Len(A) /\ Len(A) + 1 \in 1..Len(A \o B) + 1
  BY <1>1
<1>3. InsertAt(A \o B, Len(A) + 1, x) = A \o <<x>> \o B
  <2>1. InsertAt(A \o B, Len(A) + 1, x)
          = SubSeq(A \o B, 1, (Len(A) + 1) - 1) \o <<x>>
            \o SubSeq(A \o B, Len(A) + 1, Len(A \o B))
    BY Zenon DEF InsertAt
  <2>2. SubSeq(A \o B, 1, (Len(A) + 1) - 1) = A
    BY <1>2, Parts
  <2>q. QED  BY <2>1, <2>2, Parts, Zenon
<1>4. <<x>> \in Seq(S)
  OBVIOUS
<1>5. A \o <<x>> \o B = A \o (<<x>> \o B)
  BY <1>4, ConcatAssociative
<1>q. QED  BY <1>2, <1>3, <1>5

\* Taking an item out again.
LEMMA RemoveBetween ==
  ASSUME NEW S, NEW A \in Seq(S), NEW B \in Seq(S), NEW x \in S
  PROVE  /\ Len(A) + 1 \in 1..Len(A \o (<<x>> \o B))
         /\ RemoveAt(A \o (<<x>> \o B), Len(A) + 1) = A \o B
<1>. DEFINE AX == A \o <<x>>
<1>0. <<x>> \in Seq(S) /\ Len(<<x>>) = 1
  OBVIOUS
<1>1. /\ Len(A) \in Nat /\ Len(B) \in Nat
      /\ AX \in Seq(S) /\ Len(AX) = Len(A) + 1
      /\ <<x>> \o B \in Seq(S)
      /\ AX \o B = A \o (<<x>> \o B)
      /\ Len(AX \o B) = Len(A) + 1 + Len(B)
  <2>1. AX \in Seq(S) /\ Len(AX) = Len(A) + 1
    BY <1>0, ConcatProperties
  <2>2. <<x>> \o B \in Seq(S) /\ AX \o B = A \o (<<x>> \o B)
    BY <1>0, ConcatProperties, ConcatAssociative
  <2>. HIDE DEF AX
  <2>3. Len(AX \o B) = Len(AX) + Len(B)
    BY <2>1, ConcatProperties
  <2>q. QED  BY <2>1, <2>2, <2>3
<1>2. SubSeq(A \o (<<x>> \o B), 1, Len(A)) = A
  BY <1>1, Parts
<1>. HIDE DEF AX
<1>3. SubSeq(AX \o B, Len(AX) + 1, Len(AX \o B)) = B
  BY <1>1, Parts
<1>4. /\ (Len(A) + 1) - 1 = Len(A)
      /\ Len(A) + 1 + 1 = Len(AX) + 1
      /\ Len(A) + 1 \in 1..Len(AX \o B)
  BY <1>1
<1>5. SubSeq(AX \o B, 1, (Len(A) + 1) - 1) = A
  BY <1>1, <1>2, <1>4
<1>6. SubSeq(AX \o B, Len(A) + 1 + 1, Len(AX \o B)) = B
  BY <1>3, <1>4
<1>7. RemoveAt(AX \o B, Len(A) + 1)
        = SubSeq(AX \o B, 1, (Len(A) + 1) - 1) \o SubSeq(AX \o B, Len(A) + 1 + 1, Len(AX \o B))
  BY Zenon DEF RemoveAt
<1>q. QED  BY <1>1, <1>4, <1>5, <1>6, <1>7, Zenon

\* A sequence that is not empty is its head and its tail.
LEMMA HeadAndTail ==
  ASSUME NEW S, NEW q \in Seq(S), q # <<>>
  PROVE  Head(q) \in S /\ Tail(q) \in Seq(S) /\ q = <<Head(q)>> \o Tail(q)
<1>1. Head(q) \in S /\ Tail(q) \in Seq(S) /\ Len(Tail(q)) = Len(q) - 1
      /\ \A i \in 1..Len(Tail(q)) : Tail(q)[i] = q[i + 1]
  BY HeadTailProperties
<1>2. <<Head(q)>> \in Seq(S) /\ Len(<<Head(q)>>) = 1 /\ <<Head(q)>>[1] = q[1]
  BY <1>1
<1>3. /\ <<Head(q)>> \o Tail(q) \in Seq(S)
      /\ Len(<<Head(q)>> \o Tail(q)) = 1 + Len(Tail(q))
      /\ \A i \in 1 .. 1 + Len(Tail(q)) : (<<Head(q)>> \o Tail(q))[i] =
                     IF i <= 1 THEN q[1] ELSE Tail(q)[i - 1]
  BY <1>1, <1>2, ConcatProperties
<1>4. Len(q) \in Nat /\ Len(Tail(q)) \in Nat
  BY <1>1
<1>5. \A i \in 1..Len(q) : (<<Head(q)>> \o Tail(q))[i] = q[i]
  BY <1>1, <1>3, <1>4
<1>q. QED  BY <1>1, <1>3, <1>4, <1>5, SeqEqual

\* Parts of a row of four.
LEMMA RowTypes ==
  ASSUME NEW S, NEW a \in Seq(S), NEW m \in Seq(S), NEW c \in Seq(S), NEW s \in Seq(S)
  PROVE  /\ a \o m \in Seq(S) /\ c \o s \in Seq(S)
         /\ a \o m \o c \in Seq(S) /\ m \o (c \o s) \in Seq(S)
<1>1. a \o m \in Seq(S) /\ c \o s \in Seq(S)
  BY ConcatProperties
<1>q. QED  BY <1>1, ConcatProperties

\* Everything that travels through the queues.
Items == Messages \cup {Nothing}

\* What was published last counts until the Azure task looks at its queue again.
ChannelInv == pc["azure"] # "check" => published = Nothing

\* Only the Azure task moves on from where it is, unless it is resumed, and only
\* it uses its record.
LEMMA OthersAndAzure ==
  ASSUME TypeInv,
         \/ \E s \in Sensors : SensorStep(s)
         \/ JsonStep \/ WifiStep \/ NetworkChanges \/ UNCHANGED vars
  PROVE  /\ pc'["azure"] = pc["azure"] \/ pc'["azure"] = AfterResume("azure")
         /\ UNCHANGED <<publishing, published>>
<1>1. /\ pc \in [Tasks -> SensorPoints \cup JsonPoints \cup WifiPoints \cup AzurePoints]
      /\ {"json", "wifi", "azure"} \cup Sensors = Tasks
  BY DEF TypeInv, TypeOK, Tasks, OtherTasks
<1>2. CASE \E s \in Sensors : SensorStep(s)
  <2>1. PICK s \in Sensors : SensorStep(s)
    BY <1>2
  <2>2. /\ (\E p : Goto(s, p)) \/ GotoAndResume(s, "delay", "json")
        /\ UNCHANGED <<publishing, published>>
    BY <2>1 DEF SensorStep, SensorCapture, SensorTake, SensorSend, SensorEvict,
       SensorResend, SensorGive, SensorResumeJson, Take, bufferVars
  <2>q. QED  BY <1>1, <2>2, Names DEF Goto, GotoAndResume
<1>3. CASE JsonStep
  <2>1. /\ (\E p : Goto("json", p)) \/ GotoAndResume("json", "check", "azure")
        /\ UNCHANGED <<publishing, published>>
    BY <1>3 DEF JsonStep, JsonCheck, JsonSuspend, JsonRelease, JsonTake, JsonReceive,
       JsonConvert, JsonSend, JsonResumeAzure, Take, bufferVars
  <2>q. QED  BY <1>1, <2>1 DEF Goto, GotoAndResume
<1>4. CASE WifiStep
  <2>1. /\ (\E p : Goto("wifi", p)) \/ GotoAndResume("wifi", "delay", "azure")
        /\ UNCHANGED <<publishing, published>>
    BY <1>4 DEF WifiStep, WifiWake, WifiFrame, WifiFrameFails, WifiConnectionLost, WifiTake,
       WifiSend, WifiEvict, WifiResend, WifiGive, WifiResumeAzure, Take, PacketDone, bufferVars
  <2>q. QED  BY <1>1, <2>1 DEF Goto, GotoAndResume
<1>5. CASE NetworkChanges \/ UNCHANGED vars
  BY <1>5 DEF NetworkChanges, vars, bufferVars
<1>q. QED  BY <1>2, <1>3, <1>4, <1>5

\* The same for the JSON task.
LEMMA OthersAndJson ==
  ASSUME TypeInv,
         \/ \E s \in Sensors : SensorStep(s)
         \/ WifiStep \/ AzureStep \/ NetworkChanges \/ UNCHANGED vars
  PROVE  /\ pc'["json"] = pc["json"] \/ pc'["json"] = AfterResume("json")
         /\ UNCHANGED converting
<1>1. /\ pc \in [Tasks -> SensorPoints \cup JsonPoints \cup WifiPoints \cup AzurePoints]
      /\ {"json", "wifi", "azure"} \cup Sensors = Tasks
  BY DEF TypeInv, TypeOK, Tasks, OtherTasks
<1>2. CASE \E s \in Sensors : SensorStep(s)
  <2>1. PICK s \in Sensors : SensorStep(s)
    BY <1>2
  <2>2. /\ (\E p : Goto(s, p)) \/ GotoAndResume(s, "delay", "json")
        /\ UNCHANGED converting
    BY <2>1 DEF SensorStep, SensorCapture, SensorTake, SensorSend, SensorEvict,
       SensorResend, SensorGive, SensorResumeJson, Take, bufferVars
  <2>q. QED  BY <1>1, <2>2, Names DEF Goto, GotoAndResume
<1>3. CASE AzureStep
  <2>1. (\E p : Goto("azure", p)) /\ UNCHANGED converting
    BY <1>3 DEF AzureStep, ConnectCheck, Connect, AzureCheck, AzureSuspend, AzureGate,
       AzureTake, AzureReceive, Published, PublishFails, Take, bufferVars
  <2>q. QED  BY <1>1, <2>1 DEF Goto
<1>4. CASE WifiStep
  <2>1. /\ (\E p : Goto("wifi", p)) \/ GotoAndResume("wifi", "delay", "azure")
        /\ UNCHANGED converting
    BY <1>4 DEF WifiStep, WifiWake, WifiFrame, WifiFrameFails, WifiConnectionLost, WifiTake,
       WifiSend, WifiEvict, WifiResend, WifiGive, WifiResumeAzure, Take, PacketDone, bufferVars
  <2>q. QED  BY <1>1, <2>1 DEF Goto, GotoAndResume
<1>5. CASE NetworkChanges \/ UNCHANGED vars
  BY <1>5 DEF NetworkChanges, vars, bufferVars
<1>q. QED  BY <1>2, <1>3, <1>4, <1>5

\* Only a publication sets it, and the task's next step clears it.
LEMMA NextChannelInv == TypeInv /\ ChannelInv /\ [Next]_vars => ChannelInv'
<1>. SUFFICES ASSUME TypeInv, ChannelInv, [Next]_vars PROVE ChannelInv'
  OBVIOUS
<1>1. CASE AzureStep
  <2>1. pc \in [Tasks -> SensorPoints \cup JsonPoints \cup WifiPoints \cup AzurePoints]
        /\ "azure" \in Tasks
    BY DEF TypeInv, TypeOK, Tasks, OtherTasks
  <2>2. \/ \E p \in AzurePoints :
             Goto("azure", p) /\ pc["azure"] # "check" /\ UNCHANGED published
        \/ published' = Nothing
        \/ Goto("azure", "check")
    BY <1>1 DEF AzureStep, ConnectCheck, Connect, AzureCheck, AzureSuspend, AzureGate,
       AzureTake, AzureReceive, Published, PublishFails, At, Take, bufferVars, AzurePoints
  <2>q. QED  BY <2>1, <2>2 DEF ChannelInv, Goto
<1>2. CASE \/ \E s \in Sensors : SensorStep(s)
           \/ JsonStep \/ WifiStep \/ NetworkChanges \/ UNCHANGED vars
  <2>1. \/ AfterResume("azure") = pc["azure"]
        \/ pc["azure"] # "check"
    BY DEF AfterResume
  <2>q. QED  BY <1>2, <2>1, OthersAndAzure DEF ChannelInv
<1>q. QED  BY <1>1, <1>2 DEF Next

\* The parts of what is on its way, and what the other tasks leave alone of it.
LEMMA InFlightParts ==
  ASSUME TypeInv
  PROVE  /\ AzureHand \in Seq(Items) /\ JsonHand \in Seq(Items)
         /\ mqttQueue \in Seq(Items) /\ sensorQueue \in Seq(Items)
<1>1. /\ mqttQueue \in Seq(Items) /\ sensorQueue \in Seq(Readings)
      /\ publishing \in Items /\ converting \in Items /\ Readings \subseteq Items
  BY DEF TypeInv, TypeOK, Items, Messages
<1>2. sensorQueue \in Seq(Items)
  BY <1>1, SeqMonotonic
<1>3. <<publishing>> \in Seq(Items) /\ <<converting>> \in Seq(Items) /\ <<>> \in Seq(Items)
  BY <1>1
<1>q. QED  BY <1>1, <1>2, <1>3 DEF AzureHand, JsonHand, Hand

\* Nobody else touches the record the Azure task holds.
LEMMA AzureHandKept ==
  ASSUME TypeInv,
         \/ \E s \in Sensors : SensorStep(s)
         \/ JsonStep \/ WifiStep \/ NetworkChanges \/ UNCHANGED vars
  PROVE  AzureHand' = AzureHand
<1>1. AfterResume("azure") = "publish" <=> pc["azure"] = "publish"
  BY DEF AfterResume
<1>q. QED  BY <1>1, OthersAndAzure DEF AzureHand, Hand

\* The same for the reading the JSON task holds.
LEMMA JsonHandKept ==
  ASSUME TypeInv,
         \/ \E s \in Sensors : SensorStep(s)
         \/ WifiStep \/ AzureStep \/ NetworkChanges \/ UNCHANGED vars
  PROVE  JsonHand' = JsonHand
<1>1. AfterResume("json") \in {"convert", "takeMqtt"} <=> pc["json"] \in {"convert", "takeMqtt"}
  BY DEF AfterResume
<1>q. QED  BY <1>1, OthersAndJson DEF JsonHand, Hand

\* Losing something from what is on its way.
LEMMA LoseStep ==
  ASSUME NEW S, NEW A \in Seq(S), NEW B \in Seq(S), NEW x \in S,
         InFlight = A \o (<<x>> \o B), InFlight' = A \o B, UNCHANGED published
  PROVE  Channel!Lose
<1>1. Channel!RemoveAt(InFlight, Len(A) + 1) = RemoveAt(InFlight, Len(A) + 1)
  BY Zenon DEF Channel!RemoveAt, RemoveAt
<1>2. /\ Len(A) + 1 \in 1..Len(InFlight)
      /\ InFlight' = Channel!RemoveAt(InFlight, Len(A) + 1)
  BY <1>1, RemoveBetween
<1>q. QED  BY <1>2, Zenon DEF Channel!Lose

\* Something else getting in.
LEMMA DisturbStep ==
  ASSUME NEW S, NEW A \in Seq(S), NEW B \in Seq(S), NEW x \in S,
         InFlight = A \o B, InFlight' = A \o (<<x>> \o B), UNCHANGED published
  PROVE  Channel!Disturb(x)
<1>1. Channel!InsertAt(InFlight, Len(A) + 1, x) = InsertAt(InFlight, Len(A) + 1, x)
  BY Zenon DEF Channel!InsertAt, InsertAt
<1>2. /\ Len(A) + 1 \in 1..Len(InFlight) + 1
      /\ InFlight' = Channel!InsertAt(InFlight, Len(A) + 1, x)
  BY <1>1, InsertBetween
<1>q. QED  BY <1>2, Zenon DEF Channel!Disturb

\* A reading sent to the sensor queue is sent to the channel.
LEMMA SendStep ==
  ASSUME TypeInv, NEW v \in Readings, AzureHand' = AzureHand, JsonHand' = JsonHand,
         UNCHANGED <<mqttQueue, published>>, sensorQueue' = Append(sensorQueue, v)
  PROVE  Channel!Send(v)
<1>. DEFINE L == AzureHand \o mqttQueue \o JsonHand
<1>1. L \in Seq(Items) /\ sensorQueue \in Seq(Items) /\ v \in Items /\ <<v>> \in Seq(Items)
      /\ L \o sensorQueue \in Seq(Items)
  BY InFlightParts, RowTypes, ConcatProperties DEF Items, Messages
<1>2. InFlight = L \o sensorQueue /\ InFlight' = L \o Append(sensorQueue, v)
  BY DEF InFlight
<1>. HIDE DEF L
<1>3. Append(sensorQueue, v) = sensorQueue \o <<v>>
  BY <1>1, AppendIsConcat
<1>4. Append(L \o sensorQueue, v) = (L \o sensorQueue) \o <<v>>
  BY <1>1, AppendIsConcat
<1>5. (L \o sensorQueue) \o <<v>> = L \o (sensorQueue \o <<v>>)
  BY <1>1, ConcatAssociative
<1>q. QED  BY <1>2, <1>3, <1>4, <1>5 DEF Channel!Send

\* Evicting the oldest reading loses it.
LEMMA EvictStep ==
  ASSUME TypeInv, AzureHand' = AzureHand, JsonHand' = JsonHand, sensorQueue # <<>>,
         UNCHANGED <<mqttQueue, published>>, sensorQueue' = Tail(sensorQueue)
  PROVE  Channel!Lose
<1>. DEFINE L == AzureHand \o mqttQueue \o JsonHand
<1>1. L \in Seq(Items) /\ sensorQueue \in Seq(Items)
  BY InFlightParts, RowTypes
<1>2. InFlight = L \o sensorQueue /\ InFlight' = L \o Tail(sensorQueue)
  BY DEF InFlight
<1>. HIDE DEF L
<1>3. /\ Head(sensorQueue) \in Items /\ Tail(sensorQueue) \in Seq(Items)
      /\ sensorQueue = <<Head(sensorQueue)>> \o Tail(sensorQueue)
  BY <1>1, HeadAndTail
<1>q. QED  BY <1>1, <1>2, <1>3, LoseStep

\* The oldest package is received by one who throws it away.
LEMMA ReleaseStep ==
  ASSUME TypeInv, AzureHand' = AzureHand, JsonHand' = JsonHand, mqttQueue # <<>>,
         UNCHANGED <<sensorQueue, published>>, mqttQueue' = Tail(mqttQueue)
  PROVE  Channel!Lose
<1>. DEFINE a == AzureHand  m == mqttQueue  x == Head(m)  t == Tail(m)
            c == JsonHand   s == sensorQueue  R == c \o s
            ax == a \o <<x>>  am == a \o m  at == a \o t
<1>1. /\ a \in Seq(Items) /\ m \in Seq(Items) /\ c \in Seq(Items) /\ s \in Seq(Items)
      /\ x \in Items /\ <<x>> \in Seq(Items) /\ t \in Seq(Items)
      /\ m = <<x>> \o t
  BY InFlightParts, HeadAndTail
<1>2. InFlight = a \o m \o c \o s /\ InFlight' = a \o t \o c \o s
  BY DEF InFlight
<1>. HIDE DEF a, m, x, t, c, s
<1>3. am \in Seq(Items) /\ at \in Seq(Items) /\ R \in Seq(Items) /\ t \o R \in Seq(Items)
  BY <1>1, ConcatProperties
<1>4. at \o R = a \o (t \o R)
  <2>1. a \in Seq(Items) /\ t \in Seq(Items) /\ R \in Seq(Items)
    BY <1>1, <1>3
  <2>. HIDE DEF R
  <2>q. QED  BY ONLY <2>1, ConcatAssociative
<1>5. am \o R = a \o (<<x>> \o (t \o R))
  <2>. HIDE DEF R
  <2>1. /\ a \in Seq(Items) /\ m \in Seq(Items) /\ R \in Seq(Items)
        /\ <<x>> \in Seq(Items) /\ t \in Seq(Items)
    BY <1>1, <1>3
  <2>2. am \o R = a \o (m \o R)
    BY ONLY <2>1, ConcatAssociative
  <2>3. (<<x>> \o t) \o R = <<x>> \o (t \o R)
    BY ONLY <2>1, ConcatAssociative
  <2>q. QED  BY <1>1, <2>2, <2>3
<1>. HIDE DEF am, at
<1>6. (am \o c) \o s = am \o R /\ (at \o c) \o s = at \o R
  <2>1. am \in Seq(Items) /\ at \in Seq(Items) /\ c \in Seq(Items) /\ s \in Seq(Items)
    BY <1>1, <1>3
  <2>2. (am \o c) \o s = am \o R
    BY ONLY <2>1, ConcatAssociative DEF R
  <2>3. (at \o c) \o s = at \o R
    BY ONLY <2>1, ConcatAssociative DEF R
  <2>q. QED  BY <2>2, <2>3
<1>7. InFlight = a \o (<<x>> \o (t \o R)) /\ InFlight' = a \o (t \o R)
  BY <1>2, <1>4, <1>5, <1>6 DEF am, at
<1>. HIDE DEF R
<1>8. UNCHANGED published
  OBVIOUS
<1>q. QED  BY <1>1, <1>3, <1>7, <1>8, LoseStep

\* A packet of the Wi-Fi task gets in behind the packages.
LEMMA PacketStep ==
  ASSUME TypeInv, AzureHand' = AzureHand, JsonHand' = JsonHand,
         UNCHANGED <<sensorQueue, published>>, mqttQueue' = Append(mqttQueue, PacketMessage)
  PROVE  Channel!Disturb(PacketMessage)
<1>. DEFINE a == AzureHand  m == mqttQueue  c == JsonHand  s == sensorQueue
            x == PacketMessage  mx == m \o <<x>>  am == a \o m  amx == a \o mx  R == c \o s
<1>1. /\ a \in Seq(Items) /\ m \in Seq(Items) /\ c \in Seq(Items) /\ s \in Seq(Items)
      /\ x \in Items /\ <<x>> \in Seq(Items)
      /\ Append(m, x) = mx
  BY InFlightParts, AppendIsConcat DEF Items, Messages
<1>2. InFlight = a \o m \o c \o s /\ InFlight' = a \o mx \o c \o s
  BY <1>1 DEF InFlight
<1>. HIDE DEF a, m, c, s, x
<1>3. /\ am \in Seq(Items) /\ R \in Seq(Items) /\ mx \in Seq(Items)
      /\ a \o mx = am \o <<x>>
  BY <1>1, ConcatProperties, ConcatAssociative
<1>. HIDE DEF mx
<1>4. amx \in Seq(Items) /\ amx = am \o <<x>>
  BY <1>1, <1>3, ConcatProperties
<1>. HIDE DEF am, amx
<1>5. (am \o c) \o s = am \o R /\ (amx \o c) \o s = amx \o R
  <2>1. am \in Seq(Items) /\ amx \in Seq(Items) /\ c \in Seq(Items) /\ s \in Seq(Items)
    BY <1>1, <1>3, <1>4
  <2>2. (am \o c) \o s = am \o R
    BY ONLY <2>1, ConcatAssociative DEF R
  <2>3. (amx \o c) \o s = amx \o R
    BY ONLY <2>1, ConcatAssociative DEF R
  <2>q. QED  BY <2>2, <2>3
<1>. HIDE DEF R
<1>6. (am \o <<x>>) \o R = am \o (<<x>> \o R)
  <2>1. am \in Seq(Items) /\ R \in Seq(Items) /\ <<x>> \in Seq(Items)
    BY <1>1, <1>3
  <2>q. QED  BY ONLY <2>1, ConcatAssociative
<1>7. InFlight = am \o R /\ InFlight' = am \o (<<x>> \o R)
  BY <1>2, <1>4, <1>5, <1>6 DEF am, amx
<1>8. UNCHANGED published
  OBVIOUS
<1>q. QED  BY <1>1, <1>3, <1>7, <1>8, DisturbStep DEF x

\* The head and the tail of a sequence that starts with an item.
LEMMA ItemFirst ==
  ASSUME NEW S, NEW B \in Seq(S), NEW x \in S
  PROVE  /\ <<x>> \o B \in Seq(S) /\ <<x>> \o B # <<>>
         /\ Head(<<x>> \o B) = x /\ Tail(<<x>> \o B) = B
<1>. DEFINE xb == <<x>> \o B
<1>1. <<x>> \in Seq(S) /\ Len(<<x>>) = 1 /\ <<x>>[1] = x /\ Len(B) \in Nat
  OBVIOUS
<1>2. /\ xb \in Seq(S) /\ Len(xb) = 1 + Len(B)
      /\ \A i \in 1 .. 1 + Len(B) : xb[i] = IF i <= 1 THEN x ELSE B[i - 1]
  BY <1>1, ConcatProperties
<1>. HIDE DEF xb
<1>3. xb # <<>> /\ Head(xb) = x
  BY <1>1, <1>2
<1>4. /\ Tail(xb) \in Seq(S) /\ Len(Tail(xb)) = Len(B)
      /\ \A i \in 1..Len(B) : Tail(xb)[i] = xb[i + 1]
  BY <1>1, <1>2, <1>3, HeadTailProperties
<1>5. \A i \in 1..Len(B) : Tail(xb)[i] = B[i]
  BY <1>1, <1>2, <1>4
<1>6. Tail(xb) = B
  BY <1>4, <1>5, SeqEqual
<1>q. QED  BY <1>2, <1>3, <1>6 DEF xb

\* JSON receives a reading: it stays where it is on its way.
LEMMA JsonHolds ==
  ASSUME TypeInv, sensorQueue # <<>>, UNCHANGED <<mqttQueue, published>>,
         AzureHand' = AzureHand,
         JsonHand = <<>>, JsonHand' = <<Head(sensorQueue)>>, sensorQueue' = Tail(sensorQueue)
  PROVE  UNCHANGED <<InFlight, published>>
<1>. DEFINE L == AzureHand \o mqttQueue  s == sensorQueue  x == Head(s)  t == Tail(s)
<1>1. /\ L \in Seq(Items) /\ s \in Seq(Items) /\ t \in Seq(Items) /\ <<x>> \in Seq(Items)
      /\ s = <<x>> \o t
  BY InFlightParts, HeadAndTail, ConcatProperties
<1>2. InFlight = L \o <<>> \o s /\ InFlight' = L \o <<x>> \o t
  BY DEF InFlight
<1>. HIDE DEF L, s, x, t
<1>3. L \o <<>> = L
  BY <1>1, ConcatEmptySeq
<1>4. L \o <<x>> \o t = L \o (<<x>> \o t)
  BY ONLY <1>1, ConcatAssociative
<1>q. QED  BY <1>1, <1>2, <1>3, <1>4

\* JSON gives the reading up.
LEMMA JsonDrops ==
  ASSUME TypeInv, UNCHANGED <<mqttQueue, sensorQueue, published>>, AzureHand' = AzureHand,
         NEW x \in Items, JsonHand = <<x>>, JsonHand' = <<>>
  PROVE  Channel!Lose
<1>. DEFINE L == AzureHand \o mqttQueue  s == sensorQueue
<1>1. L \in Seq(Items) /\ s \in Seq(Items) /\ <<x>> \in Seq(Items)
  BY InFlightParts, ConcatProperties
<1>2. InFlight = L \o <<x>> \o s /\ InFlight' = L \o <<>> \o s
  BY DEF InFlight
<1>. HIDE DEF L, s
<1>3. L \o <<>> = L
  BY <1>1, ConcatEmptySeq
<1>4. L \o <<x>> \o s = L \o (<<x>> \o s)
  BY ONLY <1>1, ConcatAssociative
<1>q. QED  BY <1>1, <1>2, <1>3, <1>4, LoseStep

\* JSON sends the reading on, behind the packages that wait.
LEMMA JsonPasses ==
  ASSUME TypeInv, UNCHANGED <<sensorQueue, published>>, AzureHand' = AzureHand,
         NEW x \in Items, JsonHand = <<x>>, JsonHand' = <<>>, mqttQueue' = Append(mqttQueue, x)
  PROVE  UNCHANGED <<InFlight, published>>
<1>. DEFINE a == AzureHand  m == mqttQueue  s == sensorQueue  mx == m \o <<x>>  amx == a \o mx
<1>1. /\ a \in Seq(Items) /\ m \in Seq(Items) /\ s \in Seq(Items) /\ <<x>> \in Seq(Items)
      /\ Append(m, x) = mx
  BY InFlightParts, AppendIsConcat
<1>2. InFlight = a \o m \o <<x>> \o s /\ InFlight' = a \o mx \o <<>> \o s
  BY <1>1 DEF InFlight
<1>. HIDE DEF a, m, s
<1>3. mx \in Seq(Items) /\ a \o m \o <<x>> = a \o mx
  BY <1>1, ConcatProperties, ConcatAssociative
<1>. HIDE DEF mx
<1>4. amx \in Seq(Items)
  BY <1>1, <1>3, ConcatProperties
<1>. HIDE DEF amx
<1>5. amx \o <<>> = amx
  BY <1>4, ConcatEmptySeq
<1>q. QED  BY <1>2, <1>3, <1>5 DEF amx

\* Azure receives a package.
LEMMA AzureHolds ==
  ASSUME TypeInv, mqttQueue # <<>>, UNCHANGED <<sensorQueue, published>>, JsonHand' = JsonHand,
         AzureHand = <<>>, AzureHand' = <<Head(mqttQueue)>>, mqttQueue' = Tail(mqttQueue)
  PROVE  UNCHANGED <<InFlight, published>>
<1>1. mqttQueue \in Seq(Items) /\ mqttQueue = <<Head(mqttQueue)>> \o Tail(mqttQueue)
  BY InFlightParts, HeadAndTail
<1>2. <<>> \o mqttQueue = mqttQueue
  BY <1>1, ConcatEmptySeq
<1>q. QED  BY <1>1, <1>2 DEF InFlight

\* Azure lets go of what it published, or failed to publish.
LEMMA AzurePasses ==
  ASSUME TypeInv, UNCHANGED <<mqttQueue, sensorQueue>>, JsonHand' = JsonHand,
         NEW x \in Items, AzureHand = <<x>>, AzureHand' = <<>>
  PROVE  \E B \in Seq(Items) : InFlight = <<x>> \o B /\ InFlight' = B
<1>. DEFINE m == mqttQueue  c == JsonHand  s == sensorQueue  mc == m \o c  xm == <<x>> \o m
<1>1. m \in Seq(Items) /\ c \in Seq(Items) /\ s \in Seq(Items) /\ <<x>> \in Seq(Items)
  BY InFlightParts
<1>2. InFlight = <<x>> \o m \o c \o s /\ InFlight' = <<>> \o m \o c \o s
  BY DEF InFlight
<1>. HIDE DEF m, c, s
<1>3. <<>> \o m = m /\ mc \in Seq(Items) /\ xm \o c = <<x>> \o mc
  BY <1>1, ConcatEmptySeq, ConcatProperties, ConcatAssociative
<1>. HIDE DEF mc
<1>4. (<<x>> \o mc) \o s = <<x>> \o (mc \o s) /\ mc \o s \in Seq(Items)
  BY <1>1, <1>3, ConcatAssociative, ConcatProperties
<1>q. QED  BY <1>2, <1>3, <1>4 DEF mc, xm

\* What the steps of a sensor task do to the channel: sending a reading, losing
\* the one it evicts.
LEMMA SensorChannel ==
  ASSUME TypeInv, NEW s \in Sensors, SensorStep(s),
         AzureHand' = AzureHand, JsonHand' = JsonHand
  PROVE  [Channel!Next]_<<InFlight, published>>
<1>1. UNCHANGED <<mqttQueue, published>>
  BY DEF SensorStep, SensorCapture, SensorTake, SensorSend, SensorEvict, SensorResend,
     SensorGive, SensorResumeJson, queueVars
<1>2. CASE sensorQueue' = Append(sensorQueue, reading[s])
  <2>1. reading[s] \in Readings
    BY DEF TypeInv, TypeOK
  <2>q. QED  BY <1>1, <1>2, <2>1, SendStep DEF Channel!Next
<1>3. CASE SensorEvict(s)
  BY <1>1, <1>3, EvictStep DEF SensorEvict, Channel!Next
<1>4. CASE UNCHANGED sensorQueue
  BY <1>1, <1>4 DEF InFlight
<1>5. \/ sensorQueue' = Append(sensorQueue, reading[s])
      \/ SensorEvict(s)
      \/ UNCHANGED sensorQueue
  BY DEF SensorStep, SensorCapture, SensorTake, SensorSend, SensorResend,
     SensorGive, SensorResumeJson, queueVars
<1>q. QED  BY <1>2, <1>3, <1>4, <1>5

\* The JSON task carries a reading from queue to queue or loses it, and may
\* release a package.
LEMMA JsonChannel ==
  ASSUME TypeInv, JsonReceivesReading, JsonStep, AzureHand' = AzureHand
  PROVE  [Channel!Next]_<<InFlight, published>>
<1>1. /\ pc \in [Tasks -> SensorPoints \cup JsonPoints \cup WifiPoints \cup AzurePoints]
      /\ "json" \in Tasks
      /\ converting \in Items
  BY DEF TypeInv, TypeOK, Tasks, OtherTasks, Items, Messages
<1>2. UNCHANGED published
  BY DEF JsonStep, JsonCheck, JsonSuspend, JsonRelease, JsonTake, JsonReceive,
     JsonConvert, JsonSend, JsonResumeAzure
<1>3. CASE JsonReceive
  <2>1. /\ pc["json"] = "receive" /\ pc'["json"] = "convert"
        /\ sensorQueue # <<>> /\ UNCHANGED mqttQueue
        /\ converting' = Head(sensorQueue) /\ sensorQueue' = Tail(sensorQueue)
    BY <1>1, <1>3 DEF JsonReceive, JsonReceivesReading, At, Goto
  <2>2. JsonHand = <<>> /\ JsonHand' = <<Head(sensorQueue)>>
    BY <2>1 DEF JsonHand, Hand
  <2>q. QED  BY <1>2, <2>1, <2>2, JsonHolds
<1>4. CASE JsonConvert
  <2>1. /\ pc["json"] = "convert" /\ UNCHANGED <<mqttQueue, sensorQueue>>
        /\ \/ pc'["json"] = "takeMqtt" /\ UNCHANGED converting
           \/ pc'["json"] = "check"
    BY <1>1, <1>4 DEF JsonConvert, At, Goto, queueVars, bufferVars
  <2>2. CASE pc'["json"] = "takeMqtt" /\ UNCHANGED converting
    BY <1>2, <2>1, <2>2 DEF InFlight, JsonHand, Hand
  <2>3. CASE pc'["json"] = "check"
    <3>1. JsonHand = <<converting>> /\ JsonHand' = <<>>
      BY <2>1, <2>3 DEF JsonHand, Hand
    <3>q. QED  BY <1>1, <1>2, <2>1, <3>1, JsonDrops DEF Channel!Next
  <2>q. QED  BY <2>1, <2>2, <2>3
<1>5. CASE JsonSend
  <2>1. /\ pc["json"] = "takeMqtt" /\ pc'["json"] = "resumeAzure" /\ UNCHANGED sensorQueue
        /\ (mqttQueue' = Append(mqttQueue, converting) \/ UNCHANGED mqttQueue)
    BY <1>1, <1>5 DEF JsonSend, At, Goto
  <2>2. JsonHand = <<converting>> /\ JsonHand' = <<>>
    BY <2>1 DEF JsonHand, Hand
  <2>q. QED  BY <1>1, <1>2, <2>1, <2>2, JsonPasses, JsonDrops DEF Channel!Next
<1>6. CASE JsonCheck \/ JsonSuspend \/ JsonRelease \/ JsonTake \/ JsonResumeAzure
  <2>1. /\ pc["json"] \notin {"convert", "takeMqtt"}
        /\ pc'["json"] \notin {"convert", "takeMqtt"}
        /\ UNCHANGED sensorQueue
    BY <1>1, <1>6 DEF JsonCheck, JsonSuspend, JsonRelease, JsonTake, JsonResumeAzure,
       At, Take, Goto, GotoAndResume, queueVars
  <2>2. JsonHand' = JsonHand
    BY <2>1 DEF JsonHand, Hand
  <2>3. UNCHANGED mqttQueue \/ (mqttQueue # <<>> /\ mqttQueue' = Tail(mqttQueue))
    BY <1>6 DEF JsonCheck, JsonSuspend, JsonRelease, JsonTake, JsonResumeAzure, queueVars
  <2>4. CASE UNCHANGED mqttQueue
    BY <1>2, <2>1, <2>2, <2>4 DEF InFlight
  <2>5. CASE mqttQueue # <<>> /\ mqttQueue' = Tail(mqttQueue)
    BY <1>2, <2>1, <2>2, <2>5, ReleaseStep DEF Channel!Next
  <2>q. QED  BY <2>3, <2>4, <2>5
<1>q. QED  BY <1>3, <1>4, <1>5, <1>6 DEF JsonStep

\* The Wi-Fi task sends a packet of its own or evicts a package.
LEMMA WifiChannel ==
  ASSUME TypeInv, WifiStep, AzureHand' = AzureHand, JsonHand' = JsonHand
  PROVE  [Channel!Next]_<<InFlight, published>>
<1>1. UNCHANGED <<sensorQueue, published>>
  BY DEF WifiStep, WifiWake, WifiFrame, WifiFrameFails, WifiConnectionLost, WifiTake,
     WifiSend, WifiEvict, WifiResend, WifiGive, WifiResumeAzure, queueVars
<1>2. CASE mqttQueue' = Append(mqttQueue, PacketMessage)
  BY <1>1, <1>2, PacketStep DEF Channel!Next
<1>3. CASE mqttQueue # <<>> /\ mqttQueue' = Tail(mqttQueue)
  BY <1>1, <1>3, ReleaseStep DEF Channel!Next
<1>4. CASE UNCHANGED mqttQueue
  BY <1>1, <1>4 DEF InFlight
<1>5. \/ mqttQueue' = Append(mqttQueue, PacketMessage)
      \/ mqttQueue # <<>> /\ mqttQueue' = Tail(mqttQueue)
      \/ UNCHANGED mqttQueue
  BY DEF WifiStep, WifiWake, WifiFrame, WifiFrameFails, WifiConnectionLost, WifiTake,
     WifiSend, WifiEvict, WifiResend, WifiGive, WifiResumeAzure, queueVars
<1>q. QED  BY <1>2, <1>3, <1>4, <1>5

\* The Azure task delivers readings and loses packets and failed publications.
LEMMA AzureChannel ==
  ASSUME TypeInv, ChannelInv, AzureReceivesPackage, AzureStep, JsonHand' = JsonHand
  PROVE  [Channel!Next]_<<InFlight, published>>
<1>1. /\ pc \in [Tasks -> SensorPoints \cup JsonPoints \cup WifiPoints \cup AzurePoints]
      /\ "azure" \in Tasks
      /\ publishing \in Readings \cup {PacketMessage, Nothing}
      /\ publishing \in Items
  BY DEF TypeInv, TypeOK, Tasks, OtherTasks, Items, Messages
<1>2. CASE AzureReceive
  <2>1. /\ pc["azure"] = "receive" /\ pc'["azure"] = "publish"
        /\ UNCHANGED <<sensorQueue, published>>
        /\ mqttQueue # <<>>
        /\ publishing' = Head(mqttQueue) /\ mqttQueue' = Tail(mqttQueue)
    BY <1>1, <1>2 DEF AzureReceive, AzureReceivesPackage, At, Goto
  <2>2. AzureHand = <<>> /\ AzureHand' = <<Head(mqttQueue)>>
    BY <2>1 DEF AzureHand, Hand
  <2>q. QED  BY <2>1, <2>2, AzureHolds
<1>3. CASE Published \/ PublishFails
  <2>1. /\ pc["azure"] = "publish" /\ pc'["azure"] = "check"
        /\ UNCHANGED <<mqttQueue, sensorQueue>>
        /\ \/ UNCHANGED published
           \/ published' = IF publishing = PacketMessage THEN Nothing ELSE publishing
    BY <1>1, <1>3 DEF Published, PublishFails, At, Goto, queueVars
  <2>2. AzureHand = <<publishing>> /\ AzureHand' = <<>> /\ published = Nothing
    BY <2>1 DEF AzureHand, Hand, ChannelInv
  <2>3. PICK B \in Seq(Items) : InFlight = <<publishing>> \o B /\ InFlight' = B
    BY <1>1, <2>1, <2>2, AzurePasses
  <2>4. CASE publishing \in Readings /\ published' = publishing
    <3>1. Channel!Deliver
      BY <1>1, <2>2, <2>3, <2>4, ItemFirst DEF Channel!Deliver
    <3>q. QED  BY <3>1 DEF Channel!Next
  <2>5. CASE UNCHANGED published
    <3>1. <<publishing>> \o B \in Seq(Items) /\ <<>> \in Seq(Items)
      BY <1>1, ItemFirst
    <3>2. InFlight = <<>> \o (<<publishing>> \o B) /\ InFlight' = <<>> \o B
      BY <2>3, <3>1, ConcatEmptySeq
    <3>3. Channel!Lose
      BY <1>1, <2>5, <3>1, <3>2, LoseStep
    <3>q. QED  BY <3>3 DEF Channel!Next
  <2>6. \/ publishing \in Readings /\ published' = publishing
        \/ UNCHANGED published
    BY <1>1, <2>1, <2>2
  <2>q. QED  BY <2>4, <2>5, <2>6
<1>4. CASE AzureStep /\ ~AzureReceive /\ ~Published /\ ~PublishFails
  <2>1. /\ pc["azure"] # "publish" /\ pc'["azure"] # "publish"
        /\ UNCHANGED <<mqttQueue, sensorQueue>>
        /\ published' \in {published, Nothing}
    BY <1>1, <1>4 DEF AzureStep, ConnectCheck, Connect, AzureCheck, AzureSuspend, AzureGate,
       AzureTake, At, Take, Goto, queueVars
  <2>2. AzureHand' = AzureHand
    BY <2>1 DEF AzureHand, Hand
  <2>3. UNCHANGED InFlight
    BY <2>1, <2>2 DEF InFlight
  <2>q. QED  BY <2>1, <2>3 DEF Channel!Next, Channel!Use
<1>q. QED  BY <1>2, <1>3, <1>4

\* Every step of the pipeline is a step of the channel or leaves it alone.
LEMMA ChannelStep ==
  TypeInv /\ WakeInv /\ AzureReceivesPackage /\ ChannelInv /\ [Next]_vars
    => [Channel!Next]_<<InFlight, published>>
<1>. SUFFICES ASSUME TypeInv, WakeInv, AzureReceivesPackage, ChannelInv, [Next]_vars
              PROVE  [Channel!Next]_<<InFlight, published>>
  OBVIOUS
<1>1. CASE \E s \in Sensors : SensorStep(s)
  BY <1>1, AzureHandKept, JsonHandKept, SensorChannel
<1>2. CASE JsonStep
  <2>1. JsonReceivesReading
    BY DEF WakeInv, JsonReceivesReading
  <2>q. QED  BY <1>2, <2>1, AzureHandKept, JsonChannel
<1>3. CASE WifiStep
  BY <1>3, AzureHandKept, JsonHandKept, WifiChannel
<1>4. CASE AzureStep
  BY <1>4, JsonHandKept, AzureChannel
<1>5. CASE NetworkChanges \/ UNCHANGED vars
  <2>1. UNCHANGED <<mqttQueue, sensorQueue, published>>
    BY <1>5 DEF NetworkChanges, vars, queueVars
  <2>2. AzureHand' = AzureHand /\ JsonHand' = JsonHand
    BY <1>5, AzureHandKept, JsonHandKept
  <2>q. QED  BY <2>1, <2>2 DEF InFlight
<1>q. QED  BY <1>1, <1>2, <1>3, <1>4, <1>5 DEF Next

\* For any number of sensor tasks and any sizes of the queues, the MQTT queue the
\* larger as in the firmware, the pipeline implements the channel LossyFifo: the
\* readings that get through both queues and three tasks are published in the
\* order they were queued, and no record that a task kept is passed on again.
THEOREM PublishedInOrder ==
  ASSUME SensorQueueIsSmaller
  PROVE  Spec => ReadingsPublishedInOrder
<1>1. Init => ChannelInv
  BY DEF Init, ChannelInv
<1>2. Init => Channel!Init
  <2>. SUFFICES ASSUME Init PROVE Channel!Init
    OBVIOUS
  <2>1. AzureHand = <<>> /\ JsonHand = <<>>
    BY DEF Init, AzureHand, JsonHand, Hand, Tasks, OtherTasks
  <2>2. InFlight = <<>>
    <3>1. InFlight = <<>> \o <<>> \o <<>> \o <<>>
      BY <2>1 DEF InFlight, Init
    <3>q. QED  BY <3>1
  <2>q. QED  BY <2>2 DEF Init, Channel!Init
<1>q. QED  BY <1>1, <1>2, TypeInvariance, WakeInvariance, AzureAlwaysReceives, NextChannelInv,
           ChannelStep, PTL DEF Spec, ReadingsPublishedInOrder, Channel!Spec
==============================================================================
