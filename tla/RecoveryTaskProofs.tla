------------------------- MODULE RecoveryTaskProofs -------------------------
(* Theorems about RecoveryTask, for any sensors in any order and any number  *)
(* of retries.                                                               *)
EXTENDS RecoveryTask, TLAPS

Actions ==
  \/ \E s \in Sensors : \/ SensorStart(s) \/ TakeI2c(s) \/ ProbeOk(s) \/ ProbeFails(s)
                        \/ SensorChecksWifi(s) \/ SensorSuspends(s)
                        \/ SensorResumesRecovery(s) \/ SensorSamples(s) \/ ReadReturns(s)
                        \/ TimerExpires(s)
                        \/ GiveUp(s) \/ Recreate(s) \/ RecreateFails(s)
  \/ WifiConnects \/ WifiConnectFails \/ WifiResumesSensors \/ WifiRound
  \/ WifiRoundEnds \/ WifiConnectionLost \/ WifiReports \/ AzureResumed
  \/ ConnectCheck \/ Connected \/ ConnectFails \/ AzureCheck \/ RssiOk
  \/ RssiFails \/ AzureReports \/ Gate \/ Published \/ PublishFails
  \/ NothingProbed \/ StartsLooking \/ LooksOn \/ RecoverySleeps \/ StopApplication
  \/ RecoverWifi \/ WifiReconnected \/ RecoverCloud \/ RecoveryRssi \/ CloudReconnected
  \/ NothingToDo

LEMMA StepOf == Next => Actions
BY DEF Next, SensorStep, WifiStep, AzureStep, RecoveryStep, Actions

-----------------------------------------------------------------------------
(* Where the tasks are                                                       *)

WifiPoints  == {"connecting", "resumeSensors", "delay", "frame", "report"}
AzurePoints == AzureWaits \cup {"connectCheck", "check", "gate", "reportWifi", "reportCloud"}
RecoveryPoints == RecoveryWaits \cup {"loop", "looking", "suspending"}

PointTypes ==
  /\ DOMAIN pc = Tasks
  /\ \A s \in Sensors : pc[s] \in SensorPoints
  /\ pc["wifi"] \in WifiPoints
  /\ pc["azure"] \in AzurePoints
  /\ pc["recovery"] \in RecoveryPoints

LEMMA InitialPoints ==
  ASSUME Init
  PROVE  /\ DOMAIN pc = Tasks
         /\ pc["wifi"] = "connecting"
         /\ pc["azure"] = "connectCheck"
         /\ pc["recovery"] = "loop"
         /\ \A s \in Sensors : pc[s] = "start"
<1>1. \A t \in Tasks : pc[t] = CASE t = "wifi"     -> "connecting"
                                  [] t = "azure"    -> "connectCheck"
                                  [] t = "recovery" -> "loop"
                                  [] OTHER          -> "start"
  BY DEF Init
<1>2. {"wifi", "azure", "recovery"} \subseteq Tasks /\ Sensors \subseteq Tasks
  BY DEF Tasks
<1>3. DOMAIN pc = Tasks
  BY DEF Init
<1>4. pc["wifi"] = "connecting" /\ pc["azure"] = "connectCheck" /\ pc["recovery"] = "loop"
  BY <1>1, <1>2, Zenon
<1>5. ASSUME NEW s \in Sensors
      PROVE  pc[s] = "start"
  <2>1. s # "wifi" /\ s # "azure" /\ s # "recovery"
    BY RecoveryAssumption
  <2> QED
    BY <1>1, <1>2, <2>1, Zenon
<1> QED
  BY <1>3, <1>4, <1>5

\* t moves on and perhaps resumes the recovery task.
Moves(t, points) ==
  \E p \in points : Goto(t, p) \/ GotoAndResumeRecovery(t, p)

LEMMA MovesWellTyped ==
  ASSUME PointTypes,
         \/ \E s \in Sensors : Moves(s, SensorPoints)
         \/ Moves("wifi", WifiPoints)
         \/ Moves("azure", AzurePoints)
         \/ \E p \in RecoveryPoints : Goto("recovery", p)
  PROVE  PointTypes'
<1> USE RecoveryAssumption DEF PointTypes, Tasks, Goto, GotoAndResumeRecovery, Moves, Resumed
<1>1. CASE \E s \in Sensors : Moves(s, SensorPoints)
  BY <1>1 DEF RecoveryPoints
<1>2. CASE Moves("wifi", WifiPoints)
  BY <1>2 DEF RecoveryPoints
<1>3. CASE Moves("azure", AzurePoints)
  BY <1>3 DEF RecoveryPoints
<1>4. CASE \E p \in RecoveryPoints : Goto("recovery", p)
  BY <1>4
<1> QED
  BY <1>1, <1>2, <1>3, <1>4

\* The Wi-Fi task resumes the sensor tasks that wait for it, and no other task.
LEMMA ResumedSensors ==
  ASSUME PointTypes, WifiResumesSensors
  PROVE  /\ DOMAIN pc' = Tasks
         /\ pc'["wifi"] = "delay"
         /\ \A t \in Tasks \ {"wifi"} :
              \/ pc[t] = "wifiSuspended" /\ pc'[t] = "running"
              \/ pc[t] # "wifiSuspended" /\ pc'[t] = pc[t]
<1>1. \A t \in Tasks :
        pc'[t] = CASE t = "wifi" -> "delay"
                   [] pc[t] = "wifiSuspended" -> "running"
                   [] OTHER -> pc[t]
  BY DEF WifiResumesSensors
<1>2. DOMAIN pc' = Tasks
  BY DEF WifiResumesSensors
<1>3. pc'["wifi"] = "delay"
  <2>1. pc["wifi"] # "wifiSuspended"
    BY DEF PointTypes, WifiPoints
  <2> QED
    BY <1>1, <2>1, Zenon DEF Tasks
<1>4. ASSUME NEW t \in Tasks \ {"wifi"}
      PROVE  \/ pc[t] = "wifiSuspended" /\ pc'[t] = "running"
             \/ pc[t] # "wifiSuspended" /\ pc'[t] = pc[t]
  BY <1>1, <1>4, Zenon
<1> QED
  BY <1>2, <1>3, <1>4

LEMMA PointsStep ==
  ASSUME PointTypes, Next
  PROVE  PointTypes'
<1> USE DEF Moves
<1>1. ASSUME NEW s \in Sensors,
             SensorStart(s) \/ TakeI2c(s) \/ ProbeOk(s) \/ ProbeFails(s)
      PROVE  Moves(s, SensorPoints)
  BY <1>1 DEF SensorStart, TakeI2c, ProbeOk, ProbeFails, SensorPoints
<1>2. ASSUME NEW s \in Sensors,
             SensorChecksWifi(s) \/ SensorSuspends(s) \/ SensorResumesRecovery(s)
               \/ SensorSamples(s) \/ ReadReturns(s)
      PROVE  Moves(s, SensorPoints)
  BY <1>2 DEF SensorChecksWifi, SensorSuspends, SensorResumesRecovery, SensorSamples,
              ReadReturns, SensorPoints
<1>3. ASSUME NEW s \in Sensors, TimerExpires(s)
      PROVE  Moves(s, SensorPoints)
  <2>1. Late(s) \in SensorPoints
    BY DEF Late, SensorPoints
  <2> QED
    BY <1>3, <2>1 DEF TimerExpires
<1>4. ASSUME NEW s \in Sensors, GiveUp(s) \/ Recreate(s) \/ RecreateFails(s)
      PROVE  PointTypes'
  BY <1>4, RecoveryAssumption DEF GiveUp, Recreate, RecreateFails, LeaveRoundMoving,
     PointTypes, SensorPoints, RecoveryPoints, RecoveryWaits, Tasks
<1>5. ASSUME WifiConnects \/ WifiConnectFails \/ WifiRound \/ WifiRoundEnds
               \/ WifiConnectionLost \/ WifiReports
      PROVE  Moves("wifi", WifiPoints)
  BY <1>5 DEF WifiConnects, WifiConnectFails, WifiRound, WifiRoundEnds, WifiConnectionLost,
              WifiReports, Report, WifiPoints
<1>6. ASSUME WifiResumesSensors
      PROVE  PointTypes'
  BY <1>6, ResumedSensors, RecoveryAssumption DEF PointTypes, SensorPoints, WifiPoints,
     AzurePoints, AzureWaits, RecoveryPoints, RecoveryWaits, Tasks
<1>7. ASSUME AzureResumed \/ ConnectCheck \/ Connected \/ ConnectFails \/ AzureCheck \/ RssiOk
               \/ RssiFails \/ AzureReports \/ Gate \/ Published \/ PublishFails
      PROVE  Moves("azure", AzurePoints)
  BY <1>7 DEF AzureResumed, ConnectCheck, Connected, ConnectFails, AzureCheck, RssiOk,
              RssiFails, AzureReports, Gate, Published, PublishFails, Report, AzurePoints,
              AzureWaits
<1>8. ASSUME NothingProbed \/ StartsLooking \/ RecoverySleeps \/ StopApplication
               \/ RecoverWifi \/ WifiReconnected \/ RecoverCloud \/ RecoveryRssi
               \/ CloudReconnected \/ NothingToDo
      PROVE  \E p \in RecoveryPoints : Goto("recovery", p)
  BY <1>8 DEF NothingProbed, StartsLooking, RecoverySleeps, StopApplication, RecoverWifi,
              WifiReconnected, RecoverCloud, RecoveryRssi, CloudReconnected, NothingToDo,
              LeaveRound, RecoveryPoints, RecoveryWaits
<1>9. ASSUME LooksOn
      PROVE  PointTypes'
  BY <1>9 DEF LooksOn, PointTypes
<1> QED
  BY <1>1, <1>2, <1>3, <1>4, <1>5, <1>6, <1>7, <1>8, <1>9, StepOf, MovesWellTyped DEF Actions

-----------------------------------------------------------------------------
(* Types                                                                     *)

StatusTypes ==
  /\ probeStatus \in [Sensors -> {"NOT_PROBED", "CONNECTED", "PROBE_FAILED",
                                  "DISCONNECTED", "RECONNECTED", "SHUTDOWN"}]
  /\ wifiConnStatus \in {"NOT_CONNECTED", "CONNECTED", "DISCONNECTED", "SHUTDOWN"}
  /\ cloudConnStatus \in {"NOT_CONNECTED", "CONNECTED", "DISCONNECTED", "SHUTDOWN"}
  /\ progress \in {"IDLE", "INPROGRESS"}

RetryTypes == retryCnt \in [Sensors -> 0..(MaxRetry - 1)]

LEMMA StatusStep ==
  ASSUME StatusTypes, Next
  PROVE  StatusTypes'
<1> USE DEF StatusTypes, sensorVars, networkVars
<1>1. ASSUME NEW s \in Sensors,
             SensorStart(s) \/ TakeI2c(s) \/ ProbeOk(s) \/ ProbeFails(s)
               \/ SensorChecksWifi(s) \/ SensorSuspends(s) \/ SensorResumesRecovery(s)
               \/ SensorSamples(s) \/ ReadReturns(s)
      PROVE  StatusTypes'
  BY <1>1 DEF SensorStart, TakeI2c, ProbeOk, ProbeFails, SensorChecksWifi, SensorSuspends,
              SensorResumesRecovery, SensorSamples, ReadReturns
<1>2. ASSUME NEW s \in Sensors, TimerExpires(s)
      PROVE  StatusTypes'
  BY <1>2 DEF TimerExpires, Expires, Late
<1>3. ASSUME NEW s \in Sensors, GiveUp(s) \/ Recreate(s) \/ RecreateFails(s)
      PROVE  StatusTypes'
  BY <1>3 DEF GiveUp, Recreate, RecreateFails
<1>4. ASSUME WifiConnects \/ WifiConnectFails \/ WifiRound \/ WifiRoundEnds
               \/ WifiConnectionLost \/ WifiReports \/ WifiResumesSensors
      PROVE  StatusTypes'
  BY <1>4 DEF WifiConnects, WifiConnectFails, WifiRound, WifiRoundEnds, WifiConnectionLost,
              WifiReports, Report, WifiResumesSensors
<1>5. ASSUME AzureResumed \/ ConnectCheck \/ Connected \/ ConnectFails \/ AzureCheck \/ RssiOk
               \/ RssiFails \/ AzureReports \/ Gate \/ Published \/ PublishFails
      PROVE  StatusTypes'
  BY <1>5 DEF AzureResumed, ConnectCheck, Connected, ConnectFails, AzureCheck, RssiOk,
              RssiFails, AzureReports, Gate, Published, PublishFails, Report
<1>6. ASSUME NothingProbed \/ StartsLooking \/ LooksOn \/ RecoverySleeps \/ StopApplication
               \/ RecoverWifi \/ WifiReconnected \/ RecoverCloud \/ RecoveryRssi
               \/ CloudReconnected \/ NothingToDo
      PROVE  StatusTypes'
  BY <1>6 DEF NothingProbed, StartsLooking, LooksOn, RecoverySleeps, StopApplication,
              RecoverWifi, WifiReconnected, RecoverCloud, RecoveryRssi, CloudReconnected,
              NothingToDo, LeaveRound
<1> QED
  BY <1>1, <1>2, <1>3, <1>4, <1>5, <1>6, StepOf DEF Actions

\* Only a probing that succeeds and the recovery task write retry_cnt.
LEMMA RetriesOf ==
  ASSUME Next
  PROVE  \/ UNCHANGED retryCnt
         \/ \E s \in Sensors : ProbeOk(s) \/ Recreate(s) \/ RecreateFails(s)
<1>1. ASSUME NEW s \in Sensors,
             SensorStart(s) \/ TakeI2c(s) \/ ProbeFails(s)
               \/ SensorChecksWifi(s) \/ SensorSuspends(s) \/ SensorResumesRecovery(s)
               \/ SensorSamples(s) \/ ReadReturns(s) \/ TimerExpires(s) \/ GiveUp(s)
      PROVE  UNCHANGED retryCnt
  BY <1>1 DEF SensorStart, TakeI2c, ProbeFails, SensorChecksWifi, SensorSuspends,
              SensorResumesRecovery, SensorSamples, ReadReturns, TimerExpires, GiveUp,
              sensorVars
<1>2. ASSUME \/ WifiConnects \/ WifiConnectFails \/ WifiRound \/ WifiRoundEnds
             \/ WifiConnectionLost \/ WifiReports \/ WifiResumesSensors \/ AzureResumed
             \/ ConnectCheck \/ Connected \/ ConnectFails \/ AzureCheck \/ RssiOk
             \/ RssiFails \/ AzureReports \/ Gate \/ Published \/ PublishFails
      PROVE  UNCHANGED retryCnt
  BY <1>2 DEF WifiConnects, WifiConnectFails, WifiRound, WifiRoundEnds, WifiConnectionLost,
              WifiReports, WifiResumesSensors, AzureResumed, ConnectCheck, Connected,
              ConnectFails, AzureCheck, RssiOk, RssiFails, AzureReports, Gate, Published,
              PublishFails, sensorVars
<1>3. ASSUME NothingProbed \/ StartsLooking \/ LooksOn \/ RecoverySleeps \/ StopApplication
               \/ RecoverWifi \/ WifiReconnected \/ RecoverCloud \/ RecoveryRssi
               \/ CloudReconnected \/ NothingToDo
      PROVE  UNCHANGED retryCnt
  BY <1>3 DEF NothingProbed, StartsLooking, LooksOn, RecoverySleeps, StopApplication,
              RecoverWifi, WifiReconnected, RecoverCloud, RecoveryRssi, CloudReconnected,
              NothingToDo, LeaveRound, sensorVars
<1> QED
  BY <1>1, <1>2, <1>3, StepOf DEF Actions

LEMMA RetryStep ==
  ASSUME RetryTypes, Next
  PROVE  RetryTypes'
<1>1. CASE UNCHANGED retryCnt
  BY <1>1 DEF RetryTypes
<1>2. ASSUME NEW s \in Sensors, ProbeOk(s) \/ Recreate(s) \/ RecreateFails(s)
      PROVE  RetryTypes'
  BY <1>2, RecoveryAssumption DEF ProbeOk, Recreate, RecreateFails, RetryTypes
<1> QED
  BY <1>1, <1>2, RetriesOf

\* The semaphore is binary.
LEMMA I2cStep ==
  ASSUME i2cFree \in BOOLEAN, Next
  PROVE  i2cFree' \in BOOLEAN
<1> USE DEF sensorVars
<1>1. ASSUME NEW s \in Sensors,
             SensorStart(s) \/ TakeI2c(s) \/ SensorChecksWifi(s) \/ SensorSuspends(s)
               \/ SensorResumesRecovery(s) \/ SensorSamples(s) \/ ReadReturns(s)
      PROVE  i2cFree' \in BOOLEAN
  BY <1>1 DEF SensorStart, TakeI2c, SensorChecksWifi, SensorSuspends, SensorResumesRecovery,
              SensorSamples, ReadReturns
<1>2. ASSUME NEW s \in Sensors, ProbeOk(s) \/ ProbeFails(s)
      PROVE  i2cFree' \in BOOLEAN
  BY <1>2 DEF ProbeOk, ProbeFails
<1>3. ASSUME NEW s \in Sensors, TimerExpires(s)
      PROVE  i2cFree' \in BOOLEAN
  BY <1>3 DEF TimerExpires, Expires, Late
<1>4. ASSUME NEW s \in Sensors, GiveUp(s) \/ Recreate(s) \/ RecreateFails(s)
      PROVE  i2cFree' \in BOOLEAN
  BY <1>4 DEF GiveUp, Recreate, RecreateFails, LeaveRoundMoving, Serves, Failed
<1>5. ASSUME WifiConnects \/ WifiConnectFails \/ WifiRound \/ WifiRoundEnds
               \/ WifiConnectionLost \/ WifiReports
      PROVE  i2cFree' \in BOOLEAN
  BY <1>5 DEF WifiConnects, WifiConnectFails, WifiRound, WifiRoundEnds, WifiConnectionLost,
              WifiReports, Report
<1>6. ASSUME WifiResumesSensors
      PROVE  i2cFree' \in BOOLEAN
  BY <1>6, ResumedSensors DEF WifiResumesSensors
<1>7. ASSUME AzureResumed \/ ConnectCheck \/ Connected \/ ConnectFails \/ AzureCheck \/ RssiOk
               \/ RssiFails \/ AzureReports \/ Gate \/ Published \/ PublishFails
      PROVE  i2cFree' \in BOOLEAN
  BY <1>7 DEF AzureResumed, ConnectCheck, Connected, ConnectFails, AzureCheck, RssiOk,
              RssiFails, AzureReports, Gate, Published, PublishFails, Report
<1>8. ASSUME NothingProbed \/ StartsLooking \/ LooksOn \/ RecoverySleeps \/ StopApplication
               \/ RecoverWifi \/ WifiReconnected \/ RecoverCloud \/ RecoveryRssi
               \/ CloudReconnected \/ NothingToDo
      PROVE  i2cFree' \in BOOLEAN
  BY <1>8 DEF NothingProbed, StartsLooking, LooksOn, RecoverySleeps, StopApplication,
              RecoverWifi, WifiReconnected, RecoverCloud, RecoveryRssi, CloudReconnected,
              NothingToDo, LeaveRound, NetworkTurn
<1> QED
  BY <1>1, <1>2, <1>3, <1>4, <1>5, <1>6, <1>7, <1>8, StepOf DEF Actions

-----------------------------------------------------------------------------
(* The rounds of the recovery task                                           *)

\* What the other tasks and the timers do to the recovery task: at most they
\* resume it from its sleep.
ResumedAtMost ==
  /\ look' = look
  /\ \/ pc'["recovery"] = pc["recovery"]
     \/ pc["recovery"] = "suspended" /\ pc'["recovery"] = "loop"

LEMMA SensorsLeaveRound ==
  ASSUME PointTypes, NEW s \in Sensors, SensorStep(s) \/ TimerExpires(s)
  PROVE  ResumedAtMost
<1> USE RecoveryAssumption DEF ResumedAtMost, PointTypes, Tasks, Goto, recoveryVars
<1>1. CASE SensorStart(s) \/ TakeI2c(s) \/ ProbeOk(s) \/ ProbeFails(s)
  BY <1>1 DEF SensorStart, TakeI2c, ProbeOk, ProbeFails
<1>2. CASE \/ SensorChecksWifi(s) \/ SensorSuspends(s) \/ SensorSamples(s) \/ ReadReturns(s)
  BY <1>2 DEF SensorChecksWifi, SensorSuspends, SensorSamples, ReadReturns
<1>3. CASE SensorResumesRecovery(s)
  BY <1>3 DEF SensorResumesRecovery, GotoAndResumeRecovery, Resumed
<1>4. CASE TimerExpires(s)
  BY <1>4 DEF TimerExpires, GotoAndResumeRecovery, Resumed
<1> QED
  BY <1>1, <1>2, <1>3, <1>4 DEF SensorStep

NetworkTasksStep == WifiStep \/ AzureResumed \/ AzureStep

\* Nor do the Wi-Fi and Azure tasks touch what sensors report.
LEMMA NetworkTasksLeaveRound ==
  ASSUME PointTypes, NetworkTasksStep
  PROVE  /\ ResumedAtMost
         /\ UNCHANGED <<probeStatus, overlooked>>
         /\ \A s \in Sensors : pc'[s] = "resumeRecovery" <=> pc[s] = "resumeRecovery"
<1> USE RecoveryAssumption DEF ResumedAtMost, PointTypes, Tasks, Goto,
    GotoAndResumeRecovery, Resumed, Report, sensorVars, recoveryVars
<1>1. CASE \/ WifiConnects \/ WifiConnectFails \/ WifiRound \/ WifiRoundEnds
           \/ WifiConnectionLost \/ WifiReports
  BY <1>1 DEF WifiConnects, WifiConnectFails, WifiRound, WifiRoundEnds, WifiConnectionLost,
              WifiReports
<1>2. CASE WifiResumesSensors
  BY <1>2, ResumedSensors DEF WifiResumesSensors, RecoveryPoints, RecoveryWaits
<1>3. CASE \/ AzureResumed \/ ConnectCheck \/ Connected \/ ConnectFails \/ AzureCheck
           \/ RssiOk \/ RssiFails \/ AzureReports \/ Gate \/ Published \/ PublishFails
  BY <1>3 DEF AzureResumed, ConnectCheck, Connected, ConnectFails, AzureCheck, RssiOk,
              RssiFails, AzureReports, Gate, Published, PublishFails
<1> QED
  BY <1>1, <1>2, <1>3 DEF NetworkTasksStep, WifiStep, AzureStep

LEMMA Kinds ==
  ASSUME Next
  PROVE  \/ \E s \in Sensors : SensorStep(s) \/ TimerExpires(s)
         \/ NetworkTasksStep
         \/ \E s \in Sensors : GiveUp(s) \/ Recreate(s) \/ RecreateFails(s)
         \/ LooksOn
         \/ NothingProbed \/ StartsLooking \/ RecoverySleeps \/ StopApplication
         \/ RecoverWifi \/ WifiReconnected \/ RecoverCloud \/ RecoveryRssi
         \/ CloudReconnected \/ NothingToDo
BY DEF Next, RecoveryStep, NetworkTasksStep

LookTypes ==
  /\ pc["recovery"] = "looking" => look \in 1..(Len(SensorOrder) + 1)
  /\ pc["recovery"] # "looking" => look = 0
  /\ overlooked \in BOOLEAN

LEMMA OrderIsSequence == SensorOrder \in Seq(Sensors) /\ Len(SensorOrder) \in Nat \ {0}
BY RecoveryAssumption

LEMMA LookStep ==
  ASSUME PointTypes, LookTypes, Next
  PROVE  LookTypes'
<1> USE RecoveryAssumption, OrderIsSequence
    DEF LookTypes, PointTypes, RecoveryPoints, RecoveryWaits, Tasks, Goto, LeaveRound,
        LeaveRoundMoving, recoveryVars
<1>1. overlooked' \in BOOLEAN
  <2>1. ASSUME NEW s \in Sensors, SensorStep(s) \/ TimerExpires(s)
        PROVE  overlooked' \in BOOLEAN
    BY <2>1 DEF SensorStep, SensorStart, TakeI2c, ProbeOk, ProbeFails, SensorChecksWifi,
                SensorSuspends, SensorResumesRecovery, SensorSamples, ReadReturns, TimerExpires
  <2>2. ASSUME NEW s \in Sensors, GiveUp(s) \/ Recreate(s) \/ RecreateFails(s)
        PROVE  overlooked' \in BOOLEAN
    BY <2>2 DEF GiveUp, Recreate, RecreateFails
  <2>3. CASE \/ LooksOn \/ NothingProbed \/ StartsLooking \/ RecoverySleeps
             \/ StopApplication \/ RecoverWifi \/ WifiReconnected \/ RecoverCloud
             \/ RecoveryRssi \/ CloudReconnected \/ NothingToDo
    BY <2>3 DEF LooksOn, NothingProbed, StartsLooking, RecoverySleeps, StopApplication,
                RecoverWifi, WifiReconnected, RecoverCloud, RecoveryRssi, CloudReconnected,
                NothingToDo
  <2> QED
    BY <2>1, <2>2, <2>3, Kinds, NetworkTasksLeaveRound
<1>2. CASE ResumedAtMost
  BY <1>1, <1>2 DEF ResumedAtMost
<1>3. ASSUME NEW s \in Sensors, GiveUp(s) \/ Recreate(s) \/ RecreateFails(s)
      PROVE  LookTypes'
  BY <1>1, <1>3 DEF GiveUp, Recreate, RecreateFails
<1>4. CASE LooksOn
  BY <1>1, <1>4 DEF LooksOn
<1>5. CASE StartsLooking
  BY <1>1, <1>5 DEF StartsLooking
<1>6. CASE \/ NothingProbed \/ RecoverySleeps \/ StopApplication \/ RecoverWifi
           \/ WifiReconnected \/ RecoverCloud \/ RecoveryRssi \/ CloudReconnected
           \/ NothingToDo
  BY <1>1, <1>6 DEF NothingProbed, RecoverySleeps, StopApplication, RecoverWifi,
                    WifiReconnected, RecoverCloud, RecoveryRssi, CloudReconnected, NothingToDo
<1> QED
  BY <1>2, <1>3, <1>4, <1>5, <1>6, Kinds, SensorsLeaveRound, NetworkTasksLeaveRound

\* What the steps rest on, in every reachable state.
TypeInv == PointTypes /\ StatusTypes /\ RetryTypes /\ LookTypes /\ i2cFree \in BOOLEAN

LEMMA TypesInvariant == Spec => []TypeInv
<1>1. Init => TypeInv
  <2> SUFFICES ASSUME Init
               PROVE  TypeInv
    OBVIOUS
  <2>1. PointTypes
    BY InitialPoints DEF PointTypes, SensorPoints, WifiPoints, AzurePoints, RecoveryPoints
  <2>2. StatusTypes
    BY DEF Init, StatusTypes
  <2>3. RetryTypes
    BY RecoveryAssumption DEF Init, RetryTypes
  <2>4. LookTypes
    BY InitialPoints DEF Init, LookTypes
  <2> QED
    BY <2>1, <2>2, <2>3, <2>4 DEF Init, TypeInv
<1>2. TypeInv /\ [Next]_vars => TypeInv'
  <2>1. CASE UNCHANGED vars
    BY <2>1 DEF vars, TypeInv, PointTypes, StatusTypes, RetryTypes, LookTypes
  <2> QED
    BY <2>1, PointsStep, StatusStep, RetryStep, LookStep, I2cStep DEF TypeInv
<1> QED
  BY <1>1, <1>2, PTL DEF Spec

\* The status structure holds values of its enumerations, and the retry counters
\* stay below their bound.
THEOREM TypesCorrect == Spec => []TypeOK
<1>1. TypeInv => TypeOK
  BY DEF TypeInv, PointTypes, StatusTypes, RetryTypes, LookTypes, TypeOK, WifiPoints,
         AzurePoints, RecoveryPoints
<1> QED
  BY <1>1, TypesInvariant, PTL

-----------------------------------------------------------------------------
(* Given up and deleted                                                      *)

LEMMA GivenUpStep ==
  ASSUME PointTypes, StatusTypes, GivenUpMeansDeleted, Next
  PROVE  GivenUpMeansDeleted'
<1> USE RecoveryAssumption DEF GivenUpMeansDeleted, PointTypes, StatusTypes, Tasks, sensorVars,
    AtLow, AtAzure, Goto, GotoAndResumeRecovery, Resumed
<1>1. ASSUME NEW s \in Sensors,
             SensorStart(s) \/ TakeI2c(s) \/ SensorChecksWifi(s) \/ SensorSuspends(s)
               \/ SensorResumesRecovery(s) \/ SensorSamples(s) \/ ReadReturns(s)
      PROVE  GivenUpMeansDeleted'
  BY <1>1 DEF SensorStart, TakeI2c, SensorChecksWifi, SensorSuspends, SensorResumesRecovery,
              SensorSamples, ReadReturns
<1>2. ASSUME NEW s \in Sensors, ProbeOk(s) \/ ProbeFails(s)
      PROVE  GivenUpMeansDeleted'
  BY <1>2 DEF ProbeOk, ProbeFails
<1>3. ASSUME NEW s \in Sensors, TimerExpires(s)
      PROVE  GivenUpMeansDeleted'
  BY <1>3 DEF TimerExpires, Expires, Late
<1>4. ASSUME NEW s \in Sensors, GiveUp(s) \/ Recreate(s) \/ RecreateFails(s)
      PROVE  GivenUpMeansDeleted'
  BY <1>4 DEF GiveUp, Recreate, RecreateFails, LeaveRoundMoving, Serves, Failed
<1>5. ASSUME WifiConnects \/ WifiConnectFails \/ WifiRound \/ WifiRoundEnds
               \/ WifiConnectionLost \/ WifiReports
      PROVE  GivenUpMeansDeleted'
  BY <1>5 DEF WifiConnects, WifiConnectFails, WifiRound, WifiRoundEnds, WifiConnectionLost,
              WifiReports, Report
<1>6. ASSUME WifiResumesSensors
      PROVE  GivenUpMeansDeleted'
  BY <1>6, ResumedSensors DEF WifiResumesSensors
<1>7. ASSUME AzureResumed \/ ConnectCheck \/ Connected \/ ConnectFails \/ AzureCheck \/ RssiOk
               \/ RssiFails \/ AzureReports \/ Gate \/ Published \/ PublishFails
      PROVE  GivenUpMeansDeleted'
  BY <1>7 DEF AzureResumed, ConnectCheck, Connected, ConnectFails, AzureCheck, RssiOk,
              RssiFails, AzureReports, Gate, Published, PublishFails, Report
<1>8. ASSUME NothingProbed \/ StartsLooking \/ LooksOn \/ RecoverySleeps \/ StopApplication
               \/ RecoverWifi \/ WifiReconnected \/ RecoverCloud \/ RecoveryRssi
               \/ CloudReconnected \/ NothingToDo
      PROVE  GivenUpMeansDeleted'
  BY <1>8 DEF NothingProbed, StartsLooking, LooksOn, RecoverySleeps, StopApplication,
              RecoverWifi, WifiReconnected, RecoverCloud, RecoveryRssi, CloudReconnected,
              NothingToDo, LeaveRound, NetworkTurn
<1> QED
  BY <1>1, <1>2, <1>3, <1>4, <1>5, <1>6, <1>7, <1>8, StepOf DEF Actions

\* A task exists exactly as long as its sensor is not given up.
THEOREM DeletedWhenGivenUp == Spec => []GivenUpMeansDeleted
<1>1. Init => GivenUpMeansDeleted
  BY InitialPoints DEF Init, GivenUpMeansDeleted
<1>2. TypeInv /\ GivenUpMeansDeleted /\ [Next]_vars => GivenUpMeansDeleted'
  <2>1. CASE UNCHANGED vars
    BY <2>1 DEF vars, GivenUpMeansDeleted
  <2> QED
    BY <2>1, GivenUpStep DEF TypeInv
<1> QED
  BY <1>1, <1>2, TypesInvariant, PTL DEF Spec

-----------------------------------------------------------------------------
(* Failures and the sleep of the recovery task                               *)

\* A failing sensor nobody is about to report.
Unserved(s) == Failed(s) /\ pc[s] # "resumeRecovery"

\* With no failure overlooked there is at most one such sensor, the one that has
\* just woken the recovery task; until the task goes to sleep again, turns to the
\* network or has looked at the sensor, it has served it.
OneUnserved  == \A s1, s2 \in Sensors : Unserved(s1) /\ Unserved(s2) => s1 = s2
AllServed    == pc["recovery"] \notin {"loop", "looking", "stopped"} =>
                  \A s \in Sensors : ~Unserved(s)
LookedServed == pc["recovery"] = "looking" =>
                  \A i \in 1..(look - 1) : ~Unserved(SensorOrder[i])

SleepInv ==
  /\ \A s \in Sensors : pc[s] = "resumeRecovery" => probeStatus[s] = "PROBE_FAILED"
  /\ overlooked \/ (OneUnserved /\ AllServed /\ LookedServed)

LEMMA SleepBySensors ==
  ASSUME TypeInv, SleepInv, NEW s \in Sensors, SensorStep(s) \/ TimerExpires(s)
  PROVE  SleepInv'
<1> USE RecoveryAssumption, OrderIsSequence
    DEF TypeInv, PointTypes, StatusTypes, LookTypes, SleepInv, OneUnserved, AllServed,
        LookedServed, Unserved, Failed, Tasks, RecoveryPoints, RecoveryWaits, Goto, AtLow,
        sensorVars, recoveryVars
<1>1. CASE \/ SensorStart(s) \/ TakeI2c(s) \/ SensorChecksWifi(s) \/ SensorSuspends(s)
           \/ SensorSamples(s) \/ ReadReturns(s)
  BY <1>1 DEF SensorStart, TakeI2c, SensorChecksWifi, SensorSuspends, SensorSamples,
              ReadReturns
<1>2. CASE ProbeOk(s)
  BY <1>2 DEF ProbeOk
<1>3. CASE ProbeFails(s)
  BY <1>3 DEF ProbeFails
<1>4. CASE SensorResumesRecovery(s)
  BY <1>4 DEF SensorResumesRecovery, GotoAndResumeRecovery, Resumed
<1>5. CASE TimerExpires(s)
  <2>1. /\ pc["recovery"] # "stopped"
        /\ pc[s] # "resumeRecovery" /\ Late(s) # "resumeRecovery"
        /\ \A other \in Sensors \ {s} : probeStatus'[other] = probeStatus[other]
        /\ look' = look
    BY <1>5 DEF TimerExpires, Expires, Late, Stopped
  <2>2. CASE probeStatus'[s] = probeStatus[s]
    <3>1. pc' = [pc EXCEPT ![s] = Late(s)] /\ overlooked' = overlooked
      BY <1>5, <2>2 DEF TimerExpires
    <3> QED
      BY <2>1, <2>2, <3>1
  <2>3. CASE probeStatus'[s] # probeStatus[s]
    <3>1. /\ pc' = [pc EXCEPT ![s] = Late(s), !["recovery"] = Resumed(@)]
          /\ overlooked' = (overlooked \/ pc["recovery"] # "suspended")
      BY <1>5, <2>3 DEF TimerExpires, GotoAndResumeRecovery
    <3> QED
      BY <2>1, <3>1 DEF Resumed
  <2> QED
    BY <2>2, <2>3
<1> QED
  BY <1>1, <1>2, <1>3, <1>4, <1>5 DEF SensorStep

LEMMA SleepByNetworkTasks ==
  ASSUME TypeInv, SleepInv, NetworkTasksStep
  PROVE  SleepInv'
<1>1. /\ ResumedAtMost
      /\ UNCHANGED <<probeStatus, overlooked>>
      /\ \A s \in Sensors : pc'[s] = "resumeRecovery" <=> pc[s] = "resumeRecovery"
  BY NetworkTasksLeaveRound DEF TypeInv
<1> QED
  BY <1>1, OrderIsSequence DEF SleepInv, OneUnserved, AllServed, LookedServed, Unserved,
     Failed, ResumedAtMost, TypeInv, LookTypes

LEMMA SleepByServing ==
  ASSUME TypeInv, SleepInv, NEW s \in Sensors, GiveUp(s) \/ Recreate(s) \/ RecreateFails(s)
  PROVE  SleepInv'
<1> USE RecoveryAssumption, OrderIsSequence
    DEF TypeInv, PointTypes, StatusTypes, LookTypes, SleepInv, OneUnserved, AllServed,
        LookedServed, Unserved, Failed, Tasks, Serves, LeaveRoundMoving
<1>1. CASE GiveUp(s)
  BY <1>1 DEF GiveUp
<1>2. CASE Recreate(s)
  BY <1>2 DEF Recreate
<1>3. CASE RecreateFails(s)
  BY <1>3 DEF RecreateFails
<1> QED
  BY <1>1, <1>2, <1>3

LEMMA SleepByRecovery ==
  ASSUME TypeInv, SleepInv,
         \/ LooksOn \/ NothingProbed \/ StartsLooking \/ RecoverySleeps \/ StopApplication
         \/ RecoverWifi \/ WifiReconnected \/ RecoverCloud \/ RecoveryRssi
         \/ CloudReconnected \/ NothingToDo
  PROVE  SleepInv'
<1> USE RecoveryAssumption, OrderIsSequence
    DEF TypeInv, PointTypes, StatusTypes, LookTypes, SleepInv, OneUnserved, AllServed,
        LookedServed, Unserved, Failed, Tasks, Goto, LeaveRound, sensorVars, recoveryVars
<1>0. \A s \in Sensors : \E i \in 1..Len(SensorOrder) : SensorOrder[i] = s
  BY DEF Sensors, ToSet
<1>1. CASE LooksOn
  <2>1. /\ pc["recovery"] = "looking" /\ look \in 1..Len(SensorOrder)
        /\ ~Failed(SensorOrder[look])
        /\ look' = look + 1
        /\ UNCHANGED <<pc, probeStatus, overlooked>>
    BY <1>1 DEF LooksOn
  <2>2. \A i \in 1..(look' - 1) : i \in 1..(look - 1) \/ i = look
    BY <2>1
  <2> QED
    BY <2>1, <2>2
<1>2. CASE NothingProbed
  BY <1>2 DEF NothingProbed, All
<1>3. CASE StartsLooking
  BY <1>3 DEF StartsLooking
<1>4. CASE RecoverySleeps
  BY <1>4 DEF RecoverySleeps
<1>5. CASE StopApplication
  BY <1>5 DEF StopApplication
<1>6. CASE RecoverWifi \/ RecoverCloud \/ NothingToDo
  <2>1. pc["recovery"] = "looking" /\ look = Len(SensorOrder) + 1
    BY <1>6 DEF RecoverWifi, RecoverCloud, NothingToDo, NetworkTurn
  <2>2. overlooked \/ \A s \in Sensors : ~Unserved(s)
    BY <1>0, <2>1
  <2> QED
    BY <1>6, <2>1, <2>2 DEF RecoverWifi, RecoverCloud, NothingToDo
<1>7. CASE WifiReconnected \/ RecoveryRssi \/ CloudReconnected
  BY <1>7 DEF WifiReconnected, RecoveryRssi, CloudReconnected
<1> QED
  BY <1>1, <1>2, <1>3, <1>4, <1>5, <1>6, <1>7

\* A sensor's failure is overslept only if it was reported to a recovery task that
\* was awake, for any number of sensors: no suspension of the loop, in whatever
\* round and after whatever network recovery, loses any other failure.
THEOREM NoFailureOverslept == Spec => []FailuresNotOverslept
<1>1. Init => SleepInv
  <2> SUFFICES ASSUME Init
               PROVE  SleepInv
    OBVIOUS
  <2>1. \A s \in Sensors : pc[s] = "start" /\ probeStatus[s] = "NOT_PROBED"
    BY InitialPoints DEF Init
  <2> QED
    BY <2>1, InitialPoints DEF SleepInv, OneUnserved, AllServed, LookedServed, Unserved, Failed
<1>2. TypeInv /\ SleepInv /\ [Next]_vars => SleepInv'
  <2>1. CASE UNCHANGED vars
    BY <2>1 DEF vars, SleepInv, OneUnserved, AllServed, LookedServed, Unserved, Failed
  <2> QED
    BY <2>1, Kinds, SleepBySensors, SleepByNetworkTasks, SleepByServing, SleepByRecovery
<1>3. SleepInv => FailuresNotOverslept
  BY DEF SleepInv, AllServed, Unserved, FailuresNotOverslept
<1> QED
  BY <1>1, <1>2, <1>3, TypesInvariant, PTL DEF Spec

-----------------------------------------------------------------------------
(* Cloud outages                                                             *)

\* While recovery is idle and nobody is about to report the outage, the
\* recovery task is on its way to a connection or to the end of the application;
\* in its loop, from where it may suspend itself, it is not.
OutageInv ==
  cloudConnStatus = "DISCONNECTED" /\ progress = "IDLE" =>
    \/ pc["recovery"] \in {"retryWifi", "retryCloud", "stopped"}
    \/ pc["azure"] \in {"reportWifi", "reportCloud"}

LEMMA OutageStep ==
  ASSUME PointTypes, StatusTypes, OutageInv, Next
  PROVE  OutageInv'
<1> USE RecoveryAssumption DEF OutageInv, PointTypes, StatusTypes, Tasks, networkVars,
    AtLow, AtAzure, Goto, GotoAndResumeRecovery, Resumed
<1>1. ASSUME NEW s \in Sensors,
             SensorStart(s) \/ TakeI2c(s) \/ SensorChecksWifi(s) \/ SensorSuspends(s)
               \/ SensorResumesRecovery(s) \/ SensorSamples(s) \/ ReadReturns(s)
      PROVE  OutageInv'
  BY <1>1 DEF SensorStart, TakeI2c, SensorChecksWifi, SensorSuspends, SensorResumesRecovery,
              SensorSamples, ReadReturns
<1>2. ASSUME NEW s \in Sensors, ProbeOk(s) \/ ProbeFails(s)
      PROVE  OutageInv'
  BY <1>2 DEF ProbeOk, ProbeFails
<1>3. ASSUME NEW s \in Sensors, TimerExpires(s)
      PROVE  OutageInv'
  BY <1>3 DEF TimerExpires, Expires, Late
<1>4. ASSUME NEW s \in Sensors, GiveUp(s) \/ Recreate(s) \/ RecreateFails(s)
      PROVE  OutageInv'
  BY <1>4 DEF GiveUp, Recreate, RecreateFails, LeaveRoundMoving, Serves, Failed
<1>5. ASSUME WifiConnects \/ WifiConnectFails \/ WifiRound \/ WifiRoundEnds
               \/ WifiConnectionLost \/ WifiReports
      PROVE  OutageInv'
  BY <1>5 DEF WifiConnects, WifiConnectFails, WifiRound, WifiRoundEnds, WifiConnectionLost,
              WifiReports, Report
<1>6. ASSUME WifiResumesSensors
      PROVE  OutageInv'
  BY <1>6, ResumedSensors DEF WifiResumesSensors
<1>7. ASSUME AzureResumed \/ ConnectCheck \/ Connected \/ ConnectFails \/ AzureCheck \/ RssiOk
               \/ RssiFails \/ AzureReports \/ Gate \/ Published \/ PublishFails
      PROVE  OutageInv'
  BY <1>7 DEF AzureResumed, ConnectCheck, Connected, ConnectFails, AzureCheck, RssiOk,
              RssiFails, AzureReports, Gate, Published, PublishFails, Report
<1>8. ASSUME NothingProbed \/ StartsLooking \/ LooksOn \/ RecoverySleeps \/ StopApplication
               \/ RecoverWifi \/ WifiReconnected \/ RecoverCloud \/ RecoveryRssi
               \/ CloudReconnected \/ NothingToDo
      PROVE  OutageInv'
  BY <1>8 DEF NothingProbed, StartsLooking, LooksOn, RecoverySleeps, StopApplication,
              RecoverWifi, WifiReconnected, RecoverCloud, RecoveryRssi, CloudReconnected,
              NothingToDo, LeaveRound, NetworkTurn
<1> QED
  BY <1>1, <1>2, <1>3, <1>4, <1>5, <1>6, <1>7, <1>8, StepOf DEF Actions

\* A lost cloud connection is never forgotten.
THEOREM OutagesHandled == Spec => []CloudOutageHandled
<1>1. Init => OutageInv
  BY InitialPoints DEF Init, OutageInv
<1>2. TypeInv /\ OutageInv /\ [Next]_vars => OutageInv'
  <2>1. CASE UNCHANGED vars
    BY <2>1 DEF vars, OutageInv
  <2> QED
    BY <2>1, OutageStep DEF TypeInv
<1>3. OutageInv => CloudOutageHandled
  BY DEF OutageInv, CloudOutageHandled, RecoveryActive
<1> QED
  BY <1>1, <1>2, <1>3, TypesInvariant, PTL DEF Spec
=============================================================================
