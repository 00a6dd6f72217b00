---------------------------- MODULE RecoveryTask ----------------------------
(***************************************************************************)
(* The supervision of the Wi-Fi asset tracking firmware: the recovery task, *)
(* the tasks that report failures to it through the status structure        *)
(* (sensor tasks, Wi-Fi task, Azure task) and the sensor timers.            *)
(*                                                                          *)
(* As in TelemetryPipeline one action is the code of one task between two   *)
(* points where another task can be observed to run; the packets and queues *)
(* are the subject of that module.  The timer service task runs whenever a  *)
(* timer expires, between the tests of the recovery task and its suspension  *)
(* too: its priority is set outside this repository.                        *)
(***************************************************************************)
EXTENDS Naturals, Sequences, SequencesExt

CONSTANTS
  SensorOrder,   \* the sensors in the order the recovery task looks at them
  TempRh,        \* the sensor whose probing needs the on-board one disabled
  MaxRetry       \* SENSOR_MAX_RETRY_COUNT

Sensors == ToSet(SensorOrder)

ASSUME RecoveryAssumption ==
  /\ SensorOrder \in Seq(Sensors)
  /\ SensorOrder # <<>>
  /\ IsInjective(SensorOrder)
  /\ Sensors \cap {"wifi", "azure", "recovery"} = {}
  /\ MaxRetry \in Nat \ {0}

VARIABLES
  pc,               \* where each task is
  i2cFree,          \* i2c_mutex_handler (a binary semaphore) can be taken
  probeStatus,      \* *_probe_status
  retryCnt,         \* *_retry_cnt
  wifiConnStatus,   \* wifi_conn_status
  cloudConnStatus,  \* azure_cloud_conn_status
  progress,         \* recovery_progress_status
  look,             \* the sensor the recovery task looks at; Len(SensorOrder) + 1
                    \* when it looks at the network, 0 outside a round
  overlooked        \* a failing sensor was reported while recovery was awake, since
                    \* it last fell asleep with no sensor failing

Tasks       == Sensors \cup {"wifi", "azure", "recovery"}
sensorVars  == <<i2cFree, probeStatus, retryCnt>>
networkVars == <<wifiConnStatus, cloudConnStatus, progress>>
recoveryVars == <<look, overlooked>>
vars        == <<pc, i2cFree, probeStatus, retryCnt, wifiConnStatus, cloudConnStatus,
                 progress, look, overlooked>>

-----------------------------------------------------------------------------
(* Scheduling: recovery (4) over Azure (3) over the sensors and Wi-Fi (1)   *)

\* Points where the recovery or Azure task does not use the CPU.
RecoveryWaits == {"suspended", "rssi", "retryWifi", "retryCloud", "stopped"}
AzureWaits    == {"connect", "connectSuspended", "rssi", "publish", "suspended"}

Stopped      == pc["recovery"] = "stopped"
AzureMayRun  == pc["recovery"] \in RecoveryWaits /\ ~Stopped
LowestMayRun == AzureMayRun /\ pc["azure"] \in AzureWaits

AtLow(t, point) == pc[t] = point /\ LowestMayRun
AtAzure(point)  == pc["azure"] = point /\ AzureMayRun

Goto(t, point) == pc' = [pc EXCEPT ![t] = point]

\* vTaskResume(recovery_task_handler)
Resumed(point) == IF point = "suspended" THEN "loop" ELSE point
GotoAndResumeRecovery(t, point) ==
  pc' = [pc EXCEPT ![t] = point, !["recovery"] = Resumed(@)]

\* Under the recovery status mutex: claim an idle recovery task, then resume it.
Report(t, point) ==
  IF progress = "IDLE"
  THEN progress' = "INPROGRESS" /\ GotoAndResumeRecovery(t, point)
  ELSE UNCHANGED progress /\ Goto(t, point)

-----------------------------------------------------------------------------
(* Sensor tasks                                                             *)

\* A (re)created task probes its sensor; for TempRh that is given up silently
\* when the on-board sensor cannot be disabled.
SensorStart(s) ==
  /\ AtLow(s, "start")
  /\ IF probeStatus[s] \in {"NOT_PROBED", "RECONNECTED"}
     THEN \/ Goto(s, "takeToProbe")
          \/ s = TempRh /\ Goto(s, "checkWifi")
     ELSE Goto(s, "checkWifi")
  /\ UNCHANGED <<sensorVars, networkVars, recoveryVars>>

\* The semaphore is taken and the timer started before an I2C transfer.
TakeI2c(s) ==
  /\ i2cFree
  /\ \/ AtLow(s, "takeToProbe") /\ Goto(s, "probing")
     \/ AtLow(s, "takeToRead")  /\ Goto(s, "reading")
  /\ i2cFree' = FALSE
  /\ UNCHANGED <<probeStatus, retryCnt, networkVars, recoveryVars>>

\* In time or late, the probing succeeds ...
ProbeOk(s) ==
  /\ AtLow(s, "probing") \/ AtLow(s, "probingLate")
  /\ i2cFree' = TRUE
  /\ probeStatus' = [probeStatus EXCEPT ![s] = "CONNECTED"]
  /\ retryCnt' = [retryCnt EXCEPT ![s] = 0]
  /\ Goto(s, "checkWifi")
  /\ UNCHANGED <<networkVars, recoveryVars>>

\* ... or fails.
ProbeFails(s) ==
  /\ AtLow(s, "probing") \/ AtLow(s, "probingLate")
  /\ i2cFree' = TRUE
  /\ probeStatus' = [probeStatus EXCEPT ![s] = "PROBE_FAILED"]
  /\ Goto(s, "resumeRecovery")
  /\ UNCHANGED <<retryCnt, networkVars, recoveryVars>>

\* (Definitions named Bad... are plausible bugs, used only to see that the
\* properties notice them.)
BadSensorResumesRecovery(s) ==
  /\ AtLow(s, "resumeRecovery")
  /\ Goto(s, "checkWifi")
  /\ UNCHANGED <<sensorVars, networkVars, recoveryVars>>

\* A recovery task that is not suspended is not told.
SensorResumesRecovery(s) ==
  /\ AtLow(s, "resumeRecovery")
  /\ GotoAndResumeRecovery(s, "checkWifi")
  /\ overlooked' = (overlooked \/ pc["recovery"] # "suspended")
  /\ UNCHANGED <<sensorVars, networkVars, look>>

SensorChecksWifi(s) ==
  /\ AtLow(s, "checkWifi")
  /\ Goto(s, IF wifiConnStatus = "NOT_CONNECTED" THEN "suspendSelf" ELSE "running")
  /\ UNCHANGED <<sensorVars, networkVars, recoveryVars>>

SensorSuspends(s) ==
  /\ AtLow(s, "suspendSelf")
  /\ Goto(s, "wifiSuspended")
  /\ UNCHANGED <<sensorVars, networkVars, recoveryVars>>

\* A round of the sampling loop.
SensorSamples(s) ==
  /\ AtLow(s, "running")
  /\ probeStatus[s] = "CONNECTED"
  /\ Goto(s, "takeToRead")
  /\ UNCHANGED <<sensorVars, networkVars, recoveryVars>>

ReadReturns(s) ==
  /\ AtLow(s, "reading") \/ AtLow(s, "readingLate")
  /\ i2cFree' = TRUE
  /\ Goto(s, "running")
  /\ UNCHANGED <<probeStatus, retryCnt, networkVars, recoveryVars>>

\* What the callback of a sensor's timer writes: the semaphore is given in the
\* task's place and the status changed.  The transfer may still return, late.
Expires(s) ==
  /\ ~Stopped
  /\ pc[s] \in {"probing", "reading"}
  /\ i2cFree' = TRUE
  /\ CASE probeStatus[s] = "NOT_PROBED" ->
            probeStatus' = [probeStatus EXCEPT ![s] = "PROBE_FAILED"]
       [] probeStatus[s] \in {"CONNECTED", "RECONNECTED"} ->
            probeStatus' = [probeStatus EXCEPT ![s] = "DISCONNECTED"]
       [] OTHER -> UNCHANGED probeStatus

Late(s) == IF pc[s] = "probing" THEN "probingLate" ELSE "readingLate"

BadTimerExpires(s) ==
  /\ Expires(s)
  /\ Goto(s, Late(s))
  /\ UNCHANGED <<retryCnt, networkVars, recoveryVars>>

\* With the status changed, recovery is resumed if it is suspended.
TimerExpires(s) ==
  /\ Expires(s)
  /\ IF probeStatus'[s] = probeStatus[s]
     THEN Goto(s, Late(s)) /\ UNCHANGED overlooked
     ELSE /\ GotoAndResumeRecovery(s, Late(s))
          /\ overlooked' = (overlooked \/ pc["recovery"] # "suspended")
  /\ UNCHANGED <<retryCnt, networkVars, look>>

SensorStep(s) == \/ SensorStart(s)      \/ TakeI2c(s)
                 \/ ProbeOk(s)          \/ ProbeFails(s)
                 \/ SensorChecksWifi(s) \/ SensorSuspends(s)
                 \/ SensorResumesRecovery(s)
                 \/ SensorSamples(s)    \/ ReadReturns(s)

-----------------------------------------------------------------------------
(* Wi-Fi data task                                                          *)

WifiConnects ==
  /\ AtLow("wifi", "connecting")
  /\ wifiConnStatus' = "CONNECTED"
  /\ Goto("wifi", "resumeSensors")
  /\ UNCHANGED <<sensorVars, cloudConnStatus, progress, recoveryVars>>

WifiConnectFails ==
  /\ AtLow("wifi", "connecting")
  /\ wifiConnStatus' = "SHUTDOWN"
  /\ GotoAndResumeRecovery("wifi", "resumeSensors")
  /\ UNCHANGED <<sensorVars, cloudConnStatus, progress, recoveryVars>>

WifiResumesSensors ==
  /\ AtLow("wifi", "resumeSensors")
  /\ pc' = [t \in Tasks |-> CASE t = "wifi" -> "delay"
                              [] pc[t] = "wifiSuspended" -> "running"
                              [] OTHER -> pc[t]]
  /\ UNCHANGED <<sensorVars, networkVars, recoveryVars>>

WifiRound ==
  /\ AtLow("wifi", "delay")
  /\ wifiConnStatus = "CONNECTED"
  /\ Goto("wifi", "frame")
  /\ UNCHANGED <<sensorVars, networkVars, recoveryVars>>

WifiRoundEnds ==
  /\ AtLow("wifi", "frame")
  /\ Goto("wifi", "delay")
  /\ UNCHANGED <<sensorVars, networkVars, recoveryVars>>

WifiConnectionLost ==
  /\ AtLow("wifi", "frame")
  /\ wifiConnStatus' = "DISCONNECTED"
  /\ Goto("wifi", "report")
  /\ UNCHANGED <<sensorVars, cloudConnStatus, progress, recoveryVars>>

WifiReports ==
  /\ AtLow("wifi", "report")
  /\ Report("wifi", "delay")
  /\ UNCHANGED <<sensorVars, wifiConnStatus, cloudConnStatus, recoveryVars>>

\* The JSON task or the Wi-Fi task resumes a suspended Azure task.
AzureResumed ==
  /\ LowestMayRun
  /\ wifiConnStatus # "NOT_CONNECTED"
  /\ \/ pc["azure"] = "connectSuspended" /\ Goto("azure", "connectCheck")
     \/ pc["azure"] = "suspended"        /\ Goto("azure", "check")
  /\ UNCHANGED <<sensorVars, networkVars, recoveryVars>>

WifiStep == \/ WifiConnects \/ WifiConnectFails \/ WifiResumesSensors \/ WifiRound
            \/ WifiRoundEnds \/ WifiConnectionLost \/ WifiReports

-----------------------------------------------------------------------------
(* Azure cloud communication task                                           *)

ConnectCheck ==
  /\ AtAzure("connectCheck")
  /\ Goto("azure", IF wifiConnStatus = "CONNECTED" /\ cloudConnStatus = "NOT_CONNECTED"
                   THEN "connect" ELSE "connectSuspended")
  /\ UNCHANGED <<sensorVars, networkVars, recoveryVars>>

Connected ==
  /\ AtAzure("connect")
  /\ cloudConnStatus' = "CONNECTED"
  /\ Goto("azure", "check")
  /\ UNCHANGED <<sensorVars, wifiConnStatus, progress, recoveryVars>>

\* The retries fail too, possibly because Wi-Fi is gone; the recovery task is
\* resumed but not claimed.
ConnectFails ==
  /\ AtAzure("connect")
  /\ wifiConnStatus' \in {wifiConnStatus, "DISCONNECTED"}
  /\ cloudConnStatus' = "SHUTDOWN"
  /\ GotoAndResumeRecovery("azure", "connectCheck")
  /\ UNCHANGED <<sensorVars, progress, recoveryVars>>

\* Whether a package waits is nothing this module knows.
AzureCheck ==
  /\ AtAzure("check")
  /\ \E point \in {"rssi", "suspended"} : Goto("azure", point)
  /\ UNCHANGED <<sensorVars, networkVars, recoveryVars>>

RssiOk ==
  /\ AtAzure("rssi")
  /\ Goto("azure", "gate")
  /\ UNCHANGED <<sensorVars, networkVars, recoveryVars>>

RssiFails ==
  /\ AtAzure("rssi")
  /\ cloudConnStatus' = "DISCONNECTED"
  /\ wifiConnStatus' = "DISCONNECTED"
  /\ Goto("azure", "reportWifi")
  /\ UNCHANGED <<sensorVars, progress, recoveryVars>>

AzureReports ==
  /\ \/ AtAzure("reportWifi")  /\ Report("azure", "gate")
     \/ AtAzure("reportCloud") /\ Report("azure", "check")
  /\ UNCHANGED <<sensorVars, wifiConnStatus, cloudConnStatus, recoveryVars>>

Gate ==
  /\ AtAzure("gate")
  /\ Goto("azure", IF cloudConnStatus = "CONNECTED" /\ wifiConnStatus = "CONNECTED"
                   THEN "publish" ELSE "suspended")
  /\ UNCHANGED <<sensorVars, networkVars, recoveryVars>>

Published ==
  /\ AtAzure("publish")
  /\ Goto("azure", "check")
  /\ UNCHANGED <<sensorVars, networkVars, recoveryVars>>

PublishFails ==
  /\ AtAzure("publish")
  /\ cloudConnStatus' = "DISCONNECTED"
  /\ Goto("azure", "reportCloud")
  /\ UNCHANGED <<sensorVars, wifiConnStatus, progress, recoveryVars>>

AzureStep == \/ ConnectCheck \/ Connected \/ ConnectFails \/ AzureCheck \/ RssiOk
             \/ RssiFails \/ AzureReports \/ Gate \/ Published \/ PublishFails

-----------------------------------------------------------------------------
(* Recovery task.  In every round of its loop it looks at the sensors one by *)
(* one, then at the network; only the timer service task runs between what   *)
(* it finds and its suspension.                                              *)

All(status) == \A s \in Sensors : probeStatus[s] = status
Failed(s)   == probeStatus[s] \in {"PROBE_FAILED", "DISCONNECTED"}

\* The task goes to a point outside the round, moving the task of a sensor too.
LeaveRound(point) == Goto("recovery", point) /\ look' = 0
LeaveRoundMoving(s, to, point) ==
  pc' = [pc EXCEPT ![s] = to, !["recovery"] = point] /\ look' = 0

NothingProbed ==
  /\ pc["recovery"] = "loop"
  /\ All("NOT_PROBED")
  /\ LeaveRound("suspending")
  /\ UNCHANGED <<sensorVars, networkVars, overlooked>>

StartsLooking ==
  /\ pc["recovery"] = "loop"
  /\ ~All("NOT_PROBED")
  /\ ~All("SHUTDOWN")
  /\ Goto("recovery", "looking")
  /\ look' = 1
  /\ UNCHANGED <<sensorVars, networkVars, overlooked>>

\* The task looks at s and finds it in trouble ...
Serves(s) ==
  /\ pc["recovery"] = "looking"
  /\ look <= Len(SensorOrder)
  /\ SensorOrder[look] = s
  /\ Failed(s)

\* ... or not.
LooksOn ==
  /\ pc["recovery"] = "looking"
  /\ look <= Len(SensorOrder)
  /\ ~Failed(SensorOrder[look])
  /\ look' = look + 1
  /\ UNCHANGED <<pc, sensorVars, networkVars, overlooked>>

NetworkTurn == pc["recovery"] = "looking" /\ look > Len(SensorOrder)

\* vTaskSuspend(recovery_task_handler)
RecoverySleeps ==
  /\ pc["recovery"] = "suspending"
  /\ Goto("recovery", "suspended")
  /\ overlooked' = (overlooked /\ \E s \in Sensors : Failed(s))
  /\ UNCHANGED <<sensorVars, networkVars, look>>

\* sl_stop_wifi_asset_tracking_application(): every task is deleted.
StopApplication ==
  /\ \/ pc["recovery"] = "loop" /\ All("SHUTDOWN")
     \/ NetworkTurn /\ wifiConnStatus = "SHUTDOWN"
     \/ NetworkTurn /\ wifiConnStatus # "DISCONNECTED" /\ cloudConnStatus = "SHUTDOWN"
     \/ pc["recovery"] \in {"retryWifi", "retryCloud"}    \* all retries failed
  /\ LeaveRound("stopped")
  /\ UNCHANGED <<sensorVars, networkVars, overlooked>>

BadGiveUp(s) ==
  /\ Serves(s)
  /\ probeStatus[s] = "PROBE_FAILED"
  /\ LeaveRoundMoving(s, "deleted", "loop")
  /\ UNCHANGED <<sensorVars, networkVars, overlooked>>

\* A sensor that could not be probed is given up.
GiveUp(s) ==
  /\ Serves(s)
  /\ probeStatus[s] = "PROBE_FAILED"
  /\ probeStatus' = [probeStatus EXCEPT ![s] = "SHUTDOWN"]
  /\ LeaveRoundMoving(s, "deleted", "loop")
  /\ UNCHANGED <<i2cFree, retryCnt, networkVars, overlooked>>

BadRecreate(s) ==
  /\ Serves(s)
  /\ probeStatus[s] = "DISCONNECTED"
  /\ IF retryCnt[s] = MaxRetry
     THEN /\ retryCnt' = [retryCnt EXCEPT ![s] = 0]
          /\ probeStatus' = [probeStatus EXCEPT ![s] = "PROBE_FAILED"]
          /\ LeaveRoundMoving(s, "start", "loop")
     ELSE /\ retryCnt' = [retryCnt EXCEPT ![s] = @ + 1]
          /\ probeStatus' = [probeStatus EXCEPT ![s] = "RECONNECTED"]
          /\ LeaveRoundMoving(s, "start", "suspending")
  /\ UNCHANGED <<i2cFree, networkVars, overlooked>>

\* The task of a disconnected sensor is created anew; after MaxRetry times in
\* a row it is deleted again in the next round.
Recreate(s) ==
  /\ Serves(s)
  /\ probeStatus[s] = "DISCONNECTED"
  /\ IF retryCnt[s] + 1 = MaxRetry
     THEN /\ retryCnt' = [retryCnt EXCEPT ![s] = 0]
          /\ probeStatus' = [probeStatus EXCEPT ![s] = "PROBE_FAILED"]
          /\ LeaveRoundMoving(s, "start", "loop")
     ELSE /\ retryCnt' = [retryCnt EXCEPT ![s] = @ + 1]
          /\ probeStatus' = [probeStatus EXCEPT ![s] = "RECONNECTED"]
          /\ LeaveRoundMoving(s, "start", "suspending")
  /\ UNCHANGED <<i2cFree, networkVars, overlooked>>

RecreateFails(s) ==
  /\ Serves(s)
  /\ probeStatus[s] = "DISCONNECTED"
  /\ retryCnt' = [retryCnt EXCEPT ![s] = 0]
  /\ probeStatus' = [probeStatus EXCEPT ![s] = "SHUTDOWN"]
  /\ LeaveRoundMoving(s, "deleted", "suspending")
  /\ UNCHANGED <<i2cFree, networkVars, overlooked>>

RecoverWifi ==
  /\ NetworkTurn
  /\ wifiConnStatus = "DISCONNECTED"
  /\ cloudConnStatus' = "DISCONNECTED"
  /\ LeaveRound("retryWifi")
  /\ UNCHANGED <<sensorVars, wifiConnStatus, progress, overlooked>>

WifiReconnected ==
  /\ pc["recovery"] = "retryWifi"
  /\ wifiConnStatus' = "CONNECTED"
  /\ Goto("recovery", "retryCloud")
  /\ UNCHANGED <<sensorVars, cloudConnStatus, progress, recoveryVars>>

RecoverCloud ==
  /\ NetworkTurn
  /\ wifiConnStatus \notin {"SHUTDOWN", "DISCONNECTED"}
  /\ cloudConnStatus = "DISCONNECTED"
  /\ LeaveRound("rssi")
  /\ UNCHANGED <<sensorVars, networkVars, overlooked>>

RecoveryRssi ==
  /\ pc["recovery"] = "rssi"
  /\ \/ Goto("recovery", "retryCloud") /\ UNCHANGED wifiConnStatus
     \/ Goto("recovery", "loop") /\ wifiConnStatus' = "DISCONNECTED"
  /\ UNCHANGED <<sensorVars, cloudConnStatus, progress, recoveryVars>>

BadCloudReconnected ==
  /\ pc["recovery"] = "retryCloud"
  /\ progress' = "IDLE"
  /\ Goto("recovery", "suspending")
  /\ UNCHANGED <<sensorVars, wifiConnStatus, cloudConnStatus, recoveryVars>>

\* Both branches end so: the cloud is connected and recovery idle again.
CloudReconnected ==
  /\ pc["recovery"] = "retryCloud"
  /\ cloudConnStatus' = "CONNECTED"
  /\ progress' = "IDLE"
  /\ Goto("recovery", "suspending")
  /\ UNCHANGED <<sensorVars, wifiConnStatus, recoveryVars>>

\* "Suspend recovery task - if nothing to do"
NothingToDo ==
  /\ NetworkTurn
  /\ wifiConnStatus \notin {"SHUTDOWN", "DISCONNECTED"}
  /\ cloudConnStatus \notin {"SHUTDOWN", "DISCONNECTED"}
  /\ LeaveRound("suspending")
  /\ UNCHANGED <<sensorVars, networkVars, overlooked>>

RecoveryStep ==
  \/ NothingProbed \/ StartsLooking \/ LooksOn \/ RecoverySleeps \/ StopApplication
  \/ \E s \in Sensors : GiveUp(s) \/ Recreate(s) \/ RecreateFails(s)
  \/ RecoverWifi \/ WifiReconnected \/ RecoverCloud \/ RecoveryRssi \/ CloudReconnected
  \/ NothingToDo

-----------------------------------------------------------------------------
Init ==
  /\ pc = [t \in Tasks |-> CASE t = "wifi"     -> "connecting"
                             [] t = "azure"    -> "connectCheck"
                             [] t = "recovery" -> "loop"
                             [] OTHER          -> "start"]
  /\ i2cFree = TRUE
  /\ probeStatus = [s \in Sensors |-> "NOT_PROBED"]
  /\ retryCnt = [s \in Sensors |-> 0]
  /\ wifiConnStatus = "NOT_CONNECTED"
  /\ cloudConnStatus = "NOT_CONNECTED"
  /\ progress = "IDLE"
  /\ look = 0
  /\ overlooked = FALSE

Next == \/ \E s \in Sensors : SensorStep(s) \/ TimerExpires(s)
        \/ WifiStep
        \/ AzureResumed
        \/ AzureStep
        \/ RecoveryStep

Spec == Init /\ [][Next]_vars

\* The recovery and Azure tasks outrank the others and their blocking calls time
\* out; mostly they wait, so that a sensor task gets the CPU again and again, and
\* one that is about to resume recovery does so in the end.
FairSpec == /\ Spec
            /\ WF_vars(RecoveryStep)
            /\ WF_vars(AzureStep)
            /\ \A s \in Sensors : SF_vars(SensorResumesRecovery(s))

-----------------------------------------------------------------------------
(* Properties                                                               *)

SensorPoints == {"start", "takeToProbe", "probing", "probingLate", "resumeRecovery",
                 "checkWifi", "suspendSelf", "wifiSuspended", "running", "takeToRead",
                 "reading", "readingLate", "deleted"}

\* The status structure holds values of its enumerations.
TypeOK ==
  /\ DOMAIN pc = Tasks
  /\ \A s \in Sensors : pc[s] \in SensorPoints
  /\ pc["wifi"] \in {"connecting", "resumeSensors", "delay", "frame", "report"}
  /\ pc["azure"] \in AzureWaits \cup {"connectCheck", "check", "gate", "reportWifi",
                                      "reportCloud"}
  /\ pc["recovery"] \in RecoveryWaits \cup {"loop", "looking", "suspending"}
  /\ i2cFree \in BOOLEAN
  /\ probeStatus \in [Sensors -> {"NOT_PROBED", "CONNECTED", "PROBE_FAILED",
                                  "DISCONNECTED", "RECONNECTED", "SHUTDOWN"}]
  /\ retryCnt \in [Sensors -> 0..(MaxRetry - 1)]
  /\ wifiConnStatus \in {"NOT_CONNECTED", "CONNECTED", "DISCONNECTED", "SHUTDOWN"}
  /\ cloudConnStatus \in {"NOT_CONNECTED", "CONNECTED", "DISCONNECTED", "SHUTDOWN"}
  /\ progress \in {"IDLE", "INPROGRESS"}
  /\ look \in IF pc["recovery"] = "looking" THEN 1..(Len(SensorOrder) + 1) ELSE {0}
  /\ overlooked \in BOOLEAN

RecoveryActive == pc["recovery"] \notin {"suspending", "suspended"}

\* A task exists exactly as long as its sensor is not given up, whoever wrote
\* the status last: the task, its timer or the recovery task.
GivenUpMeansDeleted ==
  \A s \in Sensors : probeStatus[s] = "SHUTDOWN" <=> pc[s] = "deleted"

\* Recovery sleeps while a sensor is failing only if the sensor's task is about
\* to wake it, or if a failure was reported while recovery was awake: eTaskGetState()
\* told that it was not suspended, so it was not resumed.
FailuresNotOverslept ==
  \A s \in Sensors : pc["recovery"] = "suspended" /\ Failed(s) =>
    pc[s] = "resumeRecovery" \/ overlooked

\* A lost cloud connection is not forgotten: while recovery is idle it is awake
\* or the Azure task is about to report.
CloudOutageHandled ==
  cloudConnStatus = "DISCONNECTED" /\ progress = "IDLE" =>
    RecoveryActive \/ pc["azure"] \in {"reportWifi", "reportCloud"}

\* Every wake-up of the recovery task ends with its suspension or with the
\* application stopped: no status it leaves behind makes it loop for ever.
RecoveryComesToRest ==
  pc["recovery"] = "loop" ~> pc["recovery"] \in {"suspended", "stopped"}

\* A sensor that failed is reconnected or given up, whatever recovery does with
\* other sensors and the network meanwhile, unless a failure was overlooked.
SensorFailuresServed ==
  \A s \in Sensors : Failed(s) ~> ~Failed(s) \/ Stopped \/ overlooked

-----------------------------------------------------------------------------
(* What comments of the code say and the code does not do                   *)

\* "Suspend recovery task - if nothing to do" (app.c:729): a round does not end
\* in a suspension with Wi-Fi disconnected.
SuspendsWithNothingToDo ==
  [][pc["recovery"] = "looking" /\ pc'["recovery"] = "suspending" =>
       wifiConnStatus # "DISCONNECTED"]_vars

\* "If wi-fi not in initialized state then only suspend" (sensor.c:306): once the
\* Wi-Fi task has connected and resumed the sensor tasks, none whose sensor works
\* is suspended.
SuspendedOnlyWithoutWifi ==
  pc["wifi"] \in {"delay", "frame"} /\ wifiConnStatus = "CONNECTED" =>
    \A s \in Sensors : probeStatus[s] = "CONNECTED" => pc[s] # "wifiSuspended"

\* "Here comes only if wi-fi is connected" (wifi_handler.c:131): past that line no
\* sensor is read when connecting Wi-Fi has failed for good.
SamplesOnlyWithWifi ==
  pc["wifi"] = "delay" /\ wifiConnStatus = "SHUTDOWN" =>
    \A s \in Sensors : pc[s] # "reading"
==============================================================================
