----------------------------- MODULE Connectivity -----------------------------
(***************************************************************************)
(* The network side of the firmware put together: the Wi-Fi task             *)
(* (WifiConnection, WifiSchedule), the Azure task and the recovery task,      *)
(* which connect to the hub (CloudConnection) and tell each other how it     *)
(* went in the status structure.                                            *)
(*                                                                          *)
(* RecoveryTask has the same tasks with every connection attempt as one step *)
(* that succeeds; here the attempts have their calls and may fail, and the   *)
(* sensors are reduced to what they make the recovery task do.               *)
(***************************************************************************)
EXTENDS WifiConnection, CloudConnection

VARIABLES
  cloudStatus,  \* azure_cloud_conn_status
  progress,     \* recovery_progress_status
  azureAt,      \* where the Azure task is
  recovery,     \* where the recovery task is
  framed,       \* the Wi-Fi task has asked for the RSSI in this round
  lostEarly     \* history: Wi-Fi was reported lost before the Azure task had connected

statusVars  == <<wifiStatus, connected, cloudStatus, progress>>
taskVars    == <<azureAt, recovery>>
networkVars == <<scheduleVars, wifiVars, cloudVars, cloudStatus, progress, taskVars,
                 framed, lostEarly>>

\* The recovery task goes before the others whenever it can run.
OthersRun ==
  /\ recovery \notin {"ready", "stopped"}
  /\ step["recovery"] \notin {"done", "failed"}

AzureRuns == OthersRun
LowRuns   == OthersRun /\ azureAt # "check"

Resumed == IF recovery = "asleep" THEN "ready" ELSE recovery

AzureServing == azureAt \in {"serving", "publishing"}

\* Wi-Fi is found lost, and the recovery task resumed if it is idle.
ReportWifiLost ==
  /\ SetWifiStatus("DISCONNECTED")
  /\ progress' = "INPROGRESS"
  /\ recovery' = IF progress = "IDLE" THEN Resumed ELSE recovery
  /\ lostEarly' = (lostEarly \/ ~AzureServing)

-----------------------------------------------------------------------------
(* Wi-Fi task                                                               *)

WifiConnects ==
  /\ LowRuns
  /\ WifiStarts
  /\ recovery' = IF wifiAt' = "shutdown" THEN Resumed ELSE recovery
  /\ UNCHANGED <<cloudVars, cloudStatus, progress, azureAt, framed, lostEarly>>

\* A round sends what is due, for which the Wi-Fi packet needs the RSSI.
WifiRound ==
  /\ LowRuns
  /\ wifiAt = "loop"
  /\ \/ OnlineRound /\ framed' = ("wifiData" \in due)
     \/ OfflineRound /\ UNCHANGED framed
  /\ UNCHANGED <<linkVars, wifiStatus, cloudVars, cloudStatus, progress, taskVars, lostEarly>>

WifiLosesConnection ==
  /\ LowRuns
  /\ framed
  /\ framed' = FALSE
  /\ ReportWifiLost
  /\ UNCHANGED <<scheduleVars, linkVars, cloudVars, cloudStatus, azureAt>>

WifiDelay(processing) ==
  /\ LowRuns
  /\ wifiAt = "loop"
  /\ Delay(processing)
  /\ framed' = FALSE
  /\ UNCHANGED <<linkVars, wifiStatus, cloudVars, cloudStatus, progress, taskVars, lostEarly>>

-----------------------------------------------------------------------------
(* Azure task                                                               *)

unchangedByAzure == <<scheduleVars, linkVars, framed>>

AzureChecks ==
  /\ AzureRuns
  /\ azureAt = "check"
  /\ IF wifiStatus = "CONNECTED" /\ cloudStatus = "NOT_CONNECTED"
     THEN azureAt' = "connecting" /\ BeginStart("azure")
     ELSE azureAt' = "suspended" /\ UNCHANGED cloudVars
  /\ UNCHANGED <<unchangedByAzure, statusVars, recovery, lostEarly>>

\* The JSON converter and the Wi-Fi task resume it when they have queued something.
AzureResumed ==
  /\ LowRuns
  /\ azureAt = "suspended"
  /\ azureAt' = "check"
  /\ UNCHANGED <<unchangedByAzure, statusVars, cloudVars, recovery, lostEarly>>

AzureConnectStep ==
  /\ AzureRuns
  /\ ConnectStep("azure")
  /\ UNCHANGED <<unchangedByAzure, statusVars, taskVars, lostEarly>>

\* A retry begins with the RSSI; without it the Azure task calls Wi-Fi lost, but
\* reports to nobody.
AzureRssi ==
  /\ AzureRuns
  /\ \/ Rssi("azure", TRUE) /\ UnchangedWifiStatus /\ UNCHANGED lostEarly
     \/ Rssi("azure", FALSE) /\ SetWifiStatus("DISCONNECTED") /\ lostEarly' = TRUE
  /\ UNCHANGED <<unchangedByAzure, cloudStatus, progress, taskVars>>

BadAzureConnected ==
  /\ AzureRuns
  /\ step["azure"] = "done"
  /\ cloudStatus' = "CONNECTED"
  /\ GotoStep("azure", "none")
  /\ azureAt' = "check"
  /\ UNCHANGED <<unchangedByAzure, tries, client, open, session, wifiStatus, connected,
                 progress, recovery, lostEarly>>

AzureConnected ==
  /\ AzureRuns
  /\ step["azure"] = "done"
  /\ cloudStatus' = "CONNECTED"
  /\ GotoStep("azure", "none")
  /\ azureAt' = "serving"
  /\ UNCHANGED <<unchangedByAzure, tries, client, open, session, wifiStatus, connected,
                 progress, recovery, lostEarly>>

AzureConnectFails ==
  /\ AzureRuns
  /\ step["azure"] = "failed"
  /\ cloudStatus' = "SHUTDOWN"
  /\ GotoStep("azure", "none")
  /\ azureAt' = "check"
  /\ recovery' = Resumed
  /\ UNCHANGED <<unchangedByAzure, tries, client, open, session, wifiStatus, connected,
                 progress, lostEarly>>

\* The data loop, of which TelemetryPipeline and RecoveryTask have the details.
AzureLosesWifi ==
  /\ AzureRuns
  /\ azureAt = "serving"
  /\ cloudStatus' = "DISCONNECTED"
  /\ ReportWifiLost
  /\ UNCHANGED <<unchangedByAzure, cloudVars, azureAt>>

AzurePublishes ==
  /\ AzureRuns
  /\ azureAt = "serving"
  /\ wifiStatus = "CONNECTED" /\ cloudStatus = "CONNECTED"
  /\ azureAt' = "publishing"
  /\ UNCHANGED <<unchangedByAzure, statusVars, cloudVars, recovery, lostEarly>>

\* While the message is being sent the recovery task may reconnect.
AzurePublished ==
  /\ AzureRuns
  /\ azureAt = "publishing"
  /\ azureAt' = "serving"
  /\ \/ session >= 0 /\ UNCHANGED <<cloudStatus, progress, recovery>>
     \/ /\ cloudStatus' = "DISCONNECTED"
        /\ progress' = "INPROGRESS"
        /\ recovery' = IF progress = "IDLE" THEN Resumed ELSE recovery
  /\ UNCHANGED <<unchangedByAzure, wifiStatus, connected, cloudVars, lostEarly>>

AzureStep == \/ AzureChecks \/ AzureResumed \/ AzureConnectStep \/ AzureRssi
             \/ AzureConnected \/ AzureConnectFails
             \/ AzureLosesWifi \/ AzurePublishes \/ AzurePublished

-----------------------------------------------------------------------------
(* Recovery task                                                            *)

unchangedByRecovery == <<scheduleVars, framed>>

\* A sensor task or timer resumes it.
RecoveryResumed ==
  /\ recovery = "asleep"
  /\ recovery' = "ready"
  /\ UNCHANGED <<unchangedByRecovery, linkVars, statusVars, cloudVars, azureAt, lostEarly>>

\* The network has its turn unless there is a sensor to recover, after which the
\* task suspends itself.
RecoverySuspends ==
  /\ recovery = "ready"
  /\ recovery' = "asleep"
  /\ UNCHANGED <<unchangedByRecovery, linkVars, statusVars, cloudVars, azureAt, lostEarly>>

RecoverWifi ==
  /\ recovery = "ready"
  /\ wifiStatus = "DISCONNECTED"
  /\ cloudStatus' = "DISCONNECTED"
  /\ recovery' = "wifiRetry"
  /\ UNCHANGED <<unchangedByRecovery, linkVars, wifiStatus, connected, progress,
                 cloudVars, azureAt, lostEarly>>

\* sl_retry_wifi_connection(false) asks for the RSSI until it gets it.
WifiBack ==
  /\ recovery = "wifiRetry"
  /\ SetWifiStatus("CONNECTED")
  /\ BeginRetry("recovery")
  /\ recovery' = "cloudRetry"
  /\ UNCHANGED <<unchangedByRecovery, linkVars, cloudStatus, progress, azureAt, lostEarly>>

RecoverCloud ==
  /\ recovery = "ready"
  /\ wifiStatus \in {"NOT_CONNECTED", "CONNECTED"}
  /\ cloudStatus = "DISCONNECTED"
  /\ recovery' = "rssi"
  /\ UNCHANGED <<unchangedByRecovery, linkVars, statusVars, cloudVars, azureAt, lostEarly>>

RecoveryRssi ==
  /\ recovery = "rssi"
  /\ \/ /\ recovery' = "cloudRetry"
        /\ BeginRetry("recovery")
        /\ UnchangedWifiStatus /\ UNCHANGED lostEarly
     \/ /\ recovery' = "ready"
        /\ SetWifiStatus("DISCONNECTED")
        /\ lostEarly' = (lostEarly \/ ~AzureServing)
        /\ UNCHANGED cloudVars
  /\ UNCHANGED <<unchangedByRecovery, linkVars, cloudStatus, progress, azureAt>>

RecoveryConnectStep ==
  /\ ConnectStep("recovery")
  /\ UNCHANGED <<unchangedByRecovery, linkVars, statusVars, taskVars, lostEarly>>

RetryRssi ==
  /\ \/ Rssi("recovery", TRUE) /\ UnchangedWifiStatus /\ UNCHANGED lostEarly
     \/ /\ Rssi("recovery", FALSE)
        /\ SetWifiStatus("DISCONNECTED")
        /\ lostEarly' = (lostEarly \/ ~AzureServing)
  /\ UNCHANGED <<unchangedByRecovery, linkVars, cloudStatus, progress, taskVars>>

CloudReconnected ==
  /\ step["recovery"] = "done"
  /\ GotoStep("recovery", "none")
  /\ cloudStatus' = "CONNECTED"
  /\ progress' = "IDLE"
  /\ recovery' = "asleep"
  /\ UNCHANGED <<unchangedByRecovery, linkVars, tries, client, open, session,
                 wifiStatus, connected, azureAt, lostEarly>>

\* What cannot be recovered stops the application: no sensor is left, Wi-Fi or the
\* cloud could not be connected at the start (the task concerned is deleted first)
\* or again.
CannotGoOn ==
  \/ recovery \in {"ready", "wifiRetry"}
  \/ step["recovery"] = "failed"

StopApplication ==
  /\ CannotGoOn
  /\ step' = [step EXCEPT !["recovery"] = "none",
                          !["azure"] = IF cloudStatus = "SHUTDOWN" THEN "none" ELSE @]
  /\ azureAt' = IF cloudStatus = "SHUTDOWN" THEN "deleted" ELSE azureAt
  /\ open' = open \ {client}
  /\ client' = -1
  /\ session' = -1
  /\ recovery' = "stopping"
  /\ UNCHANGED <<unchangedByRecovery, linkVars, statusVars, tries, lostEarly>>

\* The other tasks are deleted last.
StopEnds ==
  /\ recovery = "stopping"
  /\ recovery' = "stopped"
  /\ DeinitWifi
  /\ UNCHANGED <<unchangedByRecovery, wifiAt, wifiTry, clock, sntpFailed, statusVars,
                 cloudVars, azureAt, lostEarly>>

RecoveryStep == \/ RecoveryResumed \/ RecoverySuspends \/ RecoverWifi \/ WifiBack
                \/ RecoverCloud \/ RecoveryRssi \/ RecoveryConnectStep \/ RetryRssi
                \/ CloudReconnected \/ StopApplication \/ StopEnds

-----------------------------------------------------------------------------
NetworkInit ==
  /\ WifiInit
  /\ CloudInit
  /\ cloudStatus = "NOT_CONNECTED"
  /\ progress = "IDLE"
  /\ azureAt = "check"
  /\ recovery = "asleep"
  /\ framed = FALSE
  /\ lostEarly = FALSE

NetworkStep == WifiConnects \/ WifiLosesConnection \/ AzureStep \/ RecoveryStep

NetworkNext == \/ NetworkStep \/ WifiRound
               \/ \E processing \in Nat : WifiDelay(processing)

NetworkSpec == NetworkInit /\ [][NetworkNext]_networkVars

-----------------------------------------------------------------------------
(* Properties                                                               *)

\* The retry loop reports what the last call left in one variable.  Still the
\* interface is up and the clock set when Wi-Fi counts as connected, except
\* when the clock failed in the last try, which is then reported as a success.
WifiUpWhenConnected ==
  wifiStatus = "CONNECTED" /\ recovery # "stopped" =>
    \/ iface = "up" /\ clock # "unset"
    \/ sntpFailed

\* Every error path closes the socket, some of them twice and one without having
\* opened it, and none is left open; but both tasks connect at once when Wi-Fi is
\* reported lost before the Azure task has connected, and then one is.
SocketsNotLeaked == open \subseteq {client} \/ lostEarly

\* Connected to the cloud means that there is an MQTT session on an open socket,
\* whoever made the connection and whatever failed before, except in that case.
ConnectedHasSession ==
  cloudStatus = "CONNECTED" /\ recovery \in {"asleep", "ready"} =>
    (session = client /\ session \in open) \/ lostEarly

\* The Azure task enters its data loop only by connecting itself.  When the
\* recovery task connects in its place it stays suspended in its first loop for
\* ever; nothing but a Wi-Fi outage in that phase brings this about.
AzureTaskServes ==
  cloudStatus = "CONNECTED" => AzureServing \/ lostEarly
==============================================================================
