------------------------- MODULE ConnectivityProofs -------------------------
(* Theorems about the schedule of the Wi-Fi task, for all intervals, offsets  *)
(* and lengths of a round, and about Connectivity, for any numbers of retries *)
(* and any sockets.                                                           *)
EXTENDS Connectivity, Integers, TLAPS

-----------------------------------------------------------------------------
(* The schedule                                                              *)

\* What is left of a delay is never negative, whatever the round took: the
\* unsigned subtractions of the code do not wrap around.
LEMMA RemainingIsNat ==
  ASSUME NEW d \in Nat, NEW p \in Nat
  PROVE  Remaining(d, p) \in Nat
BY DEF Remaining, Distance

\* Scaling by the offset and truncating gives a number of ticks.
LEMMA ScaledIsNat ==
  ASSUME NEW t \in Nat
  PROVE  Scaled(t) \in Nat
<1>1. t * OffsetNum \in Nat
  BY ScheduleAssumption
<1> QED
  BY <1>1, ScheduleAssumption DEF Scaled

\* One more interval after a multiple is a multiple.
LEMMA NextMultiple ==
  ASSUME NEW t \in Nat, NEW interval \in Nat \ {0}, IsMultiple(t, interval)
  PROVE  IsMultiple(t + interval, interval)
<1>1. PICK n \in 0..t : t = n * interval
  BY DEF IsMultiple
<1>2. t + interval = (n + 1) * interval
  BY <1>1
<1>3. n + 1 \in 0..(t + interval)
  BY <1>1
<1> QED
  BY <1>2, <1>3 DEF IsMultiple

\* Every delay is the distance to the next packets, and never 0: one round of
\* the schedule, from any two times that are less than an interval apart.
LEMMA RoundDelay ==
  ASSUME TypeOK, SchedulesArePeriodic, OnlineRound
  PROVE  /\ taskDelay' \in Nat
         /\ taskDelay' > 0
         /\ Now + taskDelay' = Now'
<1> USE ScheduleAssumption DEF TypeOK, SchedulesArePeriodic, Now, NextKa, NextWifi
<1>1. CASE BothNext
  BY <1>1 DEF BothNext
<1>2. CASE KaNext
  BY <1>2 DEF KaNext
<1>3. CASE WifiNext
  BY <1>3 DEF WifiNext
<1> QED
  BY <1>1, <1>2, <1>3 DEF OnlineRound

\* One round keeps the two schedules periodic.
LEMMA RoundKeepsSchedules ==
  ASSUME TypeOK, SchedulesArePeriodic, OnlineRound
  PROVE  SchedulesArePeriodic'
<1>1. /\ IsMultiple(NextKa, KaInterval)
      /\ IsMultiple(NextWifi, WifiInterval)
  BY NextMultiple, ScheduleAssumption DEF TypeOK, SchedulesArePeriodic, NextKa, NextWifi
<1>2. /\ IsMultiple(lastKa, KaInterval)'
      /\ IsMultiple(lastWifi, WifiInterval)'
  BY <1>1 DEF SchedulesArePeriodic, OnlineRound, BothNext, KaNext, WifiNext, IsMultiple
<1>3. /\ (lastKa <= Now /\ Now < NextKa)'
      /\ (lastWifi <= Now /\ Now < NextWifi)'
      /\ ("keepAlive" \in due <=> lastKa = Now)'
      /\ ("wifiData" \in due <=> lastWifi = Now)'
  <2> USE ScheduleAssumption DEF TypeOK, SchedulesArePeriodic, Now, NextKa, NextWifi, Packets
  <2>1. CASE BothNext
    BY <2>1 DEF BothNext
  <2>2. CASE KaNext
    BY <2>2 DEF KaNext
  <2>3. CASE WifiNext
    BY <2>3 DEF WifiNext
  <2> QED
    BY <2>1, <2>2, <2>3 DEF OnlineRound
<1> QED
  BY <1>2, <1>3 DEF SchedulesArePeriodic

\* Types and schedules support each other: the distances are natural numbers
\* because neither schedule is an interval behind.
ScheduleInv == TypeOK /\ SchedulesArePeriodic

LEMMA ScheduleInvInit == Init => ScheduleInv
<1> SUFFICES ASSUME Init PROVE ScheduleInv
  OBVIOUS
<1>1. IsMultiple(0, KaInterval) /\ IsMultiple(0, WifiInterval)
  BY ScheduleAssumption DEF IsMultiple
<1> QED
  BY <1>1, ScheduleAssumption
  DEF Init, ScheduleInv, TypeOK, SchedulesArePeriodic, Now, NextKa, NextWifi, Packets

LEMMA ScheduleInvStep == ScheduleInv /\ [Next]_vars => ScheduleInv'
<1> SUFFICES ASSUME ScheduleInv, [Next]_vars
             PROVE  ScheduleInv'
  OBVIOUS
<1> USE DEF ScheduleInv
<1>1. CASE OnlineRound
  <2>1. taskDelay' \in Nat
    BY <1>1, RoundDelay
  <2>2. lastKa' \in Nat /\ lastWifi' \in Nat
    BY <1>1, ScheduleAssumption
    DEF TypeOK, OnlineRound, BothNext, KaNext, WifiNext, NextKa, NextWifi
  <2>3. due' \in (SUBSET Packets) \ {{}}
    <3>1. due' \in {Packets, {"keepAlive"}, {"wifiData"}}
      BY <1>1 DEF OnlineRound, BothNext, KaNext, WifiNext
    <3> QED
      BY <3>1 DEF Packets
  <2>4. TypeOK'
    BY <1>1, <2>1, <2>2, <2>3 DEF TypeOK, OnlineRound
  <2> QED
    BY <1>1, <2>4, RoundKeepsSchedules
<1>2. CASE OfflineRound
  BY <1>2 DEF OfflineRound, TypeOK, SchedulesArePeriodic, Now, NextKa, NextWifi
<1>3. ASSUME NEW processing \in Nat, Delay(processing)
      PROVE  ScheduleInv'
  <2>1. taskDelay' \in Nat
    BY <1>3, ScaledIsNat, RemainingIsNat DEF Delay, TypeOK
  <2> QED
    BY <1>3, <2>1 DEF Delay, TypeOK, SchedulesArePeriodic, Now, NextKa, NextWifi
<1>4. CASE ConnectionChanges
  BY <1>4 DEF ConnectionChanges, TypeOK, SchedulesArePeriodic, Now, NextKa, NextWifi
<1>5. CASE UNCHANGED vars
  BY <1>5 DEF vars, TypeOK, SchedulesArePeriodic, Now, NextKa, NextWifi
<1> QED
  BY <1>1, <1>2, <1>3, <1>4, <1>5 DEF Next

\* The state of the Wi-Fi task's schedule always has its type; in particular no
\* delay is negative.
THEOREM ScheduleTypes == Spec => []TypeOK
<1>1. ScheduleInv => TypeOK
  BY DEF ScheduleInv
<1> QED
  BY <1>1, ScheduleInvInit, ScheduleInvStep, PTL DEF Spec

\* For all intervals, both packets are due exactly at the multiples of their
\* intervals and neither schedule falls an interval behind.
THEOREM BothSchedulesPeriodic == Spec => []SchedulesArePeriodic
<1>1. ScheduleInv => SchedulesArePeriodic
  BY DEF ScheduleInv
<1> QED
  BY <1>1, ScheduleInvInit, ScheduleInvStep, PTL DEF Spec

\* For all intervals, the delay computed by a round ends when the next packets
\* are due.
THEOREM DelaysReachNextPacket == Spec => DelayReachesNextPacket
<1>1. ScheduleInv /\ [Next]_vars
        => [OnlineRound => taskDelay' > 0 /\ Now + taskDelay' = Now']_vars
  BY RoundDelay DEF ScheduleInv
<1> QED
  BY <1>1, ScheduleInvInit, ScheduleInvStep, PTL DEF Spec, DelayReachesNextPacket

-----------------------------------------------------------------------------
(* The steps of Connectivity                                                 *)

Actions ==
  \/ WifiConnects \/ WifiLosesConnection \/ WifiRound
  \/ \E processing \in Nat : WifiDelay(processing)
  \/ AzureChecks \/ AzureResumed \/ AzureConnectStep \/ AzureRssi
  \/ AzureConnected \/ AzureConnectFails
  \/ AzureLosesWifi \/ AzurePublishes \/ AzurePublished
  \/ RecoveryResumed \/ RecoverySuspends \/ RecoverWifi \/ WifiBack
  \/ RecoverCloud \/ RecoveryRssi \/ RecoveryConnectStep \/ RetryRssi
  \/ CloudReconnected \/ StopApplication \/ StopEnds

LEMMA StepOf == NetworkNext => Actions
BY DEF NetworkNext, NetworkStep, AzureStep, RecoveryStep, Actions

\* The Wi-Fi task and the schedule are beside the connection to the cloud, except
\* that the Wi-Fi task may report Wi-Fi lost.
LEMMA WifiTaskOf ==
  ASSUME WifiConnects \/ WifiRound \/ \E processing \in Nat : WifiDelay(processing)
  PROVE  /\ UNCHANGED <<cloudVars, cloudStatus, azureAt, lostEarly>>
         /\ recovery' \in {recovery, Resumed}
         /\ wifiStatus' \in {wifiStatus, "CONNECTED", "SHUTDOWN"}
BY DEF WifiConnects, WifiStarts, NetInit, NetUp, GetProfile, SetTime, TryFails, SetWifiStatus,
       UnchangedWifiStatus, WifiRound, WifiDelay, cloudVars, taskVars

-----------------------------------------------------------------------------
(* Who is connecting                                                         *)

CloudPoints == {"none", "disconnect", "closing", "rssi", "prepare", "socket", "tls",
                "hub", "done", "failed"}

\* A task that is connecting is where it waits for the connection.
ConnectorInv ==
  /\ step \in [Connectors -> CloudPoints]
  /\ lostEarly \in BOOLEAN
  /\ step["recovery"] # "none" => recovery = "cloudRetry"
  /\ step["azure"] # "none" => azureAt = "connecting"

\* What one call in the middle of connecting does.
LEMMA ConnectStepOf ==
  ASSUME step \in [Connectors -> CloudPoints], NEW t \in Connectors,
         ConnectStep(t) \/ \E ok \in BOOLEAN : Rssi(t, ok)
  PROVE  /\ step[t] \notin {"none", "done", "failed"}
         /\ \E p \in CloudPoints \ {"none"} : step' = [step EXCEPT ![t] = p]
BY DEF ConnectStep, Disconnect, ForgetSocket, Prepare, CreateSocket, ConnectSocket,
       ConnectSocketFails, ConnectHub, ConnectHubFails, Rssi, NextTry, FailTry, GotoStep,
       CloudPoints

LEMMA ConnectorStep ==
  ASSUME ConnectorInv, Actions
  PROVE  ConnectorInv'
<1> USE DEF ConnectorInv, Connectors, CloudPoints, Resumed, GotoStep
<1>1. ASSUME WifiConnects \/ WifiRound \/ \E processing \in Nat : WifiDelay(processing)
      PROVE  ConnectorInv'
  BY <1>1, WifiTaskOf DEF cloudVars
<1>2. ASSUME WifiLosesConnection
      PROVE  ConnectorInv'
  BY <1>2 DEF WifiLosesConnection, ReportWifiLost, cloudVars
<1>3. ASSUME AzureChecks
      PROVE  ConnectorInv'
  BY <1>3 DEF AzureChecks, BeginStart, cloudVars
<1>4. ASSUME AzureResumed
      PROVE  ConnectorInv'
  BY <1>4 DEF AzureResumed, cloudVars
<1>5. ASSUME AzureConnectStep \/ AzureRssi
      PROVE  ConnectorInv'
  <2>1. ConnectStep("azure") \/ \E ok \in BOOLEAN : Rssi("azure", ok)
    BY <1>5 DEF AzureConnectStep, AzureRssi
  <2>2. /\ step["azure"] # "none"
        /\ \E p \in CloudPoints \ {"none"} : step' = [step EXCEPT !["azure"] = p]
    BY <2>1, ConnectStepOf
  <2>3. UNCHANGED <<azureAt, recovery>> /\ lostEarly' \in BOOLEAN
    BY <1>5 DEF AzureConnectStep, AzureRssi, taskVars
  <2> QED
    BY <2>2, <2>3
<1>6. ASSUME AzureConnected \/ AzureConnectFails
      PROVE  ConnectorInv'
  BY <1>6 DEF AzureConnected, AzureConnectFails
<1>7. ASSUME AzureLosesWifi \/ AzurePublishes \/ AzurePublished
      PROVE  ConnectorInv'
  BY <1>7 DEF AzureLosesWifi, AzurePublishes, AzurePublished, ReportWifiLost, cloudVars
<1>8. ASSUME RecoveryResumed \/ RecoverySuspends \/ RecoverWifi \/ RecoverCloud \/ StopEnds
      PROVE  ConnectorInv'
  BY <1>8 DEF RecoveryResumed, RecoverySuspends, RecoverWifi, RecoverCloud, StopEnds, cloudVars
<1>9. ASSUME WifiBack \/ RecoveryRssi
      PROVE  ConnectorInv'
  BY <1>9 DEF WifiBack, RecoveryRssi, BeginRetry, cloudVars
<1>10. ASSUME RecoveryConnectStep \/ RetryRssi
       PROVE  ConnectorInv'
  <2>1. ConnectStep("recovery") \/ \E ok \in BOOLEAN : Rssi("recovery", ok)
    BY <1>10 DEF RecoveryConnectStep, RetryRssi
  <2>2. /\ step["recovery"] # "none"
        /\ \E p \in CloudPoints \ {"none"} : step' = [step EXCEPT !["recovery"] = p]
    BY <2>1, ConnectStepOf
  <2>3. UNCHANGED <<azureAt, recovery>> /\ lostEarly' \in BOOLEAN
    BY <1>10 DEF RecoveryConnectStep, RetryRssi, taskVars
  <2> QED
    BY <2>2, <2>3
<1>11. ASSUME CloudReconnected \/ StopApplication
       PROVE  ConnectorInv'
  BY <1>11 DEF CloudReconnected, StopApplication
<1> QED
  BY <1>1, <1>2, <1>3, <1>4, <1>5, <1>6, <1>7, <1>8, <1>9, <1>10, <1>11 DEF Actions

-----------------------------------------------------------------------------
(* One task at a time                                                        *)

Reconnecting == recovery \in {"wifiRetry", "rssi", "cloudRetry"}

\* Until Wi-Fi is reported lost too early, the recovery task has nothing to do
\* with the network before the Azure task has connected, and once the recovery task
\* reconnects the Azure task is past its own connecting.
TurnsInv ==
  lostEarly \/
    /\ \/ AzureServing
       \/ /\ wifiStatus # "DISCONNECTED"
          /\ cloudStatus \in {"NOT_CONNECTED", "SHUTDOWN"}
          /\ ~Reconnecting
    /\ AzureServing => cloudStatus \in {"CONNECTED", "DISCONNECTED"}
    /\ step["azure"] # "none" => cloudStatus = "NOT_CONNECTED"
    /\ Reconnecting => cloudStatus = "DISCONNECTED"

LEMMA TurnsStep ==
  ASSUME ConnectorInv, TurnsInv, Actions
  PROVE  TurnsInv'
<1> USE DEF ConnectorInv, TurnsInv, Connectors, CloudPoints, Resumed, GotoStep, AzureServing,
            Reconnecting, SetWifiStatus, UnchangedWifiStatus, statusVars
<1>1. ASSUME WifiConnects \/ WifiRound \/ \E processing \in Nat : WifiDelay(processing)
      PROVE  TurnsInv'
  BY <1>1, WifiTaskOf DEF cloudVars
<1>2. ASSUME WifiLosesConnection
      PROVE  TurnsInv'
  BY <1>2 DEF WifiLosesConnection, ReportWifiLost, cloudVars
<1>3. ASSUME AzureChecks
      PROVE  TurnsInv'
  BY <1>3 DEF AzureChecks, BeginStart, cloudVars
<1>4. ASSUME AzureResumed
      PROVE  TurnsInv'
  BY <1>4 DEF AzureResumed, cloudVars
<1>5. ASSUME AzureConnectStep
      PROVE  TurnsInv'
  BY <1>5, ConnectStepOf DEF AzureConnectStep, taskVars
<1>6. ASSUME AzureRssi
      PROVE  TurnsInv'
  <2>1. /\ step["azure"] # "none"
        /\ \E p \in CloudPoints \ {"none"} : step' = [step EXCEPT !["azure"] = p]
    <3>1. \E ok \in BOOLEAN : Rssi("azure", ok)
      BY <1>6 DEF AzureRssi
    <3> QED
      BY <3>1, ConnectStepOf
  <2>2. /\ UNCHANGED <<azureAt, recovery, cloudStatus>>
        /\ lostEarly' = TRUE \/ UNCHANGED <<lostEarly, wifiStatus>>
    BY <1>6 DEF AzureRssi, taskVars
  <2> QED
    BY <2>1, <2>2
<1>7. ASSUME AzureConnected \/ AzureConnectFails
      PROVE  TurnsInv'
  BY <1>7 DEF AzureConnected, AzureConnectFails
<1>8. ASSUME AzureLosesWifi
      PROVE  TurnsInv'
  BY <1>8 DEF AzureLosesWifi, ReportWifiLost, cloudVars
<1>9. ASSUME AzurePublishes \/ AzurePublished
      PROVE  TurnsInv'
  BY <1>9 DEF AzurePublishes, AzurePublished, cloudVars
<1>10. ASSUME RecoveryResumed \/ RecoverySuspends \/ RecoverCloud \/ StopEnds
       PROVE  TurnsInv'
  BY <1>10 DEF RecoveryResumed, RecoverySuspends, RecoverCloud, StopEnds, cloudVars
<1>11. ASSUME RecoverWifi
       PROVE  TurnsInv'
  BY <1>11 DEF RecoverWifi, cloudVars
<1>12. ASSUME WifiBack \/ RecoveryRssi
       PROVE  TurnsInv'
  BY <1>12 DEF WifiBack, RecoveryRssi, BeginRetry, cloudVars
<1>13. ASSUME RecoveryConnectStep
       PROVE  TurnsInv'
  BY <1>13, ConnectStepOf DEF RecoveryConnectStep, taskVars
<1>14. ASSUME RetryRssi
       PROVE  TurnsInv'
  BY <1>14, ConnectStepOf DEF RetryRssi, taskVars
<1>15. ASSUME CloudReconnected \/ StopApplication
       PROVE  TurnsInv'
  BY <1>15 DEF CloudReconnected, StopApplication
<1> QED
  BY <1>1, <1>2, <1>3, <1>4, <1>5, <1>6, <1>7, <1>8, <1>9, <1>10, <1>11, <1>12, <1>13, <1>14,
     <1>15 DEF Actions

-----------------------------------------------------------------------------
(* Sockets and sessions                                                      *)

HasSession == session = client /\ session \in open

Stopping == recovery \in {"stopping", "stopped"}

\* No socket is open where a task is about to create one or has closed the last.
SocketsInv ==
  lostEarly \/
    /\ open \subseteq {client} \cap Sockets
    /\ \A t \in Connectors :
         step[t] \in {"closing", "rssi", "prepare", "socket"} => open = {}
    /\ cloudStatus = "NOT_CONNECTED" /\ step["azure"] = "none" => open = {}
    /\ ~Stopping =>
         /\ \A t \in Connectors : step[t] = "done" => HasSession
         /\ cloudStatus = "CONNECTED" => HasSession

LEMMA ConnectSocketsStep ==
  ASSUME ConnectorInv, TurnsInv, SocketsInv, NEW t \in Connectors,
         ConnectStep(t) \/ \E ok \in BOOLEAN : Rssi(t, ok),
         UNCHANGED <<cloudStatus, recovery>>,
         lostEarly => lostEarly'
  PROVE  SocketsInv'
<1> SUFFICES ASSUME ~lostEarly
             PROVE  SocketsInv'
  BY DEF SocketsInv
<1> USE DEF SocketsInv, Connectors, HasSession, Stopping
<1>1. /\ step \in [Connectors -> CloudPoints]
      /\ \A u \in Connectors \ {t} : step[u] = "none"
  BY ConnectStepOf DEF ConnectorInv, TurnsInv, Reconnecting, AzureServing
<1>2. cloudStatus # "CONNECTED"
  BY ConnectStepOf DEF ConnectorInv, TurnsInv, Reconnecting
<1>3. Sockets \subseteq Nat
  BY CloudAssumption
<1>4. step["azure"]' = "none" => step["azure"] = "none" /\ t = "recovery"
  BY <1>1, ConnectStepOf
<1>5. cloudStatus = "NOT_CONNECTED" => t = "azure"
  BY ConnectStepOf DEF ConnectorInv, TurnsInv, Reconnecting
<1>6. CASE Disconnect(t)
  <2>1. CASE client >= 0
    <3>1. open' = {} /\ step' = [step EXCEPT ![t] = "closing"] /\ UNCHANGED client
      BY <1>6, <2>1 DEF Disconnect, GotoStep
    <3> QED
      BY <1>1, <1>2, <1>5, <3>1
  <2>2. CASE ~(client >= 0)
    <3>1. ASSUME NEW s \in open
          PROVE  FALSE
      <4>1. s = client /\ s \in Nat
        BY <1>3
      <4>2. s >= 0
        BY <4>1
      <4> QED
        BY <2>2, <4>1, <4>2
    <3>2. /\ UNCHANGED <<open, client>>
          /\ \E p \in {"failed", "rssi"} : step' = [step EXCEPT ![t] = p]
      BY <1>6, <2>2 DEF Disconnect, NextTry, GotoStep
    <3> QED
      BY <1>1, <1>2, <1>5, <3>1, <3>2
  <2> QED
    BY <2>1, <2>2
<1>7. CASE ForgetSocket(t)
  BY <1>1, <1>2, <1>3, <1>4, <1>5, <1>7 DEF ForgetSocket, NextTry, GotoStep
<1>8. CASE Prepare(t) \/ \E ok \in BOOLEAN : Rssi(t, ok)
  BY <1>1, <1>2, <1>4, <1>5, <1>8 DEF Prepare, Rssi, FailTry, GotoStep
<1>9. CASE CreateSocket(t)
  BY <1>1, <1>2, <1>4, <1>5, <1>9 DEF CreateSocket, FailTry, GotoStep
<1>10. CASE ConnectSocket(t) \/ ConnectSocketFails(t)
  BY <1>1, <1>2, <1>4, <1>5, <1>10 DEF ConnectSocket, ConnectSocketFails, FailTry, GotoStep
<1>11. CASE ConnectHub(t) \/ ConnectHubFails(t)
  BY <1>1, <1>2, <1>4, <1>5, <1>11 DEF ConnectHub, ConnectHubFails, FailTry, GotoStep
<1> QED
  BY <1>6, <1>7, <1>8, <1>9, <1>10, <1>11 DEF ConnectStep

LEMMA SocketsStep ==
  ASSUME ConnectorInv, TurnsInv, SocketsInv, Actions
  PROVE  SocketsInv'
<1> USE DEF ConnectorInv, SocketsInv, Connectors, Resumed, GotoStep, HasSession, Stopping,
            statusVars
<1>1. ASSUME WifiConnects \/ WifiRound \/ \E processing \in Nat : WifiDelay(processing)
      PROVE  SocketsInv'
  BY <1>1, WifiTaskOf DEF cloudVars
<1>2. ASSUME WifiLosesConnection
      PROVE  SocketsInv'
  BY <1>2 DEF WifiLosesConnection, ReportWifiLost, cloudVars
<1>3. ASSUME AzureChecks
      PROVE  SocketsInv'
  BY <1>3 DEF AzureChecks, BeginStart, cloudVars
<1>4. ASSUME AzureResumed
      PROVE  SocketsInv'
  BY <1>4 DEF AzureResumed, cloudVars
<1>5. ASSUME AzureConnectStep \/ AzureRssi
      PROVE  SocketsInv'
  <2>1. /\ ConnectStep("azure") \/ \E ok \in BOOLEAN : Rssi("azure", ok)
        /\ UNCHANGED <<cloudStatus, recovery>>
        /\ lostEarly => lostEarly'
    BY <1>5 DEF AzureConnectStep, AzureRssi, taskVars
  <2> QED
    BY <2>1, ConnectSocketsStep
<1>6. ASSUME AzureConnected \/ AzureConnectFails
      PROVE  SocketsInv'
  BY <1>6 DEF AzureConnected, AzureConnectFails
<1>7. ASSUME AzureLosesWifi
      PROVE  SocketsInv'
  BY <1>7 DEF AzureLosesWifi, ReportWifiLost, cloudVars
<1>8. ASSUME AzurePublishes \/ AzurePublished
      PROVE  SocketsInv'
  BY <1>8 DEF AzurePublishes, AzurePublished, cloudVars
<1>9. ASSUME RecoveryResumed \/ RecoverySuspends \/ RecoverCloud \/ RecoverWifi \/ StopEnds
      PROVE  SocketsInv'
  BY <1>9 DEF RecoveryResumed, RecoverySuspends, RecoverCloud, RecoverWifi, StopEnds, cloudVars
<1>10. ASSUME WifiBack \/ RecoveryRssi
       PROVE  SocketsInv'
  BY <1>10 DEF WifiBack, RecoveryRssi, BeginRetry, cloudVars
<1>11. ASSUME RecoveryConnectStep \/ RetryRssi
       PROVE  SocketsInv'
  <2>1. /\ ConnectStep("recovery") \/ \E ok \in BOOLEAN : Rssi("recovery", ok)
        /\ UNCHANGED <<cloudStatus, recovery>>
        /\ lostEarly => lostEarly'
    BY <1>11 DEF RecoveryConnectStep, RetryRssi, taskVars
  <2> QED
    BY <2>1, ConnectSocketsStep
<1>12. ASSUME CloudReconnected
       PROVE  SocketsInv'
  BY <1>12 DEF CloudReconnected
<1>13. ASSUME StopApplication
       PROVE  SocketsInv'
  BY <1>13 DEF StopApplication
<1> QED
  BY <1>1, <1>2, <1>3, <1>4, <1>5, <1>6, <1>7, <1>8, <1>9, <1>10, <1>11, <1>12, <1>13 DEF Actions

-----------------------------------------------------------------------------
(* Wi-Fi before everything else                                              *)

\* Before the Wi-Fi task is in its loop nobody has anything to do with the network.
LoopFirst ==
  wifiAt = "loop" \/
    /\ wifiStatus \in {"NOT_CONNECTED", "SHUTDOWN"}
    /\ cloudStatus = "NOT_CONNECTED"
    /\ azureAt \in {"check", "suspended"}
    /\ ~Reconnecting
    /\ framed = FALSE

LEMMA WifiStartsOf ==
  ASSUME WifiConnects
  PROVE  /\ wifiAt # "loop"
         /\ wifiAt' = "loop" \/ wifiStatus' \in {wifiStatus, "SHUTDOWN"}
BY DEF WifiConnects, WifiStarts, NetInit, NetUp, GetProfile, SetTime, TryFails, SetWifiStatus,
       UnchangedWifiStatus

LEMMA LoopFirstStep ==
  ASSUME ConnectorInv, LoopFirst, Actions
  PROVE  LoopFirst'
<1> USE DEF LoopFirst, Reconnecting, Resumed
<1>1. ASSUME WifiConnects
      PROVE  LoopFirst'
  BY <1>1, WifiStartsOf DEF WifiConnects
<1>2. ASSUME WifiRound \/ \E processing \in Nat : WifiDelay(processing)
      PROVE  LoopFirst'
  BY <1>2 DEF WifiRound, WifiDelay, linkVars
<1>3. ASSUME WifiLosesConnection
      PROVE  LoopFirst'
  BY <1>3 DEF WifiLosesConnection, linkVars
<1>4. ASSUME AzureChecks
      PROVE  LoopFirst'
  BY <1>4 DEF AzureChecks, unchangedByAzure, linkVars, statusVars
<1>5. ASSUME AzureResumed
      PROVE  LoopFirst'
  BY <1>5 DEF AzureResumed, unchangedByAzure, linkVars, statusVars
<1>6. ASSUME AzureConnectStep \/ AzureRssi \/ RecoveryConnectStep \/ RetryRssi
      PROVE  LoopFirst'
  <2>1. \E t \in Connectors : ConnectStep(t) \/ \E ok \in BOOLEAN : Rssi(t, ok)
    BY <1>6 DEF AzureConnectStep, AzureRssi, RecoveryConnectStep, RetryRssi, Connectors
  <2>2. \E t \in Connectors : step[t] # "none"
    BY <2>1, ConnectStepOf DEF ConnectorInv
  <2>3. wifiAt = "loop"
    BY <2>2 DEF ConnectorInv, Connectors
  <2>4. UNCHANGED linkVars
    <3>1. CASE AzureConnectStep \/ AzureRssi
      BY <3>1 DEF AzureConnectStep, AzureRssi, unchangedByAzure
    <3>2. CASE RecoveryConnectStep \/ RetryRssi
      BY <3>2 DEF RecoveryConnectStep, RetryRssi
    <3> QED
      BY <1>6, <3>1, <3>2
  <2> QED
    BY <2>3, <2>4 DEF linkVars
<1>7. ASSUME AzureConnected \/ AzureConnectFails
      PROVE  LoopFirst'
  BY <1>7 DEF AzureConnected, AzureConnectFails, ConnectorInv, unchangedByAzure, linkVars
<1>8. ASSUME AzureLosesWifi \/ AzurePublishes \/ AzurePublished
      PROVE  LoopFirst'
  BY <1>8 DEF AzureLosesWifi, AzurePublishes, AzurePublished, unchangedByAzure, linkVars
<1>9. ASSUME RecoveryResumed \/ RecoverySuspends \/ RecoverWifi \/ WifiBack
               \/ RecoverCloud \/ RecoveryRssi
      PROVE  LoopFirst'
  BY <1>9 DEF RecoveryResumed, RecoverySuspends, RecoverWifi, WifiBack, RecoverCloud,
              RecoveryRssi, unchangedByRecovery, linkVars, statusVars
<1>10. ASSUME CloudReconnected
       PROVE  LoopFirst'
  BY <1>10 DEF CloudReconnected, ConnectorInv, linkVars
<1>11. ASSUME StopApplication \/ StopEnds
       PROVE  LoopFirst'
  BY <1>11 DEF StopApplication, StopEnds, unchangedByRecovery, linkVars, statusVars
<1> QED
  BY <1>1, <1>2, <1>3, <1>4, <1>5, <1>6, <1>7, <1>8, <1>9, <1>10, <1>11 DEF Actions

\* What the calls that succeed leave, until the application stops.
UpInv ==
  recovery = "stopped" \/
    /\ wifiAt \in {"profile", "sntp"} => iface = "up"
    /\ wifiAt = "loop" => (iface = "up" /\ clock # "unset") \/ sntpFailed

\* Setting the time succeeds only with a time.
LEMMA RtcHasTime ==
  ASSUME NEW old, NEW time, NEW outcome \in RtcOutcomes(old, time)
  PROVE  (outcome.ok = TRUE /\ outcome.clock = time) \/ outcome.ok = FALSE
<1>1. CASE outcome = [clock |-> time, ok |-> TRUE]
  BY <1>1
<1>2. CASE outcome = [clock |-> time, ok |-> FALSE]
  BY <1>2
<1>3. CASE outcome = [clock |-> old, ok |-> FALSE]
  BY <1>3
<1> QED
  BY <1>1, <1>2, <1>3 DEF RtcOutcomes

LEMMA OutcomeHasTime ==
  ASSUME NEW old, NEW outcome \in SntpOutcomes(old)
  PROVE  (outcome.ok = TRUE /\ outcome.clock # "unset") \/ outcome.ok = FALSE
<1>1. CASE outcome \in RtcOutcomes(old, "network")
  BY <1>1, RtcHasTime
<1>2. CASE \E c : outcome \in RtcOutcomes(c, "default")
  BY <1>2, RtcHasTime
<1> QED
  BY <1>1, <1>2, Zenon DEF SntpOutcomes

LEMMA UpStep ==
  ASSUME ConnectorInv, UpInv, Actions
  PROVE  UpInv'
<1> USE DEF UpInv
<1>1. ASSUME NetInit \/ NetUp \/ GetProfile
      PROVE  \/ wifiAt' \in {"profile", "sntp"} /\ (wifiAt' = "sntp" => wifiAt = "profile")
                /\ iface' = (IF wifiAt' = "profile" THEN "up" ELSE iface)
             \/ wifiAt' \in {"up", "shutdown"}
  BY <1>1 DEF NetInit, NetUp, GetProfile, TryFails
<1>2. ASSUME SetTime
      PROVE  \/ wifiAt' \in {"up", "shutdown"}
             \/ wifiAt' = "loop" /\ sntpFailed'
             \/ wifiAt = "sntp" /\ wifiAt' = "loop" /\ clock' # "unset" /\ iface' = iface
  <2>1. PICK outcome \in SntpOutcomes(clock) :
          /\ clock' = outcome.clock
          /\ sntpFailed' = ~outcome.ok
          /\ IF outcome.ok
             THEN /\ wifiAt' = "loop"
                  /\ SetWifiStatus("CONNECTED")
                  /\ wifiTry' = 0
                  /\ UNCHANGED iface
             ELSE TryFails(wifiTry > 0) /\ NetDown
    BY <1>2 DEF SetTime
  <2>2. CASE outcome.ok
    BY <1>2, <2>1, <2>2, OutcomeHasTime DEF SetTime
  <2>3. CASE ~outcome.ok
    <3>1. wifiAt' \in {"up", "shutdown", "loop"}
      BY <2>1, <2>3 DEF TryFails
    <3> QED
      BY <2>1, <2>3, <3>1
  <2> QED
    BY <2>2, <2>3
<1>3. ASSUME WifiConnects
      PROVE  UpInv'
  <2>1. recovery # "stopped"
    BY <1>3 DEF WifiConnects, LowRuns, OthersRun
  <2> QED
    BY <1>1, <1>2, <1>3, <2>1 DEF WifiConnects, WifiStarts
<1>4. ASSUME WifiRound \/ (\E processing \in Nat : WifiDelay(processing)) \/ WifiLosesConnection
      PROVE  UpInv'
  BY <1>4 DEF WifiRound, WifiDelay, WifiLosesConnection, ReportWifiLost, Resumed, linkVars,
              taskVars
<1>5. ASSUME AzureChecks \/ AzureResumed \/ AzureConnectStep \/ AzureRssi \/ AzureConnected
               \/ AzureConnectFails \/ AzureLosesWifi \/ AzurePublishes \/ AzurePublished
      PROVE  UpInv'
  BY <1>5 DEF AzureChecks, AzureResumed, AzureConnectStep, AzureRssi, AzureConnected,
     AzureConnectFails, AzureLosesWifi, AzurePublishes, AzurePublished, ReportWifiLost, Resumed,
     unchangedByAzure, linkVars, taskVars
<1>6. ASSUME RecoveryResumed \/ RecoverySuspends \/ RecoverWifi \/ WifiBack
               \/ RecoverCloud \/ RecoveryRssi
      PROVE  UpInv'
  BY <1>6 DEF RecoveryResumed, RecoverySuspends, RecoverWifi, WifiBack, RecoverCloud,
              RecoveryRssi, linkVars
<1>7. ASSUME RecoveryConnectStep \/ RetryRssi
      PROVE  UpInv'
  <2>1. UNCHANGED <<linkVars, taskVars>>
    BY <1>7 DEF RecoveryConnectStep, RetryRssi
  <2> QED
    BY <2>1 DEF linkVars, taskVars
<1>8. ASSUME CloudReconnected
      PROVE  UpInv'
  BY <1>8 DEF CloudReconnected, ConnectorInv, linkVars
<1>9. ASSUME StopApplication
      PROVE  UpInv'
  BY <1>9 DEF StopApplication, CannotGoOn, ConnectorInv, linkVars
<1>10. ASSUME StopEnds
       PROVE  UpInv'
  BY <1>10 DEF StopEnds
<1> QED
  BY <1>3, <1>4, <1>5, <1>6, <1>7, <1>8, <1>9, <1>10 DEF Actions

-----------------------------------------------------------------------------
(* The schedule goes on beside all this                                      *)

\* Only the rounds and delays of the Wi-Fi task are steps of the schedule.
LEMMA OthersLeaveSchedule ==
  ASSUME connected \in BOOLEAN, Actions,
         ~WifiRound, \A processing \in Nat : ~WifiDelay(processing)
  PROVE  connected' \in BOOLEAN /\ UNCHANGED scheduleVars
<1>1. CASE WifiConnects \/ WifiLosesConnection
  BY <1>1 DEF WifiConnects, WifiStarts, NetInit, NetUp, GetProfile, SetTime, TryFails,
     SetWifiStatus, UnchangedWifiStatus, WifiLosesConnection, ReportWifiLost
<1>2. CASE AzureChecks \/ AzureResumed \/ AzureConnectStep \/ AzureRssi \/ AzureConnected
             \/ AzureConnectFails \/ AzureLosesWifi \/ AzurePublishes \/ AzurePublished
  BY <1>2 DEF AzureChecks, AzureResumed, AzureConnectStep, AzureRssi, AzureConnected,
     AzureConnectFails, AzureLosesWifi, AzurePublishes, AzurePublished, ReportWifiLost,
     SetWifiStatus, UnchangedWifiStatus, unchangedByAzure, statusVars
<1>3. CASE RecoveryResumed \/ RecoverySuspends \/ RecoverWifi \/ WifiBack
             \/ RecoverCloud \/ RecoveryRssi \/ RecoveryConnectStep \/ RetryRssi
             \/ CloudReconnected \/ StopApplication \/ StopEnds
  BY <1>3 DEF RecoveryResumed, RecoverySuspends, RecoverWifi, WifiBack, RecoverCloud,
     RecoveryRssi, RecoveryConnectStep, RetryRssi, CloudReconnected, StopApplication, StopEnds,
     SetWifiStatus, UnchangedWifiStatus, unchangedByRecovery, statusVars
<1> QED
  BY <1>1, <1>2, <1>3 DEF Actions

\* So every step of the network is one of the schedule, or none.
LEMMA SchedulePartOf ==
  ASSUME connected \in BOOLEAN, Actions
  PROVE  [Next]_vars
<1> USE DEF Next, ConnectionChanges, vars
<1>1. CASE WifiRound
  BY <1>1 DEF WifiRound
<1>2. CASE \E processing \in Nat : WifiDelay(processing)
  BY <1>2 DEF WifiDelay
<1>3. CASE ~WifiRound /\ \A processing \in Nat : ~WifiDelay(processing)
  BY <1>3, OthersLeaveSchedule DEF scheduleVars
<1> QED
  BY <1>1, <1>2, <1>3

-----------------------------------------------------------------------------
(* Theorems                                                                  *)

NetworkInv == /\ ConnectorInv
              /\ TurnsInv
              /\ SocketsInv
              /\ LoopFirst
              /\ UpInv

LEMMA NetworkInvariant == NetworkSpec => []NetworkInv
<1>1. NetworkInit => NetworkInv
  BY DEF NetworkInit, WifiInit, CloudInit, NetworkInv, ConnectorInv, TurnsInv, SocketsInv,
         LoopFirst, UpInv, Connectors, CloudPoints, AzureServing, Reconnecting, Stopping
<1>2. NetworkInv /\ [NetworkNext]_networkVars => NetworkInv'
  <2>1. CASE UNCHANGED networkVars
    BY <2>1 DEF networkVars, wifiVars, linkVars, cloudVars, taskVars, NetworkInv, ConnectorInv,
       TurnsInv, SocketsInv, LoopFirst, UpInv, AzureServing, Reconnecting, Stopping, HasSession
  <2> QED
    BY <2>1, StepOf, ConnectorStep, TurnsStep, SocketsStep, LoopFirstStep, UpStep
    DEF NetworkInv
<1> QED
  BY <1>1, <1>2, PTL DEF NetworkSpec

\* When Wi-Fi counts as connected the interface is up and the clock set, or the
\* clock has failed.
THEOREM WifiIsUp == NetworkSpec => []WifiUpWhenConnected
<1>1. NetworkInv => WifiUpWhenConnected
  BY DEF NetworkInv, LoopFirst, UpInv, WifiUpWhenConnected
<1> QED
  BY <1>1, NetworkInvariant, PTL

\* No socket is left open unless Wi-Fi was reported lost too early.
THEOREM NoSocketLeaks == NetworkSpec => []SocketsNotLeaked
<1>1. NetworkInv => SocketsNotLeaked
  BY DEF NetworkInv, SocketsInv, SocketsNotLeaked
<1> QED
  BY <1>1, NetworkInvariant, PTL

\* A cloud status CONNECTED means a session on an open socket, but for that case.
THEOREM ConnectedIsReal == NetworkSpec => []ConnectedHasSession
<1>1. NetworkInv => ConnectedHasSession
  BY DEF NetworkInv, SocketsInv, Stopping, HasSession, ConnectedHasSession
<1> QED
  BY <1>1, NetworkInvariant, PTL

\* Nobody connects in the place of the Azure task, but for that case.
THEOREM AzureServesItself == NetworkSpec => []AzureTaskServes
<1>1. NetworkInv => AzureTaskServes
  BY DEF NetworkInv, TurnsInv, AzureTaskServes
<1> QED
  BY <1>1, NetworkInvariant, PTL

\* Whatever happens to the connection, the schedule of the Wi-Fi task stays
\* periodic and its delays reach the next packets.
THEOREM NetworkKeepsSchedule ==
  NetworkSpec => [](TypeOK /\ SchedulesArePeriodic) /\ DelayReachesNextPacket
<1>1. NetworkInit => ScheduleInv
  <2> SUFFICES ASSUME NetworkInit
               PROVE  ScheduleInv
    OBVIOUS
  <2>1. IsMultiple(0, KaInterval) /\ IsMultiple(0, WifiInterval)
    BY ScheduleAssumption DEF IsMultiple
  <2>2. TypeOK
    BY DEF NetworkInit, WifiInit, TypeOK, Packets
  <2>3. SchedulesArePeriodic
    BY <2>1, ScheduleAssumption
    DEF NetworkInit, WifiInit, SchedulesArePeriodic, Now, NextKa, NextWifi, Packets
  <2> QED
    BY <2>2, <2>3 DEF ScheduleInv
<1>2. ScheduleInv /\ [NetworkNext]_networkVars => [Next]_vars
  <2>1. CASE UNCHANGED networkVars
    BY <2>1 DEF networkVars, scheduleVars, wifiVars, vars
  <2> QED
    BY <2>1, StepOf, SchedulePartOf DEF ScheduleInv, TypeOK
<1>3. ScheduleInv /\ [Next]_vars
        => [OnlineRound => taskDelay' > 0 /\ Now + taskDelay' = Now']_vars
  BY RoundDelay DEF ScheduleInv
<1>4. ScheduleInv => TypeOK /\ SchedulesArePeriodic
  BY DEF ScheduleInv
<1> QED
  BY <1>1, <1>2, <1>3, <1>4, ScheduleInvStep, PTL DEF NetworkSpec, DelayReachesNextPacket

(* The abstract schedule, of which the connection is on until the loop of the *)
(* Wi-Fi task is entered: nothing reads it before.                            *)
Schedule == INSTANCE WifiSchedule WITH connected <- (wifiAt # "loop" \/ connected)

\* The tasks implement the schedule: each of their steps is a round, a delay, a
\* change of the connection, or nothing to the schedule.
LEMMA ScheduleStep ==
  ASSUME connected \in BOOLEAN, Actions
  PROVE  [Schedule!Next]_(Schedule!vars)
<1> USE DEF Schedule!Next, Schedule!ConnectionChanges, Schedule!vars
<1>1. ASSUME WifiRound
      PROVE  Schedule!OnlineRound \/ Schedule!OfflineRound
  <2>1. wifiAt = "loop" /\ UNCHANGED wifiAt
    BY <1>1 DEF WifiRound, linkVars
  <2>2. CASE OnlineRound
    BY <2>1, <2>2 DEF OnlineRound, BothNext, KaNext, WifiNext, NextKa, NextWifi, Packets,
       Schedule!OnlineRound, Schedule!BothNext, Schedule!KaNext, Schedule!WifiNext,
       Schedule!NextKa, Schedule!NextWifi, Schedule!Packets
  <2>3. CASE OfflineRound
    BY <2>1, <2>3 DEF OfflineRound, Schedule!OfflineRound
  <2> QED
    BY <1>1, <2>2, <2>3 DEF WifiRound
<1>2. ASSUME NEW processing \in Nat, WifiDelay(processing)
      PROVE  Schedule!Delay(processing)
  BY <1>2 DEF WifiDelay, Delay, Remaining, Scaled, Distance, linkVars,
     Schedule!Delay, Schedule!Remaining, Schedule!Scaled, Schedule!Distance
<1>3. ASSUME UNCHANGED scheduleVars
      PROVE  [Schedule!Next]_(Schedule!vars)
  <2>1. UNCHANGED <<pc, lastKa, lastWifi, due, taskDelay>>
    BY <1>3 DEF scheduleVars
  <2>2. (wifiAt # "loop" \/ connected)' \in BOOLEAN
    OBVIOUS
  <2> QED
    BY <2>1, <2>2
<1>4. ASSUME ~WifiRound, \A processing \in Nat : ~WifiDelay(processing)
      PROVE  UNCHANGED scheduleVars
  BY <1>4, OthersLeaveSchedule
<1> QED
  BY <1>1, <1>2, <1>3, <1>4

\* The schedule begins before the connection does.
LEMMA ScheduleInit == NetworkInit => Schedule!Init
BY DEF NetworkInit, WifiInit, Schedule!Init, Schedule!Packets, Packets

\* The network implements the schedule: to the packets and their delays, all that
\* happens to the connection is that it is there or not when a round begins.
THEOREM NetworkImplementsSchedule == NetworkSpec => Schedule!Spec
<1>1. ScheduleInv /\ [NetworkNext]_networkVars => [Schedule!Next]_(Schedule!vars)
  <2>1. CASE UNCHANGED networkVars
    BY <2>1 DEF networkVars, scheduleVars, wifiVars, linkVars, Schedule!vars
  <2> QED
    BY <2>1, StepOf, ScheduleStep DEF ScheduleInv, TypeOK
<1>2. NetworkSpec => []ScheduleInv
  BY NetworkKeepsSchedule, PTL DEF ScheduleInv
<1> QED
  BY <1>1, <1>2, ScheduleInit, PTL DEF NetworkSpec, Schedule!Spec
=============================================================================
