---------------------------- MODULE WifiConnection ----------------------------
(***************************************************************************)
(* How the Wi-Fi task brings the interface up and sets the clock before it   *)
(* enters its loop, whose schedule is the subject of WifiSchedule.           *)
(*                                                                          *)
(* One action is one call into the network processor or the calendar with    *)
(* what the task does with its result.                                       *)
(***************************************************************************)
EXTENDS WifiSchedule

CONSTANT WifiRetries   \* MAX_WIFI_CONN_RETRY_COUNT

ASSUME WifiAssumption == WifiRetries \in Nat \ {0}

VARIABLES
  wifiAt,      \* the call the Wi-Fi task is about to make, or "loop"
  wifiTry,     \* 0 in sl_start_wifi_connection, then the number of the retry (0 in
               \* the loop, where there is no such variable any more)
  iface,       \* the client interface: "off" (not initialised), "down" or "up"
  clock,       \* the calendar: "unset", "default" or "network" time
  sntpFailed,  \* what the last sl_set_time_and_date_using_sntp returned
  wifiStatus   \* wifi_conn_status

scheduleVars == <<pc, lastKa, lastWifi, due, taskDelay>>
linkVars     == <<wifiAt, wifiTry, iface, clock, sntpFailed>>
wifiVars     == <<linkVars, wifiStatus, connected>>

SetWifiStatus(status) ==
  /\ wifiStatus' = status
  /\ connected' = (status = "CONNECTED")

UnchangedWifiStatus == UNCHANGED <<wifiStatus, connected>>

-----------------------------------------------------------------------------
(* Clock                                                                    *)

\* sl_init_rtc_calendar may fail before it has set the time or after.
RtcOutcomes(old, time) ==
  {[clock |-> time, ok |-> TRUE], [clock |-> time, ok |-> FALSE],
   [clock |-> old, ok |-> FALSE]}

\* The default date takes the place of a network time that cannot be had,
\* understood or set.
SntpOutcomes(old) ==
  LET network == RtcOutcomes(old, "network")
      fallbackFrom == {old} \cup {o.clock : o \in {n \in network : ~n.ok}}
  IN {n \in network : n.ok} \cup UNION {RtcOutcomes(c, "default") : c \in fallbackFrom}

-----------------------------------------------------------------------------
(* Connecting                                                               *)

\* A failure takes the task to the next try.  The last one decides by the status
\* it leaves, which a failing clock leaves as sl_net_get_profile set it.
BadTryFails(statusOk) ==
  IF wifiTry < WifiRetries
  THEN /\ wifiTry' = wifiTry + 1
       /\ wifiAt' = "up"
       /\ UnchangedWifiStatus
  ELSE /\ wifiAt' = "loop"
       /\ SetWifiStatus("CONNECTED")
       /\ wifiTry' = 0

TryFails(statusOk) ==
  IF wifiTry < WifiRetries
  THEN /\ wifiTry' = wifiTry + 1
       /\ wifiAt' = "up"
       /\ UnchangedWifiStatus
  ELSE /\ wifiAt' = IF statusOk THEN "loop" ELSE "shutdown"
       /\ SetWifiStatus(IF statusOk THEN "CONNECTED" ELSE "SHUTDOWN")
       /\ wifiTry' = 0

\* sl_net_down, whose result nobody looks at, is taken to succeed.
NetDown == iface' = "down"

\* sl_net_init and the handshake with the network processor, made once only.
NetInit ==
  /\ wifiAt = "init"
  /\ \/ wifiAt' = "up" /\ iface' = "down" /\ UNCHANGED wifiTry /\ UnchangedWifiStatus
     \/ TryFails(FALSE) /\ iface' \in {"off", "down"}
  /\ UNCHANGED <<clock, sntpFailed>>

NetUp ==
  /\ wifiAt = "up"
  /\ \/ /\ iface # "off"
        /\ iface' = "up"
        /\ wifiAt' = "profile"
        /\ UNCHANGED wifiTry /\ UnchangedWifiStatus
     \/ TryFails(FALSE) /\ UNCHANGED iface
  /\ UNCHANGED <<clock, sntpFailed>>

GetProfile ==
  /\ wifiAt = "profile"
  /\ \/ wifiAt' = "sntp" /\ UNCHANGED <<wifiTry, iface>> /\ UnchangedWifiStatus
     \/ TryFails(FALSE) /\ NetDown
  /\ UNCHANGED <<clock, sntpFailed>>

\* In a retry the failure of the clock does not count as a failed try.
SetTime ==
  /\ wifiAt = "sntp"
  /\ \E outcome \in SntpOutcomes(clock) :
       /\ clock' = outcome.clock
       /\ sntpFailed' = ~outcome.ok
       /\ IF outcome.ok
          THEN /\ wifiAt' = "loop"
               /\ SetWifiStatus("CONNECTED")
               /\ wifiTry' = 0
               /\ UNCHANGED iface
          ELSE TryFails(wifiTry > 0) /\ NetDown

WifiStarts == (NetInit \/ NetUp \/ GetProfile \/ SetTime) /\ UNCHANGED scheduleVars

\* sl_deinit_wifi_connection, whatever the two calls return.
DeinitWifi == iface' \in {iface, "down", "off"}

-----------------------------------------------------------------------------
WifiInit ==
  /\ pc = "round" /\ lastKa = 0 /\ lastWifi = 0 /\ due = Packets /\ taskDelay = 0
  /\ connected = FALSE
  /\ wifiAt = "init"
  /\ wifiTry = 0
  /\ iface = "off"
  /\ clock = "unset"
  /\ sntpFailed = FALSE
  /\ wifiStatus = "NOT_CONNECTED"
==============================================================================
