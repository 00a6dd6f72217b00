----------------------------- MODULE WifiSchedule -----------------------------
(***************************************************************************)
(* When the Wi-Fi task of the asset tracking firmware sends its two packets: *)
(* the loop of sl_capture_wifi_data_task without the packets themselves,     *)
(* which TelemetryPipeline has (its WifiWake leaves open what is due).       *)
(*                                                                          *)
(* Times are in milliseconds until the delay is handed to FreeRTOS.  The     *)
(* shipped tick rate is 1 kHz, so that pdMS_TO_TICKS changes nothing.        *)
(***************************************************************************)
EXTENDS Naturals

CONSTANTS
  KaInterval,      \* KEEP_ALIVE_INTERVAL * 1000
  WifiInterval,    \* DEMO_CONFIG_WIFI_SAMPLING_INTERVAL * 1000
  OffsetNum,       \* TIMER_CLOCK_OFFSET (1.24) as a fraction
  OffsetDen

ASSUME ScheduleAssumption ==
  /\ KaInterval \in Nat \ {0}
  /\ WifiInterval \in Nat \ {0}
  /\ OffsetNum \in Nat \ {0}
  /\ OffsetDen \in Nat \ {0}

VARIABLES
  pc,           \* "round" (about to test the connection) or "delay"
  lastKa,       \* last_ka_time
  lastWifi,     \* last_wifi_time
  due,          \* next_packet_send
  taskDelay,    \* task_delay
  connected     \* wifi_conn_status is SL_WIFI_CONNECTED

vars == <<pc, lastKa, lastWifi, due, taskDelay, connected>>

Packets == {"keepAlive", "wifiData"}

\* The time of the packets that are due, counted in scheduled intervals.
Now == IF lastKa > lastWifi THEN lastKa ELSE lastWifi

-----------------------------------------------------------------------------
NextKa   == lastKa + KaInterval
NextWifi == lastWifi + WifiInterval

\* Which packets the coming round sends, and how long it is until then.
BothNext ==
  /\ NextKa = NextWifi
  /\ taskDelay' = IF KaInterval <= WifiInterval THEN KaInterval ELSE WifiInterval
  /\ lastKa' = NextKa
  /\ lastWifi' = NextWifi
  /\ due' = Packets

BadKaNext ==
  /\ NextKa < NextWifi
  /\ taskDelay' = KaInterval
  /\ lastKa' = NextKa
  /\ due' = {"keepAlive"}
  /\ UNCHANGED lastWifi

KaNext ==
  /\ NextKa < NextWifi
  /\ taskDelay' = IF lastKa > lastWifi THEN KaInterval ELSE NextKa - lastWifi
  /\ lastKa' = NextKa
  /\ due' = {"keepAlive"}
  /\ UNCHANGED lastWifi

BadWifiNext ==
  /\ NextKa > NextWifi
  /\ taskDelay' = IF lastWifi > lastKa THEN WifiInterval ELSE NextWifi - lastKa
  /\ lastWifi' = Now + WifiInterval
  /\ due' = {"wifiData"}
  /\ UNCHANGED lastKa

WifiNext ==
  /\ NextKa > NextWifi
  /\ taskDelay' = IF lastWifi > lastKa THEN WifiInterval ELSE NextWifi - lastKa
  /\ lastWifi' = NextWifi
  /\ due' = {"wifiData"}
  /\ UNCHANGED lastKa

\* A round with Wi-Fi sends what is due (even if the connection turns out to be
\* lost while it does) and goes on to the next packets.
OnlineRound ==
  /\ pc = "round"
  /\ connected
  /\ BothNext \/ KaNext \/ WifiNext
  /\ pc' = "delay"
  /\ UNCHANGED connected

\* One without Wi-Fi leaves the schedule alone, and the delay as it was.
OfflineRound ==
  /\ pc = "round"
  /\ ~connected
  /\ pc' = "delay"
  /\ UNCHANGED <<lastKa, lastWifi, due, taskDelay, connected>>

-----------------------------------------------------------------------------
\* Multiplication by TIMER_CLOCK_OFFSET, truncated to uint32_t.
Scaled(ticks) == (ticks * OffsetNum) \div OffsetDen

Distance(a, b) == IF a > b THEN a - b ELSE b - a

\* What is left of a delay when the round took so long; what a round takes
\* beyond the delay counts against the next one.
BadRemaining(delay, processing) == delay - processing

Remaining(delay, processing) ==
  IF processing < delay THEN delay - processing
                        ELSE Distance(delay, processing - delay)

\* The round took `processing' ticks; the task sleeps for the rest.
Delay(processing) ==
  /\ pc = "delay"
  /\ taskDelay' = Remaining(Scaled(taskDelay), Scaled(processing))
  /\ pc' = "round"
  /\ UNCHANGED <<lastKa, lastWifi, due, connected>>

\* The recovery and Azure tasks change the status, and so does this task when
\* the RSSI cannot be read.
ConnectionChanges ==
  /\ connected' = ~connected
  /\ UNCHANGED <<pc, lastKa, lastWifi, due, taskDelay>>

\* The loop is entered with Wi-Fi connected and both packets due.
Init ==
  /\ pc = "round"
  /\ lastKa = 0
  /\ lastWifi = 0
  /\ due = Packets
  /\ taskDelay = 0
  /\ connected = TRUE

Next == \/ OnlineRound
        \/ OfflineRound
        \/ \E processing \in Nat : Delay(processing)
        \/ ConnectionChanges

Spec == Init /\ [][Next]_vars

-----------------------------------------------------------------------------
(* Properties                                                               *)

\* Every variable holds what its C type can hold (unsigned: nothing negative),
\* and there is always a packet due.
TypeOK ==
  /\ pc \in {"round", "delay"}
  /\ lastKa \in Nat
  /\ lastWifi \in Nat
  /\ due \in (SUBSET Packets) \ {{}}
  /\ taskDelay \in Nat
  /\ connected \in BOOLEAN

IsMultiple(t, interval) == \E n \in 0..t : t = n * interval

\* The two interleaved schedules are what two independent periodic timers would
\* give, whatever the intervals: each packet is due exactly at the multiples of
\* its interval, and neither schedule is ahead of or an interval behind the
\* other.
SchedulesArePeriodic ==
  /\ IsMultiple(lastKa, KaInterval)
  /\ IsMultiple(lastWifi, WifiInterval)
  /\ lastKa <= Now /\ Now < NextKa
  /\ lastWifi <= Now /\ Now < NextWifi
  /\ "keepAlive" \in due <=> lastKa = Now
  /\ "wifiData" \in due <=> lastWifi = Now

\* The delay of a round, before the correction for its processing time, is the
\* distance from the packets it sent to the next due ones (and never 0),
\* whatever branch it takes and across outages.
DelayReachesNextPacket ==
  [][OnlineRound => taskDelay' > 0 /\ Now + taskDelay' = Now']_vars
==============================================================================
