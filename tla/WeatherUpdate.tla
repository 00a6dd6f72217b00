---------------------------- MODULE WeatherUpdate ---------------------------
(* The data update of the weather display (app.c, sl_owmhttp.c, WiFi.c): the *)
(* thread that asks the server for weather and air quality and SNTP for the  *)
(* time, the callbacks that bring the answers, the thread that draws, and    *)
(* the timer.  All threads have one priority and are time-sliced, so every   *)
(* action can be followed by one of another thread.                          *)
(*                                                                           *)
(* device_init does one update at the start by the same functions; the timer *)
(* that wakes data_update is started at its end.  Which answer a value was   *)
(* parsed from is kept in its place; answers come in pieces of one place of  *)
(* app_buffer each.                                                          *)
EXTENDS SntpClient, Calendar, Sequences

CONSTANTS
  MaxRounds,  \* bound: data updates, the one of device_init included
  MaxFaults,  \* bound: answers that fail, requests to SNTP that fail or time out
  Pieces,     \* pieces of an answer
  Places,     \* APP_BUFFER_LENGTH in pieces
  HourOffset, \* HOUR_OFFSET
  MinOffset   \* MIN_OFFSET

ASSUME WeatherAssumption ==
  /\ MaxRounds \in Nat \ {0} /\ MaxFaults \in Nat
  /\ Pieces \in 1 .. 98
  /\ Places \in Nat /\ Places > Pieces  \* an answer fits, with its end
  /\ HourOffset \in -23 .. 23 /\ MinOffset \in -59 .. 59

VARIABLES
  at,           \* what the updating thread is about to do
  round,        \* updates begun
  started,      \* device_init has ended: app_process runs, the timer too
  wifiConnected,
  disconnects,  \* the update ends with WiFi_deinit
  tick,         \* the flag of update_evt_id
  requests,     \* HTTP requests sent
  begun,        \* the last request was accepted by the network processor
  httpPending,  \* pieces that have come of the answers that are not complete
  rspReceived,  \* http_rsp_received: "await", "success" or "failure"
  bufferIndex,  \* app_buff_index
  spoilt,       \* an answer has failed
  weather,      \* weather_data: the answers temperature and rain are from
  aqi,          \* aqi_data: the answer it is from
  datetime,     \* datetime_config: the update its time is from, or garbage,
                \* and the fields month, hour and minute
  calendar,     \* likewise what the calendar was last set to
  calendarSet,  \* the last setting of the calendar has not failed
  disturbed,    \* app_process has read the calendar since parse_datetime
  faults        \* faults so far

httpVars == <<requests, begun, httpPending, rspReceived, bufferIndex, spoilt>>
shownVars == <<weather, aqi>>
clockVars == <<datetime, calendar, calendarSet, disturbed>>
threadVars == <<round, started, wifiConnected, disconnects, tick>>
vars == <<at, threadVars, httpVars, shownVars, clockVars, sntpVars, appBuffer,
          faults>>

Garbage == MaxRounds + 1
NoFields(n) == [round |-> n, month |-> 0, hour |-> 0, minute |-> 0]
EmptyBuffer == [i \in 0 .. Places - 1 |-> Nothing]

Init ==
  /\ InitSntp
  /\ at = "wifi" /\ round = 1 /\ started = FALSE
  /\ wifiConnected = FALSE /\ disconnects = TRUE /\ tick = FALSE
  /\ requests = 0 /\ begun = FALSE /\ httpPending = <<>>
  /\ rspReceived = "await" /\ bufferIndex = 0 /\ spoilt = FALSE
  /\ weather = [temp |-> 0, rain |-> 0] /\ aqi = 0
  /\ datetime = NoFields(0) /\ calendar = NoFields(0)
  /\ calendarSet = FALSE /\ disturbed = FALSE
  /\ appBuffer = EmptyBuffer /\ faults = 0

\* Whether this step is a fault.
Fault(is) == IF is THEN faults < MaxFaults /\ faults' = faults + 1
             ELSE faults' = faults

-----------------------------------------------------------------------------
(* Threads and Wi-Fi                                                         *)

Tick ==
  /\ started /\ ~tick
  /\ tick' = TRUE
  /\ UNCHANGED <<at, round, started, wifiConnected, disconnects, httpVars,
                 shownVars, clockVars, sntpVars, appBuffer, faults>>

\* osEventFlagsWait clears the flag; a connection left over is used again.
WakeUp ==
  /\ at = "sleep" /\ tick /\ round < MaxRounds
  /\ tick' = FALSE
  /\ round' = round + 1
  /\ disconnects' = ~wifiConnected
  /\ at' = IF wifiConnected THEN "weather" ELSE "wifi"
  /\ UNCHANGED <<started, wifiConnected, httpVars, shownVars,
                 clockVars, sntpVars, appBuffer, faults>>

\* device_init goes on without Wi-Fi, data_update does not.
ConnectWifi(ok) ==
  /\ at = "wifi"
  /\ wifiConnected' = ok
  /\ at' = IF ok \/ ~started THEN "weather" ELSE "clear"
  /\ UNCHANGED <<round, started, disconnects, tick, httpVars, shownVars,
                 clockVars, sntpVars, appBuffer, faults>>

\* device_init disconnects always, and starts the other thread and the timer;
\* data_update disconnects only if it has connected.
Disconnect(ok) ==
  /\ at = "disconnect"
  /\ wifiConnected' = (wifiConnected /\ ~ok)
  /\ at' = IF started THEN "clear" ELSE "sleep"
  /\ started' = TRUE
  /\ UNCHANGED <<round, disconnects, tick, httpVars, shownVars, clockVars,
                 sntpVars, appBuffer, faults>>

\* A tick that came during the update is cleared with the one that is served.
ClearFlag ==
  /\ at = "clear"
  /\ tick' = FALSE
  /\ at' = "sleep"
  /\ UNCHANGED <<round, started, wifiConnected, disconnects, httpVars,
                 shownVars, clockVars, sntpVars, appBuffer, faults>>

-----------------------------------------------------------------------------
(* HTTP                                                                      *)

Waiting(kind) == CASE kind = "weather" -> "weatherWait" [] kind = "aqi" -> "aqiWait"
                   [] kind = "start" -> "startWait" [] kind = "date" -> "dateWait"
                   [] kind = "stop" -> "stopWait"
Parsing(kind) == IF kind = "weather" THEN "weatherParse" ELSE "aqiParse"

\* acquire_weatherData, acquire_aqiData, sl_http_client_begin
SendRequest(kind, accepted) ==
  /\ at = kind
  /\ appBuffer' = EmptyBuffer
  /\ begun' = accepted
  /\ requests' = requests + 1
  /\ httpPending' = Append(httpPending, IF accepted THEN 0 ELSE Pieces)
  /\ at' = IF accepted THEN Waiting(kind) ELSE Parsing(kind)
  /\ UNCHANGED <<threadVars, rspReceived, bufferIndex, spoilt, shownVars,
                 clockVars, sntpVars, faults>>

BadEndOfWait(kind) ==
  /\ at = Waiting(kind) /\ rspReceived # "await"
  /\ at' = Parsing(kind)
  /\ UNCHANGED <<threadVars, requests, begun, httpPending, rspReceived, bufferIndex,
                 spoilt, shownVars, clockVars, sntpVars, appBuffer, faults>>

\* http_response_status: only a success is reset.
EndOfWait(kind) ==
  /\ at = Waiting(kind) /\ rspReceived # "await"
  /\ rspReceived' = IF rspReceived = "success" THEN "await" ELSE rspReceived
  /\ at' = Parsing(kind)
  /\ UNCHANGED <<threadVars, requests, begun, httpPending, bufferIndex, spoilt,
                 shownVars, clockVars, sntpVars, appBuffer, faults>>

\* The answer that is whole in the buffer, 0 if there is none.
WholeAnswer ==
  IF \E n \in 1 .. requests :
       \A i \in 1 .. Pieces : appBuffer[i - 1] = [req |-> n, part |-> i]
  THEN appBuffer[0].req ELSE 0

\* Requests alternate between weather and air quality.
IsWeather(n) == n % 2 = 1

\* parse_jsonString: what is no complete answer is not parsed, and one of the
\* other kind has no field but the missing rain.
ParseWeather ==
  /\ at = Parsing("weather")
  /\ weather' = IF WholeAnswer = 0 THEN weather
                ELSE [temp |-> IF IsWeather(WholeAnswer) THEN WholeAnswer
                               ELSE weather.temp,
                      rain |-> WholeAnswer]
  /\ at' = "aqi"
  /\ UNCHANGED <<threadVars, httpVars, aqi, clockVars, sntpVars, appBuffer, faults>>

ParseAqi ==
  /\ at = Parsing("aqi")
  /\ aqi' = IF WholeAnswer = 0 \/ IsWeather(WholeAnswer) THEN aqi ELSE WholeAnswer
  /\ at' = "start"
  /\ UNCHANGED <<threadVars, httpVars, weather, clockVars, sntpVars, appBuffer, faults>>

BadPiece(n) ==
  LET part == httpPending[n] + 1
  IN /\ httpPending[n] < Pieces
     /\ httpPending' = [httpPending EXCEPT ![n] = part]
     /\ appBuffer' = IF bufferIndex + 1 < Places
                     THEN [appBuffer EXCEPT ![bufferIndex] = [req |-> n, part |-> part]]
                     ELSE appBuffer
     /\ bufferIndex' = bufferIndex + 1
     /\ rspReceived' = IF part = Pieces THEN "success" ELSE rspReceived
     /\ UNCHANGED <<at, threadVars, requests, begun, spoilt, shownVars,
                    clockVars, sntpVars, faults>>

\* http_get_response_callback_handler with the next piece of an answer.
Piece(n) ==
  LET part == httpPending[n] + 1
  IN /\ httpPending[n] < Pieces
     /\ httpPending' = [httpPending EXCEPT ![n] = part]
     /\ appBuffer' = IF bufferIndex + 1 < Places
                     THEN [appBuffer EXCEPT ![bufferIndex] = [req |-> n, part |-> part]]
                     ELSE appBuffer
     /\ bufferIndex' = IF part = Pieces THEN 0 ELSE bufferIndex + 1
     /\ rspReceived' = IF part = Pieces THEN "success" ELSE rspReceived
     /\ UNCHANGED <<at, threadVars, requests, begun, spoilt, shownVars,
                    clockVars, sntpVars, faults>>

\* ... and with a failure, after which the answer is over: the index stays.
FailedPiece(n) ==
  /\ httpPending[n] < Pieces
  /\ httpPending' = [httpPending EXCEPT ![n] = Pieces]
  /\ rspReceived' = "failure"
  /\ spoilt' = TRUE
  /\ Fault(TRUE)
  /\ UNCHANGED <<at, threadVars, requests, begun, bufferIndex, shownVars,
                 clockVars, sntpVars, appBuffer>>

\* The network processor may drop the answer of a client that is closed.
DropLate(n) ==
  /\ httpPending[n] < Pieces
  /\ n < requests \/ at \notin {Waiting("weather"), Waiting("aqi")}
  /\ httpPending' = [httpPending EXCEPT ![n] = Pieces]
  /\ UNCHANGED <<at, threadVars, requests, begun, rspReceived, bufferIndex,
                 spoilt, shownVars, clockVars, sntpVars, appBuffer, faults>>

-----------------------------------------------------------------------------
(* Date and time                                                             *)

After(kind) == CASE kind = "start" -> "date" [] kind = "date" -> "parse"
                 [] kind = "stop" -> IF disconnects THEN "disconnect" ELSE "clear"

\* A failure is only printed, the next step is taken anyway.
AskSntp(kind, accepted) ==
  /\ at = kind
  /\ SntpAsk(kind, accepted)
  /\ Fault(~accepted)
  /\ appBuffer' = IF kind = "start" THEN EmptyBuffer ELSE appBuffer
  /\ at' = IF accepted THEN Waiting(kind) ELSE After(kind)
  /\ UNCHANGED <<threadVars, httpVars, shownVars, clockVars>>

\* A wait also times out when an event of another kind has come after its own.
EndOfSntpWait(kind) ==
  /\ at = Waiting(kind)
  /\ \/ SntpAnswered(kind) /\ Fault(FALSE)
     \/ SntpTimeout(kind) /\ Fault(kind \in sntpPending)
  /\ at' = After(kind)
  /\ UNCHANGED <<threadVars, httpVars, shownVars, clockVars, appBuffer>>

\* The fields that parse_datetime makes of a date.
Converted(n, d) ==
  [round |-> n, month |-> convertMonthToEnum(d.month),
   hour |-> LocalHour(d.hour, d.minute, HourOffset, MinOffset),
   minute |-> LocalMinute(d.minute, MinOffset)]

\* Without a date in the buffer the fields are not initialised.
ParseDate ==
  /\ at = "parse"
  /\ datetime' = IF appBuffer[0].part = 99 THEN Converted(appBuffer[0].req, date)
                 ELSE NoFields(Garbage)
  /\ disturbed' = FALSE
  /\ at' = "set"
  /\ UNCHANGED <<threadVars, httpVars, shownVars, calendar, calendarSet, sntpVars,
                 appBuffer, faults>>

\* A failure is only printed, and the calendar runs on as it was.
SetCalendar(ok) ==
  /\ at = "set"
  /\ calendar' = IF ok THEN datetime ELSE calendar
  /\ calendarSet' = ok
  /\ at' = "stop"
  /\ UNCHANGED <<threadVars, httpVars, shownVars, datetime, disturbed, sntpVars,
                 appBuffer, faults>>

\* app_process, if the button has chosen time or date, reads the calendar into
\* the same datetime_config; where the reading fails, nothing changes.
ShowClock ==
  /\ started
  /\ datetime' = calendar
  /\ disturbed' = TRUE
  /\ UNCHANGED <<at, threadVars, httpVars, shownVars, calendar, calendarSet,
                 sntpVars, appBuffer, faults>>

Update ==
  \/ WakeUp \/ ClearFlag
  \/ \E ok \in BOOLEAN : ConnectWifi(ok) \/ Disconnect(ok)
  \/ \E kind \in {"weather", "aqi"} :
       \/ \E ok \in BOOLEAN : SendRequest(kind, ok)
       \/ EndOfWait(kind)
  \/ ParseWeather \/ ParseAqi
  \/ \E kind \in SntpRequests :
       \/ \E ok \in BOOLEAN : AskSntp(kind, ok)
       \/ EndOfSntpWait(kind)
  \/ ParseDate \/ \E ok \in BOOLEAN : SetCalendar(ok)

Callbacks ==
  \/ \E n \in DOMAIN httpPending : Piece(n) \/ FailedPiece(n) \/ DropLate(n)
  \/ /\ \E kind \in SntpRequests, ok \in BOOLEAN :
          SntpEvent(kind, ok, round) /\ Fault(~ok)
     /\ UNCHANGED <<at, threadVars, httpVars, shownVars, clockVars>>

Next == Update \/ Callbacks \/ ShowClock \/ Tick

Spec == Init /\ [][Next]_vars

-----------------------------------------------------------------------------
(* Properties                                                                *)

Clocks ==
  [round : 0 .. Garbage, month : 0 .. 12, hour : 0 .. 25, minute : 0 .. 195]

\* Types and ranges.  An answer that fails leaves app_buff_index at most one place
\* less than an answer has further on, and only a complete answer resets it.
TypeOK ==
  /\ SntpTypeOK
  /\ round \in 1 .. MaxRounds
  /\ requests \in 0 .. 2 * MaxRounds
  /\ httpPending \in Seq(0 .. Pieces) /\ Len(httpPending) = requests
  /\ rspReceived \in {"await", "success", "failure"}
  /\ bufferIndex \in 0 .. 2 * MaxRounds * (Pieces - 1)
  /\ weather.temp \in 0 .. requests /\ weather.rain \in 0 .. requests
  /\ aqi \in 0 .. requests
  /\ datetime \in Clocks /\ calendar \in Clocks /\ calendarSet \in BOOLEAN

\* No answer of the server has failed so far, and no request to SNTP was refused
\* or timed out.  Afterwards nothing below holds any more: http_response_status
\* does not reset a failure and the callback leaves app_buff_index where it is,
\* so that a request is served with the answer of an earlier one, and what comes
\* late is written over what the next step has put into app_buffer.
Untroubled == ~spoilt /\ ~sntpTrouble

\* After a request that was accepted, what is shown comes from the whole of its
\* own answer.
ShowsOwnAnswer ==
  Untroubled /\ begun =>
    /\ at = "aqi" => weather = [temp |-> requests, rain |-> requests]
    /\ at = "start" => aqi = requests

\* Minutes of local time since the beginning of the day of the date in UTC.
LocalMinutes(d) == 60 * (d.hour + HourOffset) + d.minute + MinOffset

\* The fields are those of the date in local time; the day is that of UTC.
ShowsLocalTime(fields, d) ==
  /\ fields.month = d.month
  /\ fields.hour < 24 /\ fields.minute < 60
  /\ 60 * fields.hour + fields.minute = LocalMinutes(d)

\* Dates that are converted as they should: not in August, and not in the hours
\* or minutes that the offset carries out of the day, or below zero, or to 60.
Convertible(d) ==
  /\ d.month # 8
  /\ d.hour + HourOffset >= 0 /\ LocalMinutes(d) < 24 * 60
  /\ d.minute + MinOffset >= 0 /\ d.minute + MinOffset # 60

\* If SNTP gave a date in this update and the calendar could be set, it is set
\* from this date, and to its local time exactly if the date is Convertible:
\* unless the drawing thread has read the calendar into the same variable between
\* the conversion and the setting.
ClockFromNetwork ==
  Untroubled /\ at = "stop" /\ dateGiven = round /\ ~disturbed /\ calendarSet =>
    /\ calendar.round = round
    /\ ShowsLocalTime(calendar, date) <=> Convertible(date)

=============================================================================
