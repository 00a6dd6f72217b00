--------------------------- MODULE DeviceMonitor ----------------------------
(* The event handler and the cron job of iot-connection.service.ts over the  *)
(* database they share with Sessions.  One action per database operation,    *)
(* with what node runs up to the next await.  The Event Hub client calls the *)
(* handler for one batch at a time; the cron job is started every second     *)
(* whether or not earlier runs of it have ended, and its reset of the        *)
(* monitoring data is not awaited.  The four sensors are handled by the same *)
(* text, of which one stands for all.  An upsert is one step: two of them on  *)
(* an empty collection do not both insert.                                   *)
EXTENDS Sessions, Integers

CONSTANTS
  Runs,         \* bound: runs of the cron job at the same time
  MaxKept,      \* bound: stored readings that are looked at, of any number
  MaxInFlight   \* bound: operations under way at the same time

ASSUME MonitorAssumption ==
  /\ Runs # {} /\ IsFiniteSet(Runs)
  /\ MaxKept \in Nat /\ MaxInFlight \in Nat \ {0}

VARIABLES
  stamps,       \* collection of at most one document: [device, sensor, stamp]
  handler,      \* the message in the handler, with the session it found
  run,          \* where each run of the cron job is
  reset,        \* where the reset started by each run is
  announced     \* announcements since the status was last set to true, less
                \* the runs ended since then that had announced and not written

monitorVars == <<stamps, handler, run, reset, announced>>
vars == <<sessionVars, monitorVars>>

\* findOneAndUpdate with upsert: the document that is there, or a new one.
Found(collection, new) ==
  IF collection = {} THEN new ELSE CHOOSE d \in collection : TRUE

NewKeepAlive == [late |-> FALSE, interval |-> FALSE]
NewStamps    == [device |-> FALSE, sensor |-> FALSE, stamp |-> "none"]

Idle == [at |-> "idle", kind |-> "none", era |-> 0, checked |-> 0]

Init ==
  /\ InitSessions
  /\ stamps = {}
  /\ handler = Idle
  /\ run = [r \in Runs |-> "idle"]
  /\ reset = [r \in Runs |-> "idle"]
  /\ announced = [device |-> 0, sensor |-> 0]

InFlight ==
  Cardinality({l \in Logins : login[l].at # "idle"})
  + Cardinality({r \in Runs : run[r] # "idle"})
  + Cardinality({r \in Runs : reset[r] # "idle"})
  + Cardinality({x \in {"logout"} : logout # "idle"} \cup
                {x \in {"handler"} : handler.at # "idle"})

Free == InFlight < MaxInFlight

-----------------------------------------------------------------------------
(* The handler of processEvents                                              *)

HandlerAt(step, next) ==
  /\ handler.at = step
  /\ handler' = IF next = "idle" THEN Idle ELSE [handler EXCEPT !.at = next]

\* Of a keep-alive message nothing is stored that would tell when it was sent.
Message(era, kind, s) ==
  IF kind = "reading"
  THEN [at |-> "keepAlive", kind |-> kind, era |-> era, checked |-> s.born]
  ELSE [Idle EXCEPT !.at = "keepAlive", !.kind = kind]

BadReceive(era, kind) ==
  /\ handler.at = "idle"
  /\ \E s \in Active :
       handler' = Message(era, kind, s)
  /\ UNCHANGED <<sessionVars, stamps, run, reset, announced>>

\* A message of the device, published when era sessions had been created.  It
\* is dropped unless a session is active and older than the message.
Receive(era, kind) ==
  /\ handler.at = "idle"
  /\ \E s \in Active :
       /\ era >= s.born
       /\ handler' = Message(era, kind, s)
  /\ UNCHANGED <<sessionVars, stamps, run, reset, announced>>

MarkAlive ==
  /\ HandlerAt("keepAlive", "device")
  /\ keepAlive' = {[Found(keepAlive, NewKeepAlive) EXCEPT !.late = FALSE]}
  /\ UNCHANGED <<sessions, telemetry, created, login, logout,
                 overlapped, stamps, run, reset, announced>>

BadMarkDevice ==
  /\ HandlerAt("device", IF handler.kind = "keep-alive" THEN "setup" ELSE "interval")
  /\ stamps' = stamps \cup {[NewStamps EXCEPT !.device = TRUE]}
  /\ announced' = [announced EXCEPT !.device = 0]
  /\ UNCHANGED <<sessionVars, run, reset>>

MarkDevice ==
  /\ HandlerAt("device", IF handler.kind = "keep-alive" THEN "setup" ELSE "interval")
  /\ stamps' = {[Found(stamps, NewStamps) EXCEPT !.device = TRUE]}
  /\ announced' = [announced EXCEPT !.device = 0]
  /\ UNCHANGED <<sessionVars, run, reset>>

\* setupInitialListenerTime: only if there is no document.
LookForStamps ==
  /\ HandlerAt("setup", IF stamps = {} THEN "setupWrite" ELSE "setInterval")
  /\ UNCHANGED <<sessionVars, stamps, run, reset, announced>>

SetupStamps ==
  /\ HandlerAt("setupWrite", "setInterval")
  /\ stamps' = {[device |-> TRUE, sensor |-> TRUE, stamp |-> "recent"]}
  /\ announced' = [device |-> 0, sensor |-> 0]
  /\ UNCHANGED <<sessionVars, run, reset>>

\* Without upsert: nothing is set if a logout has deleted the document.
SetInterval ==
  /\ HandlerAt("setInterval", "idle")
  /\ keepAlive' = {[d EXCEPT !.interval = TRUE] : d \in keepAlive}
  /\ UNCHANGED <<sessions, telemetry, created, login, logout,
                 overlapped, stamps, run, reset, announced>>

\* updateLatestSensorData: the time of a reading counts once the intervals are known.
ReadInterval ==
  /\ HandlerAt("interval", IF \E d \in keepAlive : d.interval THEN "stamp" ELSE "save")
  /\ UNCHANGED <<sessionVars, stamps, run, reset, announced>>

\* The deviceId it asks for is undefined (systemProperties has no properties): the
\* one document, which has none, matches.
StampReading ==
  /\ HandlerAt("stamp", "save")
  /\ stamps' = {[device |-> TRUE, sensor |-> TRUE, stamp |-> "recent"]}
  /\ announced' = [device |-> 0, sensor |-> 0]
  /\ UNCHANGED <<sessionVars, run, reset>>

SaveDeviceData ==
  /\ HandlerAt("save", "idle")
  /\ telemetry' \in
       {telemetry} \cup
       {telemetry \cup {[era |-> handler.era, checked |-> handler.checked,
                         stored |-> created]}}
  /\ Cardinality(telemetry') <= MaxKept
  /\ UNCHANGED <<sessions, keepAlive, created, login, logout,
                 overlapped, stamps, run, reset, announced>>

\* A database error or a restart of the server: the rest is not done.
HandlerCut ==
  /\ handler.at # "idle"
  /\ handler' = Idle
  /\ UNCHANGED <<sessionVars, stamps, run, reset, announced>>

HandlerStep ==
  \/ MarkAlive \/ MarkDevice \/ LookForStamps \/ SetupStamps \/ SetInterval
  \/ ReadInterval \/ StampReading \/ SaveDeviceData \/ HandlerCut

-----------------------------------------------------------------------------
(* The cron job                                                              *)

RunTo(r, step, next) == run[r] = step /\ run' = [run EXCEPT ![r] = next]

\* Reads of which nothing follows are passed over: without a late keep-alive
\* document the status is read for nothing.
CheckDeviceKeepAlive(r) ==
  /\ reset[r] = "idle"
  /\ RunTo(r, "idle", IF \E d \in keepAlive : d.late THEN "status" ELSE "session")
  /\ UNCHANGED <<sessionVars, stamps, handler, reset, announced>>

\* The status is read after the document it is judged with.
CheckDeviceStatus(r) ==
  LET up == \E d \in stamps : d.device
  IN /\ RunTo(r, "status", IF up THEN "deviceOff" ELSE "session")
     /\ announced' = IF up THEN [announced EXCEPT !.device = @ + 1] ELSE announced
     /\ UNCHANGED <<sessionVars, stamps, handler, reset>>

\* "to avoid event to get emitted contineously"
SetDeviceOff(r) ==
  /\ RunTo(r, "deviceOff", "session")
  /\ stamps' = {[Found(stamps, NewStamps) EXCEPT !.device = FALSE]}
  /\ UNCHANGED <<sessionVars, handler, reset, announced>>

\* deletePrevSessionData
FindSession(r) ==
  /\ RunTo(r, "session", IF sessions = {} THEN "purge" ELSE "current")
  /\ UNCHANGED <<sessionVars, stamps, handler, reset, announced>>

PurgeTelemetry(r) ==
  /\ RunTo(r, "purge", "current")
  /\ telemetry' = {}
  /\ UNCHANGED <<sessions, keepAlive, created, login, logout,
                 overlapped, stamps, handler, reset, announced>>

\* handleCron: without an active session the reset is started, not awaited.
CheckCurrentSession(r) ==
  /\ RunTo(r, "current", "stamps")
  /\ reset' = IF Active = {} THEN [reset EXCEPT ![r] = "stamps"] ELSE reset
  /\ UNCHANGED <<sessionVars, stamps, handler, announced>>

ResetStamps(r) ==
  /\ reset[r] = "stamps"
  /\ stamps' = {}
  /\ reset' = [reset EXCEPT ![r] = "interval"]
  /\ UNCHANGED <<sessionVars, handler, run, announced>>

ResetInterval(r) ==
  /\ reset[r] = "interval"
  /\ keepAlive' = {[d EXCEPT !.interval = FALSE] : d \in keepAlive}
  /\ reset' = [reset EXCEPT ![r] = "idle"]
  /\ UNCHANGED <<sessions, telemetry, created, login, logout,
                 overlapped, stamps, handler, run, announced>>

\* checkInterval: time stamps and statuses are read once, the intervals after them.
ReadStamps(r) ==
  /\ RunTo(r, "stamps",
           IF \E d \in stamps : d.stamp = "late" /\ d.sensor THEN "interval" ELSE "idle")
  /\ UNCHANGED <<sessionVars, stamps, handler, reset, announced>>

CheckInterval(r) ==
  LET known == \E d \in keepAlive : d.interval
  IN /\ RunTo(r, "interval", IF known THEN "sensorOff" ELSE "idle")
     /\ announced' = IF known THEN [announced EXCEPT !.sensor = @ + 1] ELSE announced
     /\ UNCHANGED <<sessionVars, stamps, handler, reset>>

BadSetSensorOff(r) ==
  /\ RunTo(r, "sensorOff", "idle")
  /\ UNCHANGED <<sessionVars, stamps, handler, reset, announced>>

SetSensorOff(r) ==
  /\ RunTo(r, "sensorOff", "idle")
  /\ stamps' = {[Found(stamps, NewStamps) EXCEPT !.sensor = FALSE]}
  /\ UNCHANGED <<sessionVars, handler, reset, announced>>

Pending(r) ==
  CASE run[r] = "deviceOff" -> "device"
    [] run[r] = "sensorOff" -> "sensor"
    [] OTHER -> "none"

\* A database error or a restart of the server ends the run: what it has
\* announced stays announced, the status it was about to write stays true, and
\* the next run announces it again: the announcement is taken off the count.
CronCut(r) ==
  /\ run[r] # "idle"
  /\ run' = [run EXCEPT ![r] = "idle"]
  /\ announced' = IF Pending(r) = "none" THEN announced
                  ELSE [announced EXCEPT ![Pending(r)] = @ - 1]
  /\ UNCHANGED <<sessionVars, stamps, handler, reset>>

ResetCut(r) ==
  /\ reset[r] # "idle"
  /\ reset' = [reset EXCEPT ![r] = "idle"]
  /\ UNCHANGED <<sessionVars, stamps, handler, run, announced>>

CronStep(r) ==
  \/ CheckDeviceStatus(r) \/ SetDeviceOff(r) \/ FindSession(r)
  \/ PurgeTelemetry(r) \/ CheckCurrentSession(r)
  \/ ResetStamps(r) \/ ResetInterval(r)
  \/ ReadStamps(r) \/ CheckInterval(r) \/ SetSensorOff(r)
  \/ CronCut(r) \/ ResetCut(r)

-----------------------------------------------------------------------------
(* Time                                                                      *)

\* More than 30 seconds without a message of the device.
DeviceFallsSilent ==
  /\ keepAlive # {}
  /\ keepAlive' = {[d EXCEPT !.late = TRUE] : d \in keepAlive}
  /\ UNCHANGED <<sessions, telemetry, created, login, logout,
                 overlapped, monitorVars>>

\* The interval of a sensor passes without a reading of it.
SensorFallsSilent ==
  /\ \E d \in stamps : d.stamp = "recent"
  /\ stamps' = {[d EXCEPT !.stamp = "late"] : d \in stamps}
  /\ UNCHANGED <<sessionVars, handler, run, reset, announced>>

Start ==
  \/ (\E l \in Logins : CheckActiveSession(l)) /\ UNCHANGED monitorVars
  \/ LogoutDelete /\ UNCHANGED monitorVars
  \/ \E era \in 0 .. created, kind \in {"keep-alive", "reading"} :
       Receive(era, kind)
  \/ \E r \in Runs : CheckDeviceKeepAlive(r)

Next ==
  \/ Free /\ Start
  \/ ((\E l \in Logins : LoginStep(l)) \/ LogoutStep) /\ UNCHANGED monitorVars
  \/ (\E s \in sessions : Expire(s)) /\ UNCHANGED monitorVars
  \/ HandlerStep
  \/ \E r \in Runs : CronStep(r)
  \/ DeviceFallsSilent \/ SensorFallsSilent

Spec == Init /\ [][Next]_vars

-----------------------------------------------------------------------------
(* Properties                                                                *)

\* Types, and one document at most in the collections written by upsert.
TypeOK ==
  /\ SessionsTypeOK
  /\ keepAlive \subseteq [late : BOOLEAN, interval : BOOLEAN]
  /\ stamps \subseteq [device : BOOLEAN, sensor : BOOLEAN,
                       stamp : {"none", "recent", "late"}]
  /\ Cardinality(keepAlive) <= 1 /\ Cardinality(stamps) <= 1
  /\ telemetry \subseteq [era : 0 .. MaxSessions, checked : 1 .. MaxSessions,
                          stored : 1 .. MaxSessions]
  /\ handler.at \in {"idle", "keepAlive", "device", "setup", "setupWrite",
                     "setInterval", "interval", "stamp", "save"}
  /\ handler.kind = "reading" => handler.at \notin {"setup", "setupWrite", "setInterval"}
  /\ run \in [Runs -> {"idle", "status", "deviceOff", "session", "purge",
                       "current", "stamps", "interval", "sensorOff"}]
  /\ reset \in [Runs -> {"idle", "stamps", "interval"}]

\* What is stored, and shown to the user who is logged in, was published in
\* that user's session.  Two exceptions: the login that made the session has not
\* deleted the old data (it is still to do it, or was cut short), and a reading
\* whose handler had found an earlier session and stored it after the new one
\* was created (subscribeEvent reads the session several awaits before it saves).
TelemetryOfSession ==
  \A s \in sessions, t \in telemetry :
    ~s.cleared \/ t.era >= s.born
    \/ (t.checked < s.born /\ t.stored >= s.born)

\* Until a message of the device, or of the sensor, sets the status again, a
\* disconnection is announced at most as often as runs of the cron job overlap,
\* and once more for each run that a database error or a restart ended between
\* emitting the event and writing the status, which are taken off the count
\* ("to avoid event to get emitted contineously": the event is emitted first).
AnnouncedOnce ==
  /\ announced.device <= Cardinality(Runs)
  /\ announced.sensor <= Cardinality(Runs)

=============================================================================
