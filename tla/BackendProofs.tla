--------------------------- MODULE BackendProofs ----------------------------
(* Theorems about DeviceMonitor, for any number of logins, sessions, runs of *)
(* the cron job and stored readings; only the types use the bound on         *)
(* sessions.                                                                 *)
EXTENDS DeviceMonitor, TLAPS, FiniteSetTheorems

-----------------------------------------------------------------------------
(* Sessions                                                                  *)

SessionRecords == [born : Nat, active : BOOLEAN, cleared : BOOLEAN]

LoginTypes ==
  /\ login \in [Logins -> [at : {"idle", "delete", "save", "clear"}, born : Nat]]
  /\ created \in Nat
  /\ sessions \subseteq SessionRecords

\* Without overlapping logins, at most one has passed its check and not saved,
\* and while it is about to save there is no session document.
OneInv ==
  /\ LoginTypes
  /\ \/ overlapped
     \/ /\ \A k, l \in Unsaved : k = l
        /\ (\E l \in Logins : login[l].at = "save") => sessions = {}
        /\ \A s, t \in sessions : s = t

\* What Next does to the variables of Sessions.
LEMMA SessionStep ==
  ASSUME Next
  PROVE  \/ \E l \in Logins : \/ CheckActiveSession(l) \/ DeleteSession(l)
                              \/ CreateSession(l) \/ ClearTelemetry(l) \/ LoginCut(l)
         \/ LogoutDelete
         \/ \E s \in sessions : Expire(s)
         \/ UNCHANGED <<sessions, created, login, overlapped>>
  BY DEF Next, Start, LoginStep, LogoutStep, HandlerStep, CronStep, LogoutKeepAlive,
         LogoutTelemetry, LogoutCut, Receive, MarkAlive, MarkDevice, LookForStamps,
         SetupStamps, SetInterval, ReadInterval, StampReading, SaveDeviceData,
         HandlerCut, CheckDeviceKeepAlive, CheckDeviceStatus, SetDeviceOff,
         FindSession, PurgeTelemetry, CheckCurrentSession, ResetStamps,
         ResetInterval, ReadStamps, CheckInterval, SetSensorOff, CronCut,
         ResetCut,
         DeviceFallsSilent, SensorFallsSilent, sessionVars

\* Every step keeps the types of sessions and logins.
LEMMA LoginTypesStep ==
  ASSUME LoginTypes, [Next]_vars
  PROVE  LoginTypes'
<1> USE DEF LoginTypes, SessionRecords
<1>1. ASSUME NEW l \in Logins, CheckActiveSession(l)
      PROVE  LoginTypes'
  BY <1>1 DEF CheckActiveSession
<1>2. ASSUME NEW l \in Logins, DeleteSession(l)
      PROVE  LoginTypes'
  BY <1>2 DEF DeleteSession
<1>3. ASSUME NEW l \in Logins, CreateSession(l)
      PROVE  LoginTypes'
  <2>1. [born |-> login[l].born, active |-> TRUE, cleared |-> FALSE] \in SessionRecords
    OBVIOUS
  <2> QED
    BY <1>3, <2>1 DEF CreateSession
<1>4. ASSUME NEW l \in Logins, ClearTelemetry(l)
      PROVE  LoginTypes'
  <2>1. sessions' \subseteq SessionRecords
    <3>1. sessions' = Cleared(login[l].born)
      BY <1>4 DEF ClearTelemetry
    <3>2. \A s \in SessionRecords, b \in BOOLEAN :
            [s EXCEPT !.cleared = b] \in SessionRecords
      OBVIOUS
    <3>3. \A s \in sessions : (s.cleared \/ s.born = login[l].born) \in BOOLEAN
      OBVIOUS
    <3>4. \A s \in sessions :
            [s EXCEPT !.cleared = @ \/ s.born = login[l].born] \in SessionRecords
      BY <3>2, <3>3
    <3>. HIDE DEF SessionRecords
    <3> QED
      BY <3>1, <3>4 DEF Cleared
  <2>2. created' = created /\ login' = [login EXCEPT ![l] = NoLogin]
    BY <1>4 DEF ClearTelemetry
  <2> QED
    BY <2>1, <2>2 DEF NoLogin
<1>5. ASSUME NEW l \in Logins, LoginCut(l)
      PROVE  LoginTypes'
  BY <1>5 DEF LoginCut, NoLogin
<1>6. CASE LogoutDelete
  BY <1>6 DEF LogoutDelete
<1>7. ASSUME NEW s \in sessions, Expire(s)
      PROVE  LoginTypes'
  BY <1>7 DEF Expire
<1>8. CASE UNCHANGED <<sessions, created, login, overlapped>>
  BY <1>8
<1>9. CASE Next
  BY <1>1, <1>2, <1>3, <1>4, <1>5, <1>6, <1>7, <1>8, <1>9, SessionStep, Zenon
<1>10. CASE UNCHANGED vars
  BY <1>8, <1>10, Zenon DEF vars, sessionVars
<1> QED
  BY <1>9, <1>10, Zenon

\* Every step keeps OneInv: a login that saves has deleted what there was.
LEMMA OneStep ==
  ASSUME OneInv, [Next]_vars
  PROVE  OneInv'
<1>0. LoginTypes /\ LoginTypes'
  BY LoginTypesStep DEF OneInv
<1> SUFFICES ASSUME ~overlapped'
             PROVE  /\ \A k, l \in Unsaved' : k = l
                    /\ (\E l \in Logins : login'[l].at = "save") => sessions' = {}
                    /\ \A s, t \in sessions' : s = t
  BY <1>0 DEF OneInv
<1> USE <1>0 DEF OneInv, Unsaved, LoginTypes
<1>1. ASSUME NEW l \in Logins, CheckActiveSession(l)
      PROVE  /\ \A k, m \in Unsaved' : k = m
             /\ (\E m \in Logins : login'[m].at = "save") => sessions' = {}
             /\ \A s, t \in sessions' : s = t
  BY <1>1 DEF CheckActiveSession
<1>2. ASSUME NEW l \in Logins, DeleteSession(l)
      PROVE  /\ \A k, m \in Unsaved' : k = m
             /\ (\E m \in Logins : login'[m].at = "save") => sessions' = {}
             /\ \A s, t \in sessions' : s = t
  BY <1>2 DEF DeleteSession
<1>3. ASSUME NEW l \in Logins, CreateSession(l)
      PROVE  /\ \A k, m \in Unsaved' : k = m
             /\ (\E m \in Logins : login'[m].at = "save") => sessions' = {}
             /\ \A s, t \in sessions' : s = t
  <2> DEFINE new == [born |-> login[l].born, active |-> TRUE, cleared |-> FALSE]
  <2>1. /\ login[l].at = "save" /\ sessions' = sessions \cup {new}
        /\ login' = [login EXCEPT ![l].at = "clear"]
        /\ ~overlapped
    BY <1>3 DEF CreateSession
  <2> HIDE DEF new
  <2>2. sessions = {} /\ l \in Unsaved /\ \A k, m \in Unsaved : k = m
    BY <2>1
  <2>3. Unsaved' = Unsaved \ {l}
    BY <2>1
  <2>4. \A m \in Logins : login'[m].at # "save"
    BY <2>2, <2>3
  <2> QED
    BY <2>1, <2>2, <2>3, <2>4
<1>4. ASSUME NEW l \in Logins, ClearTelemetry(l)
      PROVE  /\ \A k, m \in Unsaved' : k = m
             /\ (\E m \in Logins : login'[m].at = "save") => sessions' = {}
             /\ \A s, t \in sessions' : s = t
  BY <1>4 DEF ClearTelemetry, Cleared, NoLogin
<1>5. ASSUME NEW l \in Logins, LoginCut(l)
      PROVE  /\ \A k, m \in Unsaved' : k = m
             /\ (\E m \in Logins : login'[m].at = "save") => sessions' = {}
             /\ \A s, t \in sessions' : s = t
  BY <1>5 DEF LoginCut, NoLogin
<1>6. CASE LogoutDelete
  BY <1>6 DEF LogoutDelete
<1>7. ASSUME NEW s \in sessions, Expire(s)
      PROVE  /\ \A k, m \in Unsaved' : k = m
             /\ (\E m \in Logins : login'[m].at = "save") => sessions' = {}
             /\ \A t, u \in sessions' : t = u
  BY <1>7 DEF Expire
<1>8. CASE UNCHANGED <<sessions, created, login, overlapped>>
  BY <1>8
<1>9. CASE Next
  BY <1>1, <1>2, <1>3, <1>4, <1>5, <1>6, <1>7, <1>8, <1>9, SessionStep, Zenon
<1>10. CASE UNCHANGED vars
  BY <1>8, <1>10, Zenon DEF vars, sessionVars
<1> QED
  BY <1>9, <1>10, Zenon

\* At most one session document, unless two logins overlapped
\* (generateSession, auth.service.ts).
THEOREM AtMostOneSession == Spec => []OneSession
<1>1. Init => OneInv
  BY DEF Init, InitSessions, OneInv, LoginTypes, SessionRecords, Unsaved, NoLogin
<1>2. OneInv /\ [Next]_vars => OneInv'
  BY OneStep
<1>3. OneInv => OneSession
  BY DEF OneInv, OneSession
<1> QED
  BY <1>1, <1>2, <1>3, PTL DEF Spec

-----------------------------------------------------------------------------
(* Telemetry                                                                 *)

HandlerSteps ==
  {"idle", "keepAlive", "device", "setup", "setupWrite", "setInterval",
   "interval", "stamp", "save"}

HandlerRecords ==
  [at : HandlerSteps, kind : {"none", "keep-alive", "reading"},
   era : Nat, checked : Nat]

TelemetryRecords == [era : Nat, checked : Nat, stored : Nat]

\* A reading was published after the session its handler found was created;
\* nothing is newer than the count of sessions.
TelemetryInv ==
  /\ LoginTypes
  /\ \A l \in Logins : login[l].born <= created
  /\ \A s \in sessions : s.born <= created
  /\ handler \in HandlerRecords
  /\ handler.checked <= handler.era
  /\ telemetry \subseteq TelemetryRecords
  /\ TelemetryOfSession

\* What Next does to the variables of TelemetryInv.
LEMMA TelemetryStepOf ==
  ASSUME Next
  PROVE  \/ /\ \E l \in Logins : CheckActiveSession(l) \/ DeleteSession(l)
                                 \/ CreateSession(l) \/ ClearTelemetry(l) \/ LoginCut(l)
            /\ UNCHANGED handler
         \/ LogoutDelete /\ UNCHANGED handler
         \/ (\E s \in sessions : Expire(s)) /\ UNCHANGED handler
         \/ \E era \in 0 .. created, kind \in {"keep-alive", "reading"} :
              Receive(era, kind)
         \/ SaveDeviceData
         \/ /\ UNCHANGED <<sessions, created, login>>
            /\ telemetry' \in {telemetry, {}}
            /\ \/ handler' = Idle \/ handler' = handler
               \/ \E at \in HandlerSteps : handler' = [handler EXCEPT !.at = at]
  BY DEF Next, Start, LoginStep, LogoutStep, HandlerStep, CronStep, LogoutKeepAlive,
         LogoutTelemetry, LogoutCut, MarkAlive, MarkDevice, LookForStamps,
         SetupStamps, SetInterval, ReadInterval, StampReading, HandlerAt,
         HandlerSteps, HandlerCut, CheckDeviceKeepAlive, CheckDeviceStatus, SetDeviceOff,
         FindSession, PurgeTelemetry, CheckCurrentSession, ResetStamps,
         ResetInterval, ReadStamps, CheckInterval, SetSensorOff, CronCut,
         ResetCut,
         DeviceFallsSilent, SensorFallsSilent, sessionVars, monitorVars

\* Every step keeps TelemetryInv: a new session is newer than all that is stored.
LEMMA TelemetryStep ==
  ASSUME TelemetryInv, [Next]_vars
  PROVE  TelemetryInv'
<1>0. LoginTypes /\ LoginTypes'
  BY LoginTypesStep DEF TelemetryInv
<1> USE <1>0 DEF TelemetryInv, LoginTypes, TelemetryOfSession, SessionRecords,
           TelemetryRecords, HandlerRecords, HandlerSteps
<1>1. ASSUME NEW l \in Logins, CheckActiveSession(l), UNCHANGED handler
      PROVE  TelemetryInv'
  BY <1>1 DEF CheckActiveSession
<1>2. ASSUME NEW l \in Logins, DeleteSession(l), UNCHANGED handler
      PROVE  TelemetryInv'
  BY <1>2 DEF DeleteSession
<1>3. ASSUME NEW l \in Logins, CreateSession(l), UNCHANGED handler
      PROVE  TelemetryInv'
  BY <1>3 DEF CreateSession
<1>4. ASSUME NEW l \in Logins, ClearTelemetry(l), UNCHANGED handler
      PROVE  TelemetryInv'
  BY <1>4 DEF ClearTelemetry, Cleared, NoLogin
<1>5. ASSUME NEW l \in Logins, LoginCut(l), UNCHANGED handler
      PROVE  TelemetryInv'
  BY <1>5 DEF LoginCut, NoLogin
<1>6. ASSUME LogoutDelete, UNCHANGED handler
      PROVE  TelemetryInv'
  BY <1>6 DEF LogoutDelete
<1>7. ASSUME NEW s \in sessions, Expire(s), UNCHANGED handler
      PROVE  TelemetryInv'
  BY <1>7 DEF Expire
<1>8. ASSUME NEW era \in 0 .. created, NEW kind \in {"keep-alive", "reading"},
             Receive(era, kind)
      PROVE  TelemetryInv'
  <2>1. PICK s \in sessions : era >= s.born /\ handler' = Message(era, kind, s)
    BY <1>8 DEF Receive, Active
  <2>2. /\ handler' \in HandlerRecords
        /\ handler'.checked <= handler'.era
    <3>1. CASE kind = "reading"
      BY <2>1, <3>1 DEF Message
    <3>2. CASE kind = "keep-alive"
      <4>1. handler' = [at |-> "keepAlive", kind |-> "keep-alive", era |-> 0, checked |-> 0]
        BY <2>1, <3>2 DEF Message, Idle
      <4> QED
        BY <4>1
    <3> QED
      BY <3>1, <3>2
  <2> QED
    BY <1>8, <2>2 DEF Receive, sessionVars
<1>9. CASE SaveDeviceData
  BY <1>9 DEF SaveDeviceData, HandlerAt, Idle
<1>10. ASSUME UNCHANGED <<sessions, created, login>>, telemetry' \in {telemetry, {}},
              \/ handler' = Idle \/ handler' = handler
              \/ \E at \in HandlerSteps : handler' = [handler EXCEPT !.at = at]
       PROVE  TelemetryInv'
  BY <1>10 DEF Idle
<1>11. CASE Next
  BY <1>1, <1>2, <1>3, <1>4, <1>5, <1>6, <1>7, <1>8, <1>9, <1>10, <1>11, TelemetryStepOf, Zenon
<1>12. CASE UNCHANGED vars
  BY <1>10, <1>12 DEF vars, sessionVars, monitorVars
<1> QED
  BY <1>11, <1>12, Zenon

\* What is stored was published in the session of the user who sees it, except
\* for a reading whose handler found an earlier session (subscribeEvent,
\* iot-connection.service.ts) or a login that has not cleared the old data.
THEOREM StoredTelemetryIsOfSession == Spec => []TelemetryOfSession
<1>1. Init => TelemetryInv
  BY DEF Init, InitSessions, TelemetryInv, TelemetryOfSession, LoginTypes, NoLogin, Idle,
         HandlerRecords, HandlerSteps
<1>2. TelemetryInv /\ [Next]_vars => TelemetryInv'
  BY TelemetryStep
<1>3. TelemetryInv => TelemetryOfSession
  BY DEF TelemetryInv
<1> QED
  BY <1>1, <1>2, <1>3, PTL DEF Spec

-----------------------------------------------------------------------------
(* Announcements                                                             *)

RunSteps == {"idle", "status", "deviceOff", "session", "purge", "current",
             "stamps", "interval", "sensorOff"}

StampRecords == [device : BOOLEAN, sensor : BOOLEAN,
                 stamp : {"none", "recent", "late"}]

RunsAt(step) == {r \in Runs : run[r] = step}
HowMany(step) == Cardinality(RunsAt(step))

DeviceUp == \E d \in stamps : d.device
SensorUp == \E d \in stamps : d.sensor

AnnouncedTypes ==
  /\ run \in [Runs -> RunSteps]
  /\ stamps \subseteq StampRecords
  /\ announced \in [device : Int, sensor : Int]

\* While the status is still true, no announcement counts but those of the runs
\* about to set it to false; the runs that may still announce a disconnection of
\* the sensor are those that have read its status as true.
AnnouncedInv ==
  /\ AnnouncedTypes
  /\ DeviceUp => announced.device <= HowMany("deviceOff")
  /\ announced.device <= Cardinality(Runs)
  /\ SensorUp => announced.sensor <= HowMany("sensorOff")
  /\ announced.sensor + HowMany("interval") <= Cardinality(Runs)

\* Sets of runs are finite.
LEMMA RunsFinite ==
  ASSUME NEW R \in SUBSET Runs
  PROVE  /\ IsFiniteSet(R) /\ Cardinality(R) \in Nat
         /\ Cardinality(R) <= Cardinality(Runs) /\ Cardinality(Runs) \in Nat
BY FS_Subset, FS_CardinalityType, MonitorAssumption, Zenon

\* A run cannot be at two steps.
LEMMA TwoSteps ==
  /\ HowMany("sensorOff") \in Nat /\ HowMany("interval") \in Nat
  /\ HowMany("sensorOff") + HowMany("interval") <= Cardinality(Runs)
<1> DEFINE A == RunsAt("sensorOff")
           B == RunsAt("interval")
<1>1. A \in SUBSET Runs /\ B \in SUBSET Runs /\ A \cup B \in SUBSET Runs /\ A \cap B = {}
  BY DEF RunsAt
<1>2. Cardinality(A \cup B) = Cardinality(A) + Cardinality(B) - Cardinality(A \cap B)
  BY <1>1, RunsFinite, FS_Union
<1>3. Cardinality(A \cap B) = 0
  BY <1>1, FS_EmptySet
<1> QED
  BY <1>1, <1>2, <1>3, RunsFinite DEF HowMany

\* A run that changes its step leaves one set and enters another.
LEMMA RunMoves ==
  ASSUME run \in [Runs -> RunSteps], NEW r \in Runs, NEW step \in RunSteps,
         NEW next \in RunSteps, RunTo(r, step, next), step # next, NEW q \in RunSteps
  PROVE  /\ HowMany(q) \in Nat
         /\ HowMany(q)' = IF q = step THEN HowMany(q) - 1
                          ELSE IF q = next THEN HowMany(q) + 1 ELSE HowMany(q)
<1>1. RunsAt(q) \in SUBSET Runs
  BY DEF RunsAt
<1>2. IsFiniteSet(RunsAt(q)) /\ HowMany(q) \in Nat
  BY <1>1, RunsFinite DEF HowMany
<1>3. CASE q = step
  <2>1. RunsAt(q)' = RunsAt(q) \ {r} /\ r \in RunsAt(q)
    BY <1>3 DEF RunsAt, RunTo
  <2>2. Cardinality(RunsAt(q) \ {r}) = Cardinality(RunsAt(q)) - 1
    BY <1>2, <2>1, FS_RemoveElement
  <2> QED
    BY <1>2, <1>3, <2>1, <2>2 DEF HowMany
<1>4. CASE q = next
  <2>1. RunsAt(q)' = RunsAt(q) \cup {r} /\ r \notin RunsAt(q)
    BY <1>4 DEF RunsAt, RunTo
  <2> QED
    BY <1>2, <1>4, <2>1, FS_AddElement DEF HowMany
<1>5. CASE q # step /\ q # next
  <2>1. RunsAt(q)' = RunsAt(q)
    BY <1>5 DEF RunsAt, RunTo
  <2> QED
    BY <1>2, <1>5, <2>1 DEF HowMany
<1> QED
  BY <1>3, <1>4, <1>5

\* What an upsert starts from does not say more than the document there is.
LEMMA FoundStamps ==
  ASSUME stamps \subseteq StampRecords
  PROVE  LET f == Found(stamps, NewStamps)
         IN f \in StampRecords /\ (f.device => DeviceUp) /\ (f.sensor => SensorUp)
<1>1. CASE stamps = {}
  BY <1>1 DEF Found, NewStamps, StampRecords
<1>2. CASE stamps # {}
  <2>1. Found(stamps, NewStamps) \in stamps
    BY <1>2 DEF Found
  <2> QED
    BY <2>1 DEF DeviceUp, SensorUp
<1> QED
  BY <1>1, <1>2

\* Steps that neither announce nor are about to set a status.
QuietSteps == {"idle", "status", "session", "purge", "current", "stamps"}

QuietMove ==
  /\ \E r \in Runs, step, next \in QuietSteps : step # next /\ RunTo(r, step, next)
  /\ UNCHANGED <<stamps, announced>>

\* What Next does to the variables of AnnouncedInv.
LEMMA AnnouncedStepOf ==
  ASSUME Next
  PROVE  \/ UNCHANGED <<stamps, run, announced>>
         \/ MarkDevice \/ SetupStamps \/ StampReading \/ SensorFallsSilent
         \/ \E r \in Runs :
              \/ ResetStamps(r) \/ CheckDeviceStatus(r) \/ SetDeviceOff(r)
              \/ ReadStamps(r) \/ CheckInterval(r) \/ SetSensorOff(r) \/ CronCut(r)
         \/ QuietMove
<1>1. ASSUME NEW r \in Runs, CheckDeviceKeepAlive(r)
      PROVE  QuietMove
  BY <1>1 DEF CheckDeviceKeepAlive, QuietMove, QuietSteps
<1>2. ASSUME NEW r \in Runs, FindSession(r)
      PROVE  QuietMove
  BY <1>2 DEF FindSession, QuietMove, QuietSteps
<1>3. ASSUME NEW r \in Runs, PurgeTelemetry(r)
      PROVE  QuietMove
  BY <1>3 DEF PurgeTelemetry, QuietMove, QuietSteps
<1>4. ASSUME NEW r \in Runs, CheckCurrentSession(r)
      PROVE  QuietMove
  BY <1>4 DEF CheckCurrentSession, QuietMove, QuietSteps
<1> QED
  BY <1>1, <1>2, <1>3, <1>4
  DEF Next, Start, LoginStep, LogoutStep, HandlerStep, CronStep, Receive, MarkAlive,
      LookForStamps, SetInterval, ReadInterval, SaveDeviceData, HandlerCut,
      ResetInterval, ResetCut, DeviceFallsSilent, monitorVars

\* Every step keeps the types of the runs, the stamps and the announcements.
LEMMA AnnouncedTypesStep ==
  ASSUME AnnouncedTypes, [Next]_vars
  PROVE  AnnouncedTypes'
<1> USE DEF AnnouncedTypes
<1>1. CASE UNCHANGED <<stamps, run, announced>>
  BY <1>1
<1>2. CASE MarkDevice
  <2>1. [Found(stamps, NewStamps) EXCEPT !.device = TRUE] \in StampRecords
    BY FoundStamps DEF StampRecords
  <2> QED
    BY <1>2, <2>1 DEF MarkDevice
<1>3. CASE SetupStamps \/ StampReading
  <2>1. /\ stamps' = {[device |-> TRUE, sensor |-> TRUE, stamp |-> "recent"]}
        /\ announced' = [device |-> 0, sensor |-> 0] /\ UNCHANGED run
    BY <1>3 DEF SetupStamps, StampReading
  <2>2. stamps' \subseteq StampRecords
    BY <2>1 DEF StampRecords
  <2>3. announced' \in [device : Int, sensor : Int]
    BY <2>1
  <2> QED
    BY <2>1, <2>2, <2>3
<1>4. CASE SensorFallsSilent
  BY <1>4 DEF SensorFallsSilent, StampRecords
<1>5. ASSUME NEW r \in Runs, ResetStamps(r)
      PROVE  AnnouncedTypes'
  BY <1>5 DEF ResetStamps
<1>6. ASSUME NEW r \in Runs, CheckDeviceStatus(r)
      PROVE  AnnouncedTypes'
  BY <1>6 DEF CheckDeviceStatus, RunTo, RunSteps
<1>7. ASSUME NEW r \in Runs, SetDeviceOff(r)
      PROVE  AnnouncedTypes'
  BY <1>7, FoundStamps DEF SetDeviceOff, RunTo, RunSteps, StampRecords
<1>8. ASSUME NEW r \in Runs, ReadStamps(r)
      PROVE  AnnouncedTypes'
  BY <1>8 DEF ReadStamps, RunTo, RunSteps
<1>9. ASSUME NEW r \in Runs, CheckInterval(r)
      PROVE  AnnouncedTypes'
  BY <1>9 DEF CheckInterval, RunTo, RunSteps
<1>10. ASSUME NEW r \in Runs, SetSensorOff(r)
      PROVE  AnnouncedTypes'
  BY <1>10, FoundStamps DEF SetSensorOff, RunTo, RunSteps, StampRecords
<1>11. CASE QuietMove
  BY <1>11 DEF QuietMove, QuietSteps, RunTo, RunSteps
<1>14. ASSUME NEW r \in Runs, CronCut(r)
       PROVE  AnnouncedTypes'
  BY <1>14 DEF CronCut, Pending, RunSteps
<1>12. CASE Next
  BY <1>1, <1>2, <1>3, <1>4, <1>5, <1>6, <1>7, <1>8, <1>9, <1>10, <1>11, <1>12, <1>14,
     AnnouncedStepOf, Zenon
<1>13. CASE UNCHANGED vars
  BY <1>1, <1>13, Zenon DEF vars, monitorVars
<1> QED
  BY <1>12, <1>13, Zenon

\* Every step keeps AnnouncedInv: who announces is then about to set the status.
LEMMA AnnouncedStep ==
  ASSUME AnnouncedInv, [Next]_vars
  PROVE  AnnouncedInv'
<1>0. AnnouncedTypes /\ AnnouncedTypes'
  BY AnnouncedTypesStep DEF AnnouncedInv
<1>a. /\ Cardinality(Runs) \in Nat
      /\ \A q \in RunSteps : HowMany(q) \in Nat
  BY RunsFinite DEF HowMany, RunsAt
<1>b. announced.device \in Int /\ announced.sensor \in Int
  BY <1>0 DEF AnnouncedTypes
<1>c. /\ HowMany("deviceOff") \in Nat /\ HowMany("sensorOff") \in Nat
      /\ HowMany("interval") \in Nat
  BY <1>a DEF RunSteps
<1>d. HowMany("sensorOff") + HowMany("interval") <= Cardinality(Runs)
  BY TwoSteps
<1>e. (HowMany("sensorOff") + HowMany("interval") <= Cardinality(Runs))'
  BY TwoSteps, PTL
<1>1. CASE UNCHANGED <<stamps, run, announced>>
  BY <1>0, <1>1 DEF AnnouncedInv, DeviceUp, SensorUp, HowMany, RunsAt
<1>2. CASE MarkDevice
  <2> DEFINE f == Found(stamps, NewStamps)
  <2>1. /\ stamps' = {[f EXCEPT !.device = TRUE]} /\ UNCHANGED run
        /\ announced' = [announced EXCEPT !.device = 0]
    BY <1>2 DEF MarkDevice
  <2>2. f \in StampRecords /\ (f.sensor => SensorUp)
    BY <1>0, FoundStamps DEF AnnouncedTypes
  <2> HIDE DEF f
  <2>3. SensorUp' => SensorUp
    BY <2>1, <2>2 DEF SensorUp, StampRecords
  <2>4. announced'.device = 0 /\ announced'.sensor = announced.sensor
    BY <1>0, <2>1 DEF AnnouncedTypes
  <2>5. \A q \in RunSteps : HowMany(q)' = HowMany(q)
    BY <2>1 DEF HowMany, RunsAt
  <2> QED
    BY <1>0, <1>a, <1>c, <2>3, <2>4, <2>5 DEF AnnouncedInv, RunSteps
<1>3. CASE SetupStamps \/ StampReading
  <2>1. /\ announced' = [device |-> 0, sensor |-> 0] /\ UNCHANGED run
    BY <1>3 DEF SetupStamps, StampReading
  <2>2. \A q \in RunSteps : HowMany(q)' = HowMany(q)
    BY <2>1 DEF HowMany, RunsAt
  <2> QED
    BY <1>0, <1>a, <1>c, <1>d, <2>1, <2>2 DEF AnnouncedInv, RunSteps
<1>4. CASE SensorFallsSilent \/ \E r \in Runs : ResetStamps(r)
  <2>1. UNCHANGED <<run, announced>> /\ (DeviceUp' => DeviceUp) /\ (SensorUp' => SensorUp)
    BY <1>0, <1>4 DEF SensorFallsSilent, ResetStamps, DeviceUp, SensorUp,
                      AnnouncedTypes, StampRecords
  <2>2. \A q \in RunSteps : HowMany(q)' = HowMany(q)
    BY <2>1 DEF HowMany, RunsAt
  <2> QED
    BY <1>0, <1>c, <2>1, <2>2 DEF AnnouncedInv, RunSteps
<1>5. ASSUME NEW r \in Runs, CheckDeviceStatus(r), DeviceUp
      PROVE  AnnouncedInv'
  <2>1. /\ RunTo(r, "status", "deviceOff") /\ UNCHANGED stamps
        /\ announced' = [announced EXCEPT !.device = @ + 1]
    BY <1>5 DEF CheckDeviceStatus, DeviceUp
  <2>2. /\ HowMany("deviceOff")' = HowMany("deviceOff") + 1
        /\ HowMany("sensorOff")' = HowMany("sensorOff")
        /\ HowMany("interval")' = HowMany("interval")
    BY <1>0, <2>1, RunMoves DEF RunSteps, AnnouncedTypes
  <2>3. HowMany("deviceOff")' <= Cardinality(Runs)
    BY <1>0, RunsFinite DEF HowMany, RunsAt
  <2>4. /\ announced'.device = announced.device + 1
        /\ announced'.sensor = announced.sensor
    BY <1>0, <2>1 DEF AnnouncedTypes
  <2> QED
    BY <1>0, <1>5, <1>a, <1>b, <1>c, <2>1, <2>2, <2>3, <2>4 DEF AnnouncedInv, SensorUp
<1>6. ASSUME NEW r \in Runs, CheckDeviceStatus(r), ~DeviceUp
      PROVE  AnnouncedInv'
  <2>1. /\ RunTo(r, "status", "session") /\ UNCHANGED <<stamps, announced>>
    BY <1>6 DEF CheckDeviceStatus, DeviceUp
  <2>2. /\ HowMany("sensorOff")' = HowMany("sensorOff")
        /\ HowMany("interval")' = HowMany("interval")
    BY <1>0, <2>1, RunMoves DEF RunSteps, AnnouncedTypes
  <2> QED
    BY <1>0, <1>6, <2>1, <2>2 DEF AnnouncedInv, SensorUp, DeviceUp
<1>7. ASSUME NEW r \in Runs, SetDeviceOff(r)
      PROVE  AnnouncedInv'
  <2> DEFINE f == Found(stamps, NewStamps)
  <2>1. /\ RunTo(r, "deviceOff", "session") /\ UNCHANGED announced
        /\ stamps' = {[f EXCEPT !.device = FALSE]}
    BY <1>7 DEF SetDeviceOff
  <2>2. /\ HowMany("sensorOff")' = HowMany("sensorOff")
        /\ HowMany("interval")' = HowMany("interval")
    BY <1>0, <2>1, RunMoves DEF RunSteps, AnnouncedTypes
  <2>3. f \in StampRecords /\ (f.sensor => SensorUp)
    BY <1>0, FoundStamps DEF AnnouncedTypes
  <2> HIDE DEF f
  <2>4. ~DeviceUp' /\ (SensorUp' => SensorUp)
    BY <2>1, <2>3 DEF SensorUp, DeviceUp, StampRecords
  <2> QED
    BY <1>0, <2>1, <2>2, <2>4 DEF AnnouncedInv
<1>8. ASSUME NEW r \in Runs, ReadStamps(r)
      PROVE  AnnouncedInv'
  <2>1. UNCHANGED <<stamps, announced>>
    BY <1>8 DEF ReadStamps
  <2>2. CASE RunTo(r, "stamps", "idle")
    <3>1. /\ HowMany("deviceOff")' = HowMany("deviceOff")
          /\ HowMany("sensorOff")' = HowMany("sensorOff")
          /\ HowMany("interval")' = HowMany("interval")
      BY <1>0, <2>2, RunMoves DEF RunSteps, AnnouncedTypes
    <3> QED
      BY <1>0, <2>1, <3>1 DEF AnnouncedInv, SensorUp, DeviceUp
  <2>3. CASE RunTo(r, "stamps", "interval") /\ SensorUp
    <3>1. /\ HowMany("deviceOff")' = HowMany("deviceOff")
          /\ HowMany("sensorOff")' = HowMany("sensorOff")
          /\ HowMany("interval")' = HowMany("interval") + 1
      BY <1>0, <2>3, RunMoves DEF RunSteps, AnnouncedTypes
    <3>2. HowMany("sensorOff")' + HowMany("interval")' <= Cardinality(Runs)
      BY <1>e
    <3> QED
      BY <1>0, <1>a, <1>b, <1>c, <2>1, <2>3, <3>1, <3>2 DEF AnnouncedInv, SensorUp, DeviceUp
  <2> QED
    BY <1>8, <2>2, <2>3 DEF ReadStamps, SensorUp
<1>9. ASSUME NEW r \in Runs, CheckInterval(r)
      PROVE  AnnouncedInv'
  <2>1. UNCHANGED stamps
    BY <1>9 DEF CheckInterval
  <2>2. CASE RunTo(r, "interval", "idle") /\ UNCHANGED announced
    <3>1. /\ HowMany("deviceOff")' = HowMany("deviceOff")
          /\ HowMany("sensorOff")' = HowMany("sensorOff")
          /\ HowMany("interval")' = HowMany("interval") - 1
      BY <1>0, <2>2, RunMoves DEF RunSteps, AnnouncedTypes
    <3> QED
      BY <1>0, <1>a, <1>b, <1>c, <2>1, <2>2, <3>1 DEF AnnouncedInv, SensorUp, DeviceUp
  <2>3. CASE /\ RunTo(r, "interval", "sensorOff")
             /\ announced' = [announced EXCEPT !.sensor = @ + 1]
    <3>1. /\ HowMany("deviceOff")' = HowMany("deviceOff")
          /\ HowMany("sensorOff")' = HowMany("sensorOff") + 1
          /\ HowMany("interval")' = HowMany("interval") - 1
      BY <1>0, <2>3, RunMoves DEF RunSteps, AnnouncedTypes
    <3>2. /\ announced'.device = announced.device
          /\ announced'.sensor = announced.sensor + 1
      BY <1>0, <2>3 DEF AnnouncedTypes
    <3> QED
      BY <1>0, <1>a, <1>b, <1>c, <2>1, <3>1, <3>2 DEF AnnouncedInv, SensorUp, DeviceUp
  <2> QED
    BY <1>9, <2>2, <2>3 DEF CheckInterval
<1>10. ASSUME NEW r \in Runs, SetSensorOff(r)
       PROVE  AnnouncedInv'
  <2> DEFINE f == Found(stamps, NewStamps)
  <2>1. /\ RunTo(r, "sensorOff", "idle") /\ UNCHANGED announced
        /\ stamps' = {[f EXCEPT !.sensor = FALSE]}
    BY <1>10 DEF SetSensorOff
  <2>2. /\ HowMany("deviceOff")' = HowMany("deviceOff")
        /\ HowMany("interval")' = HowMany("interval")
    BY <1>0, <2>1, RunMoves DEF RunSteps, AnnouncedTypes
  <2>3. f \in StampRecords /\ (f.device => DeviceUp)
    BY <1>0, FoundStamps DEF AnnouncedTypes
  <2> HIDE DEF f
  <2>4. ~SensorUp' /\ (DeviceUp' => DeviceUp)
    BY <2>1, <2>3 DEF SensorUp, DeviceUp, StampRecords
  <2> QED
    BY <1>0, <1>b, <2>1, <2>2, <2>4 DEF AnnouncedInv
<1>11. CASE QuietMove
  <2>1. PICK r \in Runs, step \in QuietSteps, next \in QuietSteps :
          step # next /\ RunTo(r, step, next)
    BY <1>11 DEF QuietMove
  <2>2. /\ HowMany("deviceOff")' = HowMany("deviceOff")
        /\ HowMany("sensorOff")' = HowMany("sensorOff")
        /\ HowMany("interval")' = HowMany("interval")
    BY <1>0, <2>1, RunMoves DEF RunSteps, QuietSteps, AnnouncedTypes
  <2> QED
    BY <1>0, <1>11, <2>2 DEF AnnouncedInv, SensorUp, DeviceUp, QuietMove
<1>14. ASSUME NEW r \in Runs, CronCut(r)
       PROVE  AnnouncedInv'
  <2>1. /\ run[r] # "idle" /\ run[r] \in RunSteps /\ UNCHANGED stamps
        /\ RunTo(r, run[r], "idle")
    BY <1>0, <1>14 DEF CronCut, RunTo, AnnouncedTypes
  <2>2. \A q \in {"deviceOff", "sensorOff", "interval"} :
          HowMany(q)' = IF q = run[r] THEN HowMany(q) - 1 ELSE HowMany(q)
    <3> SUFFICES ASSUME NEW q \in {"deviceOff", "sensorOff", "interval"}
                 PROVE  HowMany(q)' = IF q = run[r] THEN HowMany(q) - 1 ELSE HowMany(q)
      OBVIOUS
    <3>1. q \in RunSteps /\ "idle" \in RunSteps /\ q # "idle"
      BY DEF RunSteps
    <3>2. \A step \in RunSteps : RunTo(r, step, "idle") /\ step # "idle" =>
            HowMany(q)' = IF q = step THEN HowMany(q) - 1 ELSE HowMany(q)
      BY <1>0, <3>1, RunMoves DEF AnnouncedTypes
    <3> QED
      BY <2>1, <3>2
  <2>3. /\ announced'.device = IF run[r] = "deviceOff" THEN announced.device - 1
                               ELSE announced.device
        /\ announced'.sensor = IF run[r] = "sensorOff" THEN announced.sensor - 1
                               ELSE announced.sensor
    BY <1>0, <1>14 DEF CronCut, Pending, AnnouncedTypes
  <2>4. /\ announced'.device - HowMany("deviceOff")' = announced.device - HowMany("deviceOff")
        /\ announced'.sensor - HowMany("sensorOff")' = announced.sensor - HowMany("sensorOff")
        /\ announced'.device <= announced.device /\ announced'.sensor <= announced.sensor
        /\ HowMany("interval")' <= HowMany("interval")
        /\ announced'.device \in Int /\ announced'.sensor \in Int
        /\ HowMany("deviceOff")' \in Int /\ HowMany("sensorOff")' \in Int
        /\ HowMany("interval")' \in Int
    BY <1>b, <1>c, <2>2, <2>3
  <2>5. (DeviceUp' => DeviceUp) /\ (SensorUp' => SensorUp)
    BY <2>1 DEF DeviceUp, SensorUp
  <2> HIDE DEF DeviceUp, SensorUp
  <2> QED
    BY <1>0, <1>a, <1>b, <1>c, <2>4, <2>5 DEF AnnouncedInv
<1>12. CASE Next
  BY <1>1, <1>2, <1>3, <1>4, <1>5, <1>6, <1>7, <1>8, <1>9, <1>10, <1>11, <1>12, <1>14,
     AnnouncedStepOf, Zenon
<1>13. CASE UNCHANGED vars
  BY <1>1, <1>13, Zenon DEF vars, monitorVars
<1> QED
  BY <1>12, <1>13, Zenon

\* The announcements of one disconnection, less those of runs that ended after
\* emitting the event and before writing the status, are at most as many as the
\* runs of the cron job that overlap (checkDeviceKeepAlive and checkInterval,
\* iot-connection.service.ts).
THEOREM DisconnectionAnnouncedOnce == Spec => []AnnouncedOnce
<1>1. Init => AnnouncedInv
  <2> SUFFICES ASSUME Init
               PROVE  AnnouncedInv
    OBVIOUS
  <2>1. /\ AnnouncedTypes /\ announced = [device |-> 0, sensor |-> 0]
    BY DEF Init, AnnouncedTypes, RunSteps
  <2>2. ~DeviceUp /\ ~SensorUp
    BY DEF Init, DeviceUp, SensorUp
  <2>3. HowMany("interval") <= Cardinality(Runs) /\ Cardinality(Runs) \in Nat
    BY RunsFinite DEF HowMany, RunsAt
  <2>4. HowMany("interval") \in Nat
    BY RunsFinite DEF HowMany, RunsAt
  <2> QED
    BY <2>1, <2>2, <2>3, <2>4 DEF AnnouncedInv
<1>2. AnnouncedInv /\ [Next]_vars => AnnouncedInv'
  BY AnnouncedStep
<1>3. AnnouncedInv => AnnouncedOnce
  <2> SUFFICES ASSUME AnnouncedInv
               PROVE  AnnouncedOnce
    OBVIOUS
  <2>1. /\ Cardinality(Runs) \in Nat /\ HowMany("interval") \in Nat
        /\ announced.sensor \in Int
    BY RunsFinite DEF HowMany, RunsAt, AnnouncedInv, AnnouncedTypes
  <2> QED
    BY <2>1 DEF AnnouncedInv, AnnouncedOnce
<1> QED
  BY <1>1, <1>2, <1>3, PTL DEF Spec

-----------------------------------------------------------------------------
(* Types                                                                     *)

Deleting == {l \in Logins : login[l].at = "delete"}

\* Every login that is to create a session has room for it, and nothing carries
\* the number of a session that has not been created.
CountInv ==
  /\ LoginTypes
  /\ created + Cardinality(Deleting) <= MaxSessions
  /\ \A l \in Logins : login[l].born <= created
  /\ \A l \in Logins : login[l].at \in {"save", "clear"} => login[l].born > 0
  /\ \A s \in sessions : 0 < s.born /\ s.born <= created

\* A collection written by upsert has one document at most.
Single(collection) == \A d, e \in collection : d = e

KeepAliveRecords == [late : BOOLEAN, interval : BOOLEAN]

KeepAliveInv ==
  /\ keepAlive \subseteq KeepAliveRecords
  /\ Single(keepAlive)

StampsInv ==
  /\ stamps \subseteq StampRecords
  /\ Single(stamps)

StepsInv ==
  /\ logout \in {"idle", "keepAlive", "telemetry"}
  /\ overlapped \in BOOLEAN
  /\ reset \in [Runs -> {"idle", "stamps", "interval"}]

KeptRecords ==
  [era : 0 .. MaxSessions, checked : 1 .. MaxSessions, stored : 1 .. MaxSessions]

\* Only a reading reaches the steps of a reading, and its handler found a session.
HandlerInv ==
  /\ handler \in HandlerRecords
  /\ handler.kind = "none" => handler.at = "idle"
  /\ handler.kind = "reading" =>
       /\ handler.at \notin {"setup", "setupWrite", "setInterval"}
       /\ 0 < handler.checked /\ handler.checked <= handler.era
       /\ handler.era <= created
  /\ handler.at \in {"interval", "stamp", "save"} => handler.kind = "reading"
  /\ telemetry \subseteq KeptRecords

\* AnnouncedTypes says what the runs of the cron job are at.
BackendInv ==
  CountInv /\ HandlerInv /\ KeepAliveInv /\ StampsInv /\ StepsInv /\ AnnouncedTypes

\* Logins that are to delete are finitely many.
LEMMA DeletingFinite ==
  IsFiniteSet(Deleting) /\ Cardinality(Deleting) \in Nat
BY SessionsAssumption, FS_Subset, FS_CardinalityType DEF Deleting

\* A step leaves CountInv alone when it makes no session and deletes no less.
LEMMA CountKept ==
  ASSUME CountInv, LoginTypes', created' = created, Deleting' \subseteq Deleting,
         \A l \in Logins : login'[l].born <= created,
         \A l \in Logins : login'[l].at \in {"save", "clear"} => login'[l].born > 0,
         \A s \in sessions' : 0 < s.born /\ s.born <= created
  PROVE  CountInv'
<1>1. /\ Cardinality(Deleting') <= Cardinality(Deleting)
      /\ Cardinality(Deleting) \in Nat /\ Cardinality(Deleting') \in Nat
  BY DeletingFinite, FS_Subset, FS_CardinalityType
<1>2. created + Cardinality(Deleting') <= MaxSessions
  BY <1>1, SessionsAssumption DEF CountInv, LoginTypes
<1> QED
  BY <1>2 DEF CountInv

\* Every step keeps CountInv: a login counts its session before it makes it.
LEMMA CountStep ==
  ASSUME CountInv, [Next]_vars
  PROVE  CountInv'
<1>0. LoginTypes /\ LoginTypes'
  BY LoginTypesStep DEF CountInv
<1>a. /\ \A l \in Logins : login[l].born <= created
      /\ \A l \in Logins : login[l].at \in {"save", "clear"} => login[l].born > 0
      /\ \A s \in sessions : 0 < s.born /\ s.born <= created
      /\ created \in Nat
  BY <1>0 DEF CountInv, LoginTypes
<1> USE DEF LoginTypes, SessionRecords
<1>1. ASSUME NEW l \in Logins, CheckActiveSession(l)
      PROVE  CountInv'
  <2>1. /\ login' = [login EXCEPT ![l].at = "delete"] /\ login[l].at = "idle"
        /\ UNCHANGED <<sessions, created>>
        /\ created + Cardinality(Deleting) < MaxSessions
    BY <1>1 DEF CheckActiveSession, Deleting
  <2>2. Deleting' = Deleting \cup {l} /\ l \notin Deleting
    BY <1>0, <2>1 DEF Deleting
  <2>3. Cardinality(Deleting') = Cardinality(Deleting) + 1
    BY <2>2, DeletingFinite, FS_AddElement
  <2>4. created' + Cardinality(Deleting') <= MaxSessions
    BY <1>a, <2>1, <2>3, DeletingFinite, SessionsAssumption
  <2> QED
    BY <1>0, <1>a, <2>1, <2>4 DEF CountInv
<1>2. ASSUME NEW l \in Logins, DeleteSession(l)
      PROVE  CountInv'
  <2>1. /\ login[l].at = "delete" /\ sessions' = {} /\ created' = created + 1
        /\ login' = [login EXCEPT ![l] = [at |-> "save", born |-> created + 1]]
    BY <1>2 DEF DeleteSession
  <2>2. Deleting' = Deleting \ {l} /\ l \in Deleting
    BY <1>0, <2>1 DEF Deleting
  <2>3. Cardinality(Deleting') = Cardinality(Deleting) - 1
    BY <2>2, DeletingFinite, FS_RemoveElement
  <2>4. created' + Cardinality(Deleting') <= MaxSessions
    BY <1>a, <2>1, <2>3, DeletingFinite, SessionsAssumption DEF CountInv
  <2> QED
    BY <1>0, <1>a, <2>1, <2>4 DEF CountInv
<1>3. ASSUME NEW l \in Logins, CreateSession(l)
      PROVE  CountInv'
  <2>1. Deleting' \subseteq Deleting /\ created' = created
    BY <1>0, <1>3 DEF Deleting, CreateSession
  <2>2. \A s \in sessions' : 0 < s.born /\ s.born <= created
    BY <1>0, <1>a, <1>3 DEF CreateSession
  <2>3. \A m \in Logins : login'[m].born = login[m].born
                          /\ (login'[m].at = login[m].at \/ m = l)
    BY <1>0, <1>3 DEF CreateSession
  <2> QED
    BY <1>0, <1>a, <1>3, <2>1, <2>2, <2>3, CountKept DEF CreateSession
<1>4. ASSUME NEW l \in Logins, ClearTelemetry(l)
      PROVE  CountInv'
  <2>1. Deleting' \subseteq Deleting /\ created' = created
    BY <1>0, <1>4 DEF Deleting, ClearTelemetry, NoLogin
  <2>2. \A s \in sessions' : 0 < s.born /\ s.born <= created
    BY <1>0, <1>a, <1>4 DEF ClearTelemetry, Cleared
  <2> QED
    BY <1>0, <1>a, <1>4, <2>1, <2>2, CountKept DEF ClearTelemetry, NoLogin
<1>5. ASSUME NEW l \in Logins, LoginCut(l)
      PROVE  CountInv'
  <2>1. Deleting' \subseteq Deleting /\ created' = created
    BY <1>0, <1>5 DEF Deleting, LoginCut, NoLogin
  <2> QED
    BY <1>0, <1>a, <1>5, <2>1, CountKept DEF LoginCut, NoLogin
<1>6. CASE LogoutDelete
  BY <1>0, <1>6 DEF LogoutDelete, CountInv, Deleting
<1>7. ASSUME NEW s \in sessions, Expire(s)
      PROVE  CountInv'
  <2>1. \A t \in sessions' : 0 < t.born /\ t.born <= created
    BY <1>0, <1>a, <1>7 DEF Expire
  <2> QED
    BY <1>0, <1>7, <2>1 DEF CountInv, Expire, Deleting
<1>8. CASE UNCHANGED <<sessions, created, login, overlapped>>
  BY <1>8 DEF CountInv, Deleting
<1>9. CASE Next
  BY <1>1, <1>2, <1>3, <1>4, <1>5, <1>6, <1>7, <1>8, <1>9, SessionStep, Zenon
<1>10. CASE UNCHANGED vars
  BY <1>8, <1>10, Zenon DEF vars, sessionVars
<1> QED
  BY <1>9, <1>10, Zenon

\* What an upsert of the keep-alive collection starts from is a document.
LEMMA FoundKeepAlive ==
  ASSUME keepAlive \subseteq KeepAliveRecords
  PROVE  Found(keepAlive, NewKeepAlive) \in KeepAliveRecords
<1>1. CASE keepAlive = {}
  BY <1>1 DEF Found, NewKeepAlive, KeepAliveRecords
<1>2. CASE keepAlive # {}
  BY <1>2 DEF Found
<1> QED
  BY <1>1, <1>2

\* What Next does to the collection of time stamps.
LEMMA StampsStepOf ==
  ASSUME Next
  PROVE  \/ UNCHANGED stamps
         \/ MarkDevice \/ SetupStamps \/ StampReading \/ SensorFallsSilent
         \/ \E r \in Runs : ResetStamps(r) \/ SetDeviceOff(r) \/ SetSensorOff(r)
  BY DEF Next, Start, LoginStep, LogoutStep, HandlerStep, CronStep, Receive, MarkAlive,
         LookForStamps, SetInterval, ReadInterval, SaveDeviceData, HandlerCut,
         CheckDeviceKeepAlive, CheckDeviceStatus, FindSession, PurgeTelemetry,
         CheckCurrentSession, ResetInterval, ReadStamps, CheckInterval, CronCut,
         ResetCut, DeviceFallsSilent, monitorVars

\* Every step keeps StampsInv.
LEMMA StampsStep ==
  ASSUME StampsInv, [Next]_vars
  PROVE  StampsInv'
<1> DEFINE f == Found(stamps, NewStamps)
<1>f. f \in StampRecords
  BY FoundStamps DEF StampsInv
<1> HIDE DEF f
<1>1. CASE UNCHANGED stamps
  BY <1>1 DEF StampsInv, Single
<1>2. CASE MarkDevice
  <2>1. stamps' = {[f EXCEPT !.device = TRUE]}
    BY <1>2 DEF MarkDevice, f
  <2> QED
    BY <1>f, <2>1 DEF StampsInv, Single, StampRecords
<1>3. CASE SetupStamps \/ StampReading
  <2>1. stamps' = {[device |-> TRUE, sensor |-> TRUE, stamp |-> "recent"]}
    BY <1>3 DEF SetupStamps, StampReading
  <2>2. [device |-> TRUE, sensor |-> TRUE, stamp |-> "recent"] \in StampRecords
    BY DEF StampRecords
  <2> QED
    BY <2>1, <2>2 DEF StampsInv, Single
<1>4. CASE SensorFallsSilent
  <2>1. stamps' = {[d EXCEPT !.stamp = "late"] : d \in stamps}
    BY <1>4 DEF SensorFallsSilent
  <2> QED
    BY <2>1 DEF StampsInv, Single, StampRecords
<1>5. ASSUME NEW r \in Runs, ResetStamps(r)
      PROVE  StampsInv'
  BY <1>5 DEF ResetStamps, StampsInv, Single
<1>6. ASSUME NEW r \in Runs, SetDeviceOff(r)
      PROVE  StampsInv'
  <2>1. stamps' = {[f EXCEPT !.device = FALSE]}
    BY <1>6 DEF SetDeviceOff, f
  <2> QED
    BY <1>f, <2>1 DEF StampsInv, Single, StampRecords
<1>7. ASSUME NEW r \in Runs, SetSensorOff(r)
      PROVE  StampsInv'
  <2>1. stamps' = {[f EXCEPT !.sensor = FALSE]}
    BY <1>7 DEF SetSensorOff, f
  <2> QED
    BY <1>f, <2>1 DEF StampsInv, Single, StampRecords
<1>8. CASE Next
  BY <1>1, <1>2, <1>3, <1>4, <1>5, <1>6, <1>7, <1>8, StampsStepOf, Zenon
<1>9. CASE UNCHANGED vars
  BY <1>1, <1>9, Zenon DEF vars, monitorVars
<1> QED
  BY <1>8, <1>9, Zenon

\* What Next does to the keep-alive collection.
LEMMA KeepAliveStepOf ==
  ASSUME Next
  PROVE  \/ keepAlive' \in {keepAlive, {}}
         \/ MarkAlive \/ SetInterval \/ DeviceFallsSilent
         \/ \E r \in Runs : ResetInterval(r)
  BY DEF Next, Start, LoginStep, LogoutStep, HandlerStep, CronStep, Receive,
         CheckActiveSession, DeleteSession, CreateSession, ClearTelemetry, LoginCut,
         LogoutDelete, LogoutKeepAlive, LogoutTelemetry, LogoutCut, Expire, MarkDevice,
         LookForStamps, SetupStamps, ReadInterval, StampReading, SaveDeviceData,
         HandlerCut, CheckDeviceKeepAlive, CheckDeviceStatus, SetDeviceOff,
         FindSession, PurgeTelemetry, CheckCurrentSession, ResetStamps, ReadStamps,
         CheckInterval, SetSensorOff, CronCut,
         ResetCut, SensorFallsSilent, sessionVars

\* Every step keeps KeepAliveInv.
LEMMA KeepAliveStep ==
  ASSUME KeepAliveInv, [Next]_vars
  PROVE  KeepAliveInv'
<1> USE DEF KeepAliveInv, Single
<1>1. CASE keepAlive' \in {keepAlive, {}}
  BY <1>1
<1>2. CASE MarkAlive
  <2> DEFINE f == Found(keepAlive, NewKeepAlive)
  <2>1. keepAlive' = {[f EXCEPT !.late = FALSE]} /\ f \in KeepAliveRecords
    BY <1>2, FoundKeepAlive DEF MarkAlive
  <2> HIDE DEF f
  <2> QED
    BY <2>1 DEF KeepAliveRecords
<1>3. CASE SetInterval
  <2>1. keepAlive' = {[d EXCEPT !.interval = TRUE] : d \in keepAlive}
    BY <1>3 DEF SetInterval
  <2> QED
    BY <2>1 DEF KeepAliveRecords
<1>4. CASE DeviceFallsSilent
  <2>1. keepAlive' = {[d EXCEPT !.late = TRUE] : d \in keepAlive}
    BY <1>4 DEF DeviceFallsSilent
  <2> QED
    BY <2>1 DEF KeepAliveRecords
<1>5. ASSUME NEW r \in Runs, ResetInterval(r)
      PROVE  KeepAliveInv'
  <2>1. keepAlive' = {[d EXCEPT !.interval = FALSE] : d \in keepAlive}
    BY <1>5 DEF ResetInterval
  <2> QED
    BY <2>1 DEF KeepAliveRecords
<1>6. CASE Next
  BY <1>1, <1>2, <1>3, <1>4, <1>5, <1>6, KeepAliveStepOf, Zenon
<1>7. CASE UNCHANGED vars
  BY <1>1, <1>7 DEF vars, sessionVars
<1> QED
  BY <1>6, <1>7, Zenon

\* Every step keeps StepsInv.
LEMMA StepsStep ==
  ASSUME StepsInv, [Next]_vars
  PROVE  StepsInv'
<1>1. logout' \in {"idle", "keepAlive", "telemetry"}
  BY DEF StepsInv, Next, Start, LoginStep, LogoutStep, HandlerStep, CronStep, Receive,
         CheckActiveSession, DeleteSession, CreateSession, ClearTelemetry, LoginCut,
         LogoutDelete, LogoutKeepAlive, LogoutTelemetry, LogoutCut, Expire, MarkAlive,
         MarkDevice, LookForStamps, SetupStamps, SetInterval, ReadInterval, StampReading,
         SaveDeviceData, HandlerCut, CheckDeviceKeepAlive, CheckDeviceStatus,
         SetDeviceOff, FindSession, PurgeTelemetry, CheckCurrentSession, ResetStamps,
         ResetInterval, ReadStamps, CheckInterval, SetSensorOff, CronCut,
         ResetCut, DeviceFallsSilent,
         SensorFallsSilent, sessionVars, vars
<1>2. overlapped' \in BOOLEAN
  <2>1. CASE UNCHANGED overlapped
    BY <2>1 DEF StepsInv
  <2>2. ASSUME NEW l \in Logins, CheckActiveSession(l)
        PROVE  overlapped' \in BOOLEAN
    BY <2>2 DEF CheckActiveSession
  <2>3. UNCHANGED overlapped \/ \E l \in Logins : CheckActiveSession(l)
    BY SessionStep, Zenon DEF DeleteSession, CreateSession, ClearTelemetry, LoginCut,
       LogoutDelete, Expire, vars, sessionVars
  <2> QED
    BY <2>1, <2>2, <2>3
<1>3. reset' \in [Runs -> {"idle", "stamps", "interval"}]
  <2>1. CASE UNCHANGED reset
    BY <2>1 DEF StepsInv
  <2>2. ASSUME NEW r \in Runs, CheckCurrentSession(r) \/ ResetStamps(r)
                             \/ ResetInterval(r) \/ ResetCut(r)
        PROVE  reset' \in [Runs -> {"idle", "stamps", "interval"}]
    BY <2>2 DEF StepsInv, CheckCurrentSession, ResetStamps, ResetInterval, ResetCut
  <2>3. \/ UNCHANGED reset
        \/ \E r \in Runs : CheckCurrentSession(r) \/ ResetStamps(r)
                           \/ ResetInterval(r) \/ ResetCut(r)
    BY Zenon DEF Next, Start, LoginStep, LogoutStep, HandlerStep, CronStep, Receive, MarkAlive,
           MarkDevice, LookForStamps, SetupStamps, SetInterval, ReadInterval,
           StampReading, SaveDeviceData, HandlerCut, CheckDeviceKeepAlive,
           CheckDeviceStatus, SetDeviceOff, FindSession, PurgeTelemetry, ReadStamps,
           CheckInterval, SetSensorOff, CronCut,
         ResetCut, DeviceFallsSilent, SensorFallsSilent,
           monitorVars, vars
  <2> QED
    BY <2>1, <2>2, <2>3
<1> QED
  BY <1>1, <1>2, <1>3 DEF StepsInv

\* What Next does to the variables of HandlerInv.
LEMMA HandlerStepOf ==
  ASSUME Next
  PROVE  \/ \E era \in 0 .. created, kind \in {"keep-alive", "reading"} :
              Receive(era, kind)
         \/ MarkAlive \/ MarkDevice \/ LookForStamps \/ SetupStamps \/ SetInterval
         \/ ReadInterval \/ StampReading \/ SaveDeviceData \/ HandlerCut
         \/ UNCHANGED handler /\ telemetry' \in {telemetry, {}}
  BY DEF Next, Start, LoginStep, LogoutStep, HandlerStep, CronStep,
         CheckActiveSession, DeleteSession, CreateSession, ClearTelemetry, LoginCut,
         LogoutDelete, LogoutKeepAlive, LogoutTelemetry, LogoutCut, Expire,
         CheckDeviceKeepAlive, CheckDeviceStatus, SetDeviceOff, FindSession,
         PurgeTelemetry, CheckCurrentSession, ResetStamps, ResetInterval, ReadStamps,
         CheckInterval, SetSensorOff, CronCut,
         ResetCut, DeviceFallsSilent, SensorFallsSilent,
         sessionVars, monitorVars

\* The number of sessions never falls.
LEMMA CreatedGrows ==
  ASSUME LoginTypes, [Next]_vars
  PROVE  created' \in Nat /\ created <= created'
<1>1. LoginTypes'
  BY LoginTypesStep
<1>2. created' = created \/ created' = created + 1
  BY SessionStep, Zenon DEF CheckActiveSession, DeleteSession, CreateSession, ClearTelemetry,
     LoginCut, LogoutDelete, Expire, vars, sessionVars
<1> QED
  BY <1>1, <1>2 DEF LoginTypes

\* Every step keeps HandlerInv: the kind of the message says which steps follow.
LEMMA HandlerInvStep ==
  ASSUME CountInv, HandlerInv, [Next]_vars
  PROVE  HandlerInv'
<1>0. created \in Nat /\ created' \in Nat /\ created <= created'
  BY CreatedGrows DEF CountInv, LoginTypes
<1>m. created <= MaxSessions /\ MaxSessions \in Nat
  BY <1>0, DeletingFinite, SessionsAssumption DEF CountInv
<1> USE <1>0 DEF HandlerInv, HandlerRecords, HandlerSteps, HandlerAt
<1>1. ASSUME NEW era \in 0 .. created, NEW kind \in {"keep-alive", "reading"},
             Receive(era, kind)
      PROVE  HandlerInv'
  <2>1. PICK s \in sessions : era >= s.born /\ handler' = Message(era, kind, s)
    BY <1>1 DEF Receive, Active
  <2>2. s.born \in Nat /\ 0 < s.born /\ telemetry' = telemetry
    BY <1>1 DEF CountInv, LoginTypes, SessionRecords, Receive, sessionVars
  <2>3. CASE kind = "reading"
    <3>1. handler' = [at |-> "keepAlive", kind |-> "reading", era |-> era, checked |-> s.born]
      BY <2>1, <2>3 DEF Message
    <3> QED
      BY <2>1, <2>2, <3>1
  <2>4. CASE kind = "keep-alive"
    <3>1. handler' = [at |-> "keepAlive", kind |-> "keep-alive", era |-> 0, checked |-> 0]
      BY <2>1, <2>4 DEF Message, Idle
    <3> QED
      BY <2>2, <3>1
  <2> QED
    BY <2>3, <2>4
<1>2. CASE MarkAlive
  BY <1>2 DEF MarkAlive
<1>3. CASE MarkDevice
  BY <1>3 DEF MarkDevice, sessionVars
<1>4. CASE LookForStamps
  BY <1>4 DEF LookForStamps, sessionVars
<1>5. CASE SetupStamps
  BY <1>5 DEF SetupStamps, sessionVars
<1>6. CASE SetInterval
  BY <1>6 DEF SetInterval, Idle
<1>7. CASE ReadInterval
  BY <1>7 DEF ReadInterval, sessionVars
<1>8. CASE StampReading
  BY <1>8 DEF StampReading, sessionVars
<1>9. CASE SaveDeviceData
  <2> DEFINE kept == [era |-> handler.era, checked |-> handler.checked, stored |-> created]
  <2>1. /\ handler.at = "save" /\ handler' = Idle
        /\ telemetry' = telemetry \/ telemetry' = telemetry \cup {kept}
    BY <1>9 DEF SaveDeviceData
  <2>2. /\ handler.checked \in 1 .. MaxSessions /\ handler.era \in 0 .. MaxSessions
        /\ created \in 1 .. MaxSessions
    BY <1>m, <2>1
  <2>3. kept \in KeptRecords
    BY <2>2 DEF KeptRecords
  <2> HIDE DEF kept
  <2> QED
    BY <2>1, <2>3 DEF Idle
<1>10. CASE HandlerCut
  BY <1>10 DEF HandlerCut, Idle, sessionVars
<1>11. CASE UNCHANGED handler /\ telemetry' \in {telemetry, {}}
  BY <1>11
<1>12. CASE Next
  BY <1>1, <1>2, <1>3, <1>4, <1>5, <1>6, <1>7, <1>8, <1>9, <1>10, <1>11, <1>12,
     HandlerStepOf, Zenon
<1>13. CASE UNCHANGED vars
  BY <1>11, <1>13 DEF vars, sessionVars, monitorVars
<1> QED
  BY <1>12, <1>13, Zenon

\* A collection with no two documents has at most one.
LEMMA SingleCardinality ==
  ASSUME NEW C, Single(C)
  PROVE  Cardinality(C) <= 1
<1>1. CASE C = {}
  BY <1>1, FS_EmptySet
<1>2. ASSUME NEW d \in C
      PROVE  Cardinality(C) <= 1
  <2>1. C = {d}
    BY <1>2 DEF Single
  <2> QED
    BY <2>1, FS_Singleton
<1> QED
  BY <1>1, <1>2

\* The types of the backend's collections and requests, with the bound on
\* sessions, and one document at most in the collections that
\* iot-connection.service.ts writes by upsert.
THEOREM BackendTypes == Spec => []TypeOK
<1>1. Init => BackendInv
  <2> SUFFICES ASSUME Init
               PROVE  BackendInv
    OBVIOUS
  <2>1. CountInv
    <3>1. Deleting = {}
      BY DEF Init, InitSessions, Deleting, NoLogin
    <3>2. Cardinality(Deleting) = 0
      BY <3>1, FS_EmptySet
    <3> QED
      BY <3>2, SessionsAssumption
      DEF Init, InitSessions, CountInv, LoginTypes, SessionRecords, NoLogin
  <2>2. HandlerInv
    BY DEF Init, InitSessions, HandlerInv, HandlerRecords, HandlerSteps, Idle
  <2>3. KeepAliveInv /\ StampsInv /\ StepsInv
    <3>1. KeepAliveInv /\ StampsInv
      BY DEF Init, InitSessions, KeepAliveInv, StampsInv, Single
    <3>2. StepsInv
      BY DEF Init, InitSessions, StepsInv
    <3> QED
      BY <3>1, <3>2
  <2>4. AnnouncedTypes
    BY DEF Init, AnnouncedTypes, RunSteps
  <2> QED
    BY <2>1, <2>2, <2>3, <2>4 DEF BackendInv
<1>2. BackendInv /\ [Next]_vars => BackendInv'
  BY CountStep, HandlerInvStep, KeepAliveStep, StampsStep, StepsStep, AnnouncedTypesStep
  DEF BackendInv
<1>3. BackendInv => TypeOK
  <2> SUFFICES ASSUME BackendInv
               PROVE  TypeOK
    OBVIOUS
  <2>1. /\ created \in 0 .. MaxSessions /\ MaxSessions \in Nat
        /\ \A l \in Logins : login[l].born \in 0 .. MaxSessions
        /\ \A s \in sessions : s.born \in 1 .. MaxSessions
    BY DeletingFinite, SessionsAssumption
    DEF BackendInv, CountInv, LoginTypes, SessionRecords
  <2>2. SessionsTypeOK
    BY <2>1 DEF SessionsTypeOK, BackendInv, CountInv, StepsInv, LoginTypes, SessionRecords
  <2>3. Cardinality(keepAlive) <= 1 /\ Cardinality(stamps) <= 1
    BY SingleCardinality DEF BackendInv, KeepAliveInv, StampsInv
  <2> QED
    BY <2>2, <2>3
    DEF TypeOK, BackendInv, HandlerInv, KeepAliveInv, StampsInv, StepsInv, AnnouncedTypes,
        HandlerRecords, HandlerSteps, KeptRecords, KeepAliveRecords, StampRecords, RunSteps
<1> QED
  BY <1>1, <1>2, <1>3, PTL DEF Spec

=============================================================================
