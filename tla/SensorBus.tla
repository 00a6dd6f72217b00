------------------------------ MODULE SensorBus ------------------------------
(***************************************************************************)
(* The three sensor tasks transfer by transfer: the I2C bus they share, the *)
(* one-shot timers that guard the transfers, the retries of the GNSS         *)
(* receiver and the hand-over of a reading.                                 *)
(*                                                                          *)
(* The recovery task, whose own logic is the subject of RecoveryTask, is      *)
(* reduced to what it does to the sensor tasks; it runs before them, except  *)
(* while it waits for the network.  Wi-Fi is connected, so that no sensor    *)
(* task suspends itself.                                                    *)
(***************************************************************************)
EXTENDS Naturals, Sequences

CONSTANTS
  MaxRetry,      \* SENSOR_MAX_RETRY_COUNT
  FixRetries,    \* GNSS_RETRY_COUNT
  DataRetries    \* GNSS_DATA_RETRY_COUNT

ASSUME BusAssumption ==
  /\ MaxRetry \in Nat \ {0}
  /\ FixRetries \in Nat \ {0}
  /\ DataRetries \in Nat \ {0}

\* In the order the recovery task looks at them.
SensorOrder == <<"temp", "imu", "gnss">>
Sensors     == {"temp", "imu", "gnss"}

VARIABLES
  at,           \* where each task is
  stage,        \* the transfer it waits for or makes
  probeStatus,  \* *_probe_status
  retryCnt,     \* *_retry_cnt
  available,    \* is_sensor_data_available of its reading
  busFree,      \* i2c_mutex_handler (a binary semaphore) can be taken
  timer,        \* its one-shot timer runs
  queueMutex,   \* sensor_data_queue_mutex_handler: "free", its owner or "lost"
  handed,       \* the reading in the sensor queue, <<>> when there is none
  fixRetry,     \* retry_count
  dataRetry,    \* data_retry_count
  recovery,     \* "asleep", "ready", "away" (in the network) or "stopped"
  \* History:
  asked,        \* the GNSS receiver has been asked in this round
  overrun,      \* a timer has expired since the bus was last idle
  ranOn         \* a task ran on after its timer had expired

taskVars    == <<at, stage, available>>
statusVars  == <<probeStatus, retryCnt>>
gnssVars    == <<fixRetry, dataRetry, asked>>
handOver    == <<queueMutex, handed>>
busVars     == <<busFree, timer, overrun>>
vars        == <<taskVars, statusVars, gnssVars, handOver, busVars, recovery, ranOn>>

-----------------------------------------------------------------------------
(* Scheduling: recovery (4) over the JSON converter (2) over sensors (1)    *)

JsonWaits    == handed = <<>> \/ queueMutex # "free"
SensorMayRun == recovery \in {"asleep", "away"} /\ JsonWaits

At(s, point) == at[s] = point /\ SensorMayRun

UsesBus(s) == at[s] = "transfer"

\* From taking the semaphore to giving it.
OnBus(s) == at[s] \in {"taken", "transfer", "give"}

Goto(s, point) ==
  /\ at' = [at EXCEPT ![s] = point]
  /\ stage' = [stage EXCEPT ![s] = "none"]

GotoTransfer(s, next) ==
  /\ at' = [at EXCEPT ![s] = "take"]
  /\ stage' = [stage EXCEPT ![s] = next]

ResumeRecovery == recovery' = IF recovery = "asleep" THEN "ready" ELSE recovery

-----------------------------------------------------------------------------
(* Transfers                                                                *)

\* Wait for the semaphore ...
BadTakeBus(s) ==
  /\ At(s, "take")
  /\ busFree \/ stage[s] = "gyro"
  /\ busFree' = FALSE
  /\ at' = [at EXCEPT ![s] = "taken"]
  /\ UNCHANGED <<stage, available, statusVars, gnssVars, handOver, timer, overrun,
                 recovery, ranOn>>

TakeBus(s) ==
  /\ At(s, "take")
  /\ busFree
  /\ busFree' = FALSE
  /\ at' = [at EXCEPT ![s] = "taken"]
  /\ UNCHANGED <<stage, available, statusVars, gnssVars, handOver, timer, overrun,
                 recovery, ranOn>>

\* ... and start the timer and the transfer.
StartTimer(s) ==
  /\ At(s, "taken")
  /\ timer' = [timer EXCEPT ![s] = TRUE]
  /\ at' = [at EXCEPT ![s] = "transfer"]
  /\ asked' = (asked \/ stage[s] = "fix")
  /\ UNCHANGED <<stage, available, statusVars, fixRetry, dataRetry, handOver,
                 busFree, overrun, recovery, ranOn>>

\* The transfer returns, before its timer expires or after, and the timer is
\* stopped.
TransferReturns(s) ==
  /\ At(s, "transfer")
  /\ timer' = [timer EXCEPT ![s] = FALSE]
  /\ at' = [at EXCEPT ![s] = "give"]
  /\ ranOn' = (ranOn \/ ~timer[s])
  /\ UNCHANGED <<stage, available, statusVars, gnssVars, handOver, busFree, overrun,
                 recovery>>

OthersOnBus(s) == \E other \in Sensors \ {s} : OnBus(other)

\* The timer expires, be it that the task has been deleted meanwhile, and its
\* callback gives the semaphore in the task's place.
BadTimerExpires(s) ==
  LET status == CASE probeStatus[s] = "NOT_PROBED" -> "PROBE_FAILED"
                  [] probeStatus[s] \in {"CONNECTED", "RECONNECTED"} -> "DISCONNECTED"
                  [] OTHER -> probeStatus[s]
  IN
  /\ timer[s]
  /\ recovery # "stopped"
  /\ timer' = [timer EXCEPT ![s] = FALSE]
  /\ UNCHANGED busFree
  /\ overrun' = \E user \in Sensors : OnBus(user)
  /\ probeStatus' = [probeStatus EXCEPT ![s] = status]
  /\ IF status # probeStatus[s] THEN ResumeRecovery ELSE UNCHANGED recovery
  /\ UNCHANGED <<taskVars, retryCnt, gnssVars, handOver, ranOn>>

TimerExpires(s) ==
  LET status == CASE probeStatus[s] = "NOT_PROBED" -> "PROBE_FAILED"
                  [] probeStatus[s] \in {"CONNECTED", "RECONNECTED"} -> "DISCONNECTED"
                  [] OTHER -> probeStatus[s]
  IN
  /\ timer[s]
  /\ recovery # "stopped"
  /\ timer' = [timer EXCEPT ![s] = FALSE]
  /\ busFree' = TRUE
  /\ overrun' = \E user \in Sensors : OnBus(user)
  /\ probeStatus' = [probeStatus EXCEPT ![s] = status]
  /\ IF status # probeStatus[s] THEN ResumeRecovery ELSE UNCHANGED recovery
  /\ UNCHANGED <<taskVars, retryCnt, gnssVars, handOver, ranOn>>

\* Give the semaphore after one of these transfers.
GiveBus(s, transfers) ==
  /\ At(s, "give")
  /\ stage[s] \in transfers
  /\ busFree' = TRUE
  /\ overrun' = (overrun /\ OthersOnBus(s))
  /\ UNCHANGED <<timer, ranOn>>

-----------------------------------------------------------------------------
(* Probing                                                                  *)

\* For the temperature sensor the on-board one is disabled first, and without
\* that there is no probing.
Start(s) ==
  /\ At(s, "start")
  /\ IF probeStatus[s] \in {"NOT_PROBED", "RECONNECTED"}
     THEN \/ GotoTransfer(s, "probe")
          \/ s = "temp" /\ Goto(s, "delay")
     ELSE Goto(s, "delay")
  /\ UNCHANGED <<available, statusVars, gnssVars, handOver, busVars, recovery, ranOn>>

\* Every sensor is probed with two transfers; the bus is kept between them.
ProbeContinues(s) ==
  /\ At(s, "give")
  /\ stage[s] = "probe"
  /\ at' = [at EXCEPT ![s] = "taken"]
  /\ stage' = [stage EXCEPT ![s] = "configure"]
  /\ UNCHANGED <<available, statusVars, gnssVars, handOver, busVars, recovery, ranOn>>

\* The bus is given before the result is looked at.
ProbeEnds(s) ==
  /\ GiveBus(s, {"probe", "configure"})
  /\ at' = [at EXCEPT ![s] = "judge"]
  /\ UNCHANGED <<stage, available, statusVars, gnssVars, handOver, recovery>>

Probed(s) ==
  /\ At(s, "judge")
  /\ stage[s] = "configure"
  /\ Goto(s, "delay")
  /\ probeStatus' = [probeStatus EXCEPT ![s] = "CONNECTED"]
  /\ retryCnt' = [retryCnt EXCEPT ![s] = 0]
  /\ UNCHANGED <<available, gnssVars, handOver, busVars, recovery, ranOn>>

ProbeFails(s) ==
  /\ At(s, "judge")
  /\ Goto(s, "delay")
  /\ probeStatus' = [probeStatus EXCEPT ![s] = "PROBE_FAILED"]
  /\ ResumeRecovery
  /\ UNCHANGED <<available, retryCnt, gnssVars, handOver, busVars, ranOn>>

-----------------------------------------------------------------------------
(* Temperature and inertial sensors                                         *)

\* A reading goes to the queue, also one that failed, unless there is no time.
HandOver(s, ok) ==
  \/ Goto(s, "queue") /\ available' = [available EXCEPT ![s] = ok]
  \/ Goto(s, "delay") /\ available' = [available EXCEPT ![s] = FALSE]

\* A round of the sampling loop.
Samples(s) ==
  /\ s # "gnss"
  /\ At(s, "delay")
  /\ probeStatus[s] = "CONNECTED"
  /\ GotoTransfer(s, "read")
  /\ UNCHANGED <<available, statusVars, gnssVars, handOver, busVars, recovery, ranOn>>

TempRead(ok) ==
  /\ GiveBus("temp", {"read"})
  /\ HandOver("temp", ok)
  /\ UNCHANGED <<statusVars, gnssVars, handOver, recovery>>

\* The accelerometer and, if it answers, the gyroscope.
AccelerometerRead ==
  /\ GiveBus("imu", {"read"})
  /\ GotoTransfer("imu", "gyro")
  /\ UNCHANGED <<available, statusVars, gnssVars, handOver, recovery>>

AccelerometerFails ==
  /\ GiveBus("imu", {"read"})
  /\ HandOver("imu", FALSE)
  /\ UNCHANGED <<statusVars, gnssVars, handOver, recovery>>

GyroscopeRead(ok) ==
  /\ GiveBus("imu", {"gyro"})
  /\ HandOver("imu", ok)
  /\ UNCHANGED <<statusVars, gnssVars, handOver, recovery>>

-----------------------------------------------------------------------------
(* GNSS receiver                                                            *)

\* retry_count keeps its value from one round to the next; data_retry_count is of
\* use in its loop only.
GnssSamples ==
  /\ At("gnss", "delay")
  /\ probeStatus["gnss"] = "CONNECTED"
  /\ Goto("gnss", "fixLoop")
  /\ available' = [available EXCEPT !["gnss"] = FALSE]
  /\ UNCHANGED <<statusVars, gnssVars, handOver, busVars, recovery,
                 ranOn>>

AskForFix ==
  /\ At("gnss", "fixLoop")
  /\ fixRetry < FixRetries
  /\ GotoTransfer("gnss", "fix")
  /\ UNCHANGED <<available, statusVars, gnssVars, handOver, busVars, recovery, ranOn>>

FixFound ==
  /\ GiveBus("gnss", {"fix"})
  /\ GotoTransfer("gnss", "data")
  /\ UNCHANGED <<available, statusVars, gnssVars, handOver, recovery>>

NoFix ==
  /\ GiveBus("gnss", {"fix"})
  /\ Goto("gnss", "fixLoop")
  /\ fixRetry' = fixRetry + 1
  /\ UNCHANGED <<available, statusVars, dataRetry, asked, handOver, recovery>>

PositionRead ==
  /\ GiveBus("gnss", {"data"})
  /\ HandOver("gnss", TRUE)
  /\ dataRetry' = 0
  /\ asked' = FALSE
  /\ UNCHANGED <<statusVars, fixRetry, handOver, recovery>>

NoPosition ==
  /\ GiveBus("gnss", {"data"})
  /\ IF dataRetry + 1 < DataRetries
     THEN /\ GotoTransfer("gnss", "data")
          /\ dataRetry' = dataRetry + 1
          /\ UNCHANGED fixRetry
     ELSE /\ Goto("gnss", "fixLoop")
          /\ dataRetry' = 0
          /\ fixRetry' = fixRetry + 1
  /\ UNCHANGED <<available, statusVars, asked, handOver, recovery>>

\* All retries used up: the reading is discarded.
BadGnssGivesUp ==
  /\ At("gnss", "fixLoop")
  /\ fixRetry = FixRetries
  /\ Goto("gnss", "delay")
  /\ asked' = FALSE
  /\ UNCHANGED <<available, statusVars, fixRetry, dataRetry, handOver, busVars,
                 recovery, ranOn>>

GnssGivesUp ==
  /\ At("gnss", "fixLoop")
  /\ fixRetry = FixRetries
  /\ Goto("gnss", "delay")
  /\ fixRetry' = 0
  /\ asked' = FALSE
  /\ UNCHANGED <<available, statusVars, dataRetry, handOver, busVars,
                 recovery, ranOn>>

GnssStep == \/ GnssSamples \/ AskForFix \/ FixFound \/ NoFix \/ PositionRead
            \/ NoPosition  \/ GnssGivesUp

-----------------------------------------------------------------------------
(* Hand-over                                                                *)

TakeQueueMutex(s) ==
  /\ At(s, "queue")
  /\ queueMutex = "free"
  /\ queueMutex' = s
  /\ Goto(s, "send")
  /\ UNCHANGED <<available, statusVars, gnssVars, handed, busVars, recovery,
                 ranOn>>

\* Send, give the mutex and resume the JSON converter, which goes first.
SendReading(s) ==
  /\ At(s, "send")
  /\ queueMutex' = "free"
  /\ handed' = <<[sensor |-> s, available |-> available[s]]>>
  /\ Goto(s, "delay")
  /\ available' = [available EXCEPT ![s] = FALSE]
  /\ UNCHANGED <<statusVars, gnssVars, busVars, recovery, ranOn>>

\* The JSON converter takes the reading out of the queue, to frame it.
JsonTakesReading ==
  /\ handed # <<>>
  /\ queueMutex = "free"
  /\ recovery \in {"asleep", "away"}
  /\ handed' = <<>>
  /\ UNCHANGED <<taskVars, statusVars, gnssVars, queueMutex, busVars, recovery, ranOn>>

-----------------------------------------------------------------------------
(* The recovery task                                                        *)

Failing(s) == probeStatus[s] \in {"PROBE_FAILED", "DISCONNECTED"}

FirstFailing(s) ==
  /\ Failing(s)
  /\ \A t \in Sensors : Failing(t) =>
       \E i, j \in 1..3 : i <= j /\ SensorOrder[i] = s /\ SensorOrder[j] = t

\* What deleting a task does to the locks it has and the variables it keeps.
TaskDeleted(s, point) ==
  /\ Goto(s, point)
  /\ available' = [available EXCEPT ![s] = FALSE]
  /\ queueMutex' = IF queueMutex = s THEN "lost" ELSE queueMutex
  /\ overrun' = (overrun /\ OthersOnBus(s))
  /\ IF s = "gnss" THEN fixRetry' = 0 /\ dataRetry' = 0 /\ asked' = FALSE
                   ELSE UNCHANGED gnssVars
  /\ UNCHANGED <<handed, busFree, timer, ranOn>>

\* A sensor that cannot be probed loses its task.
DeleteTask(s) ==
  /\ recovery = "ready"
  /\ FirstFailing(s)
  /\ probeStatus[s] = "PROBE_FAILED"
  /\ TaskDeleted(s, "gone")
  /\ probeStatus' = [probeStatus EXCEPT ![s] = "SHUTDOWN"]
  /\ UNCHANGED <<retryCnt, recovery>>

\* One that stopped answering gets a new one, MaxRetry - 1 times.
BadRecreateTask(s) ==
  /\ recovery = "ready"
  /\ FirstFailing(s)
  /\ probeStatus[s] = "DISCONNECTED"
  /\ TaskDeleted(s, "start")
  /\ IF retryCnt[s] = MaxRetry
     THEN /\ retryCnt' = [retryCnt EXCEPT ![s] = 0]
          /\ probeStatus' = [probeStatus EXCEPT ![s] = "PROBE_FAILED"]
          /\ UNCHANGED recovery
     ELSE /\ retryCnt' = [retryCnt EXCEPT ![s] = @ + 1]
          /\ probeStatus' = [probeStatus EXCEPT ![s] = "RECONNECTED"]
          /\ recovery' = "asleep"

RecreateTask(s) ==
  /\ recovery = "ready"
  /\ FirstFailing(s)
  /\ probeStatus[s] = "DISCONNECTED"
  /\ TaskDeleted(s, "start")
  /\ IF retryCnt[s] + 1 = MaxRetry
     THEN /\ retryCnt' = [retryCnt EXCEPT ![s] = 0]
          /\ probeStatus' = [probeStatus EXCEPT ![s] = "PROBE_FAILED"]
          /\ UNCHANGED recovery
     ELSE /\ retryCnt' = [retryCnt EXCEPT ![s] = @ + 1]
          /\ probeStatus' = [probeStatus EXCEPT ![s] = "RECONNECTED"]
          /\ recovery' = "asleep"

\* With every sensor lost the application stops; else it suspends itself or has
\* the network to look after.
RecoveryLooks ==
  /\ recovery = "ready"
  /\ \A s \in Sensors : ~Failing(s)
  /\ IF \A s \in Sensors : probeStatus[s] = "SHUTDOWN"
     THEN recovery' = "stopped"
     ELSE recovery' \in {"asleep", "away"}
  /\ UNCHANGED <<taskVars, statusVars, gnssVars, handOver, busVars, ranOn>>

\* The Wi-Fi or the Azure task resumes it; the network answers.
RecoveryWoken ==
  /\ \/ recovery = "asleep" /\ SensorMayRun
     \/ recovery = "away"
  /\ recovery' = "ready"
  /\ UNCHANGED <<taskVars, statusVars, gnssVars, handOver, busVars, ranOn>>

-----------------------------------------------------------------------------
Init ==
  /\ at = [s \in Sensors |-> "start"]
  /\ stage = [s \in Sensors |-> "none"]
  /\ probeStatus = [s \in Sensors |-> "NOT_PROBED"]
  /\ retryCnt = [s \in Sensors |-> 0]
  /\ available = [s \in Sensors |-> FALSE]
  /\ busFree = TRUE
  /\ timer = [s \in Sensors |-> FALSE]
  /\ queueMutex = "free"
  /\ handed = <<>>
  /\ fixRetry = 0
  /\ dataRetry = 0
  /\ recovery = "asleep"
  /\ asked = FALSE
  /\ overrun = FALSE
  /\ ranOn = FALSE

SensorStep(s) == \/ Start(s)  \/ TakeBus(s)   \/ StartTimer(s) \/ TransferReturns(s)
                 \/ ProbeContinues(s) \/ ProbeEnds(s) \/ Probed(s) \/ ProbeFails(s)
                 \/ Samples(s) \/ TakeQueueMutex(s) \/ SendReading(s)

ReadStep == \/ \E ok \in BOOLEAN : TempRead(ok) \/ GyroscopeRead(ok)
            \/ AccelerometerRead \/ AccelerometerFails
            \/ GnssStep

SensorsAndRecovery ==
  \/ \E s \in Sensors : \/ SensorStep(s) \/ TimerExpires(s)
                         \/ DeleteTask(s) \/ RecreateTask(s)
  \/ ReadStep
  \/ RecoveryLooks
  \/ RecoveryWoken

Next == SensorsAndRecovery \/ JsonTakesReading

Spec == Init /\ [][Next]_vars

-----------------------------------------------------------------------------
Points  == {"start", "take", "taken", "transfer", "give", "judge", "delay", "fixLoop",
            "queue", "send", "gone"}
Stages  == {"none", "probe", "configure", "read", "gyro", "fix", "data"}
Status  == {"NOT_PROBED", "CONNECTED", "PROBE_FAILED", "DISCONNECTED", "RECONNECTED",
            "SHUTDOWN"}
Reading == [sensor : Sensors, available : BOOLEAN]

\* Every variable has a value the code gives it; the retries stay below their
\* limits and the queue holds no more than the reading the JSON converter takes.
TypeOK ==
  /\ at \in [Sensors -> Points]
  /\ stage \in [Sensors -> Stages]
  /\ probeStatus \in [Sensors -> Status]
  /\ retryCnt \in [Sensors -> 0..(MaxRetry - 1)]
  /\ available \in [Sensors -> BOOLEAN]
  /\ busFree \in BOOLEAN
  /\ timer \in [Sensors -> BOOLEAN]
  /\ queueMutex \in Sensors \cup {"free", "lost"}
  /\ handed = <<>> \/ \E r \in Reading : handed = <<r>>
  /\ fixRetry \in 0..FixRetries
  /\ dataRetry \in 0..(DataRetries - 1)
  /\ recovery \in {"asleep", "ready", "away", "stopped"}
  /\ asked \in BOOLEAN
  /\ overrun \in BOOLEAN
  /\ ranOn \in BOOLEAN

\* The semaphore keeps the sensors apart on the bus, although every task gives it
\* after every transfer, also after its timer has given it already: two of them
\* use the bus at once only if a timer has expired since it was last idle.
BusExclusive ==
  \A s, t \in Sensors : UsesBus(s) /\ UsesBus(t) => s = t \/ overrun

BusLost == ~busFree /\ \A s \in Sensors : ~timer[s] /\ ~OnBus(s)

\* The recovery task deletes sensor tasks wherever they are.  The semaphore of the
\* bus, which the timer of the transfer still gives, and the mutex of the sensor
\* queue are lost, and with them all telemetry, only when a task ran on after its
\* timer had expired, the recovery task being away in the network: it is deleted
\* then between taking one of them and starting the timer or giving it back.
LocksNotLost == BusLost \/ queueMutex = "lost" => ranOn

\* retry_count is reset on the failing way out only and keeps its value when a
\* reading succeeds; nevertheless the receiver is asked at least once before a
\* reading is discarded.
NoDiscardWithoutTry ==
  [][at["gnss"] = "fixLoop" /\ at'["gnss"] = "delay" => asked]_vars
==============================================================================
