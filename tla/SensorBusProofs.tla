--------------------------- MODULE SensorBusProofs ---------------------------
(* Theorems about SensorBus, for any number of retries, and in the last part *)
(* about the messages, for any sizes of the JSON writer too.                 *)
EXTENDS Readings, JsonProofs, TLAPS

\* What Next is made of, one disjunct per action.
LEMMA StepOf ==
  ASSUME Next
  PROVE  \/ \E s \in Sensors : \/ Start(s) \/ TakeBus(s) \/ StartTimer(s)
                               \/ TransferReturns(s) \/ ProbeContinues(s) \/ ProbeEnds(s)
                               \/ Probed(s) \/ ProbeFails(s) \/ Samples(s)
                               \/ TakeQueueMutex(s) \/ SendReading(s) \/ TimerExpires(s)
                               \/ DeleteTask(s) \/ RecreateTask(s)
         \/ \E ok \in BOOLEAN : TempRead(ok) \/ GyroscopeRead(ok)
         \/ AccelerometerRead \/ AccelerometerFails
         \/ GnssSamples \/ AskForFix \/ FixFound \/ NoFix \/ PositionRead
         \/ NoPosition \/ GnssGivesUp
         \/ RecoveryLooks \/ RecoveryWoken \/ JsonTakesReading
BY DEF Next, SensorsAndRecovery, SensorStep, ReadStep, GnssStep

-----------------------------------------------------------------------------
(* The bus and the locks                                                     *)

BusPoints == {"taken", "transfer", "give"}

TaskTypes ==
  /\ at \in [Sensors -> Points]
  /\ stage \in [Sensors -> Stages]
  /\ timer \in [Sensors -> BOOLEAN]

BusTypes ==
  /\ TaskTypes
  /\ probeStatus \in [Sensors -> Status]
  /\ busFree \in BOOLEAN
  /\ overrun \in BOOLEAN
  /\ ranOn \in BOOLEAN

\* As long as no timer has expired the semaphore is taken while a task is on the
\* bus, so that no other can take it.
OnlyOneInv ==
  /\ (\E s \in Sensors : OnBus(s)) /\ ~overrun => ~busFree
  /\ \A s, t \in Sensors : OnBus(s) /\ OnBus(t) => s = t \/ overrun

\* As long as no task has run on after its timer had expired a timer runs in a
\* transfer only, and a sensor that fails is in a transfer or between two readings.
LateInv ==
  ~ranOn => \A s \in Sensors :
              /\ timer[s] => at[s] = "transfer" /\ ~Failing(s)
              /\ Failing(s) => at[s] \in {"transfer", "delay", "start", "gone"}

\* ... and somebody is there to give the bus.
HeldInv == ~busFree /\ ~ranOn => \E s \in Sensors : timer[s] \/ at[s] \in {"taken", "give"}

MutexInv ==
  /\ \A s \in Sensors : queueMutex = s => at[s] = "send"
  /\ queueMutex = "lost" => ranOn

BusInv == BusTypes /\ OnlyOneInv /\ LateInv /\ HeldInv /\ MutexInv

\* The bus is given after a transfer, in the course of a reading or before the
\* result of probing is looked at.
GivesBus(s) ==
  /\ at[s] = "give"
  /\ \E point \in {"judge", "take", "delay", "fixLoop", "queue"} :
        at' = [at EXCEPT ![s] = point]
  /\ \E next \in Stages : stage' = [stage EXCEPT ![s] = next]
  /\ busFree' = TRUE
  /\ overrun' = (overrun /\ OthersOnBus(s))
  /\ UNCHANGED <<timer, ranOn, probeStatus, queueMutex>>

\* A move of s off the bus that leaves the queue's mutex alone; it may find the
\* sensor failing when it has been probed.
MovesOffBus(s) ==
  /\ at[s] \in Points \ (BusPoints \cup {"send"})
  /\ \E point \in Points \ (BusPoints \cup {"send", "gone"}) : at' = [at EXCEPT ![s] = point]
  /\ \E next \in Stages : stage' = [stage EXCEPT ![s] = next]
  /\ \/ probeStatus' = probeStatus /\ (Failing(s) => at'[s] = "delay" \/ ranOn)
     \/ at'[s] = "delay" /\ \E v \in Status : probeStatus' = [probeStatus EXCEPT ![s] = v]
  /\ UNCHANGED <<busFree, overrun, timer, ranOn, queueMutex>>

\* The task of s, which fails, is deleted wherever it is.
LosesTask(s) ==
  /\ Failing(s)
  /\ \E point \in {"gone", "start"} : at' = [at EXCEPT ![s] = point]
  /\ stage' = [stage EXCEPT ![s] = "none"]
  /\ \E v \in Status : probeStatus' = [probeStatus EXCEPT ![s] = v]
  /\ overrun' = (overrun /\ OthersOnBus(s))
  /\ queueMutex' = IF queueMutex = s THEN "lost" ELSE queueMutex
  /\ UNCHANGED <<busFree, timer, ranOn>>

busState == <<at, stage, probeStatus, busVars, queueMutex, ranOn>>

\* Every action does one of these to the bus and the locks.
LEMMA BusStepOf ==
  ASSUME BusTypes, LateInv, Next
  PROVE  \/ UNCHANGED busState
         \/ \E s \in Sensors : \/ TakeBus(s) \/ StartTimer(s) \/ TransferReturns(s)
                               \/ ProbeContinues(s) \/ TimerExpires(s) \/ GivesBus(s)
                               \/ MovesOffBus(s) \/ TakeQueueMutex(s) \/ SendReading(s)
                               \/ LosesTask(s)
<1> USE DEF BusTypes, TaskTypes, Sensors, Points, Stages, Status, BusPoints
<1>1. ASSUME NEW s \in Sensors, Start(s)
      PROVE  MovesOffBus(s)
  BY <1>1 DEF Start, At, Goto, GotoTransfer, MovesOffBus, Failing, busVars, statusVars,
              handOver
<1>2. ASSUME NEW s \in Sensors, ProbeEnds(s)
      PROVE  GivesBus(s)
  BY <1>2 DEF ProbeEnds, GiveBus, At, GivesBus, statusVars, handOver
<1>3. ASSUME NEW s \in Sensors, Probed(s) \/ ProbeFails(s)
      PROVE  MovesOffBus(s)
  BY <1>3 DEF Probed, ProbeFails, At, Goto, MovesOffBus, busVars, handOver
<1>4. ASSUME NEW s \in Sensors, Samples(s)
      PROVE  MovesOffBus(s)
  BY <1>4 DEF Samples, At, GotoTransfer, MovesOffBus, Failing, busVars, statusVars, handOver
<1>5. ASSUME NEW s \in Sensors, DeleteTask(s) \/ RecreateTask(s)
      PROVE  LosesTask(s)
  BY <1>5 DEF DeleteTask, RecreateTask, FirstFailing, TaskDeleted, Goto, LosesTask
<1>6. ASSUME NEW ok \in BOOLEAN, TempRead(ok)
      PROVE  GivesBus("temp")
  BY <1>6 DEF TempRead, GiveBus, At, HandOver, Goto, GivesBus, statusVars, handOver
<1>7. ASSUME NEW ok \in BOOLEAN, GyroscopeRead(ok)
      PROVE  GivesBus("imu")
  BY <1>7 DEF GyroscopeRead, GiveBus, At, HandOver, Goto, GivesBus, statusVars, handOver
<1>8. ASSUME AccelerometerRead \/ AccelerometerFails
      PROVE  GivesBus("imu")
  BY <1>8 DEF AccelerometerRead, AccelerometerFails, GiveBus, At, HandOver, Goto,
              GotoTransfer, GivesBus, statusVars, handOver
<1>9. ASSUME GnssSamples
      PROVE  MovesOffBus("gnss")
  BY <1>9 DEF GnssSamples, At, Goto, MovesOffBus, Failing, busVars, statusVars, handOver
<1>10. ASSUME AskForFix \/ GnssGivesUp
       PROVE  MovesOffBus("gnss")
  BY <1>10 DEF AskForFix, GnssGivesUp, At, Goto, GotoTransfer, MovesOffBus, LateInv,
               busVars, statusVars, handOver
<1>11. ASSUME FixFound \/ NoFix
       PROVE  GivesBus("gnss")
  BY <1>11 DEF FixFound, NoFix, GiveBus, At, Goto, GotoTransfer, GivesBus, statusVars, handOver
<1>12. ASSUME PositionRead
       PROVE  GivesBus("gnss")
  BY <1>12 DEF PositionRead, HandOver, GiveBus, At, Goto, GivesBus, statusVars, handOver
<1>13. ASSUME NoPosition
       PROVE  GivesBus("gnss")
  BY <1>13 DEF NoPosition, GiveBus, At, Goto, GotoTransfer, GivesBus, statusVars, handOver
<1>14. ASSUME RecoveryLooks \/ RecoveryWoken \/ JsonTakesReading
       PROVE  UNCHANGED busState
  BY <1>14 DEF RecoveryLooks, RecoveryWoken, JsonTakesReading, taskVars, statusVars, handOver,
               busState
<1>15. {"temp", "imu", "gnss"} = Sensors
  OBVIOUS
<1> QED
  BY <1>1, <1>2, <1>3, <1>4, <1>5, <1>6, <1>7, <1>8, <1>9, <1>10, <1>11, <1>12, <1>13,
     <1>14, <1>15, StepOf, Zenon

\* BusInv is inductive.
LEMMA BusStep ==
  ASSUME BusInv, [Next]_vars
  PROVE  BusInv'
<1> USE DEF BusInv, BusTypes, TaskTypes, OnBus, BusPoints, Points, Stages, Status, Failing
<1> DEFINE Parts == OnlyOneInv /\ LateInv /\ HeldInv /\ MutexInv
<1>1. CASE UNCHANGED busState
  BY <1>1 DEF busState, busVars, OnlyOneInv, LateInv, HeldInv, MutexInv
<1>2. ASSUME NEW s \in Sensors, TakeBus(s)
      PROVE  BusInv'
  <2>1. BusTypes'
    BY <1>2 DEF TakeBus, At, statusVars
  <2>2. OnlyOneInv'
    BY <1>2 DEF TakeBus, At, OnlyOneInv
  <2>3. LateInv' /\ MutexInv'
    BY <1>2 DEF TakeBus, At, statusVars, handOver, LateInv, MutexInv
  <2>4. HeldInv'
    BY <1>2 DEF TakeBus, At, HeldInv
  <2> QED
    BY <2>1, <2>2, <2>3, <2>4
<1>3. ASSUME NEW s \in Sensors, StartTimer(s)
      PROVE  BusInv'
  <2>1. BusTypes'
    BY <1>3 DEF StartTimer, At, statusVars
  <2>2. OnlyOneInv'
    BY <1>3 DEF StartTimer, At, OnlyOneInv
  <2>3. LateInv' /\ MutexInv'
    BY <1>3 DEF StartTimer, At, statusVars, handOver, LateInv, MutexInv
  <2>4. HeldInv'
    BY <1>3 DEF StartTimer, At, HeldInv
  <2> QED
    BY <2>1, <2>2, <2>3, <2>4
<1>4. ASSUME NEW s \in Sensors, TransferReturns(s)
      PROVE  BusInv'
  <2>1. BusTypes'
    BY <1>4 DEF TransferReturns, At, statusVars
  <2>2. OnlyOneInv'
    BY <1>4 DEF TransferReturns, At, OnlyOneInv
  <2>3. LateInv' /\ MutexInv'
    BY <1>4 DEF TransferReturns, At, statusVars, handOver, LateInv, MutexInv
  <2>4. HeldInv'
    BY <1>4 DEF TransferReturns, At, HeldInv
  <2> QED
    BY <2>1, <2>2, <2>3, <2>4
<1>5. ASSUME NEW s \in Sensors, ProbeContinues(s)
      PROVE  BusInv'
  <2>1. BusTypes'
    BY <1>5 DEF ProbeContinues, At, statusVars, busVars
  <2>2. OnlyOneInv'
    BY <1>5 DEF ProbeContinues, At, OnlyOneInv, busVars
  <2>3. LateInv' /\ MutexInv'
    BY <1>5 DEF ProbeContinues, At, statusVars, handOver, busVars, LateInv, MutexInv
  <2>4. HeldInv'
    BY <1>5 DEF ProbeContinues, At, HeldInv, busVars
  <2> QED
    BY <2>1, <2>2, <2>3, <2>4
<1>6. ASSUME NEW s \in Sensors, TimerExpires(s)
      PROVE  BusInv'
  <2>1. BusTypes'
    BY <1>6 DEF TimerExpires, taskVars
  <2>2. OnlyOneInv'
    BY <1>6 DEF TimerExpires, taskVars, OnlyOneInv
  <2>3. LateInv' /\ MutexInv'
    BY <1>6 DEF TimerExpires, taskVars, handOver, LateInv, MutexInv
  <2>4. HeldInv'
    BY <1>6 DEF TimerExpires, HeldInv
  <2> QED
    BY <2>1, <2>2, <2>3, <2>4
<1>7. ASSUME NEW s \in Sensors, GivesBus(s)
      PROVE  BusInv'
  <2>1. BusTypes'
    BY <1>7 DEF GivesBus, OthersOnBus
  <2>2. OnlyOneInv'
    BY <1>7 DEF GivesBus, OthersOnBus, OnlyOneInv
  <2>3. LateInv' /\ MutexInv'
    BY <1>7 DEF GivesBus, LateInv, MutexInv
  <2>4. HeldInv'
    BY <1>7 DEF GivesBus, HeldInv
  <2> QED
    BY <2>1, <2>2, <2>3, <2>4
<1>8. ASSUME NEW s \in Sensors, MovesOffBus(s)
      PROVE  BusInv'
  <2>1. BusTypes'
    BY <1>8 DEF MovesOffBus
  <2>2. OnlyOneInv'
    BY <1>8 DEF MovesOffBus, OnlyOneInv
  <2>3. LateInv' /\ MutexInv'
    BY <1>8 DEF MovesOffBus, LateInv, MutexInv
  <2>4. HeldInv'
    BY <1>8 DEF MovesOffBus, HeldInv
  <2> QED
    BY <2>1, <2>2, <2>3, <2>4
<1>9. ASSUME NEW s \in Sensors, TakeQueueMutex(s) \/ SendReading(s)
      PROVE  BusInv'
  <2>1. /\ at[s] \in {"queue", "send"}
        /\ at' = [at EXCEPT ![s] = "send"] \/ at' = [at EXCEPT ![s] = "delay"]
        /\ stage' = [stage EXCEPT ![s] = "none"]
        /\ UNCHANGED <<probeStatus, busFree, overrun, timer, ranOn>>
        /\ (at[s] = "queue" /\ at'[s] = "send" /\ queueMutex = "free" /\ queueMutex' = s)
           \/ (at[s] = "send" /\ at'[s] = "delay" /\ queueMutex' = "free")
    BY <1>9 DEF TakeQueueMutex, SendReading, At, Goto, statusVars, busVars
  <2>2. BusTypes'
    BY <2>1
  <2>3. OnlyOneInv'
    BY <2>1 DEF OnlyOneInv
  <2>4. LateInv' /\ HeldInv'
    BY <2>1 DEF LateInv, HeldInv
  <2>5. MutexInv'
    BY <2>1 DEF MutexInv, Sensors
  <2> QED
    BY <2>2, <2>3, <2>4, <2>5
<1>10. ASSUME NEW s \in Sensors, LosesTask(s)
       PROVE  BusInv'
  <2>1. BusTypes'
    BY <1>10 DEF LosesTask, OthersOnBus
  <2>2. OnlyOneInv'
    BY <1>10 DEF LosesTask, OthersOnBus, OnlyOneInv
  <2>3. ~ranOn => at[s] # "send" /\ ~timer[s] /\ at[s] \notin {"taken", "give"}
    BY <1>10 DEF LosesTask, LateInv
  <2>4. LateInv' /\ HeldInv'
    BY <1>10, <2>3 DEF LosesTask, LateInv, HeldInv
  <2>5. MutexInv'
    BY <1>10, <2>3 DEF LosesTask, MutexInv, Sensors
  <2> QED
    BY <2>1, <2>2, <2>4, <2>5
<1>11. UNCHANGED vars => UNCHANGED busState
  BY DEF vars, taskVars, statusVars, handOver, busState
<1> QED
  BY <1>1, <1>2, <1>3, <1>4, <1>5, <1>6, <1>7, <1>8, <1>9, <1>10, <1>11, BusStepOf

\* At first nobody is on the bus.
LEMMA InitBus == Init => BusInv
<1> SUFFICES ASSUME Init PROVE BusInv
  OBVIOUS
<1>1. /\ \A s \in Sensors : at[s] = "start" /\ ~timer[s] /\ probeStatus[s] = "NOT_PROBED"
      /\ busFree = TRUE /\ overrun = FALSE /\ ranOn = FALSE /\ queueMutex = "free"
  BY DEF Init
<1>2. BusTypes
  BY DEF Init, BusTypes, TaskTypes, Points, Stages, Status
<1>3. MutexInv
  BY <1>1 DEF MutexInv, Sensors
<1> QED
  BY <1>1, <1>2, <1>3 DEF BusInv, OnlyOneInv, OnBus, LateInv, HeldInv, Failing

\* Two tasks are on the bus at once only after a timer has expired.
THEOREM BusIsExclusive == Spec => []BusExclusive
<1>1. BusInv => BusExclusive
  BY DEF BusInv, OnlyOneInv, OnBus, UsesBus, BusExclusive
<1> QED
  BY <1>1, InitBus, BusStep, PTL DEF Spec

\* The deletion of sensor tasks takes the bus and the mutex of the sensor queue along
\* only when some task has run on after its timer had expired.
THEOREM LocksLostOnlyAfterRunningOn == Spec => []LocksNotLost
<1>1. BusInv => LocksNotLost
  BY DEF BusInv, HeldInv, MutexInv, OnBus, BusLost, LocksNotLost
<1> QED
  BY <1>1, InitBus, BusStep, PTL DEF Spec

-----------------------------------------------------------------------------
(* The retries of the GNSS receiver                                          *)

\* The receiver has been asked in this round when its answer is dealt with, and
\* when the last retry is used up; outside of the loop there is one left.
RetryInv ==
  /\ fixRetry \in 0..FixRetries
  /\ dataRetry \in 0..(DataRetries - 1)
  /\ at["gnss"] # "fixLoop" => fixRetry < FixRetries
  /\ fixRetry = FixRetries => asked
  /\ at["gnss"] \in {"transfer", "give"} /\ stage["gnss"] = "fix" => asked
  /\ stage["gnss"] = "data" => asked

\* The step is not one of the GNSS task in its loop.
GnssElsewhere ==
  /\ UNCHANGED gnssVars
  /\ \/ at'["gnss"] = at["gnss"] /\ stage'["gnss"] = stage["gnss"]
     \/ at["gnss"] # "fixLoop" /\ at'["gnss"] # "fixLoop" /\ stage'["gnss"] \notin {"fix", "data"}

\* A round that ends with retries left may forget that it has asked.
LEMMA ForgetsAsking ==
  ASSUME RetryInv, asked' = FALSE, stage'["gnss"] = "none",
         at'["gnss"] # "fixLoop",
         (fixRetry' = 0) \/ (fixRetry' = fixRetry /\ fixRetry < FixRetries),
         (dataRetry' = 0) \/ (dataRetry' = dataRetry)
  PROVE  RetryInv'
BY BusAssumption DEF RetryInv

\* RetryInv is inductive.
LEMMA RetryStep ==
  ASSUME TaskTypes, RetryInv, [Next]_vars
  PROVE  RetryInv'
<1> USE BusAssumption DEF RetryInv, TaskTypes, Sensors
<1>1. CASE GnssElsewhere
  BY <1>1 DEF GnssElsewhere, gnssVars
<1>2. ASSUME NEW s \in Sensors,
             \/ Start(s) \/ Samples(s) \/ TakeQueueMutex(s) \/ SendReading(s)
             \/ ProbeEnds(s) \/ Probed(s) \/ ProbeFails(s) \/ TimerExpires(s)
      PROVE  GnssElsewhere
  BY <1>2 DEF Start, Samples, TakeQueueMutex, SendReading, ProbeEnds, Probed, ProbeFails,
              TimerExpires, GiveBus, At, Goto, GotoTransfer, gnssVars, taskVars, GnssElsewhere
<1>3. ASSUME NEW s \in Sensors,
             TakeBus(s) \/ StartTimer(s) \/ TransferReturns(s) \/ ProbeContinues(s)
      PROVE  RetryInv'
  BY <1>3 DEF TakeBus, StartTimer, TransferReturns, ProbeContinues, At, gnssVars
<1>4. ASSUME NEW s \in Sensors, DeleteTask(s) \/ RecreateTask(s)
      PROVE  RetryInv'
  <2>1. TaskDeleted(s, "gone") \/ TaskDeleted(s, "start")
    BY <1>4 DEF DeleteTask, RecreateTask
  <2>2. CASE s = "gnss"
    <3>1. /\ fixRetry' = 0 /\ dataRetry' = 0 /\ asked' = FALSE
          /\ at'["gnss"] \in {"gone", "start"} /\ stage'["gnss"] = "none"
      BY <2>1, <2>2 DEF TaskDeleted, Goto
    <3> QED
      BY <3>1, ForgetsAsking
  <2>3. CASE s # "gnss"
    <3>1. UNCHANGED gnssVars /\ at'["gnss"] = at["gnss"] /\ stage'["gnss"] = stage["gnss"]
      BY <2>1, <2>3 DEF TaskDeleted, Goto
    <3> QED
      BY <1>1, <3>1 DEF GnssElsewhere
  <2> QED
    BY <2>2, <2>3
<1>5. ASSUME NEW ok \in BOOLEAN, TempRead(ok) \/ GyroscopeRead(ok)
      PROVE  GnssElsewhere
  BY <1>5 DEF TempRead, GyroscopeRead, GiveBus, At, HandOver, Goto, gnssVars, GnssElsewhere
<1>6. ASSUME AccelerometerRead \/ AccelerometerFails
      PROVE  GnssElsewhere
  BY <1>6 DEF AccelerometerRead, AccelerometerFails, GiveBus, At, HandOver, Goto, GotoTransfer,
              gnssVars, GnssElsewhere
<1>7. ASSUME GnssSamples \/ AskForFix \/ GnssGivesUp
      PROVE  RetryInv'
  <2>1. CASE GnssSamples
    BY <2>1 DEF GnssSamples, At, Goto, gnssVars
  <2>2. CASE AskForFix
    BY <2>2 DEF AskForFix, At, GotoTransfer, gnssVars
  <2>3. CASE GnssGivesUp
    <3>1. /\ fixRetry' = 0 /\ dataRetry' = dataRetry /\ asked' = FALSE
          /\ at'["gnss"] = "delay" /\ stage'["gnss"] = "none"
      BY <2>3 DEF GnssGivesUp, At, Goto
    <3> QED
      BY <3>1, ForgetsAsking
  <2> QED
    BY <1>7, <2>1, <2>2, <2>3
<1>8. ASSUME FixFound
      PROVE  RetryInv'
  BY <1>8 DEF FixFound, GiveBus, At, GotoTransfer, gnssVars
<1>9. ASSUME NoFix
      PROVE  RetryInv'
  BY <1>9 DEF NoFix, GiveBus, At, Goto
<1>10. ASSUME PositionRead
       PROVE  RetryInv'
  <2>1. /\ fixRetry' = fixRetry /\ dataRetry' = 0 /\ asked' = FALSE
        /\ at["gnss"] = "give" /\ at'["gnss"] \in {"queue", "delay"}
        /\ stage'["gnss"] = "none"
    BY <1>10 DEF PositionRead, HandOver, GiveBus, At, Goto
  <2> QED
    BY <2>1, ForgetsAsking
<1>11. ASSUME NoPosition
       PROVE  RetryInv'
  BY <1>11 DEF NoPosition, GiveBus, At, Goto, GotoTransfer
<1>12. ASSUME RecoveryLooks \/ RecoveryWoken \/ JsonTakesReading \/ UNCHANGED vars
       PROVE  GnssElsewhere
  BY <1>12 DEF RecoveryLooks, RecoveryWoken, JsonTakesReading, vars, taskVars, gnssVars,
               GnssElsewhere
<1> QED
  BY <1>1, <1>2, <1>3, <1>4, <1>5, <1>6, <1>7, <1>8, <1>9, <1>10, <1>11, <1>12, StepOf

\* The only way from the loop back to the delay is to give up, ...
LEMMA OnlyGivingUpDiscards ==
  ASSUME TaskTypes, [Next]_vars, at["gnss"] = "fixLoop", at'["gnss"] = "delay"
  PROVE  GnssGivesUp
<1> USE DEF TaskTypes, Sensors
<1>1. ASSUME NEW s \in Sensors,
             \/ Start(s) \/ Samples(s) \/ TakeQueueMutex(s) \/ SendReading(s)
             \/ ProbeContinues(s) \/ ProbeEnds(s) \/ Probed(s) \/ ProbeFails(s)
             \/ TakeBus(s) \/ StartTimer(s) \/ TransferReturns(s) \/ TimerExpires(s)
      PROVE  FALSE
  BY <1>1 DEF Start, Samples, TakeQueueMutex, SendReading, ProbeContinues, ProbeEnds, Probed,
              ProbeFails, TimerExpires, TakeBus, StartTimer, TransferReturns, GiveBus, At,
              Goto, GotoTransfer, taskVars
<1>2. ASSUME NEW s \in Sensors, DeleteTask(s) \/ RecreateTask(s)
      PROVE  FALSE
  BY <1>2 DEF DeleteTask, RecreateTask, TaskDeleted, Goto
<1>3. ASSUME NEW ok \in BOOLEAN, TempRead(ok) \/ GyroscopeRead(ok)
      PROVE  FALSE
  BY <1>3 DEF TempRead, GyroscopeRead, GiveBus, At, HandOver, Goto
<1>4. ASSUME \/ AccelerometerRead \/ AccelerometerFails
             \/ GnssSamples \/ AskForFix \/ FixFound \/ NoFix \/ PositionRead \/ NoPosition
      PROVE  FALSE
  <2>1. CASE AccelerometerRead \/ AccelerometerFails
    BY <2>1 DEF AccelerometerRead, AccelerometerFails, HandOver, GiveBus, At, Goto, GotoTransfer
  <2>2. CASE GnssSamples \/ AskForFix
    BY <2>2 DEF GnssSamples, AskForFix, At, Goto, GotoTransfer
  <2>3. CASE FixFound \/ NoFix \/ PositionRead \/ NoPosition
    BY <2>3 DEF FixFound, NoFix, PositionRead, NoPosition, GiveBus, At
  <2> QED
    BY <1>4, <2>1, <2>2, <2>3
<1>5. ASSUME RecoveryLooks \/ RecoveryWoken \/ JsonTakesReading \/ UNCHANGED vars
      PROVE  FALSE
  BY <1>5 DEF RecoveryLooks, RecoveryWoken, JsonTakesReading, vars, taskVars
<1> QED
  BY <1>1, <1>2, <1>3, <1>4, <1>5, StepOf

\* ... so no reading is discarded without the receiver having been asked for it.
THEOREM DiscardsOnlyAfterTry == Spec => NoDiscardWithoutTry
<1>1. Init => RetryInv
  BY BusAssumption DEF Init, RetryInv, Sensors
<1>2. BusInv /\ RetryInv /\ [Next]_vars => RetryInv'
  BY RetryStep DEF BusInv, BusTypes
<1>3. BusInv /\ RetryInv /\ [Next]_vars
        => [at["gnss"] = "fixLoop" /\ at'["gnss"] = "delay" => asked]_vars
  <2> SUFFICES ASSUME BusInv, RetryInv, [Next]_vars,
                      at["gnss"] = "fixLoop", at'["gnss"] = "delay"
               PROVE  asked
    OBVIOUS
  <2>1. GnssGivesUp
    BY OnlyGivingUpDiscards DEF BusInv, BusTypes
  <2> QED
    BY <2>1 DEF GnssGivesUp, RetryInv
<1> QED
  BY <1>1, <1>2, <1>3, InitBus, BusStep, PTL DEF Spec, NoDiscardWithoutTry

-----------------------------------------------------------------------------
(* Types                                                                     *)

OtherTypes ==
  /\ probeStatus \in [Sensors -> Status]
  /\ retryCnt \in [Sensors -> 0..(MaxRetry - 1)]
  /\ available \in [Sensors -> BOOLEAN]
  /\ queueMutex \in Sensors \cup {"free", "lost"}
  /\ handed = <<>> \/ \E r \in Reading : handed = <<r>>
  /\ recovery \in {"asleep", "ready", "away", "stopped"}
  /\ asked \in BOOLEAN
  /\ ranOn \in BOOLEAN

\* What a step may do to the variables of OtherTypes, each by itself.
WellTyped ==
  /\ \/ probeStatus' = probeStatus
     \/ \E s \in Sensors, v \in Status : probeStatus' = [probeStatus EXCEPT ![s] = v]
  /\ \/ retryCnt' = retryCnt
     \/ \E s \in Sensors, v \in 0..(MaxRetry - 1) : retryCnt' = [retryCnt EXCEPT ![s] = v]
  /\ \/ available' = available
     \/ \E s \in Sensors, v \in BOOLEAN : available' = [available EXCEPT ![s] = v]
  /\ queueMutex' = queueMutex \/ queueMutex' \in Sensors \cup {"free", "lost"}
  /\ handed' = handed \/ handed' = <<>> \/ \E r \in Reading : handed' = <<r>>
  /\ recovery' = recovery \/ recovery' \in {"asleep", "ready", "away", "stopped"}
  /\ asked' = asked \/ asked' \in BOOLEAN
  /\ ranOn' = ranOn \/ ranOn' \in BOOLEAN

\* ... keeps the types.
LEMMA OtherTypesStep ==
  ASSUME OtherTypes, WellTyped
  PROVE  OtherTypes'
<1>1. probeStatus' \in [Sensors -> Status]
  BY DEF OtherTypes, WellTyped
<1>2. retryCnt' \in [Sensors -> 0..(MaxRetry - 1)]
  BY DEF OtherTypes, WellTyped
<1>3. available' \in [Sensors -> BOOLEAN]
  BY DEF OtherTypes, WellTyped
<1>4. handed' = <<>> \/ \E r \in Reading : handed' = <<r>>
  BY DEF OtherTypes, WellTyped
<1> QED
  BY <1>1, <1>2, <1>3, <1>4 DEF OtherTypes, WellTyped

\* Deletion is, as far as the status is left out.
LEMMA Deleted ==
  ASSUME NEW s \in Sensors, NEW point \in Points, TaskDeleted(s, point)
  PROVE  /\ available' = [available EXCEPT ![s] = FALSE]
         /\ queueMutex' = queueMutex \/ queueMutex' = "lost"
         /\ asked' = asked \/ asked' = FALSE
         /\ UNCHANGED <<handed, ranOn>>
BY DEF TaskDeleted, gnssVars

\* Every step is well typed.
LEMMA WellTypedStep ==
  ASSUME TaskTypes, OtherTypes, Next
  PROVE  WellTyped
<1> USE DEF OtherTypes, WellTyped, Status
<1>1. ASSUME NEW s \in Sensors, Start(s) \/ Samples(s)
      PROVE  WellTyped
  BY <1>1 DEF Start, Samples, statusVars, gnssVars, handOver, busVars
<1>2. ASSUME NEW s \in Sensors, TakeBus(s)
      PROVE  WellTyped
  BY <1>2 DEF TakeBus, statusVars, gnssVars, handOver
<1>3. ASSUME NEW s \in Sensors,
             StartTimer(s) \/ TransferReturns(s) \/ ProbeContinues(s) \/ ProbeEnds(s)
      PROVE  WellTyped
  BY <1>3 DEF StartTimer, TransferReturns, ProbeContinues, ProbeEnds, GiveBus, statusVars,
              gnssVars, handOver
<1>4. ASSUME NEW s \in Sensors, Probed(s)
      PROVE  WellTyped
  <2>1. 0 \in 0..(MaxRetry - 1)
    BY BusAssumption
  <2> QED
    BY <1>4, <2>1 DEF Probed, gnssVars, handOver, busVars
<1>5. ASSUME NEW s \in Sensors, ProbeFails(s)
      PROVE  WellTyped
  BY <1>5 DEF ProbeFails, ResumeRecovery, gnssVars, handOver, busVars
<1>6. ASSUME NEW s \in Sensors, TakeQueueMutex(s)
      PROVE  WellTyped
  BY <1>6 DEF TakeQueueMutex, statusVars, gnssVars, busVars
<1>7. ASSUME NEW s \in Sensors, SendReading(s)
      PROVE  WellTyped
  <2>1. [sensor |-> s, available |-> available[s]] \in Reading
    BY DEF Reading
  <2> QED
    BY <1>7, <2>1 DEF SendReading, statusVars, gnssVars, busVars
<1>8. ASSUME NEW s \in Sensors, TimerExpires(s)
      PROVE  WellTyped
  BY <1>8 DEF TimerExpires, ResumeRecovery, taskVars, gnssVars, handOver
<1>9. ASSUME NEW s \in Sensors, DeleteTask(s)
      PROVE  WellTyped
  BY <1>9, Deleted DEF DeleteTask, Points
<1>10. ASSUME NEW s \in Sensors, RecreateTask(s)
       PROVE  WellTyped
  <2>1. /\ retryCnt[s] \in 0..(MaxRetry - 1) /\ 0 \in 0..(MaxRetry - 1)
        /\ retryCnt[s] + 1 # MaxRetry => retryCnt[s] + 1 \in 0..(MaxRetry - 1)
    BY BusAssumption
  <2> QED
    BY <1>10, <2>1, Deleted DEF RecreateTask, Points
<1>11. ASSUME NEW ok \in BOOLEAN, TempRead(ok) \/ GyroscopeRead(ok)
       PROVE  WellTyped
  BY <1>11 DEF TempRead, GyroscopeRead, GiveBus, HandOver, statusVars, gnssVars, handOver,
               Sensors
<1>12. ASSUME AccelerometerRead \/ AccelerometerFails
       PROVE  WellTyped
  BY <1>12 DEF AccelerometerRead, AccelerometerFails, GiveBus, HandOver, statusVars, gnssVars,
               handOver, Sensors
<1>13. ASSUME GnssSamples \/ AskForFix \/ GnssGivesUp
       PROVE  WellTyped
  BY <1>13 DEF GnssSamples, AskForFix, GnssGivesUp, statusVars, gnssVars, handOver, busVars,
               Sensors
<1>14. ASSUME FixFound \/ NoFix
       PROVE  WellTyped
  BY <1>14 DEF FixFound, NoFix, GiveBus, statusVars, gnssVars, handOver
<1>15. ASSUME PositionRead
       PROVE  WellTyped
  BY <1>15 DEF PositionRead, HandOver, GiveBus, statusVars, handOver, Sensors
<1>16. ASSUME NoPosition
       PROVE  WellTyped
  BY <1>16 DEF NoPosition, GiveBus, statusVars, handOver
<1>17. ASSUME RecoveryLooks \/ RecoveryWoken \/ JsonTakesReading
       PROVE  WellTyped
  BY <1>17 DEF RecoveryLooks, RecoveryWoken, JsonTakesReading, taskVars, statusVars, gnssVars,
               handOver, busVars
<1> QED
  BY <1>1, <1>2, <1>3, <1>4, <1>5, <1>6, <1>7, <1>8, <1>9, <1>10, <1>11, <1>12, <1>13,
     <1>14, <1>15, <1>16, <1>17, StepOf

\* Types, and the bounds of the retry counters, for all numbers of retries.
THEOREM TypesCorrect == Spec => []TypeOK
<1>1. ASSUME Init
      PROVE  OtherTypes /\ RetryInv
  <2>1. 0 \in 0..(MaxRetry - 1)
    BY BusAssumption
  <2>2. OtherTypes
    BY <1>1, <2>1 DEF Init, OtherTypes, Status
  <2>3. RetryInv
    BY <1>1, BusAssumption DEF Init, RetryInv, Sensors
  <2> QED
    BY <2>2, <2>3
<1>2. BusInv /\ OtherTypes /\ [Next]_vars => OtherTypes'
  <2>1. CASE UNCHANGED vars
    BY <2>1 DEF OtherTypes, vars, taskVars, statusVars, gnssVars, handOver
  <2> QED
    BY <2>1, WellTypedStep, OtherTypesStep DEF BusInv, BusTypes
<1>3. BusInv /\ RetryInv /\ [Next]_vars => RetryInv'
  BY RetryStep DEF BusInv, BusTypes
<1>4. BusInv /\ OtherTypes /\ RetryInv => TypeOK
  BY DEF BusInv, BusTypes, TaskTypes, OtherTypes, RetryInv, TypeOK
<1> QED
  BY <1>1, <1>2, <1>3, <1>4, InitBus, BusStep, PTL DEF Spec
-----------------------------------------------------------------------------
(* The messages                                                              *)

\* The readings a sensor task hands over are those the converter has a message for.
LEMMA AllFramed ==
  ASSUME TypeOK
  PROVE  ToFrame \subseteq Messages
<1>1. ASSUME NEW i \in DOMAIN handed, NEW wide \in BOOLEAN
      PROVE  [type |-> handed[i].sensor, available |-> handed[i].available, wide |-> wide]
               \in Messages
  <2>1. PICK r \in Reading : handed = <<r>>
    BY <1>1 DEF TypeOK
  <2>2. handed[i] = r
    BY <2>1
  <2>3. r.sensor \in {"temp", "imu", "gnss"} /\ r.available \in BOOLEAN
    BY DEF Reading, Sensors
  <2> QED
    BY <2>2, <2>3 DEF Messages, SensorMessages
<1> QED
  BY <1>1 DEF ToFrame, Messages

\* Each message that is queued is one complete JSON text within its buffer, made with
\* calls the writer allows, whatever the sizes the firmware is built with.
THEOREM AlwaysJson == Spec => []MessagesAreJson
<1>1. TypeOK => MessagesAreJson
  BY AllFramed, MessagesWellFramed DEF MessagesAreJson
<1> QED
  BY <1>1, TypesCorrect, PTL

\* With the buffer, the numbers and the nesting of the firmware, and any names, a message
\* is given up for lack of room only for the length of its network's name.
THEOREM OthersNeverGivenUp == FirmwareSizes => (Spec => []GivenUpOnlyForLongName)
<1> SUFFICES ASSUME FirmwareSizes
             PROVE  Spec => []GivenUpOnlyForLongName
  OBVIOUS
<1>1. TypeOK => GivenUpOnlyForLongName
  <2> SUFFICES ASSUME TypeOK, NEW m \in ToFrame \cap Abandoned
               PROVE  m.type = "wifi" /\ EscapedLength(m.ssid) > RoomForName
    BY DEF GivenUpOnlyForLongName
  <2>1. m \in Messages
    BY AllFramed
  <2>2. ~Excess(m, 0)
    BY <2>1, MessagesWellFramed
  <2>3. m.type = "wifi" /\ ~(EscapedLength(m.ssid) <= RoomForName + 0)
    BY <2>2 DEF Excess
  <2>4. EscapedLength(m.ssid) \in Nat
    BY <2>1, <2>3, MessagesAssumption DEF Messages, SensorMessages, OwnMessages, EscapedLength
  <2> QED
    BY <2>3, <2>4 DEF RoomForName
<1> QED
  BY <1>1, TypesCorrect, PTL
==============================================================================
