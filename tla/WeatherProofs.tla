---------------------------- MODULE WeatherProofs ----------------------------
(***************************************************************************)
(* Theorems about WeatherUpdate, for any number of updates and faults, and  *)
(* for answers in any number of pieces.                                     *)
(***************************************************************************)
EXTENDS WeatherUpdate, TLAPS, FiniteSetTheorems

-----------------------------------------------------------------------------
(* The inductive invariant                                                  *)

HttpWaits == {"weatherWait", "aqiWait"}
SntpWaits == {"startWait", "dateWait", "stopWait"}
Points == {"wifi", "weather", "weatherWait", "weatherParse", "aqi", "aqiWait", "aqiParse",
           "start", "startWait", "date", "dateWait", "parse", "set", "stop", "stopWait",
           "disconnect", "clear", "sleep"}

\* Types, and that weather is asked for first: the last request is for weather
\* exactly until the one for air quality is sent.
TypeInv ==
  /\ at \in Points
  /\ SntpTypeOK
  /\ round \in Nat /\ requests \in Nat /\ bufferIndex \in Nat
  /\ begun \in BOOLEAN /\ spoilt \in BOOLEAN
  /\ disturbed \in BOOLEAN /\ calendarSet \in BOOLEAN
  /\ httpPending \in Seq(0 .. Pieces) /\ Len(httpPending) = requests
  /\ rspReceived \in {"await", "success", "failure"}
  /\ appBuffer \in [0 .. Places - 1 -> [req : Nat, part : Nat]]
  /\ IsWeather(requests) <=> at \in {"weatherWait", "weatherParse", "aqi"}
  /\ at \in {"weatherWait", "weatherParse", "aqiWait", "aqiParse"} => requests > 0

\* The first pieces of the last answer are in their places.
Holds(pieces) ==
  \A i \in 1 .. pieces : appBuffer[i - 1] = [req |-> requests, part |-> i]

\* The answer that is waited for is the only one that can still come, and comes
\* into an empty buffer.
ServedInv ==
  Untroubled =>
    /\ rspReceived # "failure"
    /\ \A n \in 1 .. requests :
         n < requests \/ at \notin HttpWaits => httpPending[n] = Pieces
    /\ at \notin HttpWaits => rspReceived = "await" /\ bufferIndex = 0
    /\ at \in HttpWaits =>
         /\ begun
         /\ Holds(httpPending[requests])
         /\ IF httpPending[requests] < Pieces
            THEN bufferIndex = httpPending[requests] /\ rspReceived = "await"
            ELSE bufferIndex = 0 /\ rspReceived = "success"
    /\ at \in {"weatherParse", "aqiParse"} /\ begun => Holds(Pieces)

\* The event of a request is the one that is waited for, or has come and been
\* taken for its own: no two of one kind follow each other.
EventInv ==
  Untroubled =>
    /\ at \notin SntpWaits => sntpPending = {}
    /\ at = "startWait" => \/ sntpPending = {"start"} /\ callbackEvent \in {"none", "stop"}
                           \/ sntpPending = {} /\ callbackEvent = "start"
    /\ at = "dateWait" => \/ sntpPending = {"date"} /\ callbackEvent = "start"
                          \/ sntpPending = {} /\ callbackEvent = "date"
    /\ at = "stopWait" => \/ sntpPending = {"stop"} /\ callbackEvent = "date"
                          \/ sntpPending = {} /\ callbackEvent = "stop"
    /\ at = "date" => callbackEvent = "start"
    /\ at \in {"parse", "set", "stop"} => callbackEvent = "date"
    /\ at \notin SntpWaits \cup {"date", "parse", "set", "stop"} =>
         callbackEvent \in {"none", "stop"}

\* Where the date of this update is.
DateInv ==
  /\ dateGiven <= round
  /\ Untroubled /\ dateGiven = round =>
       /\ at \in {"dateWait", "parse", "set", "stop", "stopWait", "disconnect",
                  "clear", "sleep"}
       /\ at \in {"dateWait", "parse"} => appBuffer[0] = Date(round)
       /\ at = "set" /\ ~disturbed => datetime = Converted(round, date)
       /\ at = "stop" /\ ~disturbed /\ calendarSet => calendar = Converted(round, date)

Inv == TypeInv /\ ServedInv /\ EventInv /\ DateInv /\ ShowsOwnAnswer

-----------------------------------------------------------------------------
(* The steps                                                                *)

\* Where the thread waits for what.
LEMMA WaitingPoints ==
  /\ Waiting("weather") = "weatherWait" /\ Waiting("aqi") = "aqiWait"
  /\ Waiting("start") = "startWait" /\ Waiting("date") = "dateWait"
  /\ Waiting("stop") = "stopWait"
  /\ Parsing("weather") = "weatherParse" /\ Parsing("aqi") = "aqiParse"
BY DEF Waiting, Parsing

\* Numbers of one kind alternate with those of the other.
LEMMA Alternate ==
  ASSUME NEW n \in Nat
  PROVE  IsWeather(n + 1) <=> ~IsWeather(n)
BY DEF IsWeather

\* The last element of a sequence of answers.
LEMMA Pended ==
  ASSUME NEW q \in Seq(0 .. Pieces), NEW p \in 0 .. Pieces
  PROVE  /\ Append(q, p) \in Seq(0 .. Pieces)
         /\ Len(Append(q, p)) = Len(q) + 1
         /\ Append(q, p)[Len(q) + 1] = p
         /\ \A n \in 1 .. Len(q) : Append(q, p)[n] = q[n]
OBVIOUS

\* A new state of one of them.
LEMMA Advanced ==
  ASSUME NEW q \in Seq(0 .. Pieces), NEW p \in 0 .. Pieces, NEW n \in 1 .. Len(q)
  PROVE  /\ [q EXCEPT ![n] = p] \in Seq(0 .. Pieces)
         /\ Len([q EXCEPT ![n] = p]) = Len(q)
         /\ [q EXCEPT ![n] = p][n] = p
         /\ \A m \in 1 .. Len(q) : m # n => [q EXCEPT ![n] = p][m] = q[m]
OBVIOUS

\* The number of an answer.
LEMMA InSequence ==
  ASSUME NEW S, NEW q \in Seq(S), NEW n \in DOMAIN q
  PROVE  n \in 1 .. Len(q) /\ q[n] \in S
OBVIOUS

\* A place of the buffer is written.
LEMMA Written ==
  ASSUME NEW b \in [0 .. Places - 1 -> [req : Nat, part : Nat]],
         NEW e \in [req : Nat, part : Nat], NEW i \in 0 .. Places - 1
  PROVE  /\ [b EXCEPT ![i] = e] \in [0 .. Places - 1 -> [req : Nat, part : Nat]]
         /\ [b EXCEPT ![i] = e][i] = e
         /\ \A j \in 0 .. Places - 1 : j # i => [b EXCEPT ![i] = e][j] = b[j]
OBVIOUS

\* The buffer is cleared.
LEMMA Cleared == EmptyBuffer \in [0 .. Places - 1 -> [req : Nat, part : Nat]]
BY DEF EmptyBuffer, Nothing

\* Wi-Fi, the timer and the flag: only the place of the thread changes, and
\* with it the number of the update.
LEMMA ThreadInv ==
  ASSUME Inv,
         WakeUp \/ ClearFlag \/ Tick \/ \E ok \in BOOLEAN : ConnectWifi(ok) \/ Disconnect(ok)
  PROVE  Inv'
<1>. USE DEF Inv, TypeInv, SntpTypeOK, Points, HttpWaits, SntpWaits, Untroubled,
             httpVars, shownVars, clockVars, sntpVars
<1>1. CASE WakeUp
  BY <1>1 DEF WakeUp, ServedInv, EventInv, DateInv, ShowsOwnAnswer, Holds
<1>2. CASE ClearFlag
  BY <1>2 DEF ClearFlag, ServedInv, EventInv, DateInv, ShowsOwnAnswer, Holds
<1>3. CASE Tick
  BY <1>3 DEF Tick, ServedInv, EventInv, DateInv, ShowsOwnAnswer, Holds
<1>4. ASSUME NEW ok \in BOOLEAN, ConnectWifi(ok) PROVE Inv'
  BY <1>4 DEF ConnectWifi, ServedInv, EventInv, DateInv, ShowsOwnAnswer, Holds
<1>5. ASSUME NEW ok \in BOOLEAN, Disconnect(ok) PROVE Inv'
  BY <1>5 DEF Disconnect, ServedInv, EventInv, DateInv, ShowsOwnAnswer, Holds
<1>q. QED  BY <1>1, <1>2, <1>3, <1>4, <1>5

\* A request goes out with nothing else on its way.
LEMMA RequestInv ==
  ASSUME Inv, NEW kind \in {"weather", "aqi"}, NEW accepted \in BOOLEAN,
         SendRequest(kind, accepted)
  PROVE  Inv'
<1>. USE WeatherAssumption
<1>1. /\ at = kind /\ requests' = requests + 1 /\ begun' = accepted
      /\ at' = IF accepted THEN Waiting(kind) ELSE Parsing(kind)
      /\ httpPending' = Append(httpPending, IF accepted THEN 0 ELSE Pieces)
      /\ appBuffer' = EmptyBuffer
      /\ UNCHANGED <<threadVars, rspReceived, bufferIndex, spoilt, shownVars,
                     clockVars, sntpVars>>
  BY DEF SendRequest
<1>2. at' \in IF kind = "weather" THEN {"weatherWait", "weatherParse"}
              ELSE {"aqiWait", "aqiParse"}
  BY <1>1, WaitingPoints
<1>3. at' \in HttpWaits <=> accepted
  BY <1>1, WaitingPoints DEF HttpWaits
<1>4. /\ httpPending' \in Seq(0 .. Pieces)
      /\ Len(httpPending') = requests'
      /\ httpPending'[requests'] = IF accepted THEN 0 ELSE Pieces
      /\ \A n \in 1 .. requests : httpPending'[n] = httpPending[n]
  <2>1. /\ httpPending \in Seq(0 .. Pieces) /\ Len(httpPending) = requests
        /\ (IF accepted THEN 0 ELSE Pieces) \in 0 .. Pieces
        /\ requests \in Nat
    BY DEF Inv, TypeInv
  <2>q. QED  BY <1>1, <2>1, Pended
<1>5. TypeInv'
  <2>1. IsWeather(requests') <=> kind = "weather"
    BY <1>1, Alternate DEF Inv, TypeInv
  <2>2. IsWeather(requests') <=> at' \in {"weatherWait", "weatherParse", "aqi"}
    BY <1>2, <2>1
  <2>3. at' \in Points
    BY <1>2 DEF Points
  <2>4. appBuffer' \in [0 .. Places - 1 -> [req : Nat, part : Nat]]
    BY <1>1, Cleared
  <2>5. SntpTypeOK'
    BY <1>1 DEF Inv, TypeInv, SntpTypeOK, sntpVars
  <2>6. /\ round' \in Nat /\ requests' \in Nat /\ requests' > 0 /\ bufferIndex' \in Nat
        /\ begun' \in BOOLEAN /\ spoilt' \in BOOLEAN
        /\ disturbed' \in BOOLEAN /\ calendarSet' \in BOOLEAN
        /\ rspReceived' \in {"await", "success", "failure"}
    BY <1>1 DEF Inv, TypeInv, threadVars, clockVars
  <2>q. QED
    BY ONLY <1>4, <2>2, <2>3, <2>4, <2>5, <2>6 DEF TypeInv, IsWeather
<1>6. ServedInv'
  <2>1. Untroubled' => Untroubled
    BY <1>1 DEF Untroubled, sntpVars
  <2>2. Untroubled => \A n \in 1 .. requests : httpPending[n] = Pieces
    BY <1>1 DEF Inv, ServedInv, HttpWaits
  <2>. SUFFICES ASSUME Untroubled' PROVE ServedInv'
    BY DEF ServedInv
  <2>3. /\ rspReceived' = "await" /\ bufferIndex' = 0
        /\ requests' > 0 /\ requests \in Nat
    BY <1>1, <2>1 DEF Inv, TypeInv, ServedInv, HttpWaits
  <2>4. \A n \in 1 .. requests' :
          n < requests' \/ at' \notin HttpWaits => httpPending'[n] = Pieces
    BY <1>1, <1>3, <1>4, <2>1, <2>2, <2>3
  <2>5. at' \in HttpWaits => httpPending'[requests'] = 0 /\ begun'
    BY <1>1, <1>3, <1>4
  <2>6. at' \in {"weatherParse", "aqiParse"} => ~begun'
    BY <1>1, <1>2, <1>3 DEF HttpWaits
  <2>q. QED  BY <2>3, <2>4, <2>5, <2>6 DEF ServedInv, Holds
<1>7. EventInv' /\ DateInv' /\ ShowsOwnAnswer'
  BY <1>1, <1>2
  DEF Inv, TypeInv, EventInv, DateInv, ShowsOwnAnswer, Untroubled, threadVars, sntpVars,
      clockVars, SntpWaits
<1>q. QED  BY <1>5, <1>6, <1>7 DEF Inv

\* The wait for an answer ends when the answer is whole.
LEMMA AnswerInv ==
  ASSUME Inv, NEW kind \in {"weather", "aqi"}, EndOfWait(kind)
  PROVE  Inv'
<1>. USE WeatherAssumption
<1>1. /\ at = Waiting(kind) /\ at' = Parsing(kind) /\ rspReceived # "await"
      /\ rspReceived' = IF rspReceived = "success" THEN "await" ELSE rspReceived
      /\ UNCHANGED <<threadVars, requests, begun, httpPending, bufferIndex, spoilt,
                     shownVars, clockVars, sntpVars, appBuffer>>
  BY DEF EndOfWait
<1>2. \/ at = "weatherWait" /\ at' = "weatherParse"
      \/ at = "aqiWait" /\ at' = "aqiParse"
  BY <1>1, WaitingPoints
<1>3. TypeInv'
  BY <1>1, <1>2
  DEF Inv, TypeInv, SntpTypeOK, Points, IsWeather, threadVars, sntpVars, clockVars
<1>4. ServedInv'
  <2>. SUFFICES ASSUME Untroubled PROVE ServedInv'
    BY <1>1 DEF ServedInv, Untroubled, sntpVars
  <2>1. /\ rspReceived = "success" /\ bufferIndex = 0 /\ begun
        /\ httpPending[requests] >= Pieces /\ Holds(httpPending[requests])
        /\ \A n \in 1 .. requests : n < requests => httpPending[n] = Pieces
    <3>1. httpPending[requests] \in 0 .. Pieces /\ Pieces \in Nat
      <4>1. /\ requests \in DOMAIN httpPending
            /\ httpPending \in Seq(0 .. Pieces)
        BY <1>2 DEF Inv, TypeInv
      <4>q. QED  BY ONLY <4>1, InSequence, WeatherAssumption
    <3>q. QED  BY <1>1, <1>2, <3>1 DEF Inv, TypeInv, ServedInv, HttpWaits
  <2>2. httpPending[requests] = Pieces
    BY <1>2, <2>1 DEF Inv, TypeInv
  <2>q. QED  BY <1>1, <1>2, <2>1, <2>2 DEF Inv, TypeInv, ServedInv, Holds, HttpWaits
<1>5. EventInv' /\ DateInv' /\ ShowsOwnAnswer'
  BY <1>1, <1>2
  DEF Inv, TypeInv, EventInv, DateInv, ShowsOwnAnswer, Untroubled, SntpWaits,
      threadVars, sntpVars, clockVars, shownVars
<1>q. QED  BY <1>3, <1>4, <1>5 DEF Inv

\* A whole answer is the one of the last request.
LEMMA WholeIsLast ==
  ASSUME TypeInv, requests > 0, Holds(Pieces)
  PROVE  WholeAnswer = requests
<1>. USE WeatherAssumption
<1>1. appBuffer[0] = [req |-> requests, part |-> 1]
  BY DEF Holds
<1>2. \E n \in 1 .. requests :
        \A i \in 1 .. Pieces : appBuffer[i - 1] = [req |-> n, part |-> i]
  BY DEF TypeInv, Holds
<1>q. QED  BY <1>1, <1>2 DEF WholeAnswer

\* What is parsed is the whole of the own answer.
LEMMA ParseInv ==
  ASSUME Inv, ParseWeather \/ ParseAqi
  PROVE  Inv'
<1>1. /\ \/ at = "weatherParse" /\ at' = "aqi"
         \/ at = "aqiParse" /\ at' = "start"
      /\ UNCHANGED <<threadVars, httpVars, clockVars, sntpVars, appBuffer>>
  BY WaitingPoints DEF ParseWeather, ParseAqi
<1>2. TypeInv' /\ ServedInv' /\ EventInv' /\ DateInv'
  <2>. USE <1>1 DEF Inv, TypeInv, SntpTypeOK, Untroubled, HttpWaits, SntpWaits,
                    threadVars, httpVars, clockVars, sntpVars
  <2>1. TypeInv'    BY DEF Points
  <2>2. ServedInv'  BY DEF ServedInv, Holds
  <2>3. EventInv'   BY DEF EventInv
  <2>4. DateInv'    BY DEF DateInv
  <2>q. QED  BY <2>1, <2>2, <2>3, <2>4
<1>3. ASSUME Untroubled, begun
      PROVE  WholeAnswer = requests /\ requests > 0
  <2>1. requests > 0 /\ Holds(Pieces)
    BY <1>1, <1>3 DEF Inv, TypeInv, ServedInv
  <2>q. QED  BY <2>1, WholeIsLast DEF Inv
<1>4. ShowsOwnAnswer'
  <2>. SUFFICES ASSUME Untroubled, begun PROVE ShowsOwnAnswer'
    BY <1>1 DEF ShowsOwnAnswer, Untroubled, httpVars, sntpVars
  <2>1. CASE ParseWeather
    <3>1. at = "weatherParse" /\ at' = "aqi" /\ requests' = requests
      BY <2>1, WaitingPoints DEF ParseWeather, httpVars
    <3>2. IsWeather(requests)
      BY <3>1 DEF Inv, TypeInv
    <3>3. weather' = [temp |-> requests, rain |-> requests]
      BY <1>3, <2>1, <3>2 DEF ParseWeather, Inv, TypeInv
    <3>q. QED  BY <3>1, <3>3 DEF ShowsOwnAnswer
  <2>2. CASE ParseAqi
    <3>1. at = "aqiParse" /\ at' = "start" /\ requests' = requests
      BY <2>2, WaitingPoints DEF ParseAqi, httpVars
    <3>2. ~IsWeather(requests)
      BY <3>1 DEF Inv, TypeInv
    <3>3. aqi' = requests
      BY <1>3, <2>2, <3>2 DEF ParseAqi, Inv, TypeInv
    <3>q. QED  BY <3>1, <3>3 DEF ShowsOwnAnswer
  <2>q. QED  BY <2>1, <2>2
<1>q. QED  BY <1>2, <1>4 DEF Inv

\* Without trouble an answer on its way is that of the last request, and the
\* thread waits for it.
LEMMA OnItsWay ==
  ASSUME Inv, Untroubled, NEW n \in DOMAIN httpPending, httpPending[n] < Pieces
  PROVE  n = requests /\ at \in HttpWaits
<1>1. /\ n \in 1 .. requests /\ requests \in Nat
      /\ httpPending[n] \in Nat /\ Pieces \in Nat
  <2>1. /\ httpPending \in Seq(0 .. Pieces) /\ Len(httpPending) = requests
        /\ requests \in Nat /\ Pieces \in Nat
    BY WeatherAssumption DEF Inv, TypeInv
  <2>2. n \in 1 .. Len(httpPending) /\ httpPending[n] \in 0 .. Pieces
    BY <2>1, InSequence
  <2>q. QED  BY ONLY <2>1, <2>2
<1>2. ~(n < requests \/ at \notin HttpWaits)
  BY <1>1 DEF Inv, ServedInv
<1>q. QED  BY <1>1, <1>2

\* What the invariant says of everything the callback leaves alone.
LEMMA CallbackInv ==
  ASSUME Inv, TypeInv', ServedInv',
         UNCHANGED <<at, round, requests, begun, weather, aqi, datetime, calendar,
                     calendarSet, disturbed, sntpVars>>,
         spoilt => spoilt',
         appBuffer'[0] = appBuffer[0] \/ ~Untroubled \/ at \in HttpWaits
  PROVE  Inv'
<1>1. Untroubled' => Untroubled
  BY DEF Untroubled, Inv, TypeInv, sntpVars
<1>2. EventInv'
  BY <1>1 DEF Inv, EventInv, sntpVars
<1>3. DateInv'
  BY <1>1 DEF Inv, DateInv, HttpWaits, sntpVars, Date
<1>4. ShowsOwnAnswer'
  BY <1>1 DEF Inv, ShowsOwnAnswer
<1>q. QED  BY <1>2, <1>3, <1>4 DEF Inv

\* A piece of the answer is put behind those that have come.
LEMMA PieceInv ==
  ASSUME Inv, NEW n \in DOMAIN httpPending, Piece(n)
  PROVE  Inv'
<1>. DEFINE part == httpPending[n] + 1
<1>1. /\ httpPending[n] < Pieces
      /\ httpPending' = [httpPending EXCEPT ![n] = part]
      /\ appBuffer' = IF bufferIndex + 1 < Places
                      THEN [appBuffer EXCEPT ![bufferIndex] = [req |-> n, part |-> part]]
                      ELSE appBuffer
      /\ bufferIndex' = IF part = Pieces THEN 0 ELSE bufferIndex + 1
      /\ rspReceived' = IF part = Pieces THEN "success" ELSE rspReceived
      /\ UNCHANGED <<at, threadVars, requests, begun, spoilt, shownVars,
                     clockVars, sntpVars, faults>>
  BY DEF Piece
<1>2. /\ requests \in Nat /\ bufferIndex \in Nat /\ Pieces \in Nat /\ Places \in Nat
      /\ Pieces > 0 /\ Places > Pieces
      /\ httpPending \in Seq(0 .. Pieces) /\ Len(httpPending) = requests
      /\ n \in 1 .. requests /\ n \in 1 .. Len(httpPending)
      /\ part \in 1 .. Pieces /\ part \in 0 .. Pieces
      /\ appBuffer \in [0 .. Places - 1 -> [req : Nat, part : Nat]]
      /\ [req |-> n, part |-> part] \in [req : Nat, part : Nat]
  <2>1. /\ httpPending \in Seq(0 .. Pieces) /\ Len(httpPending) = requests
        /\ requests \in Nat
        /\ Pieces \in Nat /\ Places \in Nat /\ Pieces > 0 /\ Places > Pieces
    BY WeatherAssumption DEF Inv, TypeInv
  <2>2. n \in 1 .. requests /\ httpPending[n] \in 0 .. Pieces
    BY <2>1, InSequence
  <2>3. n \in Nat /\ part \in 1 .. Pieces /\ part \in 0 .. Pieces /\ part \in Nat
    <3>1. httpPending[n] < Pieces
      BY <1>1
    <3>q. QED  BY ONLY <2>1, <2>2, <3>1
  <2>4. bufferIndex \in Nat /\ appBuffer \in [0 .. Places - 1 -> [req : Nat, part : Nat]]
    BY DEF Inv, TypeInv
  <2>5. [req |-> n, part |-> part] \in [req : Nat, part : Nat]
    BY <2>3
  <2>. HIDE DEF part
  <2>q. QED  BY ONLY <2>1, <2>2, <2>3, <2>4, <2>5
<1>3. /\ httpPending' \in Seq(0 .. Pieces)
      /\ Len(httpPending') = requests
      /\ httpPending'[n] = part
      /\ \A m \in 1 .. requests : m # n => httpPending'[m] = httpPending[m]
  BY <1>1, <1>2, Advanced
<1>4. appBuffer' \in [0 .. Places - 1 -> [req : Nat, part : Nat]]
  <2>1. CASE bufferIndex + 1 < Places
    <3>1. bufferIndex \in 0 .. Places - 1
      BY <1>2, <2>1
    <3>q. QED  BY <1>1, <1>2, <2>1, <3>1, Written
  <2>2. CASE ~(bufferIndex + 1 < Places)
    BY <1>1, <1>2, <2>2
  <2>q. QED  BY <2>1, <2>2
<1>. HIDE DEF part
<1>5. TypeInv'
  <2>1. SntpTypeOK'
    BY <1>1 DEF Inv, TypeInv, SntpTypeOK, sntpVars
  <2>2. /\ at' \in Points /\ round' \in Nat /\ requests' \in Nat
        /\ begun' \in BOOLEAN /\ spoilt' \in BOOLEAN
        /\ disturbed' \in BOOLEAN /\ calendarSet' \in BOOLEAN
    BY <1>1 DEF Inv, TypeInv, threadVars, clockVars
  <2>3. bufferIndex' \in Nat /\ rspReceived' \in {"await", "success", "failure"}
    BY <1>1, <1>2 DEF Inv, TypeInv
  <2>4. /\ IsWeather(requests') <=> at' \in {"weatherWait", "weatherParse", "aqi"}
        /\ at' \in {"weatherWait", "weatherParse", "aqiWait", "aqiParse"} => requests' > 0
    BY <1>1 DEF Inv, TypeInv, IsWeather
  <2>5. Len(httpPending') = requests'
    BY <1>1, <1>3
  <2>q. QED
    BY ONLY <1>3, <1>4, <2>1, <2>2, <2>3, <2>4, <2>5 DEF TypeInv, IsWeather
<1>6. ServedInv'
  <2>. SUFFICES ASSUME Untroubled' PROVE ServedInv'
    BY DEF ServedInv
  <2>1. Untroubled
    BY <1>1 DEF Untroubled, sntpVars
  <2>2. n = requests /\ at \in HttpWaits
    BY <1>1, <2>1, OnItsWay
  <2>3. /\ bufferIndex = part - 1 /\ rspReceived = "await"
        /\ begun /\ Holds(part - 1)
        /\ \A m \in 1 .. requests : m < requests => httpPending[m] = Pieces
    <3>1. /\ bufferIndex = httpPending[n] /\ rspReceived = "await"
          /\ begun /\ Holds(httpPending[n])
          /\ \A m \in 1 .. requests : m < requests => httpPending[m] = Pieces
      BY <1>1, <2>1, <2>2 DEF Inv, ServedInv
    <3>2. part - 1 = httpPending[n]
      BY <1>2, <3>1 DEF part, Inv, TypeInv
    <3>q. QED  BY <3>1, <3>2
  <2>4. bufferIndex \in 0 .. Places - 1 /\ bufferIndex + 1 < Places /\ part = bufferIndex + 1
    <3>1. /\ part \in 1 .. Pieces /\ Pieces \in Nat /\ Places \in Nat /\ Places > Pieces
          /\ bufferIndex = part - 1
      BY <1>2, <2>3
    <3>q. QED  BY <3>1
  <2>5. /\ appBuffer'[bufferIndex] = [req |-> n, part |-> part]
        /\ \A j \in 0 .. Places - 1 : j # bufferIndex => appBuffer'[j] = appBuffer[j]
    BY <1>1, <1>2, <2>4, Written
  <2>6. \A i \in 1 .. part : appBuffer'[i - 1] = [req |-> requests, part |-> i]
    <3>. SUFFICES ASSUME NEW i \in 1 .. part
                  PROVE  appBuffer'[i - 1] = [req |-> requests, part |-> i]
      OBVIOUS
    <3>1. CASE i = part
      BY <1>2, <2>2, <2>4, <2>5, <3>1
    <3>2. CASE i # part
      <4>1. /\ i \in 1 .. part - 1
            /\ i - 1 \in 0 .. Places - 1 /\ i - 1 # bufferIndex
        <5>1. /\ part \in 1 .. Pieces /\ Pieces \in Nat /\ Places \in Nat
              /\ Places > Pieces /\ bufferIndex = part - 1
          BY <1>2, <2>3
        <5>q. QED  BY <3>2, <5>1
      <4>2. appBuffer[i - 1] = [req |-> requests, part |-> i]
        BY <2>3, <4>1 DEF Holds
      <4>q. QED  BY <2>5, <4>1, <4>2
    <3>q. QED  BY <3>1, <3>2
  <2>7. requests' = requests /\ at' = at /\ begun' = begun
    BY <1>1
  <2>8. httpPending'[requests'] = part /\ requests' > 0
    BY <1>2, <1>3, <2>2, <2>7
  <2>9. Holds(httpPending[requests])'
    BY <2>6, <2>7, <2>8 DEF Holds
  <2>10. IF part < Pieces THEN bufferIndex' = part /\ rspReceived' = "await"
         ELSE bufferIndex' = 0 /\ rspReceived' = "success"
    BY <1>1, <1>2, <2>3, <2>4
  <2>11. \A m \in 1 .. requests' :
           m < requests' \/ at' \notin HttpWaits => httpPending'[m] = Pieces
    <3>1. requests \in Nat /\ n = requests /\ at' \in HttpWaits
      BY <1>2, <2>2, <2>7
    <3>q. QED  BY <1>3, <2>3, <2>7, <3>1
  <2>12. rspReceived' # "failure" /\ at' \in HttpWaits /\ begun'
    BY <2>2, <2>3, <2>7, <2>10
  <2>q. QED  BY <2>8, <2>9, <2>10, <2>11, <2>12 DEF ServedInv, HttpWaits
<1>7. appBuffer'[0] = appBuffer[0] \/ ~Untroubled \/ at \in HttpWaits
  BY <1>1, OnItsWay
<1>q. QED
  BY <1>1, <1>5, <1>6, <1>7, CallbackInv DEF threadVars, shownVars, clockVars

\* An answer that fails makes trouble; one that is dropped was not waited for.
LEMMA AnswerLost ==
  ASSUME Inv, NEW n \in DOMAIN httpPending, FailedPiece(n) \/ DropLate(n)
  PROVE  Inv'
<1>1. /\ httpPending[n] < Pieces
      /\ httpPending' = [httpPending EXCEPT ![n] = Pieces]
      /\ \/ spoilt' = TRUE /\ rspReceived' = "failure"
         \/ UNCHANGED <<spoilt, rspReceived>>
            /\ (n < requests \/ at \notin HttpWaits)
      /\ UNCHANGED <<at, threadVars, requests, begun, bufferIndex, shownVars,
                     clockVars, sntpVars, appBuffer>>
  BY WaitingPoints DEF FailedPiece, DropLate, HttpWaits
<1>2. /\ httpPending \in Seq(0 .. Pieces) /\ Len(httpPending) = requests
      /\ n \in 1 .. requests /\ n \in 1 .. Len(httpPending)
      /\ Pieces \in 0 .. Pieces
  <2>1. httpPending \in Seq(0 .. Pieces) /\ Len(httpPending) = requests
    BY DEF Inv, TypeInv
  <2>q. QED  BY <2>1, InSequence, WeatherAssumption
<1>3. /\ httpPending' \in Seq(0 .. Pieces)
      /\ Len(httpPending') = requests
  BY <1>1, <1>2, Advanced
<1>4. TypeInv'
  BY <1>1, <1>3
  DEF Inv, TypeInv, SntpTypeOK, IsWeather, threadVars, clockVars, sntpVars
<1>5. Untroubled' => FALSE
  <2>. SUFFICES ASSUME Untroubled' PROVE FALSE
    OBVIOUS
  <2>1. Untroubled /\ (n < requests \/ at \notin HttpWaits)
    BY <1>1 DEF Untroubled, sntpVars
  <2>2. n = requests /\ at \in HttpWaits
    BY <1>1, <2>1, OnItsWay
  <2>q. QED  BY <2>1, <2>2 DEF Inv, TypeInv
<1>6. ServedInv'
  BY <1>5 DEF ServedInv
<1>q. QED
  BY <1>1, <1>4, <1>6, CallbackInv DEF threadVars, shownVars, clockVars

\* A request to SNTP leaves what is shown alone; a refused one makes trouble.
LEMMA AskInv ==
  ASSUME Inv, NEW kind \in SntpRequests, NEW accepted \in BOOLEAN,
         AskSntp(kind, accepted)
  PROVE  Inv'
<1>. USE WeatherAssumption
<1>1. /\ at = kind
      /\ sntpPending' = IF accepted THEN sntpPending \cup {kind} ELSE sntpPending
      /\ sntpTrouble' = (sntpTrouble \/ ~accepted)
      /\ UNCHANGED <<callbackEvent, dateGiven, date>>
      /\ appBuffer' = IF kind = "start" THEN EmptyBuffer ELSE appBuffer
      /\ at' = IF accepted THEN Waiting(kind) ELSE After(kind)
      /\ UNCHANGED <<threadVars, httpVars, shownVars, clockVars>>
  BY DEF AskSntp, SntpAsk
<1>2. \/ kind = "start" /\ at' = IF accepted THEN "startWait" ELSE "date"
      \/ kind = "date" /\ at' = IF accepted THEN "dateWait" ELSE "parse"
      \/ kind = "stop" /\ at' \in IF accepted THEN {"stopWait"} ELSE {"disconnect", "clear"}
  BY <1>1, WaitingPoints DEF SntpRequests, After
<1>3. TypeInv'
  BY <1>1, <1>2, Cleared
  DEF Inv, TypeInv, SntpTypeOK, SntpRequests, IsWeather, Points, threadVars, httpVars, clockVars
<1>4. Untroubled' => Untroubled /\ accepted
  BY <1>1 DEF Untroubled, httpVars, Inv, TypeInv, SntpTypeOK
<1>5. ServedInv'
  BY <1>1, <1>2, <1>4 DEF Inv, ServedInv, HttpWaits, httpVars
<1>6. EventInv'
  BY <1>1, <1>2, <1>4 DEF Inv, EventInv, SntpWaits
<1>7. DateInv' /\ ShowsOwnAnswer'
  BY <1>1, <1>2, <1>4
  DEF Inv, TypeInv, DateInv, ShowsOwnAnswer, threadVars, httpVars, shownVars, clockVars
<1>q. QED  BY <1>3, <1>5, <1>6, <1>7 DEF Inv

\* A wait for SNTP ends with its own event, or makes trouble.
LEMMA AskedInv ==
  ASSUME Inv, NEW kind \in SntpRequests, EndOfSntpWait(kind)
  PROVE  Inv'
<1>1. /\ at = Waiting(kind) /\ at' = After(kind)
      /\ \/ callbackEvent = kind /\ UNCHANGED sntpTrouble
         \/ sntpTrouble' = TRUE
      /\ UNCHANGED <<callbackEvent, sntpPending, dateGiven, date>>
      /\ UNCHANGED <<threadVars, httpVars, shownVars, clockVars, appBuffer>>
  BY DEF EndOfSntpWait, SntpAnswered, SntpTimeout, sntpVars
<1>2. \/ kind = "start" /\ at = "startWait" /\ at' = "date"
      \/ kind = "date" /\ at = "dateWait" /\ at' = "parse"
      \/ kind = "stop" /\ at = "stopWait" /\ at' \in {"disconnect", "clear"}
  BY <1>1, WaitingPoints DEF SntpRequests, After
<1>3. TypeInv'
  BY <1>1, <1>2
  DEF Inv, TypeInv, SntpTypeOK, IsWeather, Points, threadVars, httpVars, clockVars
<1>4. Untroubled' => Untroubled /\ callbackEvent = kind
  BY <1>1 DEF Untroubled, httpVars, Inv, TypeInv, SntpTypeOK
<1>5. ServedInv'
  BY <1>1, <1>2, <1>4 DEF Inv, ServedInv, Holds, HttpWaits, httpVars
<1>6. EventInv'
  BY <1>1, <1>2, <1>4 DEF Inv, EventInv, SntpWaits
<1>7. DateInv' /\ ShowsOwnAnswer'
  BY <1>1, <1>2, <1>4
  DEF Inv, TypeInv, DateInv, ShowsOwnAnswer, threadVars, httpVars, shownVars, clockVars
<1>q. QED  BY <1>3, <1>5, <1>6, <1>7 DEF Inv

\* An event comes for the request that is waited for; a date is then in its place.
LEMMA SntpEventInv ==
  ASSUME Inv, NEW kind \in SntpRequests, NEW ok \in BOOLEAN, SntpEvent(kind, ok, round),
         UNCHANGED <<at, threadVars, httpVars, shownVars, clockVars>>
  PROVE  Inv'
<1>. USE WeatherAssumption
<1>1. /\ kind \in sntpPending
      /\ appBuffer' = IF kind = "date" /\ ok
                      THEN [appBuffer EXCEPT ![0] = Date(round)] ELSE appBuffer
      /\ callbackEvent' = kind
      /\ sntpPending' = sntpPending \ {kind}
      /\ \/ kind = "date" /\ ok /\ dateGiven' = round /\ date' \in Dates
         \/ ~(kind = "date" /\ ok) /\ UNCHANGED <<dateGiven, date>>
      /\ UNCHANGED sntpTrouble
  BY DEF SntpEvent
<1>2. Date(round) \in [req : Nat, part : Nat] /\ 0 \in 0 .. Places - 1
  BY DEF Date, Inv, TypeInv
<1>3. /\ appBuffer' \in [0 .. Places - 1 -> [req : Nat, part : Nat]]
      /\ kind = "date" /\ ok => appBuffer'[0] = Date(round)
  BY <1>1, <1>2, Written DEF Inv, TypeInv
<1>4. TypeInv'
  <2>1. SntpTypeOK'
    <3>1. SntpTypeOK /\ round \in Nat
      BY DEF Inv, TypeInv
    <3>2. dateGiven' \in Nat /\ date' \in Dates
      BY <1>1, <3>1 DEF SntpTypeOK
    <3>q. QED  BY <1>1, <3>1, <3>2 DEF SntpTypeOK
  <2>. HIDE DEF SntpTypeOK
  <2>2. UNCHANGED <<at, requests, round, begun, spoilt, disturbed, calendarSet, httpPending,
                    rspReceived, bufferIndex>>
    BY DEF threadVars, httpVars, clockVars
  <2>q. QED  BY <1>3, <2>1, <2>2 DEF Inv, TypeInv, IsWeather
<1>5. Untroubled' => Untroubled /\ at \in SntpWaits /\ at = Waiting(kind)
  BY <1>1, WaitingPoints DEF Untroubled, httpVars, Inv, EventInv, SntpWaits
<1>6. ServedInv'
  BY <1>1, <1>5 DEF Inv, ServedInv, SntpWaits, HttpWaits, httpVars
<1>7. EventInv'
  BY <1>1, <1>5, WaitingPoints DEF Inv, EventInv, SntpWaits, SntpRequests
<1>8. DateInv'
  BY <1>1, <1>3, <1>5, WaitingPoints
  DEF Inv, TypeInv, DateInv, SntpWaits, SntpRequests, threadVars, clockVars
<1>9. ShowsOwnAnswer'
  BY <1>1, <1>5 DEF Inv, ShowsOwnAnswer, httpVars, shownVars
<1>q. QED  BY <1>4, <1>6, <1>7, <1>8, <1>9 DEF Inv

\* The conversion and the setting of the clock, and the reading of it between.
LEMMA ClockInv ==
  ASSUME Inv, ParseDate \/ (\E ok \in BOOLEAN : SetCalendar(ok)) \/ ShowClock
  PROVE  Inv'
<1>1. /\ \/ at = "parse" /\ at' = "set"
         \/ at = "set" /\ at' = "stop"
         \/ at' = at
      /\ UNCHANGED <<threadVars, httpVars, shownVars, sntpVars, appBuffer>>
  BY DEF ParseDate, SetCalendar, ShowClock
<1>2. /\ disturbed' \in BOOLEAN /\ calendarSet' \in BOOLEAN
      /\ at' = "set" /\ ~disturbed' =>
           \/ at = "set" /\ UNCHANGED <<datetime, disturbed>>
           \/ at = "parse" /\ (appBuffer[0].part = 99 =>
                                datetime' = Converted(appBuffer[0].req, date))
      /\ at' = "stop" /\ ~disturbed' /\ calendarSet' =>
           \/ at = "stop" /\ UNCHANGED <<calendar, calendarSet, disturbed>>
           \/ at = "set" /\ calendar' = datetime /\ UNCHANGED disturbed
  <2>. USE DEF Inv, TypeInv, clockVars
  <2>1. CASE ParseDate
    BY <2>1 DEF ParseDate
  <2>2. ASSUME NEW ok \in BOOLEAN, SetCalendar(ok)
        PROVE  /\ at' = "stop" /\ disturbed' = disturbed /\ calendarSet' \in BOOLEAN
               /\ calendarSet' => at = "set" /\ calendar' = datetime
    BY <2>2 DEF SetCalendar
  <2>3. CASE ShowClock
    BY <2>3 DEF ShowClock
  <2>q. QED  BY <2>1, <2>2, <2>3
<1>3. TypeInv' /\ ServedInv' /\ EventInv' /\ ShowsOwnAnswer'
  <2>. USE <1>1 DEF Inv, Untroubled, threadVars, httpVars, shownVars, sntpVars
  <2>1. TypeInv'         BY <1>2 DEF TypeInv, SntpTypeOK, Points, IsWeather
  <2>2. ServedInv'       BY DEF ServedInv, Holds, HttpWaits
  <2>3. EventInv'        BY DEF EventInv, SntpWaits
  <2>4. ShowsOwnAnswer'  BY DEF ShowsOwnAnswer
  <2>q. QED  BY <2>1, <2>2, <2>3, <2>4
<1>4. DateInv'
  <2>1. Converted(round, date)' = Converted(round, date)
    BY <1>1 DEF Converted, threadVars, sntpVars
  <2>2. Date(round).req = round /\ Date(round).part = 99
    BY DEF Date
  <2>q. QED
    BY <1>1, <1>2, <2>1, <2>2
    DEF Inv, TypeInv, DateInv, Untroubled, threadVars, httpVars, sntpVars
<1>q. QED  BY <1>3, <1>4 DEF Inv

-----------------------------------------------------------------------------
(* Ranges                                                                   *)

\* An update sends two requests at most, the one for weather first.
RoundInv ==
  /\ round \in 1 .. MaxRounds
  /\ requests <= 2 * round
  /\ at \in {"wifi", "weather"} => requests <= 2 * (round - 1)
  /\ at \in {"weatherWait", "weatherParse", "aqi"} => requests <= 2 * round - 1

\* What is kept is of a request that was sent, and a date of an update.
KeptInv ==
  /\ weather \in [temp : 0 .. requests, rain : 0 .. requests]
  /\ aqi \in 0 .. requests
  /\ datetime \in Clocks /\ calendar \in Clocks
  /\ \A i \in 0 .. Places - 1 : appBuffer[i].part = 99 => appBuffer[i].req <= round

\* The pieces but the last that have come, or have been given up.
Came ==
  {p \in (1 .. requests) \X (1 .. Pieces - 1) : p[2] <= httpPending[p[1]]}

\* Each piece moves the index by one place at most.
IndexInv == bufferIndex <= Cardinality(Came)

\* What a step does to the place of the thread, the updates and the requests.
LEMMA RoundStepOf ==
  ASSUME Next
  PROVE  \/ WakeUp
         \/ \E ok \in BOOLEAN : ConnectWifi(ok) \/ Disconnect(ok)
         \/ \E kind \in {"weather", "aqi"}, ok \in BOOLEAN : SendRequest(kind, ok)
         \/ \E kind \in {"weather", "aqi"} : EndOfWait(kind)
         \/ \E kind \in SntpRequests :
              (\E ok \in BOOLEAN : AskSntp(kind, ok)) \/ EndOfSntpWait(kind)
         \/ ClearFlag \/ ParseWeather \/ ParseAqi \/ ParseDate
         \/ \E ok \in BOOLEAN : SetCalendar(ok)
         \/ UNCHANGED <<at, round, requests>>
  BY DEF Next, Update, Callbacks, ShowClock, Tick, Piece, FailedPiece, DropLate,
         httpVars, threadVars

\* Every step keeps RoundInv.
LEMMA RoundStep ==
  ASSUME TypeInv, RoundInv, [Next]_vars
  PROVE  RoundInv'
<1>. USE WeatherAssumption DEF TypeInv, RoundInv, threadVars, httpVars
<1>1. CASE WakeUp
  BY <1>1 DEF WakeUp
<1>2. ASSUME NEW ok \in BOOLEAN, ConnectWifi(ok) \/ Disconnect(ok) PROVE RoundInv'
  BY <1>2 DEF ConnectWifi, Disconnect
<1>3. ASSUME NEW kind \in {"weather", "aqi"}, NEW ok \in BOOLEAN, SendRequest(kind, ok)
      PROVE  RoundInv'
  <2>1. /\ at = kind /\ requests' = requests + 1 /\ round' = round
        /\ at' \in {Waiting(kind), Parsing(kind)}
    BY <1>3 DEF SendRequest
  <2>2. \/ at = "weather" /\ at' \in {"weatherWait", "weatherParse"}
        \/ at = "aqi" /\ at' \in {"aqiWait", "aqiParse"}
    BY <2>1, WaitingPoints
  <2>q. QED  BY <2>1, <2>2
<1>4. ASSUME NEW kind \in {"weather", "aqi"}, EndOfWait(kind) PROVE RoundInv'
  BY <1>4, WaitingPoints DEF EndOfWait
<1>5. ASSUME NEW kind \in SntpRequests,
             (\E ok \in BOOLEAN : AskSntp(kind, ok)) \/ EndOfSntpWait(kind)
      PROVE  RoundInv'
  <2>1. /\ UNCHANGED <<round, requests>>
        /\ at' \in {Waiting(kind), After(kind)}
    BY <1>5 DEF AskSntp, EndOfSntpWait
  <2>2. at' \in SntpWaits \cup {"date", "parse", "disconnect", "clear"}
    BY <2>1, WaitingPoints DEF SntpRequests, After, SntpWaits
  <2>q. QED  BY <2>1, <2>2 DEF SntpWaits
<1>6. CASE \/ ClearFlag \/ ParseWeather \/ ParseAqi \/ ParseDate
           \/ \E ok \in BOOLEAN : SetCalendar(ok)
  BY <1>6, WaitingPoints DEF ClearFlag, ParseWeather, ParseAqi, ParseDate, SetCalendar
<1>7. CASE UNCHANGED <<at, round, requests>>
  BY <1>7
<1>8. CASE Next
  BY <1>1, <1>2, <1>3, <1>4, <1>5, <1>6, <1>7, <1>8, RoundStepOf, Zenon
<1>9. CASE UNCHANGED vars
  BY <1>7, <1>9 DEF vars
<1>q. QED  BY <1>8, <1>9

\* Updates and requests are only counted up.
LEMMA CountsGrow ==
  ASSUME TypeInv, [Next]_vars
  PROVE  /\ round' \in Nat /\ round <= round'
         /\ requests' \in Nat /\ requests <= requests'
<1>1. (round' = round \/ round' = round + 1) /\ (requests' = requests \/ requests' = requests + 1)
  BY RoundStepOf, Zenon
  DEF WakeUp, ConnectWifi, Disconnect, SendRequest, EndOfWait, AskSntp, EndOfSntpWait,
      ClearFlag, ParseWeather, ParseAqi, ParseDate, SetCalendar, vars, threadVars, httpVars
<1>q. QED  BY <1>1 DEF TypeInv

\* What is found in the buffer is an answer to a request that was sent.
LEMMA WholeAnswerType ==
  ASSUME TypeInv
  PROVE  WholeAnswer \in 0 .. requests
<1>1. CASE \E n \in 1 .. requests :
             \A i \in 1 .. Pieces : appBuffer[i - 1] = [req |-> n, part |-> i]
  <2>1. PICK n \in 1 .. requests :
          \A i \in 1 .. Pieces : appBuffer[i - 1] = [req |-> n, part |-> i]
    BY <1>1
  <2>2. appBuffer[0] = [req |-> n, part |-> 1]
    BY <2>1, WeatherAssumption
  <2>q. QED  BY <1>1, <2>2 DEF WholeAnswer, TypeInv
<1>2. CASE ~\E n \in 1 .. requests :
              \A i \in 1 .. Pieces : appBuffer[i - 1] = [req |-> n, part |-> i]
  BY <1>2 DEF WholeAnswer, TypeInv
<1>q. QED  BY <1>1, <1>2

\* What a step does to what is kept.
LEMMA KeptStepOf ==
  ASSUME Next
  PROVE  \/ ParseWeather \/ ParseAqi \/ ParseDate \/ ShowClock
         \/ \E ok \in BOOLEAN : SetCalendar(ok)
         \/ UNCHANGED <<weather, aqi, datetime, calendar>>
  BY DEF Next, Update, Callbacks, Tick, WakeUp, ClearFlag, ConnectWifi, Disconnect,
         SendRequest, EndOfWait, AskSntp, EndOfSntpWait, Piece, FailedPiece, DropLate,
         shownVars, clockVars

\* What a step does to the buffer.
LEMMA BufferStepOf ==
  ASSUME Next
  PROVE  \/ appBuffer' \in {appBuffer, EmptyBuffer}
         \/ \E n \in DOMAIN httpPending : Piece(n)
         \/ \E kind \in SntpRequests, ok \in BOOLEAN :
              SntpEvent(kind, ok, round) /\ UNCHANGED threadVars
  BY DEF Next, Update, Callbacks, Tick, WakeUp, ClearFlag, ConnectWifi, Disconnect,
         SendRequest, EndOfWait, AskSntp, EndOfSntpWait, FailedPiece, DropLate,
         ParseWeather, ParseAqi, ParseDate, SetCalendar, ShowClock

\* Every step keeps the dates in the buffer those of updates: a piece of an
\* answer is not taken for one.
LEMMA BufferStep ==
  ASSUME TypeInv, [Next]_vars,
         \A i \in 0 .. Places - 1 : appBuffer[i].part = 99 => appBuffer[i].req <= round
  PROVE  \A i \in 0 .. Places - 1 : appBuffer'[i].part = 99 => appBuffer'[i].req <= round'
<1>. USE WeatherAssumption
<1>0. round \in Nat /\ round' \in Nat /\ round <= round'
  BY CountsGrow DEF TypeInv
<1>1. CASE appBuffer' = appBuffer
  BY <1>0, <1>1 DEF TypeInv
<1>2. CASE appBuffer' = EmptyBuffer
  BY <1>0, <1>2 DEF EmptyBuffer, Nothing
<1>3. ASSUME NEW n \in DOMAIN httpPending, Piece(n)
      PROVE  \A i \in 0 .. Places - 1 : appBuffer'[i].part = 99 => appBuffer'[i].req <= round'
  <2>. DEFINE part == httpPending[n] + 1
  <2>1. /\ httpPending[n] < Pieces
        /\ appBuffer' = appBuffer
           \/ appBuffer' = [appBuffer EXCEPT ![bufferIndex] = [req |-> n, part |-> part]]
    BY <1>3 DEF Piece
  <2>2. httpPending[n] \in 0 .. Pieces
    <3>1. httpPending \in Seq(0 .. Pieces)
      BY DEF TypeInv
    <3>q. QED  BY <3>1, InSequence
  <2>4. part # 99
    BY <2>1, <2>2
  <2>5. appBuffer \in [0 .. Places - 1 -> [req : Nat, part : Nat]]
    BY DEF TypeInv
  <2>. HIDE DEF part
  <2>3. ASSUME NEW i \in 0 .. Places - 1
        PROVE  appBuffer'[i] = appBuffer[i] \/ appBuffer'[i].part # 99
    <3>1. CASE i = bufferIndex /\ appBuffer' # appBuffer
      <4>1. appBuffer'[i] = [req |-> n, part |-> part]
        BY ONLY <2>1, <2>5, <3>1, i \in 0 .. Places - 1
      <4>q. QED  BY ONLY <2>4, <4>1
    <3>2. CASE i # bufferIndex
      <4>. DEFINE piece == [req |-> n, part |-> part]
      <4>1. appBuffer' = appBuffer \/ appBuffer' = [appBuffer EXCEPT ![bufferIndex] = piece]
        BY <2>1
      <4>. HIDE DEF piece
      <4>2. appBuffer'[i] = appBuffer[i]
        BY ONLY <2>5, <3>2, <4>1, i \in 0 .. Places - 1
      <4>q. QED  BY ONLY <4>2
    <3>3. CASE appBuffer' = appBuffer
      BY ONLY <3>3
    <3>q. QED  BY ONLY <3>1, <3>2, <3>3
  <2>q. QED  BY <1>0, <2>3 DEF TypeInv
<1>4. ASSUME NEW kind \in SntpRequests, NEW ok \in BOOLEAN, SntpEvent(kind, ok, round)
      PROVE  \A i \in 0 .. Places - 1 : appBuffer'[i].part = 99 => appBuffer'[i].req <= round'
  BY <1>0, <1>4 DEF SntpEvent, Date, TypeInv
<1>5. CASE Next
  BY <1>1, <1>2, <1>3, <1>4, <1>5, BufferStepOf
<1>6. CASE UNCHANGED vars
  BY <1>1, <1>6 DEF vars
<1>q. QED  BY <1>5, <1>6

\* A byte from a number that is less than a byte away from one.
LEMMA ByteOf ==
  ASSUME NEW k \in Int, -256 <= k, k < 256
  PROVE  /\ Uint8(k) = IF k < 0 THEN k + 256 ELSE k
         /\ Uint8(k) \in 0 .. 255
BY DEF Uint8

\* Hours and minutes of a date, shifted by the zone.
LEMMA Shifted ==
  ASSUME NEW d \in Dates
  PROVE  /\ d.month \in 1 .. 12
         /\ d.hour \in Int /\ d.minute \in Int
         /\ d.hour + HourOffset \in -23 .. 46 /\ d.minute + MinOffset \in -59 .. 118
<1>1. d.month \in 1 .. 12 /\ d.hour \in 0 .. 23 /\ d.minute \in 0 .. 59
  BY SntpAssumption
<1>2. HourOffset \in -23 .. 23 /\ MinOffset \in -59 .. 59
  BY WeatherAssumption
<1>3. \A a \in 0 .. 23, b \in -23 .. 23 : a + b \in -23 .. 46
  OBVIOUS
<1>4. \A a \in 0 .. 59, b \in -59 .. 59 : a + b \in -59 .. 118
  OBVIOUS
<1>q. QED  BY <1>1, <1>2, <1>3, <1>4

\* The fields of a converted date, in their ranges.
LEMMA ConvertedType ==
  ASSUME NEW d \in Dates, NEW n \in 0 .. Garbage
  PROVE  Converted(n, d) \in Clocks
<1>1. convertMonthToEnum(d.month) \in 0 .. 12
  BY Shifted DEF convertMonthToEnum
<1>2. Uint8(d.hour + HourOffset) \in 0 .. 255 /\ Uint8(d.minute + MinOffset) \in 0 .. 255
  <2>1. \A k \in -59 .. 118 : Uint8(k) \in 0 .. 255
    BY DEF Uint8
  <2>2. d.hour + HourOffset \in -59 .. 118 /\ d.minute + MinOffset \in -59 .. 118
    <3>1. \A a \in -23 .. 46 : a \in -59 .. 118
      OBVIOUS
    <3>q. QED  BY <3>1, Shifted
  <2>q. QED  BY <2>1, <2>2
<1>3. /\ LocalHour(d.hour, d.minute, HourOffset, MinOffset) \in 0 .. 25
      /\ LocalMinute(d.minute, MinOffset) \in 0 .. 195
  BY <1>2 DEF LocalHour, LocalMinute
<1>q. QED  BY <1>1, <1>3 DEF Converted, Clocks

\* Every step keeps KeptInv.
LEMMA KeptStep ==
  ASSUME TypeInv, RoundInv, KeptInv, [Next]_vars
  PROVE  KeptInv'
<1>0. /\ requests \in Nat /\ requests' \in Nat /\ requests <= requests'
      /\ 0 .. requests \subseteq 0 .. requests'
  BY CountsGrow DEF TypeInv
<1>1. \A i \in 0 .. Places - 1 : appBuffer'[i].part = 99 => appBuffer'[i].req <= round'
  BY BufferStep DEF KeptInv
<1>. SUFFICES /\ weather' \in [temp : 0 .. requests', rain : 0 .. requests']
              /\ aqi' \in 0 .. requests'
              /\ datetime' \in Clocks /\ calendar' \in Clocks
  BY <1>1 DEF KeptInv, Clocks, Garbage
<1>2. CASE UNCHANGED <<weather, aqi, datetime, calendar>>
  BY <1>0, <1>2 DEF KeptInv
<1>3. CASE ParseWeather
  BY <1>0, <1>3, WholeAnswerType DEF ParseWeather, KeptInv, clockVars
<1>4. CASE ParseAqi
  BY <1>0, <1>4, WholeAnswerType DEF ParseAqi, KeptInv, clockVars
<1>5. CASE ParseDate
  <2>1. /\ appBuffer \in [0 .. Places - 1 -> [req : Nat, part : Nat]]
        /\ round \in 1 .. MaxRounds /\ date \in Dates
    BY DEF TypeInv, SntpTypeOK, RoundInv
  <2>2. 0 \in 0 .. Places - 1 /\ Garbage \in Nat /\ round \in 0 .. Garbage
    BY <2>1, WeatherAssumption DEF Garbage
  <2>3. appBuffer[0].part = 99 => appBuffer[0].req \in 0 .. Garbage
    BY <2>1, <2>2 DEF KeptInv
  <2>4. NoFields(Garbage) \in Clocks
    BY <2>2 DEF NoFields, Clocks
  <2>5. datetime' \in Clocks
    BY <1>5, <2>1, <2>3, <2>4, ConvertedType DEF ParseDate
  <2>q. QED  BY <1>0, <1>5, <2>5 DEF ParseDate, KeptInv, shownVars
<1>6. CASE ShowClock \/ \E ok \in BOOLEAN : SetCalendar(ok)
  BY <1>0, <1>6 DEF SetCalendar, ShowClock, KeptInv, shownVars
<1>7. CASE Next
  BY <1>2, <1>3, <1>4, <1>5, <1>6, <1>7, KeptStepOf
<1>8. CASE UNCHANGED vars
  BY <1>2, <1>8 DEF vars, shownVars, clockVars
<1>q. QED  BY <1>7, <1>8

\* Pieces that may have come are finitely many.
LEMMA CameFinite ==
  ASSUME TypeInv
  PROVE  /\ IsFiniteSet(Came) /\ Cardinality(Came) \in Nat
         /\ Cardinality(Came) <= requests * (Pieces - 1)
<1>. DEFINE All == (1 .. requests) \X (1 .. Pieces - 1)
<1>1. requests \in Nat /\ Pieces - 1 \in Nat
  BY WeatherAssumption DEF TypeInv
<1>2. /\ IsFiniteSet(1 .. requests) /\ Cardinality(1 .. requests) = requests
      /\ IsFiniteSet(1 .. Pieces - 1) /\ Cardinality(1 .. Pieces - 1) = Pieces - 1
  <2>1. 1 \in Int /\ requests \in Int /\ Pieces - 1 \in Int
    BY <1>1
  <2>2. /\ IsFiniteSet(1 .. requests)
        /\ Cardinality(1 .. requests) = IF 1 > requests THEN 0 ELSE requests - 1 + 1
    BY <2>1, FS_Interval
  <2>3. /\ IsFiniteSet(1 .. Pieces - 1)
        /\ Cardinality(1 .. Pieces - 1) = IF 1 > Pieces - 1 THEN 0 ELSE (Pieces - 1) - 1 + 1
    BY <2>1, FS_Interval
  <2>q. QED  BY <1>1, <2>2, <2>3
<1>3. IsFiniteSet(All) /\ Cardinality(All) = requests * (Pieces - 1)
  <2>. DEFINE A == 1 .. requests
             B == 1 .. Pieces - 1
  <2>1. IsFiniteSet(A) /\ IsFiniteSet(B)
    BY <1>2
  <2>. HIDE DEF A, B
  <2>2. IsFiniteSet(A \X B) /\ Cardinality(A \X B) = Cardinality(A) * Cardinality(B)
    BY <2>1, FS_Product
  <2>q. QED  BY <1>2, <2>2 DEF A, B
<1>4. Came \subseteq All
  BY DEF Came
<1>. HIDE DEF All
<1>q. QED  BY <1>3, <1>4, FS_Subset, FS_CardinalityType

\* The same as a formula, for the state after a step.
LEMMA CameFiniteAlways == TypeInv => IsFiniteSet(Came) /\ Cardinality(Came) \in Nat
BY CameFinite

\* What a step does to the index.
LEMMA IndexStepOf ==
  ASSUME Next
  PROVE  \/ \E n \in DOMAIN httpPending : Piece(n) \/ FailedPiece(n) \/ DropLate(n)
         \/ \E kind \in {"weather", "aqi"}, ok \in BOOLEAN : SendRequest(kind, ok)
         \/ UNCHANGED <<requests, httpPending, bufferIndex>>
  BY DEF Next, Update, Callbacks, Tick, WakeUp, ClearFlag, ConnectWifi, Disconnect,
         EndOfWait, AskSntp, EndOfSntpWait, ParseWeather, ParseAqi, ParseDate,
         SetCalendar, ShowClock, httpVars

\* The index stays where it is, or goes back, while pieces are only added.
LEMMA IndexKept ==
  ASSUME TypeInv, TypeInv', IndexInv, Came \subseteq Came', bufferIndex' \in {0, bufferIndex}
  PROVE  IndexInv'
<1>1. IsFiniteSet(Came') /\ Cardinality(Came') \in Nat
  <2>1. (TypeInv => IsFiniteSet(Came) /\ Cardinality(Came) \in Nat)'
    BY CameFiniteAlways, PTL
  <2>q. QED  BY <2>1
<1>2. Cardinality(Came) <= Cardinality(Came') /\ Cardinality(Came) \in Nat
  BY <1>1, FS_Subset, CameFinite
<1>q. QED  BY <1>1, <1>2 DEF IndexInv, TypeInv

\* Every step keeps IndexInv: a piece that moves the index is a new one.
LEMMA IndexStep ==
  ASSUME TypeInv, TypeInv', IndexInv, [Next]_vars
  PROVE  IndexInv'
<1>. USE WeatherAssumption
<1>0. requests \in Nat /\ httpPending \in Seq(0 .. Pieces) /\ Len(httpPending) = requests
  BY DEF TypeInv
<1>1. ASSUME NEW n \in DOMAIN httpPending, Piece(n) PROVE IndexInv'
  <2>. DEFINE part == httpPending[n] + 1
  <2>1. /\ httpPending[n] < Pieces
        /\ httpPending' = [httpPending EXCEPT ![n] = part]
        /\ bufferIndex' = IF part = Pieces THEN 0 ELSE bufferIndex + 1
        /\ requests' = requests
    BY <1>1 DEF Piece
  <2>2. /\ n \in 1 .. requests /\ httpPending[n] \in 0 .. Pieces
        /\ part \in 1 .. Pieces
    <3>1. n \in 1 .. requests /\ httpPending[n] \in 0 .. Pieces
      BY <1>0, InSequence
    <3>q. QED  BY <2>1, <3>1
  <2>. HIDE DEF part
  <2>3. /\ httpPending'[n] = part
        /\ \A m \in 1 .. requests : m # n => httpPending'[m] = httpPending[m]
    BY <1>0, <2>1, <2>2, Advanced
  <2>4. httpPending[n] = part - 1
    BY <2>2 DEF part
  <2>5. Came \subseteq Came'
    BY <2>1, <2>2, <2>3, <2>4 DEF Came
  <2>6. CASE part = Pieces
    BY <2>1, <2>5, <2>6, IndexKept
  <2>7. CASE part # Pieces
    <3>1. <<n, part>> \in Came' /\ <<n, part>> \notin Came
      BY <2>1, <2>2, <2>3, <2>4, <2>7 DEF Came
    <3>2. Came' = Came \cup {<<n, part>>}
      <4>1. ASSUME NEW p \in Came', p # <<n, part>> PROVE p \in Came
        <5>1. PICK m \in 1 .. requests, i \in 1 .. Pieces - 1 :
                p = <<m, i>> /\ i <= httpPending'[m]
          BY <2>1, <4>1 DEF Came
        <5>2. CASE m = n
          BY <2>2, <2>3, <2>4, <4>1, <5>1, <5>2 DEF Came
        <5>3. CASE m # n
          BY <2>3, <5>1, <5>3 DEF Came
        <5>q. QED  BY <5>2, <5>3
      <4>q. QED  BY <2>5, <3>1, <4>1
    <3>3. Cardinality(Came') = Cardinality(Came) + 1
      BY <3>1, <3>2, CameFinite, FS_AddElement
    <3>4. bufferIndex' = bufferIndex + 1
      BY <2>1, <2>7
    <3>5. /\ bufferIndex \in Nat /\ Cardinality(Came) \in Nat
          /\ bufferIndex <= Cardinality(Came)
      BY CameFinite DEF IndexInv, TypeInv
    <3>q. QED  BY <3>3, <3>4, <3>5 DEF IndexInv
  <2>q. QED  BY <2>6, <2>7
<1>2. ASSUME NEW n \in DOMAIN httpPending, FailedPiece(n) \/ DropLate(n) PROVE IndexInv'
  <2>1. /\ httpPending' = [httpPending EXCEPT ![n] = Pieces]
        /\ bufferIndex' = bufferIndex /\ requests' = requests
    BY <1>2 DEF FailedPiece, DropLate
  <2>2. n \in 1 .. requests /\ httpPending[n] \in 0 .. Pieces
    BY <1>0, InSequence
  <2>3. /\ httpPending'[n] = Pieces
        /\ \A m \in 1 .. requests : m # n => httpPending'[m] = httpPending[m]
    BY <1>0, <2>1, <2>2, Advanced
  <2>4. Came \subseteq Came'
    BY <2>1, <2>2, <2>3 DEF Came
  <2>q. QED  BY <2>1, <2>4, IndexKept
<1>3. ASSUME NEW kind \in {"weather", "aqi"}, NEW ok \in BOOLEAN, SendRequest(kind, ok)
      PROVE  IndexInv'
  <2>1. /\ httpPending' = Append(httpPending, IF ok THEN 0 ELSE Pieces)
        /\ bufferIndex' = bufferIndex /\ requests' = requests + 1
    BY <1>3 DEF SendRequest
  <2>2. \A m \in 1 .. requests : httpPending'[m] = httpPending[m]
    BY <1>0, <2>1, Pended
  <2>3. Came \subseteq Came'
    BY <1>0, <2>1, <2>2 DEF Came
  <2>q. QED  BY <2>1, <2>3, IndexKept
<1>4. CASE UNCHANGED <<requests, httpPending, bufferIndex>>
  BY <1>4 DEF IndexInv, Came
<1>5. CASE Next
  BY <1>1, <1>2, <1>3, <1>4, <1>5, IndexStepOf, Zenon
<1>6. CASE UNCHANGED vars
  BY <1>4, <1>6 DEF vars, httpVars
<1>q. QED  BY <1>5, <1>6

\* The index is at most one place less than an answer has for each request.
LEMMA IndexBound ==
  ASSUME TypeInv, RoundInv, IndexInv
  PROVE  bufferIndex \in 0 .. 2 * MaxRounds * (Pieces - 1)
<1>1. /\ bufferIndex \in Nat /\ requests \in Nat /\ Pieces - 1 \in Nat /\ MaxRounds \in Nat
      /\ bufferIndex <= requests * (Pieces - 1) /\ requests <= 2 * MaxRounds
  BY CameFinite, WeatherAssumption DEF TypeInv, RoundInv, IndexInv
<1>2. \A a, b, c \in Nat : a <= b => a * c <= b * c
  OBVIOUS
<1>3. requests * (Pieces - 1) <= (2 * MaxRounds) * (Pieces - 1)
  BY <1>1, <1>2
<1>q. QED  BY <1>1, <1>3

-----------------------------------------------------------------------------
(* The theorems                                                             *)

\* The display begins with no request and nothing in the buffer.
LEMMA InitInv == Init => Inv
<1>. SUFFICES ASSUME Init PROVE Inv
  OBVIOUS
<1>1. TypeInv
  <2>1. IsWeather(0) <=> FALSE
    BY DEF IsWeather
  <2>2. <<>> \in Seq(0 .. Pieces) /\ Len(<<>>) = 0
    OBVIOUS
  <2>q. QED
    BY <2>1, <2>2, Cleared, SntpAssumption DEF Init, InitSntp, TypeInv, SntpTypeOK, Points, SntpRequests
<1>2. ServedInv
  BY DEF Init, InitSntp, ServedInv, HttpWaits
<1>3. EventInv /\ DateInv /\ ShowsOwnAnswer
  BY DEF Init, InitSntp, EventInv, DateInv, ShowsOwnAnswer, SntpWaits
<1>q. QED  BY <1>1, <1>2, <1>3 DEF Inv

\* Inv is inductive.
LEMMA NextInv == Inv /\ [Next]_vars => Inv'
<1>. SUFFICES ASSUME Inv, [Next]_vars PROVE Inv'
  OBVIOUS
<1>1. CASE Update
  BY <1>1, ThreadInv, RequestInv, AnswerInv, ParseInv, AskInv, AskedInv, ClockInv DEF Update
<1>2. CASE Callbacks
  BY <1>2, PieceInv, AnswerLost, SntpEventInv DEF Callbacks
<1>3. CASE ShowClock \/ Tick
  BY <1>3, ThreadInv, ClockInv
<1>4. CASE UNCHANGED vars
  BY <1>4 DEF vars, threadVars, httpVars, shownVars, clockVars, sntpVars, Inv, TypeInv,
     SntpTypeOK, ServedInv, Holds, EventInv, DateInv, ShowsOwnAnswer, Untroubled, IsWeather
<1>q. QED  BY <1>1, <1>2, <1>3, <1>4 DEF Next

\* While no answer has failed and SNTP has answered in time, what is shown after
\* an accepted request comes from the whole of its own answer, whatever number
\* of pieces it came in and wherever the other threads ran.
THEOREM OwnAnswerShown == Spec => []ShowsOwnAnswer
<1>1. Inv => ShowsOwnAnswer
  BY DEF Inv
<1>q. QED  BY <1>1, InitInv, NextInv, PTL DEF Spec

\* What parse_datetime makes of a date is its local time exactly if the date is
\* Convertible: the bytes of the offsets wrap around, the hour is cut at 24.
LEMMA LocalTime ==
  ASSUME NEW d \in Dates, NEW n
  PROVE  ShowsLocalTime(Converted(n, d), d) <=> Convertible(d)
<1>. DEFINE h == d.hour + HourOffset
           m == d.minute + MinOffset
<1>1. d.month \in 1 .. 12 /\ d.hour \in Int /\ d.minute \in Int
  BY Shifted
<1>2. h \in -23 .. 46 /\ m \in -59 .. 118
  BY Shifted
<1>a. LocalMinutes(d) = 60 * h + m
  BY <1>1, WeatherAssumption DEF LocalMinutes
<1>3. /\ Uint8(h) = IF h < 0 THEN h + 256 ELSE h
      /\ Uint8(m) = IF m < 0 THEN m + 256 ELSE m
  BY <1>2, ByteOf
<1>4. convertMonthToEnum(d.month) = d.month <=> d.month # 8
  BY <1>1 DEF convertMonthToEnum
<1>5. LocalMinute(d.minute, MinOffset) = IF m < 0 THEN m + 196 ELSE IF m > 60 THEN m - 60 ELSE m
  BY <1>2, <1>3 DEF LocalMinute
<1>6. LocalHour(d.hour, d.minute, HourOffset, MinOffset) =
        (IF h < 0 \/ h > 24 THEN 1 ELSE h) + (IF m < 0 \/ m > 60 THEN 1 ELSE 0)
  BY <1>2, <1>3 DEF LocalHour
<1>. HIDE DEF h, m
<1>7. /\ Converted(n, d).month = convertMonthToEnum(d.month)
      /\ Converted(n, d).hour = LocalHour(d.hour, d.minute, HourOffset, MinOffset)
      /\ Converted(n, d).minute = LocalMinute(d.minute, MinOffset)
  BY DEF Converted
<1>8. Convertible(d) <=> d.month # 8 /\ h >= 0 /\ 60 * h + m < 1440 /\ m >= 0 /\ m # 60
  BY <1>a DEF Convertible, h, m
<1>9. ShowsLocalTime(Converted(n, d), d) <=>
        /\ convertMonthToEnum(d.month) = d.month
        /\ Converted(n, d).hour < 24 /\ Converted(n, d).minute < 60
        /\ 60 * Converted(n, d).hour + Converted(n, d).minute = 60 * h + m
  BY <1>a, <1>7 DEF ShowsLocalTime
<1>q. QED  BY <1>2, <1>4, <1>5, <1>6, <1>7, <1>8, <1>9

\* Until then, whenever the network gave a date and the calendar could be set, it
\* is set from this date, unless the drawing thread has read the calendar in
\* between; it shows the local time exactly for the dates that parse_datetime and
\* convertMonthToEnum can convert, whatever the time zone.
THEOREM ClockSetFromNetwork == Spec => []ClockFromNetwork
<1>1. Inv => ClockFromNetwork
  <2>. SUFFICES ASSUME Inv, Untroubled, at = "stop", dateGiven = round, ~disturbed,
                       calendarSet
                PROVE  /\ calendar.round = round
                       /\ ShowsLocalTime(calendar, date) <=> Convertible(date)
    BY DEF ClockFromNetwork
  <2>1. calendar = Converted(round, date) /\ date \in Dates
    BY DEF Inv, TypeInv, SntpTypeOK, DateInv
  <2>q. QED  BY <2>1, LocalTime DEF Converted
<1>q. QED  BY <1>1, InitInv, NextInv, PTL DEF Spec

\* What is shown and set is of requests that were sent and dates of updates, and
\* app_buff_index runs on by less than an answer for each request (the callback
\* resets it only with a complete answer), whatever fails.
THEOREM WeatherTypes == Spec => []TypeOK
<1>. DEFINE Ranges == Inv /\ RoundInv /\ KeptInv /\ IndexInv
<1>1. Init => Ranges
  <2>. SUFFICES ASSUME Init PROVE RoundInv /\ KeptInv /\ IndexInv
    BY InitInv
  <2>1. RoundInv
    BY WeatherAssumption DEF Init, RoundInv
  <2>2. KeptInv
    BY WeatherAssumption DEF Init, KeptInv, Clocks, NoFields, Garbage, EmptyBuffer, Nothing
  <2>3. IndexInv
    BY CameFinite, InitInv DEF Init, IndexInv, Inv
  <2>q. QED  BY <2>1, <2>2, <2>3
<1>2. Ranges /\ [Next]_vars => Ranges'
  BY NextInv, RoundStep, KeptStep, IndexStep DEF Inv
<1>3. Ranges => TypeOK
  <2>. SUFFICES ASSUME Ranges PROVE TypeOK
    OBVIOUS
  <2>1. requests \in 0 .. 2 * MaxRounds
    BY WeatherAssumption DEF Inv, TypeInv, RoundInv
  <2>2. bufferIndex \in 0 .. 2 * MaxRounds * (Pieces - 1)
    BY IndexBound DEF Inv
  <2>3. round \in 1 .. MaxRounds
    BY DEF RoundInv
  <2>4. /\ weather.temp \in 0 .. requests /\ weather.rain \in 0 .. requests
        /\ aqi \in 0 .. requests
        /\ datetime \in Clocks /\ calendar \in Clocks
    BY DEF KeptInv
  <2>5. /\ SntpTypeOK
        /\ httpPending \in Seq(0 .. Pieces) /\ Len(httpPending) = requests
        /\ rspReceived \in {"await", "success", "failure"} /\ calendarSet \in BOOLEAN
    BY DEF Inv, TypeInv
  <2>. HIDE DEF Ranges
  <2>q. QED  BY ONLY <2>1, <2>2, <2>3, <2>4, <2>5 DEF TypeOK
<1>q. QED  BY <1>1, <1>2, <1>3, PTL DEF Spec

==============================================================================
