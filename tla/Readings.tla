------------------------------ MODULE Readings ------------------------------
(***************************************************************************)
(* From the sensors to the text of a message: the sensor tasks on their bus  *)
(* (SensorBus) hand their readings to the JSON converter, which frames them  *)
(* with the JSON writer (JsonMessages); the other tasks frame their own      *)
(* messages whenever they like, which takes nothing from the sensors.  What  *)
(* happens to a framed message is the subject of TelemetryPipeline.          *)
(***************************************************************************)
EXTENDS SensorBus, JsonMessages

\* The messages that may be framed now: that of the reading in the queue, and those
\* of the Wi-Fi task and of a new session.
ToFrame ==
  {[type |-> handed[i].sensor, available |-> handed[i].available, wide |-> wide] :
     i \in DOMAIN handed, wide \in BOOLEAN} \cup OwnMessages

-----------------------------------------------------------------------------
\* The converters check every call for success but none of the writer's rules,
\* which a release build leaves to its callers: each message they queue is one
\* complete JSON text within its buffer, made with calls the writer allows; any other
\* is given up.
MessagesAreJson == ToFrame \subseteq WellFramed \cup Abandoned

\* The writer asks for more room than it uses (a whole chunk for a long string, the
\* longest number for each number), and a converter gives a message that does not fit
\* into MAX_JSON_MESSAGE_SIZE up silently.  No reading, keep-alive or session message
\* is lost that way, however long its numbers are; a Wi-Fi message is, each time, when
\* the network's name, escaped, is longer than RoomForName.
GivenUpOnlyForLongName ==
  \A m \in ToFrame \cap Abandoned : m.type = "wifi" /\ EscapedLength(m.ssid) > RoomForName
==============================================================================
