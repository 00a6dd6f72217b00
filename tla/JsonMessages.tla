---------------------------- MODULE JsonMessages ----------------------------
(***************************************************************************)
(* The messages of the firmware as calls of the JSON writer, one sequence    *)
(* for each converter of sl_wifi_asset_tracking_json_data_handler.c, and     *)
(* what becomes of a message when its calls are made one after the other.   *)
(*                                                                          *)
(* A value is as long as its digits or characters; `wide' tells the longest   *)
(* values of a message from the shortest.                                   *)
(***************************************************************************)
EXTENDS JsonWriter

CONSTANTS
  Ssids   \* the configured network names: [len, escapes]

\* No number is longer than the room the writer asks for: the longest of a message
\* has 4 characters where it is an integer and 13 where it is not.  Nothing in the code
\* limits what escaping adds to a name.
ASSUME MessagesAssumption ==
  /\ Ssids \subseteq [len : Nat, escapes : Nat]
  /\ Int32Size >= 4
  /\ DoubleSize >= 13

\* Lengths in bytes of the texts of the messages.
Plain(n) == [len |-> n, escapes |-> 0]

Length ==
  [msgtype |-> 7, timestamp |-> 9, imu |-> 3, accelero |-> 8, gyro |-> 4, gps |-> 3,
   latitude |-> 8, longitude |-> 9, altitude |-> 8, satellites |-> 10, heat |-> 4,
   temperature |-> 11, value |-> 5, unit |-> 4, celsius |-> 7, humidity |-> 8,
   wifi |-> 4, macid |-> 5, ssid |-> 4, rssi |-> 4, session |-> 7, new |-> 3,
   keepAlive |-> 10, yes |-> 3, interval |-> 8, time |-> 24, mac |-> 17]

-----------------------------------------------------------------------------
(* Calls                                                                    *)

Do(op)           == <<[op |-> op]>>
With(op, arg)    == <<[op |-> op, arg |-> arg]>>
Name(key)        == With("name", Plain(Length[key]))
String(text)     == With("string", Plain(Length[text]))
Doubles(n, size) == [i \in 1..n |-> [op |-> "double", arg |-> size]]
Int32s(n, size)  == [i \in 1..n |-> [op |-> "int32", arg |-> size]]
Object(members)  == Do("beginObject") \o members \o Do("endObject")
Array(items)     == Do("beginArray") \o items \o Do("endArray")

\* What every message starts with.
Header(type) == Name("msgtype") \o String(type) \o Name("timestamp") \o String("time")

-----------------------------------------------------------------------------
(* Messages: [type, available, wide], and [type, ssid, wide] for Wi-Fi       *)

Wide(m, size) == IF m.wide THEN size ELSE 1

ImuMessage(m) ==
  Object(Header("imu") \o
    IF m.available
    THEN Name("accelero") \o Array(Doubles(3, Wide(m, 11)))
           \o Name("gyro") \o Array(Doubles(3, Wide(m, 13)))
    ELSE Name("accelero") \o Do("null") \o Name("gyro") \o Do("null"))

GnssMessage(m) ==
  Object(Header("gps") \o Name("gps") \o
    IF m.available
    THEN Object(Name("latitude") \o Doubles(1, Wide(m, 11))
                  \o Name("longitude") \o Doubles(1, Wide(m, 12))
                  \o Name("altitude") \o Doubles(1, Wide(m, 11))
                  \o Name("satellites") \o Int32s(1, Wide(m, 3)))
    ELSE Do("null"))

HeatMessage(m) ==
  Object(Header("heat") \o Name("heat") \o
    IF m.available
    THEN Object(Name("temperature")
                  \o Object(Name("value") \o Doubles(1, Wide(m, 4))
                              \o Name("unit") \o String("celsius"))
                  \o Name("humidity") \o Doubles(1, Wide(m, 3)))
    ELSE Do("null"))

SessionMessage ==
  Object(Header("session") \o Name("session") \o String("new"))

WifiMessage(m) ==
  Object(Header("wifi") \o Name("wifi") \o
    Object(Name("macid") \o String("mac") \o Name("ssid") \o With("string", m.ssid)
             \o Name("rssi") \o Int32s(1, Wide(m, 4))))

KeepAliveMessage(m) ==
  Object(Header("keepAlive") \o Name("keepAlive") \o String("yes")
           \o Name("interval") \o Array(Int32s(4, Wide(m, 3))))

\* sl_convert_to_json_format and its siblings for the other tasks' messages.
CallsOf(m) ==
  CASE m.type = "imu" -> ImuMessage(m)
    [] m.type = "gnss" -> GnssMessage(m)
    [] m.type = "temp" -> HeatMessage(m)
    [] m.type = "session" -> SessionMessage
    [] m.type = "wifi" -> WifiMessage(m)
    [] m.type = "keepAlive" -> KeepAliveMessage(m)

SensorMessages ==
  [type : {"imu", "gnss", "temp"}, available : BOOLEAN, wide : BOOLEAN]

OwnMessages ==
  [type : {"session", "keepAlive"}, wide : BOOLEAN] \cup
  [type : {"wifi"}, ssid : Ssids, wide : BOOLEAN]

-----------------------------------------------------------------------------
\* A message on its way: the writer, and whether all calls kept its rules.  The
\* first call that fails ends the message.
MakeCall(s, call) ==
  IF s.writer.ok
  THEN [writer |-> Call(s.writer, call), valid |-> s.valid /\ CallValid(s.writer, call)]
  ELSE s

\* The calls one after the other.
WriteFrom(s, calls) ==
  LET After[n \in 0..Len(calls)] ==
        IF n = 0 THEN s ELSE MakeCall(After[n - 1], calls[n])
  IN After[Len(calls)]

Write(calls) == WriteFrom([writer |-> NewWriter, valid |-> TRUE], calls)

Messages == SensorMessages \cup OwnMessages

\* What the calls of each message come to.
Framings == {[message |-> m, result |-> Write(CallsOf(m))] : m \in Messages}

\* The messages that are given up for lack of room.
Abandoned == {f.message : f \in {g \in Framings : ~g.result.writer.ok}}

\* Those that are queued for the cloud as one JSON text.
IsJson(r) == /\ r.valid
             /\ r.writer.ok
             /\ r.writer.written <= BufferSize
             /\ IsComplete(r.writer.text)

WellFramed == {f.message : f \in {g \in Framings : IsJson(g.result)}}

\* The longest name, escaped, for which the Wi-Fi message is sure to fit with the sizes
\* of the firmware.
RoomForName == 35
==============================================================================
