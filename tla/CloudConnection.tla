--------------------------- MODULE CloudConnection ---------------------------
(***************************************************************************)
(* How a task connects to the IoT hub.  The Azure task does it when the      *)
(* application starts and the recovery task when the connection is lost;     *)
(* they share the number of the socket and the hub client, with no lock.     *)
(*                                                                          *)
(* One action is one blocking call (or some that leave the shared state       *)
(* alone) with the code up to the next one.  Try 0 is the first one of the     *)
(* Azure task, made without retrying.                                        *)
(***************************************************************************)
EXTENDS Integers

CONSTANTS
  CloudRetries,   \* AZURE_CLOUD_CONN_RETRY_COUNT
  Sockets         \* the sockets of the network processor

ASSUME CloudAssumption ==
  /\ CloudRetries \in Nat \ {0}
  /\ Sockets \subseteq Nat

VARIABLES
  step,      \* what each task is doing about the connection
  tries,     \* retries it has begun
  client,    \* client_socket_id
  open,      \* the sockets that are open
  session    \* the socket the hub client has its MQTT session on, or -1

Connectors == {"azure", "recovery"}
cloudVars  == <<step, tries, client, open, session>>

GotoStep(t, point) == step' = [step EXCEPT ![t] = point]

\* sl_start_azure_cloud_connection and sl_retry_azure_cloud_connection
BeginStart(t) ==
  /\ GotoStep(t, "prepare")
  /\ tries' = [tries EXCEPT ![t] = 0]
  /\ UNCHANGED <<client, open, session>>

BeginRetry(t) ==
  /\ GotoStep(t, "disconnect")
  /\ tries' = [tries EXCEPT ![t] = 0]
  /\ UNCHANGED <<client, open, session>>

-----------------------------------------------------------------------------
(* sl_disconnect_azure_iot_hub, before the first retry and after each that    *)
(* failed                                                                   *)

BadNextTry(t) ==
  IF tries[t] = CloudRetries
  THEN GotoStep(t, "done") /\ UNCHANGED tries
  ELSE GotoStep(t, "rssi") /\ tries' = [tries EXCEPT ![t] = @ + 1]

NextTry(t) ==
  IF tries[t] = CloudRetries
  THEN GotoStep(t, "failed") /\ UNCHANGED tries
  ELSE GotoStep(t, "rssi") /\ tries' = [tries EXCEPT ![t] = @ + 1]

\* The MQTT session is ended and the socket closed, if there is one.  (At first
\* client_socket_id is 0, although no socket is open.)
BadDisconnect(t) ==
  /\ step[t] = "disconnect"
  /\ session' = -1
  /\ NextTry(t)
  /\ client' = -1
  /\ UNCHANGED open

Disconnect(t) ==
  /\ step[t] = "disconnect"
  /\ session' = -1
  /\ IF client >= 0
     THEN open' = open \ {client} /\ GotoStep(t, "closing") /\ UNCHANGED tries
     ELSE NextTry(t) /\ UNCHANGED open
  /\ UNCHANGED client

\* close() has returned.
ForgetSocket(t) ==
  /\ step[t] = "closing"
  /\ client' = -1
  /\ NextTry(t)
  /\ UNCHANGED <<open, session>>

-----------------------------------------------------------------------------
(* One try                                                                  *)

FailTry(t) == GotoStep(t, "disconnect")

Rssi(t, ok) ==
  /\ step[t] = "rssi"
  /\ GotoStep(t, IF ok THEN "prepare" ELSE "failed")
  /\ UNCHANGED <<tries, client, open, session>>

\* The certificates are loaded and the name of the hub is looked up.
Prepare(t) ==
  /\ step[t] = "prepare"
  /\ GotoStep(t, "socket") \/ FailTry(t)
  /\ UNCHANGED <<tries, client, open, session>>

CreateSocket(t) ==
  /\ step[t] = "socket"
  /\ \/ \E s \in Sockets \ open :
          client' = s /\ open' = open \cup {s} /\ GotoStep(t, "tls")
     \/ client' = -1 /\ FailTry(t) /\ UNCHANGED open
  /\ UNCHANGED <<tries, session>>

\* Options and TLS handshake, on whatever socket client_socket_id names by now;
\* then the hub client is initialised.
ConnectSocket(t) ==
  /\ step[t] = "tls"
  /\ client \in open
  /\ GotoStep(t, "hub")
  /\ session' = -1
  /\ UNCHANGED <<tries, client, open>>

\* The socket is closed, but its number is kept.
ConnectSocketFails(t) ==
  /\ step[t] = "tls"
  /\ open' = open \ {client}
  /\ FailTry(t)
  /\ UNCHANGED <<tries, client, session>>

ConnectHub(t) ==
  /\ step[t] = "hub"
  /\ client \in open
  /\ session' = client
  /\ GotoStep(t, "done")
  /\ UNCHANGED <<tries, client, open>>

\* The hub refuses, or the properties of the messages cannot be set.
ConnectHubFails(t) ==
  /\ step[t] = "hub"
  /\ session' \in {-1} \cup ({client} \cap open)
  /\ FailTry(t)
  /\ UNCHANGED <<tries, client, open>>

ConnectStep(t) ==
  \/ Disconnect(t) \/ ForgetSocket(t) \/ Prepare(t) \/ CreateSocket(t)
  \/ ConnectSocket(t) \/ ConnectSocketFails(t) \/ ConnectHub(t) \/ ConnectHubFails(t)

-----------------------------------------------------------------------------
CloudInit ==
  /\ step = [t \in Connectors |-> "none"]
  /\ tries = [t \in Connectors |-> 0]
  /\ client = 0
  /\ open = {}
  /\ session = -1
==============================================================================
