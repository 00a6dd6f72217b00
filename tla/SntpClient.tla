----------------------------- MODULE SntpClient -----------------------------
(* The SNTP client of the weather display (sl_wd_ntp.c): a request to the    *)
(* network processor is answered by an event, for which the thread waits at  *)
(* most a minute.  One request waits for the event of its own kind, but all  *)
(* of them share callback_event, which the next event overwrites.  cb_status  *)
(* is left out: what the functions return is only printed by their caller.   *)
EXTENDS Naturals

CONSTANT Dates  \* dates the network may give: [month, hour, minute], in UTC

ASSUME SntpAssumption ==
  Dates # {} /\ Dates \subseteq [month : 1 .. 12, hour : 0 .. 23, minute : 0 .. 59]

VARIABLES
  callbackEvent,  \* kind of the last event, "none" before the first
  sntpPending,    \* requests whose event has not come
  sntpTrouble,    \* a request was refused, or not answered within the minute
  dateGiven,      \* the last data update in which a date was given
  date,           \* the date that was given last, any before the first
  appBuffer       \* app_buffer: what is at each of its places

sntpVars == <<callbackEvent, sntpPending, sntpTrouble, dateGiven, date>>

SntpRequests == {"start", "date", "stop"}

Nothing == [req |-> 0, part |-> 0]

\* The text of the date, marked with the data update in which it was given.
Date(round) == [req |-> round, part |-> 99]

InitSntp ==
  /\ callbackEvent = "none"
  /\ sntpPending = {}
  /\ sntpTrouble = FALSE
  /\ dateGiven = 0
  /\ date = CHOOSE d \in Dates : TRUE

\* A request is refused, or will be answered by an event.
SntpAsk(kind, accepted) ==
  /\ sntpPending' = IF accepted THEN sntpPending \cup {kind} ELSE sntpPending
  /\ sntpTrouble' = (sntpTrouble \/ ~accepted)
  /\ UNCHANGED <<callbackEvent, dateGiven, date>>

BadSntpAnswered(kind) == callbackEvent # "none" /\ UNCHANGED sntpVars

\* The wait ends when the last event is of the kind that is waited for.
SntpAnswered(kind) == callbackEvent = kind /\ UNCHANGED sntpVars

\* ASYNC_WAIT_TIMEOUT: the request is not withdrawn, its event may come later.
SntpTimeout(kind) ==
  /\ callbackEvent # kind
  /\ sntpTrouble' = TRUE
  /\ UNCHANGED <<callbackEvent, sntpPending, dateGiven, date>>

\* sntp_client_event_handler: a date is copied to the buffer before the event
\* is made known.
SntpEvent(kind, ok, round) ==
  /\ kind \in sntpPending
  /\ appBuffer' = IF kind = "date" /\ ok
                  THEN [appBuffer EXCEPT ![0] = Date(round)] ELSE appBuffer
  /\ callbackEvent' = kind
  /\ sntpPending' = sntpPending \ {kind}
  /\ IF kind = "date" /\ ok
     THEN dateGiven' = round /\ date' \in Dates
     ELSE UNCHANGED <<dateGiven, date>>
  /\ UNCHANGED sntpTrouble

SntpTypeOK ==
  /\ callbackEvent \in SntpRequests \cup {"none"}
  /\ sntpPending \subseteq SntpRequests
  /\ sntpTrouble \in BOOLEAN
  /\ dateGiven \in Nat
  /\ date \in Dates

=============================================================================
