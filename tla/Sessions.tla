------------------------------ MODULE Sessions ------------------------------
(* Login, logout and expiry in the dashboard's backend (auth.service.ts,     *)
(* session.service.ts), one action per database operation: node runs other   *)
(* requests, the cron job and the event handler at every await.  A           *)
(* collection is the set of its documents, and time is the number of         *)
(* sessions created so far: it says whether something was published, or      *)
(* stored, before or after the session that is looked at.                    *)
EXTENDS Naturals, FiniteSets

CONSTANTS
  Logins,       \* requests for a login that may run at the same time
  MaxSessions   \* bound: sessions created in a run

ASSUME SessionsAssumption ==
  Logins # {} /\ IsFiniteSet(Logins) /\ MaxSessions \in Nat \ {0}

VARIABLES
  sessions,     \* collection: [born, active], and whether the login that
                \* created it has deleted the old telemetry (cleared)
  telemetry,    \* collection: [era, checked, stored], see DeviceMonitor
  keepAlive,    \* collection of at most one document: [late, interval]
  created,      \* sessions created so far
  login,        \* what each login is about to do, for the session it made
  logout,       \* what the logout is about to do
  overlapped    \* two logins were between their check and their save at once

sessionVars == <<sessions, telemetry, keepAlive, created, login, logout,
                 overlapped>>

NoLogin == [at |-> "idle", born |-> 0]

InitSessions ==
  /\ sessions = {} /\ telemetry = {} /\ keepAlive = {}
  /\ created = 0
  /\ login = [l \in Logins |-> NoLogin]
  /\ logout = "idle"
  /\ overlapped = FALSE

Active == {s \in sessions : s.active}

\* Logins that found no active session and have not saved theirs.
Unsaved == {l \in Logins : login[l].at \in {"delete", "save"}}

\* generateSession: refused while a session is active.
CheckActiveSession(l) ==
  /\ login[l].at = "idle"
  /\ created + Cardinality({k \in Logins : login[k].at = "delete"}) < MaxSessions
  /\ Active = {}
  /\ login' = [login EXCEPT ![l].at = "delete"]
  /\ overlapped' = (overlapped \/ Unsaved # {})
  /\ UNCHANGED <<sessions, telemetry, keepAlive, created, logout>>

BadDeleteSession(l) ==
  /\ login[l].at = "delete"
  /\ created' = created + 1
  /\ login' = [login EXCEPT ![l] = [at |-> "save", born |-> created + 1]]
  /\ UNCHANGED <<sessions, telemetry, keepAlive, logout, overlapped>>

\* deleteSession; createSession takes the time of creation before it saves.
DeleteSession(l) ==
  /\ login[l].at = "delete"
  /\ sessions' = {}
  /\ created' = created + 1
  /\ login' = [login EXCEPT ![l] = [at |-> "save", born |-> created + 1]]
  /\ UNCHANGED <<telemetry, keepAlive, logout, overlapped>>

CreateSession(l) ==
  /\ login[l].at = "save"
  /\ sessions' = sessions \cup {[born |-> login[l].born, active |-> TRUE,
                                cleared |-> FALSE]}
  /\ login' = [login EXCEPT ![l].at = "clear"]
  /\ UNCHANGED <<telemetry, keepAlive, created, logout, overlapped>>

Cleared(born) == {[s EXCEPT !.cleared = @ \/ s.born = born] : s \in sessions}

BadClearTelemetry(l) ==
  /\ login[l].at = "clear"
  /\ login' = [login EXCEPT ![l] = NoLogin]
  /\ sessions' = Cleared(login[l].born)
  /\ UNCHANGED <<telemetry, keepAlive, created, logout, overlapped>>

\* "deleting previous session data"
ClearTelemetry(l) ==
  /\ login[l].at = "clear"
  /\ telemetry' = {}
  /\ login' = [login EXCEPT ![l] = NoLogin]
  /\ sessions' = Cleared(login[l].born)
  /\ UNCHANGED <<keepAlive, created, logout, overlapped>>

\* A database error, or a restart of the server, ends a login half way.
LoginCut(l) ==
  /\ login[l].at # "idle"
  /\ login' = [login EXCEPT ![l] = NoLogin]
  /\ UNCHANGED <<sessions, telemetry, keepAlive, created, logout,
                 overlapped>>

\* /auth/logout asks for no session.
LogoutDelete ==
  /\ logout = "idle"
  /\ sessions' = {}
  /\ logout' = "keepAlive"
  /\ UNCHANGED <<telemetry, keepAlive, created, login, overlapped>>

LogoutKeepAlive ==
  /\ logout = "keepAlive"
  /\ keepAlive' = {}
  /\ logout' = "telemetry"
  /\ UNCHANGED <<sessions, telemetry, created, login, overlapped>>

LogoutTelemetry ==
  /\ logout = "telemetry"
  /\ telemetry' = {}
  /\ logout' = "idle"
  /\ UNCHANGED <<sessions, keepAlive, created, login, overlapped>>

LogoutCut ==
  /\ logout # "idle"
  /\ logout' = "idle"
  /\ UNCHANGED <<sessions, telemetry, keepAlive, created, login,
                 overlapped>>

\* One hour after its creation a session is not active any more; its document stays.
Expire(s) ==
  /\ s \in Active
  /\ sessions' = (sessions \ {s}) \cup {[s EXCEPT !.active = FALSE]}
  /\ UNCHANGED <<telemetry, keepAlive, created, login, logout,
                 overlapped>>

LoginStep(l) == DeleteSession(l) \/ CreateSession(l) \/ ClearTelemetry(l) \/ LoginCut(l)

LogoutStep == LogoutKeepAlive \/ LogoutTelemetry \/ LogoutCut

SessionsTypeOK ==
  /\ sessions \subseteq [born : 1 .. MaxSessions, active : BOOLEAN,
                         cleared : BOOLEAN]
  /\ created \in 0 .. MaxSessions
  /\ login \in [Logins -> [at : {"idle", "delete", "save", "clear"},
                           born : 0 .. MaxSessions]]
  /\ logout \in {"idle", "keepAlive", "telemetry"}
  /\ overlapped \in BOOLEAN

\* At most one session document exists, hence at most one user is logged in,
\* unless two logins had both found no active session before either saved its
\* own (generateSession checks, deletes and saves in three operations).
OneSession == overlapped \/ \A s, t \in sessions : s = t

=============================================================================
