SPECIFICATION Spec
CONSTANTS
  Logins = {l1, l2}
  l1 = l1
  l2 = l2
  Runs = {r1, r2}
  r1 = r1
  r2 = r2
  MaxSessions = 2
  MaxKept = 1
  MaxInFlight = 2
SYMMETRY Symmetry
INVARIANTS
  TypeOK
  OneSession
  TelemetryOfSession
  AnnouncedOnce
