\* The gateway may die on a stale Close line, and without a game the system then stops.
CHECK_DEADLOCK FALSE
SPECIFICATION Spec
CONSTANTS
  Clients = {c1, c2}
  Websockets = {}
  Keys = {k1, k2, k3, k4}
  Pids = {p1}
  Socks = {s1, s2, s3, s4, s5}
  None = None
  RestartOnShutdown = FALSE
  MaxPending = 1
  Limits <- Faults
INVARIANTS
  WiredToOneClient
  PointersAlive
