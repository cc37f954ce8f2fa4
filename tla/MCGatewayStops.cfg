SPECIFICATION Spec
CONSTANTS
  Clients = {c1, c2}
  Websockets = {c1}
  Keys = {k1, k2, k3, k4}
  Pids = {p1, p2}
  Socks = {s1, s2, s3, s4, s5}
  None = None
  RestartOnShutdown = TRUE
  MaxPending = 2
  Limits <- Stops
INVARIANTS
  OwnServerConnection
  RequestUnderWay
  GatewaySurvives
  OneGame
PROPERTIES
  NoStrayClose
  SeatsSpec
