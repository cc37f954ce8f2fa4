SPECIFICATION FairSpec
CONSTANTS
  Clients = {c1}
  Websockets = {}
  Keys = {k1, k2, k3}
  Pids = {p1}
  Socks = {s1, s2, s3, s4}
  None = None
  RestartOnShutdown = TRUE
  MaxPending = 1
  Limits <- Orders
INVARIANTS
  GatewayStopsLast
PROPERTIES
  ClientServed
  GameComesBack
