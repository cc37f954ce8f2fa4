SPECIFICATION Spec
CONSTANTS
  Interval = 2
  MaxCatchUp = 2
  CheckEvery = 3
  RetryEvery = 7
  Chars = {p1, p2, m1}
  Mobs = {m1}
  None = None
  Affs = {a1}
  BashTime = 2
  FleeLag = 2
  Lags = {1}
  CallTime = 2
  PurgeEvery = 2
  Delays = {1, 3, 6}
  Limits <- All
  Horizon = 8
SYMMETRY Players
INVARIANTS
  TicksAccounted
  WaitsOnce
  StandsUp
  EventsOfTheLiving
  EffectsGoOn
