SPECIFICATION MCSpec

CONSTANTS
  Parts = {"loader", "jobs", "log", "imports", "bags", "corpses"}
  Workers = {w1, w2, w3}
  Paths = {p1, p2, p3}
  ZoneThreads = {z1, z2}
  MainJobs = {j1, j2}
  MaxMessages = 5
  Scripts = {s1, s2}
  MaxEdits = 3
  MaxSecond = 3
  EditsCollide = FALSE
  MaxFailures = 1
  MainStalls = FALSE
  Players = {p, q}
  Callers = {p}
  Rooms = {vault, floor}
  Vaults = {vault}
  Chest = chest
  Things = {thing}
  Bags = {bag}
  Corpses = {corpse}
  Nobody = nobody
  Gone = gone
  MaxStops = 1
INVARIANTS ListedJobsLive NothingTwice
PROPERTIES KeepsPromise PoolCloses ScriptsReload AbsentKeepAll SavesKeepOthers SavedInFull
\* Each part comes to rest: joined, posted, closed or read.
CHECK_DEADLOCK FALSE
