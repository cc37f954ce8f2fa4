\* Login: an immortal of the table and one player to be created, on two
\* connections.  Combat: two players, a mobile and a horse.  Guilds: two
\* mortals and two gods, and guilds that need two signatures.
CONSTANTS
  Desc = {d1, d2}
  Body = {b1, b2, b3}
  Mob = mob
  None = none
  Mortals = {}
  Immortals = {god}
  NewName = newname
  NewIds = {n1}
  MaxVer = 1
  \* With "hasty" TLC finds Wired violated, with "recreate" Wired and, without
  \* it, OneBody.
  Risks = {}
  ann = ann
  bob = bob
  wolf = wolf
  horse = horse
  Char = {ann, bob, wolf, horse}
  Players = {ann, bob}
  Horses = {horse}
  Greymen = {ann}
  Rooms = {road, start, trap}
  Traps = {trap}
  Start = start
  Nobody = nobody
  Nowhere = nowhere
  god = god
  imm = imm
  Folk = {ann, bob, god, imm}
  Gods = {god, imm}
  Required = 2
  Most <- MostRows
  MaxMishaps = 1
SYMMETRY Slots
SPECIFICATION MCSpec
INVARIANTS
  OneBody
  Wired
  SnoopsPair
  FightsListed
  FairRounds
  LeadersAgree
  NothingDangles
  NoCoreDump
  Backed
  OneAtATime
PROPERTIES
  BackWithAll
  StaysClosed
