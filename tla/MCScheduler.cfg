SPECIFICATION Spec
CONSTANTS
  h1 = h1
  h2 = h2
  s1 = s1
  u1 = u1
  u2 = u2
  Idle = Idle
  NoFire = NoFire
  NoTime = NoTime
  Users = {u1, u2}
  Chats = {group}
  group = group
  Times = {9, 10}
  Handlers = {h1, h2}
  Slots = {s1}
  MaxRows = 2
  MaxCmds = 3
  MaxFires = 1
  MaxTroubles = 1
  MaxDisc = 1
INVARIANTS TypeOK DailyIsAsPicked
PROPERTY ShutdownEnds
CHECK_DEADLOCK FALSE
