SPECIFICATION Spec
CONSTANTS
  l1 = l1
  l2 = l2
  w1 = w1
  w2 = w2
  a1 = a1
  a2 = a2
  a3 = a3
  a4 = a4
  s1 = s1
  s2 = s2
  s3 = s3
  s4 = s4
  s5 = s5
  NoJob = NoJob
  NoUser = NoUser
  NoSite = NoSite
  NoPending = NoPending
  alice = alice
  Users = {alice}
  Links = {l1, l2}
  Accounts = {a1, a2, a3, a4}
  SitesOf <- MCSitesOf
  Workers = {w1, w2}
  MaxVisits = 3
  MaxPresses = 2
  MaxDisc = 1
  MaxTroubles = 2
SYMMETRY LinkSymmetry
INVARIANTS TypeOK GrantIsUsedAsPicked
CHECK_DEADLOCK FALSE
