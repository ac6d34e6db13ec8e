CONSTANTS
  s1 = s1
  NoCaller = NoCaller
  NoOwner = NoOwner
  Owners = {u1}
  Callers = {c1, c2}
  Services = {s1}
  ServiceOf <- MCServiceOf
  MaxSerial = 3
SPECIFICATION FairSpec
INVARIANTS
  LeaseTypeOK
  SingleRefreshPerUser
  PresentedTokenIsCurrent
  DisconnectSticksWhenQuiet
PROPERTY RequestsReturn
