CONSTANTS
  e1 = e1
  e2 = e2
  alice = alice
  bob = bob
  group = group
  other = other
  s1 = s1
  s2 = s2
  s3 = s3
  Events = {e1, e2}
  Keys = {"updated"}
  KeyOf <- MCKeyOf
  AuthorOf <- MCAuthorOf
  Subs = {s1, s2, s3}
  Chats = {group, other}
  Users = {alice, bob}
  ChatOf <- MCChatOf
  UserOf <- MCUserOf
  Found <- MCFound
  QueueSize = 1
  Workers = {w1, w2}
  Main = Main
  NoEvent = NoEvent
  MaxRequests = 3
  MaxFailures = 1
SPECIFICATION Spec
CHECK_DEADLOCK FALSE
INVARIANTS
  TypeOK
  DrainsAccepted
  RepeatNeedsLapse
  EachChatIsTold
PROPERTIES
  AcceptedIsHandled
