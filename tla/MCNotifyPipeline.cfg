CONSTANTS
  n1 = n1
  n2 = n2
  k1 = k1
  NoNote = NoNote
  Notes = {n1, n2}
  Malformed = {n2}
  Keys = {k1}
  KeyOf <- MCKeyOf
  Procs = {p1, p2}
  FetchBatch = 2
  MaxDeliver = 2
  MaxRestarts = 2
SPECIFICATION FairSpec
INVARIANTS
  PipelineTypeOK
  DuplicateNeedsFault
PROPERTIES
  ImplementsContract
  AcceptedIsSettled
CHECK_DEADLOCK FALSE
