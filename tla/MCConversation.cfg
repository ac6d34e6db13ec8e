SPECIFICATION Spec
CONSTANTS
  w1 = w1
  w2 = w2
  k1 = k1
  p1 = p1
  p2 = p2
  n1 = n1
  n2 = n2
  b1 = b1
  b2 = b2
  b3 = b3
  c1 = c1
  Bad = Bad
  Dash = Dash
  Mine = Mine
  Filter = Filter
  Nothing = Nothing
  NoJob = NoJob
  Workers = {w1, w2}
  Keys = {k1}
  Projects = {p1, p2}
  Kinds = {"it"}
  NamesOf <- MCNamesOf
  Blocks = {"done", "doing"}
  Plain = {"itype", "field", "language"}
  Choices = {c1}
  BoardsOf <- MCBoardsOf
  Profiles <- MCProfiles
  MaxInputs = 2
  MaxTroubles = 1
INVARIANTS TypeOK StepIsAsked  DuplicateNeedsRace
CHECK_DEADLOCK FALSE
