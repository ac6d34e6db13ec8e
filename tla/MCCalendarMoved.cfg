SPECIFICATION Spec
CONSTANTS
  standup = standup
  review = review
  u1 = u1
  u2 = u2
  NoUrl = NoUrl
  NoRow = NoRow
  NoInst = NoInst
  Urls = {u1, u2}
  Uids = {standup, review}
  Versions = {1, 2}
  Feeds <- MCMovedFeeds
  Lookahead = 2
  Horizon = 1
  Inputs = {0, 3, 5}
  MaxLead = 4
  DefaultLead = 2
  Lookback = 1
  MaxTime = 4
  MaxOps = 2
  MaxEdits = 1
  MaxTroubles = 1
SYMMETRY UrlSymmetry
INVARIANT MovedIsReminded
CHECK_DEADLOCK FALSE
