SPECIFICATION Spec
CONSTANTS
  standup = standup
  review = review
  u1 = u1
  u2 = u2
  NoUrl = NoUrl
  NoRow = NoRow
  NoInst = NoInst
  Urls = {u1, u2}
  Uids = {standup, review}
  Versions = {1, 2}
  Feeds <- MCFeeds
  Lookahead = 2
  Horizon = 1
  Inputs = {3, 5}
  MaxLead = 4
  DefaultLead = 2
  Lookback = 0
  MaxTime = 3
  MaxOps = 2
  MaxEdits = 1
  MaxTroubles = 1
SYMMETRY UrlSymmetry
INVARIANTS TypeOK BackfillNeedsFailure OwnTimeIsReminded RepeatNeedsTrouble RowsAreHeard
CHECK_DEADLOCK FALSE
