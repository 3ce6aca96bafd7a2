\* The walk ends, and so does a query for source.
CHECK_DEADLOCK FALSE
SPECIFICATION SharedSpec
CONSTANTS
  q1 = q1
  q2 = q2
  before = before
  private = private
  public = public
  x = x
  y = y
  w1 = w1
  w2 = w2
  w3 = w3
  Queries = {q1}
  Keys = {1, 2, 3}
  Snapshots <- MCSnapshots
  Anchors = {x, y}
  Beliefs = {1, 2}
  Rank <- MCRank
  Api <- MCApi
  Resolves <- MCResolves
  KeyOrder <- MCKeyOrder
  MaxRoutes = 2
  MaxSpoils = 1
  MaxRefreshes = 1
  NoRoute = noRoute
  NoQuery = noQuery
  NoSnapshot = noSnapshot
  Threads = {1, 2, 3}
  MaxNest = 2
  Workers = {w1, w2, w3}
  Release <- MCRelease
  Contents = {"blob", "broken"}
  Uncacheable = {"broken"}
  Absent = absent
  Cut = cut
  NoKey = noKey
  Walkers = {1, 2, 3}
  Files = {1, 2, 3, 4}
  MaxFiles = 2
  NoFile = noFile
  Raws = {1, 2, 3}
  Clean <- MCClean
  Unreadable = {"other"}
  MaxEdits = 3
  Nothing = nothing
INVARIANT RepliesCurrent
