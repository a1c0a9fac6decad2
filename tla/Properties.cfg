SPECIFICATION FairSpec
CONSTANTS
  c1 = c1
  c2 = c2
  Client = {c1, c2}
  Asks <- MCAsks
  k1 = k1
  k2 = k2
  v1 = v1
  v2 = v2
  Key = {k1, k2}
  Plain = {k2}
  EmptyKey = EmptyKey
  DotsKey = DotsKey
  Value = {Empty, v1, v2}
  Empty = Empty
  Longest = {v2}
  Unset = Unset
  Default <- MCDefault
  Surplus = {0, 1}
  Nothing = Nothing
  NotFound = NotFound
  Done = Done
  Failed = Failed
CHECK_DEADLOCK FALSE
INVARIANT TypeOK
INVARIANT InSync
PROPERTY ServesStore
PROPERTY CallsReturn
