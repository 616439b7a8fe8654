SPECIFICATION Spec
CONSTANTS
  c1 = c1  c2 = c2
  k1 = k1  k2 = k2  d1 = d1  d2 = d2  n1 = n1  n2 = n2
  all = all
  post = post  bare = bare
  None = None  MergedCode = MergedCode
  Ids = {c1, c2, c3}
  Codes = {k1, k2}
  Documents = {d1, d2}
  Names = {n1, n2}
  Records = {x1}
  Syncs = {all, seller}
  Posts = {post}
  Puts = {}
  Merges = {}
  Deletes = {}
  RowsOf <- MCRowsOf
  BodyOf <- MCBodyOf
  TargetOf <- MCTargetOf
  PairOf <- MCPairOf
  MaxFailures = 0
CHECK_DEADLOCK FALSE
INVARIANT HistoryOnPrimary
