SPECIFICATION MCSpec
CONSTANTS
  c1 = c1  c2 = c2
  k1 = k1  k2 = k2  d1 = d1  d2 = d2  n1 = n1  n2 = n2
  all = all
  post = post  bare = bare
  None = None  MergedCode = MergedCode
  Ids = {c1, c2, c3, c4}
  Codes = {k1, k2}
  Documents = {d1, d2}
  Names = {n1, n2}
  Records = {x1}
  Syncs = {all}
  Posts = {post, bare}
  Puts = {put}
  Merges = {merge}
  Deletes = {delete}
  RowsOf <- MCRowsOf
  BodyOf <- MCBodyOf
  TargetOf <- MCTargetOf
  PairOf <- MCPairOf
  MaxFailures = 1
CHECK_DEADLOCK FALSE
INVARIANT ClientsTypeOK
PROPERTIES KeepsDocumentsRead NoPartnerLosesItsClient EachPartnerSettles
