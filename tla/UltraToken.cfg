SPECIFICATION MCSpec
CONSTANTS
  g1 = g1  g2 = g2  r1 = r1  o1 = o1
  seller = seller  Global = Global
  Gets = {g1, g2}
  Reads = {r1}
  Orders = {o1}
  Users = {Global, seller}
  UserOf <- MCUserOf
  Tries <- MCTries
  MaxIssued = 3
INVARIANTS TokenTypeOK RetryHasNewToken WaitersHaveLogin
PROPERTIES NeverAgain FreshUnlessRetried NothingAfterTimeout EveryRequestEnds
CHECK_DEADLOCK FALSE
