SPECIFICATION FairSpec
CONSTANTS
  o1 = o1  o2 = o2
  a1 = a1  a2 = a2  a3 = a3
  p1 = p1  p2 = p2
  s1 = s1  s2 = s2
  None = None
  Opportunities = {o1}
  Attempts = {a1, a2}
  ProtocolTests = {}
  Syncs = {s1, s2}
  FullSyncs = {s1}
  OpportunityOf <- MCOpportunityOf
  HonestErp = FALSE
INVARIANTS CancelledIsTrue
PROPERTIES EveryRequestEnds  KnownOrderBlocksResend
CHECK_DEADLOCK FALSE
