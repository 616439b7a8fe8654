SPECIFICATION SchedSpec
CONSTANTS
  r1 = r1  r2 = r2  r3 = r3  r4 = r4  m1 = m1  s1 = s1  s2 = s2
  tick = tick  now = now  b1 = b1  b2 = b2  on = on  off = off
  Runs = {r1, r2, r3, r4}
  Jobs = {}
  Scopes = {s1, s2}
  ScopeOf <- MCScopeOf
  Ttl = 1
  MaxClock = 0
  NoRun = NoRun
  Executions = {tick, now}
  RunNows = {now}
  Boots = {b1}
  Enables = {}
  Disables = {off}
  LastStep = 2
  MaxFailures = 1
  StepRun <- MCStepRun
  SellerReference = TRUE
INVARIANT OneExecutionAtATime
CHECK_DEADLOCK FALSE
