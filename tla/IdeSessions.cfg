SPECIFICATION FairSpec
CONSTANTS
  r1 = r1
  r2 = r2
  w1 = w1
  w2 = w2
  c1 = c1
  c2 = c2
  c3 = c3
  s1 = s1
  s2 = s2
  Request <- TwoRequests
  Workspace <- OneWorkspace
  Code <- TwoCodes
  Session <- TwoSessions
  CodeTtl = 1
  SessionTtl = 2
  WorkspaceExpiry = 2
  MaxTime = 1
  MaxVersion = 3
  MaxEpoch = 2
PROPERTIES
  SessionsLast
