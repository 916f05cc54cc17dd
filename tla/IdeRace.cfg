\* Two requests for one Workspace, with a migration, an expiry and an update.
SPECIFICATION FairSpec
CONSTANTS
  r1 = r1
  r2 = r2
  w1 = w1
  w2 = w2
  c1 = c1
  c2 = c2
  c3 = c3
  s1 = s1
  s2 = s2
  Request <- TwoRequests
  Workspace <- OneWorkspace
  Code <- TwoCodes
  Session <- TwoSessions
  CodeTtl = 1
  SessionTtl = 2
  WorkspaceExpiry = 1
  MaxTime = 1
  MaxVersion = 2
  MaxEpoch = 2
INVARIANTS
  TypeOK
  OneUnusedCode
  OneActiveSession
  OldEpochIsGone
  AcceptedWasValid
PROPERTIES
  AccessKept
  RequestsEnd
