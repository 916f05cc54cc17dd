SPECIFICATION FairSpec
CONSTANTS
  r1 = r1
  r2 = r2
  t1 = t1
  t2 = t2
  Reconciler <- TwoReconcilers
  Task <- OneTask
  Requested <- RunOnly
  MaxFaults = 1
PROPERTIES
  Converges
