SPECIFICATION Spec
CONSTANTS
  r1 = r1
  r2 = r2
  t1 = t1
  t2 = t2
  Reconciler <- OneReconciler
  Task <- NoTask
  Requested <- RunStopDestroy
  MaxFaults = 1
INVARIANTS
  DestroyedLeavesNothing
