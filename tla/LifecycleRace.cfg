SPECIFICATION Spec
CONSTANTS
  r1 = r1
  r2 = r2
  t1 = t1
  t2 = t2
  Reconciler <- TwoReconcilers
  Task <- TwoTasks
  Requested <- RunStopDestroy
  MaxFaults = 1
CONSTRAINT TwoTasksOrTrouble
SYMMETRY Symmetry
INVARIANTS
  TypeOK
PROPERTIES
  ObservationFollowsIntent
  WorkSurvives
  WorkspaceKept
