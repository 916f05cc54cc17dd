------------------------ MODULE MCWorkspaceLifecycle ------------------------
(* Instances of WorkspaceLifecycle for TLC. *)
EXTENDS WorkspaceLifecycle, TLC

CONSTANTS r1, r2, t1, t2

OneReconciler == {r1}
TwoReconcilers == {r1, r2}
NoTask == {}
OneTask == {t1}
TwoTasks == {t1, t2}

RunOnly == {"RUNNING"}
RunStopDestroy == {"RUNNING", "STOPPED", "DESTROYED"}

Symmetry == Permutations({r1, r2}) \cup Permutations({t1, t2})

(* A second task comes only where nothing fails and destruction is not asked  *)
(* for.                                                                       *)
TwoTasksOrTrouble ==
  (\A t \in Task : step[t] # "idle" \/ status[t] # "NONE")
    => faults = 0 /\ "DESTROYED" \notin intents
=============================================================================
