---------------------- MODULE WorkspaceLifecycleProofs ----------------------
(* What holds of WorkspaceLifecycle for every number of overlapping           *)
(* reconciliations and tasks and every number of faults.                      *)
EXTENDS WorkspaceLifecycle, TLAPS

(* The labels of a reconciliation that starts, stops or destroys.             *)
StartLabel == {"seeProvisioning", "seeStarting", "seeReady", "create", "volume",
               "container", "recreate", "revolume", "recontainer",
               "ensureRunning", "start", "wait"}
StopLabel == {"seeStopping", "seeStopped", "ensureStopped", "stop"}
DestroyLabel == {"seeDestroying", "seeDestroyed", "ensureDestroyed", "remove",
                 "removeVolume"}
Working == StartLabel \cup StopLabel \cup DestroyLabel \cup {"inspect"}

(* A reconciliation does what its copy asks for, and a current copy carries   *)
(* the stored intent.                                                         *)
CopyAgrees(p) ==
  /\ at[p] \in Working => want[p] \in intents
  /\ at[p] \in Working /\ p \in fresh => want[p] = row.desired
  /\ at[p] \in StartLabel => want[p] = "RUNNING"
  /\ at[p] \in StopLabel => want[p] \in {"SUSPENDED", "STOPPED"}
  /\ at[p] \in DestroyLabel => want[p] = "DESTROYED"

(* A task with a current copy still sees what it checked.                     *)
TaskCopyAgrees(t) ==
  t \in fresh =>
    /\ step[t] \in {"create", "claim"}
         => row = [desired |-> "RUNNING", observed |-> "READY"]
    /\ step[t] = "restore" => row.desired = "RUNNING"

LInv ==
  /\ TypeOK
  /\ row.desired \in intents
  /\ \A p \in Reconciler : CopyAgrees(p)
  /\ \A t \in Task : TaskCopyAgrees(t)

-----------------------------------------------------------------------------
(* The labels, sorted.                                                        *)
LEMMA LabelsSorted ==
  /\ Label = Working \cup NoCopy \cup {"seeFailed"}
  /\ Working = ObserveLabel \cup CommandLabel \cup InspectLabel
  BY DEF Label, Working, NoCopy, StartLabel, StopLabel, DestroyLabel,
         ObserveLabel, CommandLabel, InspectLabel

(* What follows an inspect serves the same intent.                            *)
LEMMA NextLabelAgrees ==
  ASSUME LInv, NEW p \in Reconciler, at[p] \in InspectLabel
  PROVE  /\ NextLabel(p) \in Working \cup {"failed"}
         /\ NextLabel(p) \in StartLabel => want[p] = "RUNNING"
         /\ NextLabel(p) \in StopLabel => want[p] \in {"SUSPENDED", "STOPPED"}
         /\ NextLabel(p) \in DestroyLabel => want[p] = "DESTROYED"
<1>1. at[p] \in Working /\ CopyAgrees(p) /\ intents \subseteq DesiredState
  BY LabelsSorted DEF LInv, TypeOK
<1>2. want[p] \in DesiredState
  BY <1>1 DEF CopyAgrees
<1>3. CASE at[p] = "inspect"
  BY <1>2, <1>3 DEF NextLabel, AfterInspect, DesiredState, Working, StartLabel,
       StopLabel, DestroyLabel
<1>4. CASE at[p] # "inspect"
  BY <1>1, <1>4 DEF NextLabel, AfterEnsure, CopyAgrees, Working, StartLabel,
       StopLabel, DestroyLabel, InspectLabel
<1> QED BY <1>3, <1>4

(* So does what follows a command.                                            *)
LEMMA AfterCommandAgrees ==
  ASSUME NEW l \in CommandLabel
  PROVE  /\ AfterCommand(l) \in Working
         /\ AfterCommand(l) \in StartLabel <=> l \in StartLabel
         /\ AfterCommand(l) \in StopLabel <=> l \in StopLabel
         /\ AfterCommand(l) \in DestroyLabel <=> l \in DestroyLabel
  BY DEF AfterCommand, Working, StartLabel, StopLabel, DestroyLabel, CommandLabel

(* So does what follows a write of the row, until the reconciliation ends.    *)
LEMMA AfterObserveAgrees ==
  ASSUME NEW l \in ObserveLabel
  PROVE  /\ AfterObserve(l) \in Working \cup {"idle"}
         /\ AfterObserve(l) \in StartLabel => l \in StartLabel
         /\ AfterObserve(l) \in StopLabel => l \in StopLabel
         /\ AfterObserve(l) \in DestroyLabel => l \in DestroyLabel
  BY DEF AfterObserve, Working, StartLabel, StopLabel, DestroyLabel, ObserveLabel

(* What a reconciliation writes speaks of the intent of its copy.             *)
LEMMA SeesFollowsCopy ==
  ASSUME LInv, NEW p \in Reconciler, at[p] \in ObserveLabel
  PROVE  Sees(p) \in ObservedFor(want[p]) /\ Sees(p) \in ObservedState
<1>1. at[p] \in Working /\ CopyAgrees(p)
  BY LabelsSorted DEF LInv
<1> QED BY <1>1 DEF Sees, ObservedFor, CopyAgrees, ObserveLabel, StartLabel,
             StopLabel, DestroyLabel, ObservedState

(* A step of a reconciliation that writes neither the row nor a task keeps    *)
(* the invariant if its next label serves the intent of its copy.             *)
LEMMA MoveStep ==
  ASSUME LInv, NEW p \in Reconciler, NEW l \in Working \cup {"failed"},
         at[p] \in Working,
         Goto(p, l, fresh),
         l \in StartLabel => want[p] = "RUNNING",
         l \in StopLabel => want[p] \in {"SUSPENDED", "STOPPED"},
         l \in DestroyLabel => want[p] = "DESTROYED",
         UNCHANGED <<row, intents, delivery, step, status>>,
         container' \in ContainerState, volume' \in BOOLEAN,
         faults' \in 0..MaxFaults
  PROVE  LInv'
<1>1. TypeOK'
  <2>1. l \in Label
    BY LabelsSorted DEF NoCopy
  <2>2. at' \in [Reconciler -> Label] /\ want' \in [Reconciler -> DesiredState \cup {"NONE"}]
    BY <2>1 DEF LInv, TypeOK, Goto
  <2>3. fresh' \subseteq Reconciler \cup Task
    BY DEF LInv, TypeOK, Goto
  <2> QED BY <2>2, <2>3 DEF LInv, TypeOK
<1>2. ASSUME NEW q \in Reconciler PROVE CopyAgrees(q)'
  <2>1. CopyAgrees(q) /\ fresh' \subseteq fresh
    BY DEF LInv, Goto
  <2>2. CASE q # p
    BY <2>1, <2>2 DEF CopyAgrees, Goto, LInv, TypeOK
  <2>3. CASE q = p /\ l = "failed"
    BY <2>3 DEF CopyAgrees, Goto, LInv, TypeOK, Working, StartLabel, StopLabel,
         DestroyLabel
  <2>4. CASE q = p /\ l # "failed"
    <3>1. l \notin NoCopy
      BY <2>4 DEF NoCopy, Working, StartLabel, StopLabel, DestroyLabel
    <3>2. at'[q] = l /\ want'[q] = want[q]
      BY <2>4, <3>1 DEF Goto, LInv, TypeOK
    <3> QED BY <2>1, <2>4, <3>2 DEF CopyAgrees
  <2> QED BY <2>2, <2>3, <2>4
<1>3. ASSUME NEW t \in Task PROVE TaskCopyAgrees(t)'
  BY DEF LInv, TaskCopyAgrees, Goto
<1> QED BY <1>1, <1>2, <1>3 DEF LInv

(* The daemon's answers are container states.                                 *)
LEMMA DaemonTypes ==
  ASSUME LInv, NEW l \in CommandLabel, TakesEffect(l)
  PROVE  container' \in ContainerState /\ volume' \in BOOLEAN
  BY DEF TakesEffect, ContainerAfter, VolumeAfter, ContainerState, LInv, TypeOK

LEMMA FaultTypes ==
  ASSUME LInv, Fault
  PROVE  faults' \in 0..MaxFaults
  BY LifecycleAssumption DEF Fault, LInv, TypeOK

(* The steps of a reconciliation that leave the row alone.                    *)
LEMMA QuietStep ==
  ASSUME LInv, NEW p \in Reconciler,
         \/ Inspect(p) \/ WaitTimesOut(p) \/ ObserveConflict(p)
         \/ Command(p) \/ CommandRefused(p) \/ DockerFails(p)
  PROVE  LInv'
<1> USE DEF LInv, TypeOK
<1>1. ASSUME Inspect(p) PROVE LInv'
  <2>1. at[p] \in Working
    BY <1>1, LabelsSorted DEF Inspect
  <2> QED BY <1>1, <2>1, NextLabelAgrees, MoveStep DEF Inspect
<1>2. ASSUME NEW P, P = "failed", Goto(p, P, fresh), at[p] \in Working,
             UNCHANGED <<row, intents, delivery, step, status>>,
             container' \in ContainerState, volume' \in BOOLEAN,
             faults' \in 0..MaxFaults
      PROVE LInv'
  <2>1. P \in Working \cup {"failed"} /\ P \notin StartLabel \cup StopLabel \cup DestroyLabel
    BY <1>2 DEF StartLabel, StopLabel, DestroyLabel
  <2> QED BY <1>2, <2>1, MoveStep
<1>3. ASSUME WaitTimesOut(p) PROVE LInv'
  BY <1>2, <1>3 DEF WaitTimesOut, Working, StartLabel
<1>4. ASSUME ObserveConflict(p) PROVE LInv'
  BY <1>2, <1>4, LabelsSorted DEF ObserveConflict
<1>5. ASSUME Command(p) PROVE LInv'
  <2>1. at[p] \in CommandLabel /\ at[p] \in Working /\ CopyAgrees(p)
    BY <1>5, LabelsSorted DEF Command
  <2>2. container' \in ContainerState /\ volume' \in BOOLEAN
    BY <1>5, <2>1, DaemonTypes DEF Command
  <2> QED BY <1>5, <2>1, <2>2, AfterCommandAgrees, MoveStep DEF Command, CopyAgrees
<1>6. ASSUME CommandRefused(p) PROVE LInv'
  BY <1>2, <1>6, LabelsSorted DEF CommandRefused
<1>7. ASSUME DockerFails(p) PROVE LInv'
  <2>1. container' \in ContainerState /\ volume' \in BOOLEAN
    BY <1>7, DaemonTypes DEF DockerFails
  <2> QED BY <1>2, <1>7, <2>1, FaultTypes, LabelsSorted DEF DockerFails
<1> QED BY <1>1, <1>3, <1>4, <1>5, <1>6, <1>7

(* A compare-and-swap by p leaves no other copy current.                      *)
LEMMA ObserveStep ==
  ASSUME LInv, NEW p \in Reconciler, Observe(p)
  PROVE  LInv'
<1>1. at[p] \in ObserveLabel /\ at[p] \in Working /\ p \in fresh /\ CopyAgrees(p)
  BY LabelsSorted DEF Observe, WriteObserved, LInv
<1>2. /\ Sees(p) \in ObservedState
      /\ row' = [row EXCEPT !.observed = Sees(p)]
      /\ row'.desired = row.desired
      /\ row' \in [desired : DesiredState, observed : ObservedState]
  BY <1>1, SeesFollowsCopy DEF Observe, WriteObserved, LInv, TypeOK
<1> DEFINE l == AfterObserve(at[p])
<1>3. /\ l \in Working \cup {"idle"} /\ l \in Label
      /\ l \in StartLabel => at[p] \in StartLabel
      /\ l \in StopLabel => at[p] \in StopLabel
      /\ l \in DestroyLabel => at[p] \in DestroyLabel
  BY <1>1, AfterObserveAgrees, LabelsSorted DEF NoCopy
<1>4. Goto(p, l, {p})
  BY DEF Observe
<1> HIDE DEF l
<1>5. fresh' \subseteq {p} /\ at' = [at EXCEPT ![p] = l]
      /\ want' \in [Reconciler -> DesiredState \cup {"NONE"}]
  BY <1>4 DEF Goto, LInv, TypeOK
<1>6. TypeOK'
  BY <1>2, <1>3, <1>5 DEF LInv, TypeOK, Observe
<1>7. ASSUME NEW q \in Reconciler PROVE CopyAgrees(q)'
  <2>1. CASE q # p
    BY <1>4, <1>5, <2>1 DEF Goto, CopyAgrees, LInv, TypeOK, Observe
  <2>2. CASE q = p /\ l = "idle"
    BY <1>5, <2>2 DEF CopyAgrees, LInv, TypeOK, Working, StartLabel, StopLabel,
         DestroyLabel
  <2>3. CASE q = p /\ l # "idle"
    <3>1. l \notin NoCopy
      BY <1>3, <2>3 DEF NoCopy, Working, StartLabel, StopLabel, DestroyLabel
    <3>2. at'[q] = l /\ want'[q] = want[q]
      BY <1>4, <2>3, <3>1 DEF Goto, LInv, TypeOK
    <3> QED BY <1>1, <1>2, <1>3, <2>3, <3>2 DEF CopyAgrees, Observe
  <2> QED BY <2>1, <2>2, <2>3
<1>8. ASSUME NEW t \in Task PROVE TaskCopyAgrees(t)'
  BY <1>5, LifecycleAssumption DEF TaskCopyAgrees
<1> QED BY <1>2, <1>6, <1>7, <1>8 DEF LInv, Observe

(* The read a reconciliation works from.                                      *)
LEMMA ReadStep ==
  ASSUME LInv, NEW p \in Reconciler, ReadWorkspace(p), delivery' \in BOOLEAN
  PROVE  LInv'
<1>1. TypeOK'
  BY DEF ReadWorkspace, LInv, TypeOK, Label, InspectLabel
<1>2. ASSUME NEW q \in Reconciler PROVE CopyAgrees(q)'
  <2>1. CASE q = p
    BY <2>1 DEF ReadWorkspace, CopyAgrees, LInv, TypeOK, StartLabel, StopLabel,
         DestroyLabel
  <2>2. CASE q # p
    BY <2>2 DEF ReadWorkspace, CopyAgrees, LInv, TypeOK
  <2> QED BY <2>1, <2>2
<1>3. ASSUME NEW t \in Task PROVE TaskCopyAgrees(t)'
  BY LifecycleAssumption DEF ReadWorkspace, TaskCopyAgrees, LInv
<1> QED BY <1>1, <1>2, <1>3 DEF LInv, ReadWorkspace

(* The listing of a Workspace, and the two steps of the catch: no copy is at  *)
(* work before and after.                                                     *)
LEMMA CatchStep ==
  ASSUME LInv, NEW p \in Reconciler, Tick(p) \/ ReadAgain(p) \/ RecordFailed(p)
  PROVE  LInv'
<1>1. /\ at' \in [Reconciler -> Label]
      /\ want' \in [Reconciler -> DesiredState \cup {"NONE"}]
      /\ at'[p] \notin Working
      /\ \A q \in Reconciler \ {p} : at'[q] = at[q] /\ want'[q] = want[q]
  BY DEF Tick, ReadAgain, RecordFailed, Goto, LInv, TypeOK, Label, Working,
       StartLabel, StopLabel, DestroyLabel
<1>2. /\ fresh' \subseteq fresh \cup {p}
      /\ row' = row \/ (fresh' \subseteq {p} /\ row' = [row EXCEPT !.observed = "FAILED"])
      /\ UNCHANGED <<intents, delivery, container, volume, faults, step, status>>
  BY DEF Tick, ReadAgain, RecordFailed, Goto, WriteObserved
<1>3. row'.desired = row.desired /\ row' \in [desired : DesiredState, observed : ObservedState]
  BY <1>2 DEF LInv, TypeOK, ObservedState
<1>4. TypeOK'
  BY <1>1, <1>2, <1>3 DEF LInv, TypeOK
<1>5. ASSUME NEW q \in Reconciler PROVE CopyAgrees(q)'
  <2>1. CASE q = p
    BY <1>1, <2>1 DEF CopyAgrees, Working
  <2>2. CASE q # p
    BY <1>1, <1>2, <1>3, <2>2 DEF CopyAgrees, LInv
  <2> QED BY <2>1, <2>2
<1>6. ASSUME NEW t \in Task PROVE TaskCopyAgrees(t)'
  BY <1>2, LifecycleAssumption DEF TaskCopyAgrees, LInv
<1> QED BY <1>2, <1>3, <1>4, <1>5, <1>6 DEF LInv

(* A request or a migration makes every copy stale.                           *)
LEMMA IntentStep ==
  ASSUME LInv, NEW d \in DesiredState, StoreIntent(d), delivery' \in BOOLEAN
  PROVE  LInv'
<1>1. TypeOK' /\ row'.desired \in intents'
  BY DEF StoreIntent, LInv, TypeOK
<1>2. ASSUME NEW q \in Reconciler PROVE CopyAgrees(q)'
  BY DEF StoreIntent, CopyAgrees, LInv
<1>3. ASSUME NEW t \in Task PROVE TaskCopyAgrees(t)'
  BY DEF StoreIntent, TaskCopyAgrees
<1> QED BY <1>1, <1>2, <1>3 DEF LInv

(* What the container does by itself touches no copy.                         *)
LEMMA ContainerStep ==
  ASSUME LInv, BecomesHealthy \/ Recovers \/ BecomesUnhealthy \/ Exits
  PROVE  LInv'
<1>1. /\ UNCHANGED <<row, intents, delivery, volume, at, want, fresh, step, status>>
      /\ container' \in ContainerState
      /\ faults' \in 0..MaxFaults
  BY FaultTypes DEF BecomesHealthy, Recovers, BecomesUnhealthy, Exits,
     ContainerBecomes, ContainerState, LInv, TypeOK
<1> QED BY <1>1 DEF LInv, TypeOK, CopyAgrees, TaskCopyAgrees

(* A task step that leaves the row alone.                                     *)
LEMMA TaskMoveStep ==
  ASSUME LInv, NEW t \in Task,
         \/ CreateTask(t) \/ ClaimConflict(t) \/ MarkRunning(t) \/ RunTask(t)
         \/ AgentEnds(t) \/ RecordTask(t) \/ StartTask(t) \/ Finally(t)
  PROVE  LInv'
<1>1. /\ step' \in [Task -> TaskStep]
      /\ status' \in [Task -> TaskStatus]
      /\ UNCHANGED <<row, intents, delivery, container, volume, faults, at, want>>
      /\ fresh' \subseteq fresh \cup {t}
      /\ \A u \in Task \ {t} : step'[u] = step[u]
  BY DEF CreateTask, ClaimConflict, MarkRunning, RunTask, AgentEnds, RecordTask,
     StartTask, Finally, TaskGoes, TaskRecorded, LInv, TypeOK, TaskStep, TaskStatus
<1>2. TypeOK'
  BY <1>1 DEF LInv, TypeOK
<1>3. ASSUME NEW q \in Reconciler PROVE CopyAgrees(q)'
  BY <1>1, LifecycleAssumption DEF CopyAgrees, LInv
<1>4. ASSUME NEW u \in Task PROVE TaskCopyAgrees(u)'
  <2>1. CASE u # t
    BY <1>1, <2>1 DEF TaskCopyAgrees, LInv
  <2>2. CASE u = t
    <3>1. row \in [desired : DesiredState, observed : ObservedState]
          /\ TaskCopyAgrees(t) /\ step \in [Task -> TaskStep]
      BY DEF LInv, TypeOK
    <3>2. CASE StartTask(t)
      BY <1>1, <2>2, <3>1, <3>2 DEF StartTask, ReadyToWork, TaskGoes, TaskCopyAgrees
    <3>3. CASE Finally(t)
      BY <1>1, <2>2, <3>1, <3>3 DEF Finally, TaskGoes, TaskCopyAgrees
    <3>4. CASE CreateTask(t)
      BY <1>1, <2>2, <3>1, <3>4 DEF CreateTask, TaskGoes, TaskCopyAgrees
    <3>5. CASE \/ ClaimConflict(t) \/ MarkRunning(t) \/ RunTask(t)
               \/ AgentEnds(t) \/ RecordTask(t)
      <4>1. step'[t] \notin {"create", "claim", "restore"}
        BY <3>1, <3>5 DEF ClaimConflict, MarkRunning, RunTask, AgentEnds,
           RecordTask, TaskGoes
      <4> QED BY <2>2, <4>1 DEF TaskCopyAgrees
    <3> QED BY <3>2, <3>3, <3>4, <3>5
  <2> QED BY <2>1, <2>2
<1> QED BY <1>1, <1>2, <1>3, <1>4 DEF LInv

(* The two writes of a task make every other copy stale.                      *)
LEMMA TaskWriteStep ==
  ASSUME LInv, NEW t \in Task, Claim(t) \/ Restore(t)
  PROVE  LInv'
<1>1. /\ step' \in [Task -> TaskStep]
      /\ step'[t] \in {"mark", "idle"}
      /\ \A u \in Task \ {t} : step'[u] = step[u]
      /\ UNCHANGED <<intents, delivery, container, volume, faults, at, want, status>>
  BY DEF Claim, Restore, TaskGoes, LInv, TypeOK, TaskStep
<1>2. \/ row' = row /\ fresh' \subseteq fresh
      \/ /\ fresh' \subseteq {t}
         /\ \E o \in {"BUSY", "READY"} : row' = [row EXCEPT !.observed = o]
  BY DEF Claim, Restore, TaskGoes, WriteObserved
<1>3. row'.desired = row.desired /\ row' \in [desired : DesiredState, observed : ObservedState]
  BY <1>2 DEF LInv, TypeOK, ObservedState
<1>4. TypeOK'
  BY <1>1, <1>2, <1>3 DEF LInv, TypeOK
<1>5. ASSUME NEW q \in Reconciler PROVE CopyAgrees(q)'
  BY <1>1, <1>2, <1>3, LifecycleAssumption DEF CopyAgrees, LInv
<1>6. ASSUME NEW u \in Task PROVE TaskCopyAgrees(u)'
  <2>1. CASE u = t
    BY <1>1, <2>1 DEF TaskCopyAgrees
  <2>2. CASE u # t
    BY <1>1, <1>2, <2>2 DEF TaskCopyAgrees, LInv
  <2> QED BY <2>1, <2>2
<1> QED BY <1>1, <1>3, <1>4, <1>5, <1>6 DEF LInv

(* After a crash nobody holds a copy.                                         *)
LEMMA CrashStep ==
  ASSUME LInv, Crash
  PROVE  LInv'
<1>1. TypeOK' /\ fresh' = {} /\ UNCHANGED <<row, intents>>
  BY FaultTypes DEF Crash, LInv, TypeOK, Label, TaskStep
<1>2. ASSUME NEW q \in Reconciler PROVE CopyAgrees(q)'
  <2>1. at'[q] = "idle"
    BY DEF Crash
  <2> QED BY <2>1 DEF CopyAgrees, Working, StartLabel, StopLabel, DestroyLabel
<1>3. ASSUME NEW t \in Task PROVE TaskCopyAgrees(t)'
  BY <1>1 DEF TaskCopyAgrees
<1> QED BY <1>1, <1>2, <1>3 DEF LInv

LEMMA LifecycleInit == Init => LInv
<1> SUFFICES ASSUME Init PROVE LInv
  OBVIOUS
<1>1. TypeOK /\ row.desired \in intents
  <2>1. row \in [desired : DesiredState, observed : ObservedState]
        /\ intents \subseteq DesiredState /\ row.desired \in intents
    BY DEF Init, DesiredState, ObservedState
  <2>2. /\ delivery \in BOOLEAN /\ container \in ContainerState
        /\ volume \in BOOLEAN
    BY Zenon DEF Init, ContainerState
  <2>5. faults \in 0..MaxFaults
    BY LifecycleAssumption DEF Init
  <2>3. /\ at \in [Reconciler -> Label]
        /\ want \in [Reconciler -> DesiredState \cup {"NONE"}]
        /\ fresh \subseteq Reconciler \cup Task
    BY DEF Init, Label
  <2>4. step \in [Task -> TaskStep] /\ status \in [Task -> TaskStatus]
    BY DEF Init, TaskStep, TaskStatus
  <2> QED BY <2>1, <2>2, <2>3, <2>4, <2>5 DEF TypeOK
<1>2. ASSUME NEW q \in Reconciler PROVE CopyAgrees(q)
  BY DEF Init, CopyAgrees, Working, StartLabel, StopLabel, DestroyLabel
<1> QED BY <1>1, <1>2 DEF LInv, Init, TaskCopyAgrees

LEMMA LifecycleNext == LInv /\ [Next]_vars => LInv'
<1> SUFFICES ASSUME LInv, [Next]_vars PROVE LInv'
  OBVIOUS
<1>1. ASSUME NEW d \in Requested, RequestState(d) PROVE LInv'
  BY <1>1, IntentStep, LifecycleAssumption DEF RequestState
<1>2. CASE MigrationStops
  BY <1>2, IntentStep DEF MigrationStops, DesiredState, LInv, TypeOK
<1>3. ASSUME NEW p \in Reconciler, ReadListed(p) \/ Deliver(p) PROVE LInv'
  BY <1>3, ReadStep DEF ReadListed, Deliver, LInv, TypeOK
<1>4. ASSUME NEW p \in Reconciler, Tick(p) \/ ReconcileStep(p) \/ DockerFails(p)
      PROVE LInv'
  BY <1>3, <1>4, QuietStep, ObserveStep, CatchStep DEF ReconcileStep
<1>5. CASE BecomesHealthy \/ Recovers \/ BecomesUnhealthy \/ Exits
  BY <1>5, ContainerStep
<1>6. ASSUME NEW t \in Task, StartTask(t) \/ TaskRuns(t) PROVE LInv'
  BY <1>6, TaskMoveStep, TaskWriteStep DEF TaskRuns
<1>7. CASE Crash
  BY <1>7, CrashStep
<1>8. CASE UNCHANGED vars
  BY <1>8 DEF vars, LInv, TypeOK, CopyAgrees, TaskCopyAgrees
<1> QED BY <1>1, <1>2, <1>3, <1>4, <1>5, <1>6, <1>7, <1>8 DEF Next

(* The copies of every reconciliation and every task agree with the row as    *)
(* long as their version does, in every reachable state.                      *)
THEOREM LifecycleInvariance == Spec => []LInv
  BY LifecycleInit, LifecycleNext, PTL DEF Spec

(* The row, the daemon and the requests in flight are always well typed.      *)
THEOREM LifecycleTypes == Spec => []TypeOK
<1>1. LInv => TypeOK
  BY DEF LInv
<1> QED BY <1>1, LifecycleInvariance, PTL

-----------------------------------------------------------------------------
(* No observation speaks of an intent that is no longer stored.               *)
THEOREM FollowsIntent == Spec => ObservationFollowsIntent
<1>1. LInv /\ [Next]_vars
        => [row'.observed # row.observed => row'.observed \in ObservedFor(row.desired)]_vars
  <2> SUFFICES ASSUME LInv, Next, row'.observed # row.observed
               PROVE  row'.observed \in ObservedFor(row.desired)
    BY DEF vars
  <2>1. row \in [desired : DesiredState, observed : ObservedState]
    BY DEF LInv, TypeOK
  <2>2. ASSUME NEW p \in Reconciler, Observe(p)
        PROVE  row'.observed \in ObservedFor(row.desired)
    <3>1. at[p] \in ObserveLabel /\ p \in fresh /\ row' = [row EXCEPT !.observed = Sees(p)]
      BY <2>2 DEF Observe, WriteObserved
    <3>2. want[p] = row.desired
      BY <3>1, LabelsSorted DEF LInv, CopyAgrees
    <3> QED BY <2>1, <3>1, <3>2, SeesFollowsCopy
  <2>3. ASSUME NEW p \in Reconciler, RecordFailed(p)
        PROVE  row'.observed \in ObservedFor(row.desired)
    BY <2>1, <2>3 DEF RecordFailed, WriteObserved, ObservedFor
  <2>4. ASSUME NEW t \in Task, Claim(t) \/ Restore(t)
        PROVE  row'.observed \in ObservedFor(row.desired)
    <3>1. TaskCopyAgrees(t)
      BY DEF LInv
    <3> QED BY <2>1, <2>4, <3>1 DEF Claim, Restore, WriteObserved, TaskCopyAgrees,
               ObservedFor
  <2>5. ASSUME NEW d, StoreIntent(d) PROVE FALSE
    BY <2>1, <2>5 DEF StoreIntent
  <2>6. ~ UNCHANGED row
    OBVIOUS
  <2> QED BY <2>2, <2>3, <2>4, <2>5, <2>6 DEF Next, RequestState, MigrationStops,
       Tick, Deliver, ReadListed, ReadWorkspace, ReconcileStep, Inspect, WaitTimesOut,
       ObserveConflict, Command, CommandRefused, DockerFails, ReadAgain,
       BecomesHealthy, Recovers, BecomesUnhealthy, Exits, ContainerBecomes,
       TaskRuns, StartTask, CreateTask, ClaimConflict, MarkRunning, RunTask,
       AgentEnds, RecordTask, Finally, Crash
<1> QED BY <1>1, LifecycleInvariance, PTL DEF Spec, ObservationFollowsIntent

(* Only a Workspace that was asked to be destroyed loses its volume.          *)
THEOREM WorkKept == Spec => WorkSurvives
<1>1. LInv /\ [Next]_vars => [volume => volume' \/ "DESTROYED" \in intents]_vars
  <2> SUFFICES ASSUME LInv, Next, volume, ~volume'
               PROVE  "DESTROYED" \in intents
    BY DEF vars
  <2>1. ASSUME NEW p \in Reconciler, Command(p) \/ DockerFails(p)
        PROVE  "DESTROYED" \in intents
    <3>1. at[p] \in CommandLabel /\ TakesEffect(at[p])
      BY <2>1 DEF Command, DockerFails
    <3>2. at[p] = "removeVolume"
      BY <3>1 DEF TakesEffect, VolumeAfter
    <3> QED BY <3>2 DEF LInv, CopyAgrees, Working, DestroyLabel
  <2>2. ~ UNCHANGED volume
    OBVIOUS
  <2> QED BY <2>1, <2>2 DEF Next, RequestState, MigrationStops, StoreIntent,
       Tick, Deliver, ReadListed, ReadWorkspace, ReconcileStep, Inspect, WaitTimesOut,
       Observe, ObserveConflict, CommandRefused, ReadAgain, RecordFailed,
       BecomesHealthy, Recovers, BecomesUnhealthy, Exits, ContainerBecomes,
       TaskRuns, StartTask, CreateTask, Claim, ClaimConflict, MarkRunning,
       RunTask, AgentEnds, RecordTask, Finally, Restore, Crash
<1> QED BY <1>1, LifecycleInvariance, PTL DEF Spec, WorkSurvives

(* A task claims the Workspace in the state it checked.                       *)
THEOREM ClaimsReady == Spec => TaskClaimsReady
<1>1. LInv /\ [Next]_vars
        => [\A t \in Task : step[t] = "claim" /\ step'[t] = "mark"
              => row = [desired |-> "RUNNING", observed |-> "READY"]]_vars
  <2> SUFFICES ASSUME LInv, Next, NEW t \in Task, step[t] = "claim", step'[t] = "mark"
               PROVE  row = [desired |-> "RUNNING", observed |-> "READY"]
    BY DEF vars
  <2>1. ASSUME NEW u \in Task, StartTask(u) \/ TaskRuns(u) PROVE u = t /\ Claim(t)
    BY <2>1 DEF StartTask, TaskRuns, CreateTask, Claim, ClaimConflict,
       MarkRunning, RunTask, AgentEnds, RecordTask, Finally, Restore, TaskGoes,
       LInv, TypeOK
  <2>2. Claim(t) => row = [desired |-> "RUNNING", observed |-> "READY"]
    BY DEF Claim, WriteObserved, LInv, TaskCopyAgrees
  <2>3. ~ UNCHANGED step
    OBVIOUS
  <2>4. ~ Crash
    BY DEF Crash
  <2> QED BY <2>1, <2>2, <2>3, <2>4 DEF Next, RequestState, MigrationStops,
       StoreIntent, Tick, Deliver, ReadListed, ReadWorkspace, ReconcileStep, Inspect,
       WaitTimesOut, Observe, ObserveConflict, Command, CommandRefused,
       DockerFails, ReadAgain, RecordFailed, BecomesHealthy, Recovers,
       BecomesUnhealthy, Exits, ContainerBecomes
<1> QED BY <1>1, LifecycleInvariance, PTL DEF Spec, TaskClaimsReady

-----------------------------------------------------------------------------
(* The lifecycle implements WorkspaceLedger.                                  *)

(* A task that is about to be stored was not stored before.                   *)
CreatesOnce == \A t \in Task : step[t] = "create" => status[t] = "NONE"

LEMMA CreatesOnceStep == TypeOK /\ CreatesOnce /\ [Next]_vars => CreatesOnce'
<1> SUFFICES ASSUME TypeOK, CreatesOnce, [Next]_vars, NEW t \in Task, step'[t] = "create"
             PROVE  status'[t] = "NONE"
  BY DEF CreatesOnce
<1>1. CASE UNCHANGED <<step, status>>
  BY <1>1 DEF CreatesOnce
<1>2. ASSUME NEW u \in Task, StartTask(u) PROVE status'[t] = "NONE"
  BY <1>2 DEF StartTask, TaskGoes, CreatesOnce, TypeOK
<1>3. ASSUME NEW u \in Task, TaskRuns(u) PROVE status'[t] = "NONE"
  <2>1. step'[u] # "create" /\ \A v \in Task \ {u} : step'[v] = step[v] /\ status'[v] = status[v]
    BY <1>3 DEF TaskRuns, CreateTask, Claim, ClaimConflict, MarkRunning, RunTask, AgentEnds,
       RecordTask, Finally, Restore, TaskGoes, TaskRecorded, TypeOK
  <2> QED BY <2>1 DEF CreatesOnce
<1>4. CASE Crash
  BY <1>4 DEF Crash
<1>5. CASE UNCHANGED vars
  BY <1>1, <1>5 DEF vars
<1> QED BY <1>1, <1>2, <1>3, <1>4, <1>5 DEF Next, RequestState, MigrationStops, StoreIntent,
       Tick, Deliver, ReadListed, ReadWorkspace, ReconcileStep, Inspect, WaitTimesOut, Observe,
       ObserveConflict, Command, CommandRefused, DockerFails, ReadAgain, RecordFailed,
       BecomesHealthy, Recovers, BecomesUnhealthy, Exits, ContainerBecomes

LEMMA LedgerInit == Init => Ledger!Init
BY DEF Init, Ledger!Init, AtWork

LEMMA LedgerRests ==
  ASSUME UNCHANGED <<row, intents, volume, AtWork, status>>
  PROVE  UNCHANGED Ledger!vars
BY DEF Ledger!vars

LEMMA WorkStays ==
  ASSUME UNCHANGED step
  PROVE  AtWork' = AtWork
BY DEF AtWork

(* What is written under a current copy is told of the stored intent.         *)
LEMMA LedgerTells ==
  ASSUME TypeOK, NEW o \in ObservedState, row' = [row EXCEPT !.observed = o],
         o \in Ledger!SpeaksOf(row.desired),
         UNCHANGED <<intents, volume, AtWork, status>>
  PROVE  [Ledger!Next]_Ledger!vars
<1>1. row'.desired = row.desired /\ row'.observed = o
  BY DEF TypeOK
<1>2. Ledger!Tell
  BY <1>1 DEF Ledger!Tell
<1> QED BY <1>2 DEF Ledger!Next

LEMMA LedgerIntent ==
  ASSUME LInv, NEW d \in DesiredState, StoreIntent(d)
  PROVE  [Ledger!Next]_Ledger!vars
<1>1. row'.desired = d /\ row'.observed = row.observed
  BY DEF StoreIntent, LInv, TypeOK
<1>2. AtWork' = AtWork
  BY WorkStays DEF StoreIntent
<1>3. Ledger!Ask
  BY <1>1, <1>2 DEF StoreIntent, Ledger!Ask, DesiredState
<1> QED BY <1>3 DEF Ledger!Next

(* A reconciliation writes the row, gives the daemon a command, or neither.   *)
LEMMA LedgerReconciles ==
  ASSUME LInv, NEW p \in Reconciler,
         Tick(p) \/ Deliver(p) \/ ReconcileStep(p) \/ DockerFails(p)
  PROVE  [Ledger!Next]_Ledger!vars
<1>1. UNCHANGED <<intents, status, AtWork>>
  <2>1. UNCHANGED <<intents, status, step>>
    BY DEF Tick, Deliver, ReadListed, ReadWorkspace, ReconcileStep, Inspect, WaitTimesOut, Observe,
       ObserveConflict, Command, CommandRefused, DockerFails, ReadAgain, RecordFailed
  <2> QED BY <2>1, WorkStays
<1>2. CASE Observe(p)
  <2>1. at[p] \in ObserveLabel /\ p \in fresh /\ row' = [row EXCEPT !.observed = Sees(p)]
    BY <1>2 DEF Observe, WriteObserved
  <2>2. CopyAgrees(p) /\ want[p] = row.desired
    BY <2>1, LabelsSorted DEF LInv, CopyAgrees
  <2>3. Sees(p) \in ObservedState /\ Sees(p) \in Ledger!SpeaksOf(row.desired)
    BY <2>1, <2>2, LabelsSorted, SeesFollowsCopy
       DEF Sees, Ledger!SpeaksOf, CopyAgrees, ObserveLabel, StartLabel, StopLabel, DestroyLabel
  <2>4. UNCHANGED volume
    BY <1>2 DEF Observe
  <2> QED BY <1>1, <2>1, <2>3, <2>4, LedgerTells DEF LInv
<1>3. CASE RecordFailed(p)
  <2>1. UNCHANGED volume
    BY <1>3 DEF RecordFailed
  <2>2. row' = row \/ row' = [row EXCEPT !.observed = "FAILED"]
    BY <1>3 DEF RecordFailed, WriteObserved
  <2>3. "FAILED" \in ObservedState /\ "FAILED" \in Ledger!SpeaksOf(row.desired)
    BY DEF ObservedState, Ledger!SpeaksOf
  <2> QED BY <1>1, <2>1, <2>2, <2>3, LedgerTells, LedgerRests DEF LInv
<1>4. CASE Command(p) \/ DockerFails(p)
  <2>1. UNCHANGED row
    BY <1>4 DEF Command, DockerFails
  <2>2. \/ volume' = volume
        \/ volume' = TRUE
        \/ volume' = FALSE /\ at[p] = "removeVolume"
    BY <1>4 DEF Command, DockerFails, TakesEffect, VolumeAfter, LInv, TypeOK, CommandLabel
  <2>3. CASE volume' = volume
    BY <1>1, <2>1, <2>3, LedgerRests
  <2>4. CASE volume' = TRUE
    <3>1. Ledger!BeginWork
      BY <1>1, <2>1, <2>4 DEF Ledger!BeginWork
    <3> QED BY <3>1 DEF Ledger!Next
  <2>5. CASE volume' = FALSE /\ at[p] = "removeVolume"
    <3>1. "DESTROYED" \in intents
      BY <2>5 DEF LInv, CopyAgrees, Working, DestroyLabel
    <3>2. Ledger!LoseWork
      BY <1>1, <2>1, <2>5, <3>1 DEF Ledger!LoseWork
    <3> QED BY <3>2 DEF Ledger!Next
  <2> QED BY <2>2, <2>3, <2>4, <2>5
<1>5. CASE ~(Observe(p) \/ RecordFailed(p) \/ Command(p) \/ DockerFails(p))
  <2>1. UNCHANGED <<row, volume>>
    BY <1>5 DEF Tick, Deliver, ReadListed, ReadWorkspace, ReconcileStep, Inspect, WaitTimesOut,
       ObserveConflict, CommandRefused, ReadAgain
  <2> QED BY <1>1, <2>1, LedgerRests
<1> QED BY <1>2, <1>3, <1>4, <1>5

(* A task moves in AtWork by its own step alone.                              *)
LEMMA WorkMoves ==
  ASSUME LInv, NEW t \in Task, NEW s \in TaskStep, step' = [step EXCEPT ![t] = s]
  PROVE  /\ s \in {"mark", "runTask", "agent", "complete", "fail"} => AtWork' = AtWork \cup {t}
         /\ s \notin {"mark", "runTask", "agent", "complete", "fail"} => AtWork' = AtWork \ {t}
         /\ t \in AtWork <=> step[t] \in {"mark", "runTask", "agent", "complete", "fail"}
         /\ (s \in {"mark", "runTask", "agent", "complete", "fail"} <=> t \in AtWork)
              => AtWork' = AtWork
<1>1. \A u \in Task \ {t} : u \in AtWork' <=> u \in AtWork
  BY DEF AtWork, LInv, TypeOK
<1>2. /\ t \in AtWork <=> step[t] \in {"mark", "runTask", "agent", "complete", "fail"}
      /\ t \in AtWork' <=> s \in {"mark", "runTask", "agent", "complete", "fail"}
      /\ AtWork \subseteq Task /\ AtWork' \subseteq Task
  BY DEF AtWork, LInv, TypeOK
<1> QED BY <1>1, <1>2

LEMMA LedgerTasks ==
  ASSUME LInv, CreatesOnce, NEW t \in Task, StartTask(t) \/ TaskRuns(t)
  PROVE  [Ledger!Next]_Ledger!vars
<1>1. UNCHANGED <<intents, volume>>
  BY DEF StartTask, TaskRuns, CreateTask, Claim, ClaimConflict, MarkRunning, RunTask, AgentEnds,
     RecordTask, Finally, Restore
<1>2. CASE StartTask(t) \/ ClaimConflict(t) \/ RunTask(t) \/ AgentEnds(t) \/ Finally(t)
  <2>1. UNCHANGED <<row, status>>
    BY <1>2 DEF StartTask, ClaimConflict, RunTask, AgentEnds, Finally
  <2>2. PICK s \in TaskStep :
          /\ step' = [step EXCEPT ![t] = s]
          /\ step[t] \in {"mark", "runTask", "agent", "complete", "fail"}
               <=> s \in {"mark", "runTask", "agent", "complete", "fail"}
    BY <1>2 DEF StartTask, ClaimConflict, RunTask, AgentEnds, Finally, TaskGoes, TaskStep
  <2>3. AtWork' = AtWork
    BY <2>2, WorkMoves
  <2> QED BY <1>1, <2>1, <2>3, LedgerRests
<1>3. CASE CreateTask(t)
  <2>1. /\ step[t] = "create" /\ status[t] = "NONE" /\ step' = [step EXCEPT ![t] = "claim"]
        /\ status' = [status EXCEPT ![t] = "PENDING"] /\ UNCHANGED row
    BY <1>3 DEF CreateTask, TaskGoes, TaskRecorded, CreatesOnce
  <2>2. AtWork' = AtWork
    BY <2>1, WorkMoves DEF TaskStep
  <2>3. Ledger!Create(t)
    BY <1>1, <2>1, <2>2 DEF Ledger!Create
  <2> QED BY <2>3 DEF Ledger!Next
<1>4. CASE Claim(t)
  <2>1. /\ row = [desired |-> "RUNNING", observed |-> "READY"]
        /\ row' = [row EXCEPT !.observed = "BUSY"] /\ step' = [step EXCEPT ![t] = "mark"]
        /\ UNCHANGED status
    BY <1>4 DEF Claim, WriteObserved, TaskGoes, LInv, TaskCopyAgrees
  <2>2. AtWork' = AtWork \cup {t}
    BY <2>1, WorkMoves DEF TaskStep
  <2>3. Ledger!Claim(t)
    BY <1>1, <2>1, <2>2 DEF Ledger!Claim
  <2> QED BY <2>3 DEF Ledger!Next
<1>5. CASE MarkRunning(t)
  <2>1. /\ step[t] = "mark" /\ status[t] = "PENDING" /\ step' = [step EXCEPT ![t] = "runTask"]
        /\ status' = [status EXCEPT ![t] = "RUNNING"] /\ UNCHANGED row
    BY <1>5 DEF MarkRunning, TaskGoes, TaskRecorded
  <2>2. AtWork' = AtWork /\ t \in AtWork
    BY <2>1, WorkMoves DEF TaskStep
  <2>3. Ledger!Run(t)
    BY <1>1, <2>1, <2>2 DEF Ledger!Run
  <2> QED BY <2>3 DEF Ledger!Next
<1>6. CASE RecordTask(t)
  <2>1. /\ step[t] \in {"complete", "fail"} /\ status[t] = "RUNNING"
        /\ step' = [step EXCEPT ![t] = "finally"] /\ UNCHANGED row
        /\ \E s \in {"COMPLETED", "FAILED"} : status' = [status EXCEPT ![t] = s]
    BY <1>6 DEF RecordTask, TaskGoes, TaskRecorded
  <2>2. AtWork' = AtWork \ {t} /\ t \in AtWork
    BY <2>1, WorkMoves DEF TaskStep
  <2>3. Ledger!Finish(t)
    BY <1>1, <2>1, <2>2 DEF Ledger!Finish
  <2> QED BY <2>3 DEF Ledger!Next
<1>7. CASE Restore(t)
  <2>1. /\ step[t] = "restore" /\ step' = [step EXCEPT ![t] = "idle"] /\ UNCHANGED status
        /\ row' = row \/ (t \in fresh /\ row' = [row EXCEPT !.observed = "READY"])
    BY <1>7 DEF Restore, WriteObserved, TaskGoes
  <2>2. AtWork' = AtWork
    BY <2>1, WorkMoves DEF TaskStep
  <2>3. CASE row' = row
    BY <1>1, <2>1, <2>2, <2>3, LedgerRests
  <2>4. CASE t \in fresh /\ row' = [row EXCEPT !.observed = "READY"]
    <3>1. row.desired = "RUNNING"
      BY <2>1, <2>4 DEF LInv, TaskCopyAgrees
    <3>2. "READY" \in ObservedState /\ "READY" \in Ledger!SpeaksOf(row.desired)
      BY <3>1 DEF ObservedState, Ledger!SpeaksOf
    <3> QED BY <1>1, <2>1, <2>2, <2>4, <3>2, LedgerTells DEF LInv
  <2> QED BY <2>1, <2>3, <2>4
<1> QED BY <1>2, <1>3, <1>4, <1>5, <1>6, <1>7 DEF TaskRuns

LEMMA LedgerStep == LInv /\ CreatesOnce /\ [Next]_vars => [Ledger!Next]_Ledger!vars
<1> SUFFICES ASSUME LInv, CreatesOnce, [Next]_vars PROVE [Ledger!Next]_Ledger!vars
  OBVIOUS
<1>1. CASE UNCHANGED vars
  <2>1. UNCHANGED <<row, intents, volume, step, status>>
    BY <1>1 DEF vars
  <2> QED BY <2>1, WorkStays, LedgerRests
<1>2. ASSUME NEW d \in Requested, RequestState(d) PROVE [Ledger!Next]_Ledger!vars
  BY <1>2, LedgerIntent, LifecycleAssumption DEF RequestState
<1>3. CASE MigrationStops
  BY <1>3, LedgerIntent DEF MigrationStops, DesiredState
<1>4. CASE BecomesHealthy \/ Recovers \/ BecomesUnhealthy \/ Exits
  <2>1. UNCHANGED <<row, intents, volume, step, status>>
    BY <1>4 DEF BecomesHealthy, Recovers, BecomesUnhealthy, Exits, ContainerBecomes
  <2> QED BY <2>1, WorkStays, LedgerRests
<1>5. CASE Crash
  <2>1. UNCHANGED <<row, intents, volume, status>> /\ AtWork' = {}
    BY <1>5 DEF Crash, AtWork
  <2>2. Ledger!Interrupt
    BY <2>1 DEF Ledger!Interrupt
  <2> QED BY <2>2 DEF Ledger!Next
<1> QED BY <1>1, <1>2, <1>3, <1>4, <1>5, LedgerReconciles, LedgerTasks DEF Next

(* The lifecycle keeps what WorkspaceLedger promises, for every number of     *)
(* reconciliations, tasks and faults (lifecycle.ts, the supervisor and the    *)
(* task service).                                                             *)
THEOREM LifecycleImplementsLedger == Spec => WorkspaceKept
<1>1. Init => CreatesOnce
  BY DEF Init, CreatesOnce
<1>2. LInv /\ CreatesOnce /\ [Next]_vars => CreatesOnce'
  BY CreatesOnceStep DEF LInv
<1>3. LInv /\ CreatesOnce /\ [Next]_vars => [Ledger!Next]_Ledger!vars
  BY LedgerStep
<1> QED BY <1>1, <1>2, <1>3, LedgerInit, LifecycleInvariance, PTL
     DEF Spec, WorkspaceKept, Ledger!Spec

-----------------------------------------------------------------------------
(* What "Destroying a Workspace removes both" rests on: nothing is left where *)
(* DESTROYED is recorded or about to be, and no container where the volume is *)
(* about to be removed.                                                       *)
Nothing == container = "ABSENT" /\ ~volume

DestroyedSoundly ==
  /\ row.observed = "DESTROYED" => Nothing
  /\ \A p \in Reconciler \cap fresh :
       /\ at[p] = "seeDestroyed" => Nothing
       /\ at[p] = "removeVolume" => container = "ABSENT"

Creating == {"volume", "container", "revolume", "recontainer"}

(* A converge that finds no container looks for no volume (lifecycle.ts:95).  *)
MissesVolume(p) ==
  Inspect(p) /\ p \in fresh /\ NextLabel(p) = "seeDestroyed" /\ volume

(* A start that was superseded in the database reaches the daemon after the   *)
(* destruction: the commands of the supervisor carry no version of the row.   *)
CreatesLate(p) ==
  /\ Command(p) \/ DockerFails(p)
  /\ at[p] \in Creating
  /\ p \notin fresh
  /\ <<container, volume>>' # <<container, volume>>
  /\ \/ row.observed = "DESTROYED"
     \/ \E q \in Reconciler \cap fresh :
          \/ at[q] = "seeDestroyed"
          \/ at[q] = "removeVolume" /\ container' # "ABSENT"

(* The labels between the first and the last observed state a reconciliation  *)
(* writes: a copy that is current there is its own write, not DESTROYED.      *)
Underway == {"create", "volume", "container", "recreate", "revolume",
             "recontainer", "ensureRunning", "start", "wait", "ensureStopped",
             "stop", "ensureDestroyed", "remove", "removeVolume"}

UnderwayRecorded ==
  \A p \in Reconciler \cap fresh : at[p] \in Underway => row.observed # "DESTROYED"

(* What a step of one reconciliation changes of the reconciliations.          *)
LEMMA MovesOne ==
  ASSUME LInv, NEW p \in Reconciler, NEW l, NEW f, Goto(p, l, f)
  PROVE  /\ at' = [at EXCEPT ![p] = l] /\ at'[p] = l
         /\ \A q \in Reconciler \ {p} : at'[q] = at[q]
         /\ fresh' \subseteq f /\ (l \notin NoCopy => fresh' = f)
         /\ f \ {p} \subseteq fresh'
  BY DEF Goto, LInv, TypeOK

(* The steps of others make copies stale, and leave what there is of the      *)
(* container and the volume.                                                  *)
LEMMA DestroyedElsewhere ==
  ASSUME LInv,
         \/ \E d \in Requested : RequestState(d)
         \/ MigrationStops
         \/ BecomesHealthy \/ Recovers \/ BecomesUnhealthy \/ Exits
         \/ \E t \in Task : StartTask(t) \/ TaskRuns(t)
         \/ UNCHANGED vars
  PROVE  /\ at' = at /\ Reconciler \cap fresh' \subseteq fresh
         /\ volume' = volume
         /\ container' = "ABSENT" <=> container = "ABSENT"
         /\ row'.observed \in {row.observed, "BUSY", "READY"}
<1>1. row \in [desired : DesiredState, observed : ObservedState]
  BY DEF LInv, TypeOK
<1>2. CASE \/ \E d \in Requested : RequestState(d)
           \/ MigrationStops
  BY <1>1, <1>2 DEF RequestState, MigrationStops, StoreIntent
<1>3. CASE BecomesHealthy \/ Recovers \/ BecomesUnhealthy \/ Exits \/ UNCHANGED vars
  BY <1>3 DEF BecomesHealthy, Recovers, BecomesUnhealthy, Exits, ContainerBecomes, vars
<1>4. ASSUME NEW t \in Task, StartTask(t) \/ TaskRuns(t)
      PROVE  /\ UNCHANGED <<at, container, volume>>
             /\ Reconciler \cap fresh' \subseteq fresh
             /\ row'.observed \in {row.observed, "BUSY", "READY"}
  <2>1. UNCHANGED <<at, container, volume>>
    BY <1>4 DEF StartTask, TaskRuns, CreateTask, Claim, ClaimConflict, MarkRunning,
       RunTask, AgentEnds, RecordTask, Finally, Restore
  <2>2. fresh' \subseteq fresh \cup {t}
    BY <1>4 DEF StartTask, TaskRuns, CreateTask, Claim, ClaimConflict, MarkRunning,
       RunTask, AgentEnds, RecordTask, Finally, Restore, TaskGoes, WriteObserved
  <2>3. row'.observed \in {row.observed, "BUSY", "READY"}
    BY <1>1, <1>4 DEF StartTask, TaskRuns, CreateTask, Claim, ClaimConflict, MarkRunning,
       RunTask, AgentEnds, RecordTask, Finally, Restore, WriteObserved
  <2> QED BY <2>1, <2>2, <2>3, LifecycleAssumption
<1> QED BY <1>2, <1>3, <1>4

LEMMA UnderwayStep ==
  ASSUME LInv, UnderwayRecorded, [Next]_vars
  PROVE  UnderwayRecorded'
<1>1. CASE \/ \E d \in Requested : RequestState(d)
           \/ MigrationStops
           \/ BecomesHealthy \/ Recovers \/ BecomesUnhealthy \/ Exits
           \/ \E t \in Task : StartTask(t) \/ TaskRuns(t)
           \/ UNCHANGED vars
  BY <1>1, DestroyedElsewhere DEF UnderwayRecorded
<1>2. CASE Crash
  BY <1>2 DEF Crash, UnderwayRecorded
<1>3. ASSUME NEW p \in Reconciler, NEW l, Goto(p, l, fresh), UNCHANGED row,
             l \in Underway => at[p] \in Underway
      PROVE  UnderwayRecorded'
  BY <1>3, MovesOne DEF UnderwayRecorded
<1>4. ASSUME NEW p \in Reconciler, Inspect(p) PROVE UnderwayRecorded'
  <2>1. NextLabel(p) \in Underway => at[p] # "inspect"
    BY DEF NextLabel, AfterInspect, Underway
  <2>2. at[p] \in InspectLabel \ {"inspect"} => at[p] \in Underway
    BY DEF InspectLabel, Underway
  <2> QED BY <1>3, <1>4, <2>1, <2>2 DEF Inspect
<1>5. ASSUME NEW p \in Reconciler, Command(p) PROVE UnderwayRecorded'
  <2>1. at[p] \in CommandLabel => at[p] \in Underway
    BY DEF CommandLabel, Underway
  <2> QED BY <1>3, <1>5, <2>1 DEF Command
<1>6. ASSUME NEW p \in Reconciler,
             \/ Tick(p) \/ WaitTimesOut(p) \/ ObserveConflict(p)
             \/ CommandRefused(p) \/ DockerFails(p)
      PROVE  UnderwayRecorded'
  <2>1. {"listed", "failed"} \cap Underway = {}
    BY DEF Underway
  <2> QED BY <1>3, <1>6, <2>1 DEF Tick, WaitTimesOut, ObserveConflict, CommandRefused,
           DockerFails
<1>7. ASSUME NEW p \in Reconciler, Observe(p) PROVE UnderwayRecorded'
  <2>1. /\ at'[p] = AfterObserve(at[p]) /\ fresh' \subseteq {p} /\ at[p] \in ObserveLabel
        /\ row'.observed = Sees(p)
    BY <1>7, MovesOne DEF Observe, WriteObserved, LInv, TypeOK
  <2>2. AfterObserve(at[p]) \in Underway => Sees(p) # "DESTROYED"
    BY <2>1 DEF AfterObserve, Sees, Underway, ObserveLabel
  <2> QED BY <2>1, <2>2 DEF UnderwayRecorded
<1>8. ASSUME NEW p \in Reconciler, ReadListed(p) \/ Deliver(p) PROVE UnderwayRecorded'
  <2>1. /\ at' = [at EXCEPT ![p] = "inspect"] /\ fresh' = fresh \cup {p} /\ row' = row
    BY <1>8 DEF ReadListed, Deliver, ReadWorkspace
  <2>2. "inspect" \notin Underway
    BY DEF Underway
  <2> QED BY <2>1, <2>2 DEF UnderwayRecorded, LInv, TypeOK
<1>9. ASSUME NEW p \in Reconciler, ReadAgain(p) \/ RecordFailed(p) PROVE UnderwayRecorded'
  <2>1. /\ at'[p] \in {"seeFailed", "idle"}
        /\ \A q \in Reconciler \ {p} : at'[q] = at[q]
        /\ \/ row' = row /\ fresh' \subseteq fresh \cup {p}
           \/ fresh' \subseteq {p}
    BY <1>9, MovesOne DEF ReadAgain, RecordFailed
  <2>2. {"seeFailed", "idle"} \cap Underway = {}
    BY DEF Underway
  <2> QED BY <2>1, <2>2 DEF UnderwayRecorded
<1> QED BY <1>1, <1>2, <1>4, <1>5, <1>6, <1>7, <1>8, <1>9 DEF Next, ReconcileStep

(* A step that neither writes the row, nor touches container or volume, nor   *)
(* comes to one of the two labels, keeps the destruction sound.               *)
LEMMA SoundMove ==
  ASSUME DestroyedSoundly, NEW p \in Reconciler,
         row' = row \/ row'.observed # "DESTROYED",
         UNCHANGED <<container, volume>>,
         fresh' \subseteq fresh \cup {p},
         at'[p] \notin {"seeDestroyed", "removeVolume"},
         \A q \in Reconciler \ {p} : at'[q] = at[q]
  PROVE  DestroyedSoundly'
BY DEF DestroyedSoundly, Nothing

(* Of the inspects and the commands only the two break it.                    *)
LEMMA SoundInspect ==
  ASSUME LInv, DestroyedSoundly, NEW p \in Reconciler, Inspect(p)
  PROVE  ~DestroyedSoundly' <=> MissesVolume(p)
<1>1. /\ at[p] \in InspectLabel /\ UNCHANGED <<container, volume, row>>
      /\ at'[p] = NextLabel(p) /\ \A q \in Reconciler \ {p} : at'[q] = at[q]
      /\ fresh' \subseteq fresh /\ (NextLabel(p) \notin NoCopy => fresh' = fresh)
  BY MovesOne DEF Inspect
<1>2. NextLabel(p) \in {"seeDestroyed", "removeVolume"} => container = "ABSENT"
  BY DEF NextLabel, AfterInspect, AfterEnsure
<1>3. CASE NextLabel(p) = "seeDestroyed" /\ p \in fresh
  <2>1. at'[p] = "seeDestroyed" /\ p \in fresh'
    BY <1>1, <1>3 DEF NoCopy
  <2>2. ~volume => DestroyedSoundly'
    BY <1>1, <1>2, <1>3 DEF DestroyedSoundly, Nothing
  <2>3. DestroyedSoundly' => ~volume
    BY <1>1, <2>1 DEF DestroyedSoundly, Nothing
  <2> QED BY <1>3, <2>2, <2>3 DEF MissesVolume
<1>4. CASE ~(NextLabel(p) = "seeDestroyed" /\ p \in fresh)
  <2>1. DestroyedSoundly'
    BY <1>1, <1>2, <1>4 DEF DestroyedSoundly, Nothing
  <2> QED BY <1>4, <2>1 DEF MissesVolume
<1> QED BY <1>3, <1>4

(* DESTROYED is written where it was sound to be about to.                    *)
LEMMA SoundObserve ==
  ASSUME LInv, DestroyedSoundly, NEW p \in Reconciler, Observe(p)
  PROVE  DestroyedSoundly'
<1>1. /\ at[p] \in ObserveLabel /\ UNCHANGED <<container, volume>> /\ p \in fresh
      /\ at'[p] = AfterObserve(at[p]) /\ \A q \in Reconciler \ {p} : at'[q] = at[q]
      /\ row'.observed = Sees(p) /\ fresh' \subseteq {p}
  BY MovesOne DEF Observe, WriteObserved, LInv, TypeOK
<1>2. AfterObserve(at[p]) \notin {"seeDestroyed", "removeVolume"}
  BY DEF AfterObserve
<1>3. at[p] \in Working /\ CopyAgrees(p)
  BY <1>1, LabelsSorted DEF LInv
<1>4. Sees(p) = "DESTROYED" => at[p] = "seeDestroyed"
  BY <1>1, <1>3 DEF Sees, ObserveLabel, CopyAgrees, StopLabel
<1>5. at[p] = "seeDestroyed" => Nothing
  BY <1>1 DEF DestroyedSoundly
<1>6. row'.observed = "DESTROYED" => Nothing'
  BY <1>1, <1>4, <1>5 DEF Nothing
<1>7. \A q \in Reconciler \cap fresh' : at'[q] \notin {"seeDestroyed", "removeVolume"}
  BY <1>1, <1>2
<1> QED BY <1>6, <1>7 DEF DestroyedSoundly

(* What the daemon does: nothing is made where nothing is to be made.         *)
LEMMA DaemonDoes ==
  ASSUME LInv, NEW l \in CommandLabel, Accepts(l), TakesEffect(l)
  PROVE  /\ l \notin Creating => (Nothing => Nothing') /\ (container = "ABSENT" => container' = "ABSENT")
         /\ l \in Creating => UNCHANGED <<container, volume>> \/ ~Nothing'
         /\ AfterCommand(l) = "seeDestroyed" => Nothing'
         /\ AfterCommand(l) = "removeVolume" => container' = "ABSENT"
         /\ l \in Creating => AfterCommand(l) \notin {"seeDestroyed", "removeVolume"}
<1>1. volume \in BOOLEAN /\ container \in ContainerState
  BY DEF LInv, TypeOK
<1>2. CASE l \in {"volume", "revolume"}
  BY <1>1, <1>2 DEF TakesEffect, ContainerAfter, VolumeAfter, AfterCommand, Nothing, Creating
<1>3. CASE l \in {"container", "recontainer"}
  BY <1>1, <1>3 DEF TakesEffect, ContainerAfter, VolumeAfter, AfterCommand, Nothing, Creating
<1>4. CASE l \in {"start", "stop"}
  BY <1>1, <1>4 DEF Accepts, TakesEffect, ContainerAfter, VolumeAfter, AfterCommand,
     Nothing, Creating
<1>5. CASE l \in {"remove", "removeVolume"}
  BY <1>1, <1>5 DEF Accepts, TakesEffect, ContainerAfter, VolumeAfter, AfterCommand,
     Nothing, Creating
<1> QED BY <1>2, <1>3, <1>4, <1>5 DEF CommandLabel

(* A start that is current creates where no destruction is under way.         *)
LEMMA CurrentStart ==
  ASSUME LInv, UnderwayRecorded, NEW p \in Reconciler \cap fresh, at[p] \in Creating
  PROVE  /\ row.observed # "DESTROYED"
         /\ \A q \in Reconciler \cap fresh : at[q] \notin {"seeDestroyed", "removeVolume"}
<1>1. at[p] \in Underway /\ at[p] \in StartLabel /\ at[p] \in Working
  BY DEF Creating, Underway, StartLabel, Working
<1>2. row.desired = "RUNNING"
  BY <1>1 DEF LInv, CopyAgrees
<1>3. ASSUME NEW q \in Reconciler \cap fresh, at[q] \in {"seeDestroyed", "removeVolume"}
      PROVE  FALSE
  <2>1. at[q] \in DestroyLabel /\ at[q] \in Working
    BY <1>3 DEF DestroyLabel, Working
  <2>2. want[q] = "DESTROYED" /\ want[q] = row.desired
    BY <2>1 DEF LInv, CopyAgrees
  <2> QED BY <1>2, <2>2
<1> QED BY <1>1, <1>3 DEF UnderwayRecorded

LEMMA SoundCommand ==
  ASSUME LInv, UnderwayRecorded, DestroyedSoundly, NEW p \in Reconciler,
         Command(p) \/ DockerFails(p)
  PROVE  ~DestroyedSoundly' <=> CreatesLate(p)
<1>1. PICK l : /\ at'[p] = l /\ l \in {"failed", AfterCommand(at[p])}
               /\ row' = row /\ \A q \in Reconciler \ {p} : at'[q] = at[q]
               /\ fresh' \subseteq fresh /\ fresh \ {p} \subseteq fresh'
  BY MovesOne DEF Command, DockerFails
<1>2. \/ UNCHANGED <<container, volume>> /\ l = "failed"
      \/ at[p] \in CommandLabel /\ Accepts(at[p]) /\ TakesEffect(at[p])
  <2>1. CASE Command(p)
    BY <2>1 DEF Command
  <2>2. CASE DockerFails(p)
    <3>1. l = "failed"
      BY <1>1, <2>2, MovesOne DEF DockerFails
    <3> QED BY <2>2, <3>1 DEF DockerFails
  <2> QED BY <2>1, <2>2
<1>3. CASE UNCHANGED <<container, volume>> /\ l = "failed"
  <2>1. DestroyedSoundly'
    BY <1>1, <1>3, SoundMove
  <2> QED BY <1>3, <2>1 DEF CreatesLate
<1>4. CASE at[p] \in CommandLabel \ Creating /\ Accepts(at[p]) /\ TakesEffect(at[p])
  <2>1. /\ Nothing => Nothing'
        /\ container = "ABSENT" => container' = "ABSENT"
        /\ l = "seeDestroyed" => Nothing'
        /\ l = "removeVolume" => container' = "ABSENT"
    BY <1>1, <1>4, DaemonDoes
  <2>2. DestroyedSoundly'
    BY <1>1, <2>1 DEF DestroyedSoundly
  <2> QED BY <1>4, <2>2 DEF CreatesLate
<1>5. CASE at[p] \in Creating /\ Accepts(at[p]) /\ TakesEffect(at[p])
  <2>1. /\ l \notin {"seeDestroyed", "removeVolume"} /\ at[p] \in CommandLabel
        /\ UNCHANGED <<container, volume>> \/ ~Nothing'
    BY <1>1, <1>5, DaemonDoes DEF Creating, CommandLabel
  <2>2. CASE UNCHANGED <<container, volume>>
    <3>1. DestroyedSoundly'
      BY <1>1, <2>1, <2>2, SoundMove
    <3> QED BY <2>2, <3>1 DEF CreatesLate
  <2>3. CASE ~ UNCHANGED <<container, volume>> /\ p \in fresh
    <3>1. DestroyedSoundly'
      BY <1>1, <1>5, <2>1, <2>3, CurrentStart DEF DestroyedSoundly
    <3> QED BY <2>3, <3>1 DEF CreatesLate
  <2>4. CASE ~ UNCHANGED <<container, volume>> /\ p \notin fresh
    <3>1. fresh' = fresh
      BY <1>1, <2>4
    <3>2. DestroyedSoundly' <=>
            ~ \/ row.observed = "DESTROYED"
              \/ \E q \in Reconciler \cap fresh :
                   at[q] = "seeDestroyed" \/ (at[q] = "removeVolume" /\ container' # "ABSENT")
      BY <1>1, <2>1, <2>4, <3>1 DEF DestroyedSoundly
    <3> QED BY <1>5, <2>4, <3>2 DEF CreatesLate
  <2> QED BY <2>2, <2>3, <2>4
<1> QED BY <1>2, <1>3, <1>4, <1>5

LEMMA SoundStep ==
  ASSUME LInv, UnderwayRecorded, DestroyedSoundly, [Next]_vars
  PROVE  ~DestroyedSoundly' <=> \E p \in Reconciler : MissesVolume(p) \/ CreatesLate(p)
<1>1. ASSUME NEW p \in Reconciler, MissesVolume(p) \/ CreatesLate(p)
      PROVE  ~DestroyedSoundly'
  BY <1>1, SoundInspect, SoundCommand DEF MissesVolume, CreatesLate
<1>2. CASE \/ \E d \in Requested : RequestState(d)
           \/ MigrationStops
           \/ BecomesHealthy \/ Recovers \/ BecomesUnhealthy \/ Exits
           \/ \E t \in Task : StartTask(t) \/ TaskRuns(t)
           \/ UNCHANGED vars
  <2>1. DestroyedSoundly'
    BY <1>2, DestroyedElsewhere DEF DestroyedSoundly, Nothing
  <2> QED BY <1>1, <2>1
<1>3. CASE Crash
  <2>1. DestroyedSoundly'
    BY <1>3 DEF Crash, DestroyedSoundly, Nothing
  <2> QED BY <1>1, <2>1
<1>4. ASSUME NEW p \in Reconciler, Inspect(p) \/ Command(p) \/ DockerFails(p)
      PROVE  ~DestroyedSoundly' <=> \E q \in Reconciler : MissesVolume(q) \/ CreatesLate(q)
  BY <1>1, <1>4, SoundInspect, SoundCommand
<1>5. ASSUME NEW p \in Reconciler, Observe(p)
      PROVE  DestroyedSoundly'
  BY <1>5, SoundObserve
<1>6. ASSUME NEW p \in Reconciler,
             \/ Tick(p) \/ Deliver(p) \/ ReadListed(p) \/ WaitTimesOut(p)
             \/ ObserveConflict(p) \/ CommandRefused(p) \/ ReadAgain(p) \/ RecordFailed(p)
      PROVE  DestroyedSoundly'
  <2>1. UNCHANGED <<container, volume>>
    BY <1>6 DEF Tick, Deliver, ReadListed, ReadWorkspace, WaitTimesOut, ObserveConflict,
       CommandRefused, ReadAgain, RecordFailed
  <2>2. row' = row \/ row'.observed # "DESTROYED"
    BY <1>6 DEF Tick, Deliver, ReadListed, ReadWorkspace, WaitTimesOut, ObserveConflict,
       CommandRefused, ReadAgain, RecordFailed, WriteObserved, LInv, TypeOK
  <2>3. /\ fresh' \subseteq fresh \cup {p}
        /\ at'[p] \in {"listed", "inspect", "failed", "seeFailed", "idle"}
        /\ \A q \in Reconciler \ {p} : at'[q] = at[q]
    <3>1. CASE Deliver(p) \/ ReadListed(p)
      BY <3>1 DEF Deliver, ReadListed, ReadWorkspace, LInv, TypeOK
    <3>2. CASE ~(Deliver(p) \/ ReadListed(p))
      BY <1>6, <3>2, MovesOne DEF Tick, WaitTimesOut, ObserveConflict, CommandRefused,
         ReadAgain, RecordFailed, WriteObserved
    <3> QED BY <3>1, <3>2
  <2> QED BY <2>1, <2>2, <2>3, SoundMove
<1> QED BY <1>1, <1>2, <1>3, <1>4, <1>5, <1>6 DEF Next, ReconcileStep

(* A Workspace recorded DESTROYED leaves neither container nor volume behind, *)
(* but for two steps, and each of the two loses it: a converge that finds no  *)
(* container concludes that there is no volume (lifecycle.ts:95), and a start *)
(* already superseded creates a container or a volume once the destruction is *)
(* recorded or complete, for a command to the daemon is not checked against   *)
(* the row (docker-supervisor.ts:59-83).  No other step of overlapping        *)
(* reconciliations, tasks, failures and restarts can.                         *)
THEOREM DestroyedIsGoneBut ==
  Spec => /\ DestroyedSoundly
          /\ [](DestroyedSoundly => DestroyedLeavesNothing)
          /\ [][DestroyedSoundly
                  => (~DestroyedSoundly'
                        <=> \E p \in Reconciler : MissesVolume(p) \/ CreatesLate(p))]_vars
<1>1. Init => UnderwayRecorded /\ DestroyedSoundly
  BY DEF Init, UnderwayRecorded, DestroyedSoundly
<1>2. LInv /\ UnderwayRecorded /\ [Next]_vars => UnderwayRecorded'
  BY UnderwayStep
<1>3. DestroyedSoundly => DestroyedLeavesNothing
  BY DEF DestroyedSoundly, DestroyedLeavesNothing, Nothing
<1>4. LInv /\ UnderwayRecorded /\ [Next]_vars
        => [DestroyedSoundly
              => (~DestroyedSoundly'
                    <=> \E p \in Reconciler : MissesVolume(p) \/ CreatesLate(p))]_vars
  BY SoundStep
<1> QED BY <1>1, <1>2, <1>3, <1>4, LifecycleInvariance, PTL DEF Spec
=============================================================================
