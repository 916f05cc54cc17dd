------------------------- MODULE WorkspaceLifecycle -------------------------
(* One Workspace of rad-control: the row that holds its intent and what was   *)
(* last observed of it (packages/workspace-state), the container and the data *)
(* volume at the Docker daemon (apps/control/src/workspace), reconciliations  *)
(* that overlap (packages/workspace-state/src/lifecycle.ts), and agent tasks  *)
(* (apps/control/src/tasks).                                                  *)
(*                                                                            *)
(* A reconciliation and a task take one step per await, so that everything    *)
(* else may happen between two of them.  Every statement that writes the row  *)
(* raises state_version and the compare-and-swap tests it for equality only.  *)
(* The version is therefore represented by the set "fresh" of the processes   *)
(* whose copy of the row carries the stored version: a write leaves the       *)
(* writer alone in it, a read adds the reader.                                *)
EXTENDS Naturals, FiniteSets

CONSTANTS
  Reconciler,  (* the reconciliations that may be in flight at a time     *)
  Task,        (* the agent tasks clients ask for                         *)
  Requested,   (* the desired states clients ask for                      *)
  MaxFaults    (* bound: Docker failures, container mishaps and crashes   *)

DesiredState == {"RUNNING", "SUSPENDED", "STOPPED", "DESTROYED"}

ASSUME LifecycleAssumption == /\ Reconciler \cap Task = {}
                              /\ Requested \subseteq DesiredState
                              /\ MaxFaults \in Nat

ObservedState == {"MISSING", "PROVISIONING", "STARTING", "READY", "BUSY",
  "SUSPENDING", "SUSPENDED", "STOPPING", "STOPPED", "DESTROYING", "DESTROYED",
  "FAILED"}

(* What the daemon knows of the container; inspect throws for UNHEALTHY.      *)
ContainerState == {"ABSENT", "STOPPED", "STARTING", "RUNNING", "UNHEALTHY"}

TaskStatus == {"NONE", "PENDING", "RUNNING", "COMPLETED", "FAILED"}

VARIABLES
  row,        (* desired_state and observed_state                             *)
  intents,    (* history: every desired state that was ever stored            *)
  delivery,   (* the outbox still has a command to deliver for the Workspace  *)
  container,
  volume,     (* the data volume exists                                       *)
  faults,
  at,         (* where each reconciliation stands                             *)
  want,       (* the desired state in the copy converge works from            *)
  fresh,      (* the processes whose copy has the stored version              *)
  step,       (* where each task's request stands                             *)
  status      (* the status of each task                                      *)

database == <<row, intents, delivery, status>>
daemon == <<container, volume>>
vars == <<row, intents, delivery, container, volume, faults, at, want, fresh,
          step, status>>

(* A reconciliation is about to: do nothing (idle), read the row it was       *)
(* listed with, read it again after a failure, inspect, write an observed     *)
(* state, or give the daemon a command.  "create" and the two after           *)
(* it are ensureCreated called by converge, "recreate" and the two after it   *)
(* the same called by the supervisor's ensureRunning.                         *)
ObserveLabel == {"seeProvisioning", "seeStarting", "seeReady", "seeStopping",
                 "seeStopped", "seeDestroying", "seeDestroyed"}
CommandLabel == {"volume", "container", "revolume", "recontainer", "start",
                 "stop", "remove", "removeVolume"}
InspectLabel == {"inspect", "create", "recreate", "ensureRunning", "wait",
                 "ensureStopped", "ensureDestroyed"}
Label == ObserveLabel \cup CommandLabel \cup InspectLabel
           \cup {"idle", "listed", "failed", "seeFailed"}

(* Where a reconciliation has no copy of the row that it will use again.      *)
NoCopy == {"idle", "listed", "failed"}

TaskStep == {"idle", "create", "claim", "mark", "runTask", "agent",
             "complete", "fail", "finally", "restore"}

(* Where a task goes on to write the row by its copy.                         *)
TaskCopy == {"create", "claim", "restore"}

Init ==
  /\ row = [desired |-> "RUNNING", observed |-> "MISSING"]
  /\ intents = {"RUNNING"}
  /\ delivery = TRUE
  /\ container = "ABSENT"
  /\ volume = FALSE
  /\ faults = 0
  /\ at = [p \in Reconciler |-> "idle"]
  /\ want = [p \in Reconciler |-> "NONE"]
  /\ fresh = {}
  /\ step = [t \in Task |-> "idle"]
  /\ status = [t \in Task |-> "NONE"]

-----------------------------------------------------------------------------
(* The row *)

(* Mutant: the update names the row by its id alone.                          *)
UncheckedWrite(p, o) ==
  row' = [row EXCEPT !.observed = o]

(* updateState: the compare-and-swap on state_version.  Of the copies only    *)
(* the one it returns to the writer is of the new version.                    *)
WriteObserved(p, o) ==
  /\ p \in fresh
  /\ row' = [row EXCEPT !.observed = o]

(* A statement that stores an intent whatever the version is.                 *)
StoreIntent(d) ==
  /\ row' = [row EXCEPT !.desired = d]
  /\ intents' = intents \cup {d}
  /\ fresh' = {}
  /\ UNCHANGED <<container, volume, faults, at, want, step, status>>

(* requestWorkspaceState stores the intent with a command that announces it.  *)
RequestState(d) ==
  /\ StoreIntent(d)
  /\ delivery' = TRUE

(* A security migration stops what runs; it leaves no command behind and      *)
(* counts on the reconciler.                                                  *)
MigrationStops ==
  /\ row.desired \in {"RUNNING", "SUSPENDED"}
  /\ row.observed # "DESTROYED"
  /\ StoreIntent("STOPPED")
  /\ UNCHANGED delivery

-----------------------------------------------------------------------------
(* A reconciliation *)

(* A reconciliation goes on to label l, while the copies of f are current; it *)
(* drops its own copy where it has no more use for it.                        *)
Goto(p, l, f) ==
  /\ at' = [at EXCEPT ![p] = l]
  /\ want' = IF l \in NoCopy THEN [want EXCEPT ![p] = "NONE"] ELSE want
  /\ fresh' = IF l \in NoCopy THEN f \ {p} ELSE f

(* reconcile: the copy of the row that converge works from.                   *)
ReadWorkspace(p) ==
  /\ at' = [at EXCEPT ![p] = "inspect"]
  /\ want' = [want EXCEPT ![p] = row.desired]
  /\ fresh' = fresh \cup {p}
  /\ UNCHANGED <<row, intents, container, volume, faults, step, status>>

(* Mutant: a Workspace at work is left alone.                                 *)
ListedUnlessBusy == row.observed \notin {"DESTROYED", "BUSY"}

(* listForReconciliation *)
Listed == row.observed # "DESTROYED"

(* The timer reconciles what is listed, whether the last round ended or not.  *)
Tick(p) ==
  /\ at[p] = "idle"
  /\ Listed
  /\ Goto(p, "listed", fresh)
  /\ UNCHANGED <<row, intents, delivery, container, volume, faults, step,
                 status>>

ReadListed(p) ==
  /\ at[p] = "listed"
  /\ ReadWorkspace(p)
  /\ UNCHANGED delivery

(* The outbox, and the handler that creates a Workspace, reconcile without    *)
(* looking at the observed state; the command may come again (a retry, or     *)
(* another command).                                                          *)
Deliver(p) ==
  /\ at[p] = "idle"
  /\ delivery
  /\ delivery' \in BOOLEAN
  /\ ReadWorkspace(p)

(* Mutant: the switch over the desired state falls through after STOPPED.     *)
StoppedFallsThrough(d, actual) ==
  IF d = "RUNNING"
  THEN IF actual = "RUNNING" THEN "seeReady"
       ELSE IF actual = "ABSENT" THEN "seeProvisioning" ELSE "seeStarting"
  ELSE IF d = "SUSPENDED" THEN "seeStopping"
  ELSE IF actual = "ABSENT" THEN "seeDestroyed" ELSE "seeDestroying"

(* converge and the lifecycle's ensure methods: what to do next, from the     *)
(* intent and from what inspect answered.                                     *)
AfterInspect(d, actual) ==
  IF d = "RUNNING"
  THEN IF actual = "RUNNING" THEN "seeReady"
       ELSE IF actual = "ABSENT" THEN "seeProvisioning" ELSE "seeStarting"
  ELSE IF d \in {"SUSPENDED", "STOPPED"} THEN "seeStopping"
  ELSE IF actual = "ABSENT" THEN "seeDestroyed" ELSE "seeDestroying"

(* The supervisor's methods: what to do next from what inspect answered; a    *)
(* label that is its own successor polls again.                               *)
AfterEnsure(l, actual) ==
  CASE l = "create" -> IF actual = "ABSENT" THEN "volume" ELSE "seeStarting"
    [] l = "recreate" -> IF actual = "ABSENT" THEN "revolume" ELSE "start"
    [] l = "ensureRunning" ->
         IF actual = "RUNNING" THEN "seeReady"
         ELSE IF actual = "ABSENT" THEN "recreate"
         ELSE IF actual = "STARTING" THEN "wait" ELSE "start"
    [] l = "wait" ->
         IF actual = "RUNNING" THEN "seeReady"
         ELSE IF actual = "STARTING" THEN "wait" ELSE "failed"
    [] l = "ensureStopped" ->
         IF actual \in {"ABSENT", "STOPPED"} THEN "seeStopped" ELSE "stop"
    [] l = "ensureDestroyed" ->
         IF actual = "ABSENT" THEN "removeVolume" ELSE "remove"
    [] OTHER -> "failed"

(* What follows an inspect at label l; an unhealthy container makes it throw. *)
NextLabel(p) ==
  IF container = "UNHEALTHY" THEN "failed"
  ELSE IF at[p] = "inspect" THEN AfterInspect(want[p], container)
  ELSE AfterEnsure(at[p], container)

Inspect(p) ==
  /\ at[p] \in InspectLabel
  /\ Goto(p, NextLabel(p), fresh)
  /\ UNCHANGED <<row, intents, delivery, container, volume, faults, step,
                 status>>

(* The sixty polls of waitUntilHealthy ran out.                               *)
WaitTimesOut(p) ==
  /\ at[p] = "wait"
  /\ container = "STARTING"
  /\ Goto(p, "failed", fresh)
  /\ UNCHANGED <<row, intents, delivery, container, volume, faults, step,
                 status>>

(* Mutant: a running Workspace is observed under the name of its intent.      *)
SeesIntent(p) ==
  CASE at[p] = "seeReady" -> want[p]
    [] at[p] = "seeStopping" -> "STOPPING"
    [] OTHER -> "FAILED"

(* The observed state a label writes, and where it goes on.                   *)
Sees(p) ==
  CASE at[p] = "seeProvisioning" -> "PROVISIONING"
    [] at[p] = "seeStarting" -> "STARTING"
    [] at[p] = "seeReady" -> "READY"
    [] at[p] = "seeStopping" ->
         IF want[p] = "SUSPENDED" THEN "SUSPENDING" ELSE "STOPPING"
    [] at[p] = "seeStopped" -> want[p]
    [] at[p] = "seeDestroying" -> "DESTROYING"
    [] OTHER -> "DESTROYED"

AfterObserve(l) ==
  CASE l = "seeProvisioning" -> "create"
    [] l = "seeStarting" -> "ensureRunning"
    [] l = "seeStopping" -> "ensureStopped"
    [] l = "seeDestroying" -> "ensureDestroyed"
    [] OTHER -> "idle"

(* observe *)
Observe(p) ==
  /\ at[p] \in ObserveLabel
  /\ WriteObserved(p, Sees(p))
  /\ Goto(p, AfterObserve(at[p]), {p})
  /\ UNCHANGED <<intents, delivery, container, volume, faults, step,
                 status>>

(* observe, when the row changed since the copy: WORKSPACE_STATE_CONFLICT.    *)
ObserveConflict(p) ==
  /\ at[p] \in ObserveLabel
  /\ p \notin fresh
  /\ Goto(p, "failed", fresh)
  /\ UNCHANGED <<row, intents, delivery, container, volume, faults, step,
                 status>>

(* The catch of reconcile reads the row again and records FAILED on it.       *)
ReadAgain(p) ==
  /\ at[p] = "failed"
  /\ Goto(p, "seeFailed", fresh \cup {p})
  /\ UNCHANGED <<row, intents, delivery, container, volume, faults, step,
                 status>>

RecordFailed(p) ==
  /\ at[p] = "seeFailed"
  /\ IF p \in fresh
     THEN WriteObserved(p, "FAILED") /\ Goto(p, "idle", {p})
     ELSE UNCHANGED row /\ Goto(p, "idle", fresh)
  /\ UNCHANGED <<intents, delivery, container, volume, faults, step,
                 status>>

-----------------------------------------------------------------------------
(* Docker *)

(* One of the failures the bound admits.                                      *)
Fault == faults < MaxFaults /\ faults' = faults + 1

(* The daemon: what a command needs, and the container and volume it leaves.  *)
(* A container is not created over another, a volume is not removed under a   *)
(* container, and creating a container creates the volume it mounts.          *)
Accepts(l) ==
  CASE l \in {"container", "recontainer", "removeVolume"} -> container = "ABSENT"
    [] l \in {"start", "stop"} -> container # "ABSENT"
    [] OTHER -> TRUE

ContainerAfter(l) ==
  CASE l \in {"container", "recontainer", "stop"} -> "STOPPED"
    [] l = "start" -> IF container = "STOPPED" THEN "STARTING" ELSE container
    [] l = "remove" -> "ABSENT"
    [] OTHER -> container

VolumeAfter(l) ==
  IF l = "removeVolume" THEN FALSE
  ELSE volume \/ l \in {"volume", "revolume", "container", "recontainer"}

TakesEffect(l) == container' = ContainerAfter(l) /\ volume' = VolumeAfter(l)

(* The order of the commands in the supervisor's methods.                     *)
AfterCommand(l) ==
  CASE l = "volume" -> "container"
    [] l = "container" -> "seeStarting"
    [] l = "revolume" -> "recontainer"
    [] l = "recontainer" -> "start"
    [] l = "start" -> "wait"
    [] l = "stop" -> "seeStopped"
    [] l = "remove" -> "removeVolume"
    [] OTHER -> "seeDestroyed"

Command(p) ==
  /\ at[p] \in CommandLabel
  /\ Accepts(at[p])
  /\ TakesEffect(at[p])
  /\ Goto(p, AfterCommand(at[p]), fresh)
  /\ UNCHANGED <<row, intents, delivery, faults, step, status>>

(* The daemon refuses; removing an absent container may be refused too.       *)
CommandRefused(p) ==
  /\ at[p] \in CommandLabel
  /\ ~Accepts(at[p]) \/ (at[p] = "remove" /\ container = "ABSENT")
  /\ Goto(p, "failed", fresh)
  /\ UNCHANGED <<row, intents, delivery, container, volume, faults, step,
                 status>>

(* The docker client fails or times out, the command done or not.             *)
DockerFails(p) ==
  /\ at[p] \in InspectLabel \cup CommandLabel
  /\ Fault
  /\ \/ UNCHANGED <<container, volume>>
     \/ at[p] \in CommandLabel /\ Accepts(at[p]) /\ TakesEffect(at[p])
  /\ Goto(p, "failed", fresh)
  /\ UNCHANGED <<row, intents, delivery, step, status>>

(* The container's own behaviour.                                             *)
ContainerBecomes(s) ==
  /\ container' = s
  /\ UNCHANGED <<row, intents, delivery, volume, at, want, fresh, step, status>>

BecomesHealthy ==
  container = "STARTING" /\ ContainerBecomes("RUNNING") /\ UNCHANGED faults

Recovers ==
  container = "UNHEALTHY" /\ ContainerBecomes("RUNNING") /\ UNCHANGED faults

BecomesUnhealthy ==
  /\ container \in {"STARTING", "RUNNING"}
  /\ ContainerBecomes("UNHEALTHY")
  /\ Fault

Exits ==
  /\ container \in {"STARTING", "RUNNING", "UNHEALTHY"}
  /\ ContainerBecomes("STOPPED")
  /\ Fault

-----------------------------------------------------------------------------
(* A task: TaskService.run *)

(* As Goto, for the request of a task.                                        *)
TaskGoes(t, s, f) ==
  /\ step' = [step EXCEPT ![t] = s]
  /\ fresh' = IF s \in TaskCopy THEN f ELSE f \ {t}
TaskRecorded(t, s) == status' = [status EXCEPT ![t] = s]

(* Mutant: the intent is not looked at.                                       *)
ObservedReady == row.observed = "READY"

(* requireReadyWorkspace *)
ReadyToWork == row.observed = "READY" /\ row.desired = "RUNNING"

StartTask(t) ==
  /\ step[t] = "idle"
  /\ status[t] = "NONE"
  /\ ReadyToWork
  /\ TaskGoes(t, "create", fresh \cup {t})
  /\ UNCHANGED <<row, intents, delivery, container, volume, faults, at, want,
                 status>>

CreateTask(t) ==
  /\ step[t] = "create"
  /\ TaskRecorded(t, "PENDING")
  /\ TaskGoes(t, "claim", fresh)
  /\ UNCHANGED <<row, intents, delivery, container, volume, faults, at, want>>

(* The Workspace is claimed by a compare-and-swap to BUSY.                    *)
Claim(t) ==
  /\ step[t] = "claim"
  /\ WriteObserved(t, "BUSY")
  /\ TaskGoes(t, "mark", {t})
  /\ UNCHANGED <<intents, delivery, container, volume, faults, at, want,
                 status>>

(* The claim conflicts: the request fails and its task stays PENDING.         *)
ClaimConflict(t) ==
  /\ step[t] = "claim"
  /\ t \notin fresh
  /\ TaskGoes(t, "idle", fresh)
  /\ UNCHANGED <<row, intents, delivery, container, volume, faults, at, want,
                 status>>

MarkRunning(t) ==
  /\ step[t] = "mark"
  /\ status[t] = "PENDING"
  /\ TaskRecorded(t, "RUNNING")
  /\ TaskGoes(t, "runTask", fresh)
  /\ UNCHANGED <<row, intents, delivery, container, volume, faults, at, want>>

RunTask(t) ==
  /\ step[t] = "runTask"
  /\ TaskGoes(t, IF container = "RUNNING" THEN "agent" ELSE "fail", fresh)
  /\ UNCHANGED <<row, intents, delivery, container, volume, faults, at, want,
                 status>>

AgentEnds(t) ==
  /\ step[t] = "agent"
  /\ \E s \in {"complete", "fail"} : TaskGoes(t, s, fresh)
  /\ UNCHANGED <<row, intents, delivery, container, volume, faults, at, want,
                 status>>

RecordTask(t) ==
  /\ step[t] \in {"complete", "fail"}
  /\ status[t] = "RUNNING"
  /\ TaskRecorded(t, IF step[t] = "complete" THEN "COMPLETED" ELSE "FAILED")
  /\ TaskGoes(t, "finally", fresh)
  /\ UNCHANGED <<row, intents, delivery, container, volume, faults, at, want>>

(* The finally block reads the row again, and leaves it alone if the intent   *)
(* is no longer to run.                                                       *)
Finally(t) ==
  /\ step[t] = "finally"
  /\ IF row.desired = "RUNNING"
     THEN TaskGoes(t, "restore", fresh \cup {t})
     ELSE TaskGoes(t, "idle", fresh)
  /\ UNCHANGED <<row, intents, delivery, container, volume, faults, at, want,
                 status>>

Restore(t) ==
  /\ step[t] = "restore"
  /\ IF t \in fresh
     THEN WriteObserved(t, "READY") /\ TaskGoes(t, "idle", {t})
     ELSE UNCHANGED row /\ TaskGoes(t, "idle", fresh)
  /\ UNCHANGED <<intents, delivery, container, volume, faults, at, want,
                 status>>

-----------------------------------------------------------------------------
(* rad-control stops: the processes are gone, the rows and the daemon stay.   *)
(* The claimed command is recovered by the next start, or it is lost.         *)
Crash ==
  /\ Fault
  /\ at' = [p \in Reconciler |-> "idle"]
  /\ step' = [t \in Task |-> "idle"]
  /\ fresh' = {}
  /\ want' = [p \in Reconciler |-> "NONE"]
  /\ delivery' \in BOOLEAN
  /\ UNCHANGED <<row, intents, container, volume, status>>

(* What a reconciliation does once it has started, if Docker does not fail.   *)
ReconcileStep(p) ==
  \/ ReadListed(p)
  \/ Inspect(p) \/ WaitTimesOut(p)
  \/ Observe(p) \/ ObserveConflict(p)
  \/ Command(p) \/ CommandRefused(p)
  \/ ReadAgain(p) \/ RecordFailed(p)

TaskRuns(t) ==
  \/ CreateTask(t) \/ Claim(t) \/ ClaimConflict(t) \/ MarkRunning(t)
  \/ RunTask(t) \/ AgentEnds(t) \/ RecordTask(t) \/ Finally(t) \/ Restore(t)

Next ==
  \/ \E d \in Requested : RequestState(d)
  \/ MigrationStops
  \/ \E p \in Reconciler :
       Tick(p) \/ Deliver(p) \/ ReconcileStep(p) \/ DockerFails(p)
  \/ BecomesHealthy \/ Recovers \/ BecomesUnhealthy \/ Exits
  \/ \E t \in Task : StartTask(t) \/ TaskRuns(t)
  \/ Crash

Spec == Init /\ [][Next]_vars

(* The timer keeps ticking, calls return, and a container that starts and     *)
(* does not fail becomes healthy.                                             *)
FairSpec ==
  /\ Spec
  /\ WF_vars(\E p \in Reconciler : Tick(p))
  /\ \A p \in Reconciler : WF_vars(ReconcileStep(p))
  /\ WF_vars(BecomesHealthy)
  /\ \A t \in Task : WF_vars(TaskRuns(t))

-----------------------------------------------------------------------------
(* Properties *)

TypeOK ==
  /\ row \in [desired : DesiredState, observed : ObservedState]
  /\ intents \subseteq DesiredState
  /\ delivery \in BOOLEAN
  /\ container \in ContainerState
  /\ volume \in BOOLEAN
  /\ faults \in 0..MaxFaults
  /\ at \in [Reconciler -> Label]
  /\ want \in [Reconciler -> DesiredState \cup {"NONE"}]
  /\ fresh \subseteq Reconciler \cup Task
  /\ step \in [Task -> TaskStep]
  /\ status \in [Task -> TaskStatus]

(* The observed states that speak of an intent; FAILED speaks of any.         *)
ObservedFor(d) ==
  CASE d = "RUNNING" -> {"PROVISIONING", "STARTING", "READY", "BUSY", "FAILED"}
    [] d = "SUSPENDED" -> {"SUSPENDING", "SUSPENDED", "FAILED"}
    [] d = "STOPPED" -> {"STOPPING", "STOPPED", "FAILED"}
    [] OTHER -> {"DESTROYING", "DESTROYED", "FAILED"}

(* Overlapping reconciliations and tasks, some begun under an earlier intent, *)
(* never record an observation that speaks of another intent than the stored  *)
(* one: a Workspace the user stopped does not come out READY because an older *)
(* start finished last.                                                       *)
ObservationFollowsIntent ==
  [][row'.observed # row.observed => row'.observed \in ObservedFor(row.desired)]_vars

(* The agent's work in the volume survives every stop, suspension, failed     *)
(* start, recreated container, crash and stale reconciliation, as long as the *)
(* Workspace was never asked to be destroyed.                                 *)
WorkSurvives == [][volume => volume' \/ "DESTROYED" \in intents]_vars

(* A task claims the Workspace in the state it checked: READY and meant to    *)
(* run.  Of two tasks that found it READY one gets it, and none takes it from *)
(* a stop or a failure recorded meanwhile.                                    *)
TaskClaimsReady ==
  [][\A t \in Task : step[t] = "claim" /\ step'[t] = "mark"
                       => row = [desired |-> "RUNNING", observed |-> "READY"]]_vars

(* The tasks that have claimed the Workspace and told no outcome yet          *)
(* (WorkspaceLedger).                                                         *)
AtWork == {t \in Task : step[t] \in {"mark", "runTask", "agent", "complete", "fail"}}

Ledger == INSTANCE WorkspaceLedger
            WITH intent <- row.desired, asked <- intents, told <- row.observed,
                 work <- volume, atWork <- AtWork

(* Whatever reconciliations, tasks, failures and restarts overlap, the owner  *)
(* is told of the last intent only, keeps the work, and a task is told to run *)
(* and to end once, after it found the Workspace READY and claimed it         *)
(* (updateState, ensureDestroyed, TaskService.run).                           *)
WorkspaceKept == Ledger!Spec

(* The row and the container are what the intent asks for.                    *)
Settled(d) ==
  /\ row.desired = d
  /\ CASE d = "RUNNING" -> row.observed = "READY" /\ container = "RUNNING"
       [] d = "DESTROYED" -> row.observed = "DESTROYED" /\ container = "ABSENT"
       [] OTHER -> row.observed = d /\ container \in {"ABSENT", "STOPPED"}

(* From some time on nobody asks for a state, one reconciliation ends before  *)
(* the next begins, and the container is not stuck unhealthy.                 *)
Quiet ==
  /\ <>[](~delivery /\ container # "UNHEALTHY")
  /\ \E p \in Reconciler : <>[](\A q \in Reconciler \ {p} : at[q] = "idle")

(* "The reconciler remains responsible for eventual state convergence": once  *)
(* it is quiet, a Workspace converges to the last intent, whatever failures,  *)
(* crashes, overlapping reconciliations and cut-off tasks it was left by,     *)
(* unless it rests recorded DESTROYED and is no longer looked at.             *)
Converges ==
  \A d \in DesiredState :
    Quiet /\ <>[](row.desired = d)
      => []<>Settled(d) \/ <>[](row.observed = "DESTROYED")

(* "Destroying a Workspace removes both its container and its data volume": a *)
(* Workspace recorded DESTROYED that nothing works on any more has neither.   *)
DestroyedLeavesNothing ==
  /\ row = [desired |-> "DESTROYED", observed |-> "DESTROYED"]
  /\ ~delivery
  /\ \A p \in Reconciler : at[p] = "idle"
  => container = "ABSENT" /\ ~volume
=============================================================================
