------------------------------ MODULE GitWrite ------------------------------
(***************************************************************************)
(* The approved Git write pipeline of rad-control: human approvals, Git     *)
(* operations, credential leases, the push to the remote agent branch, and  *)
(* the security migration that fences all of them with a new epoch.         *)
(*                                                                          *)
(* An approval has at most one Git operation (unique approval_id) and an    *)
(* operation at most one lease (unique operation_id), so the three tables   *)
(* are functions of the approval.  Concurrent HTTP requests that start the  *)
(* operation of an approval are the Runners; every runner step is one       *)
(* statement, transaction or external call of the code, and whatever it     *)
(* remembers between two steps is a field of its call record.               *)
(*                                                                          *)
(* PostgreSQL runs at READ COMMITTED.  The transactions of the migration    *)
(* are modelled statement by statement, with the rows they lock and the     *)
(* writes that become visible when they commit.  Transactions that lock the *)
(* metadata row before they write are one step, enabled while the migration *)
(* does not hold that row.                                                  *)
(***************************************************************************)
EXTENDS Naturals, FiniteSets

CONSTANTS Approvals,   (* identifiers of approval requests                   *)
          Reviews,     (* identifiers of review snapshots, all of one        *)
                       (* workspace: a review also names its target commit   *)
          ReviewOf,    (* the review an approval request is made for         *)
          Runners,     (* concurrent HTTP requests that start an operation   *)
          MaxEpoch     (* Number.MAX_SAFE_INTEGER: the last security epoch   *)

ASSUME ConstantsAssumption ==
    /\ ReviewOf \in [Approvals -> Reviews]
    /\ MaxEpoch \in Nat \ {0}
    /\ Reviews \cap {"absent", "foreign"} = {}

VARIABLES
    epoch,         (* instance_metadata.security_epoch                       *)
    maintenance,   (* instance_metadata.maintenance_mode                     *)
    reviewEpoch,   (* epoch of each review snapshot, 0 when there is none    *)
    approval,      (* approval_requests.status, "none" when there is no row  *)
    expired,       (* approvals whose expires_at has passed                  *)
    asking,        (* approval requests past the maintenance guard           *)
    approving,     (* approve calls past the maintenance guard               *)
    op,            (* git_operations.state, "none" when there is no row      *)
    opHead,        (* git_operations.expected_remote_head                    *)
    lease,         (* credential_leases.state, "none" when there is no row   *)
    call,          (* what each runner is doing and remembers                *)
    head,          (* the head of the agent branch on the remote             *)
    push,          (* what became of the push made for an approval           *)
    pushes,        (* history: pushes sent for an approval                   *)
    approvedBy,    (* history: approvals a human decided to approve          *)
    migration      (* the security migration and its open transaction        *)

database == <<epoch, maintenance, reviewEpoch, approval, op, opHead, lease>>
requests == <<asking, approving>>
remote == <<head, push, pushes>>
vars == <<database, expired, requests, call, remote, approvedBy, migration>>

-----------------------------------------------------------------------------
(* States and values.                                                       *)

Active == {"PENDING", "APPROVED"}
ApprovalStatus == Active \cup {"DENIED", "STALE"}

GitOperationState == {"PENDING", "VALIDATING", "WAITING_CREDENTIAL", "PUSHING",
                      "SUCCEEDED", "FAILED", "CONFLICT", "CANCELLED", "STALE"}
Cancellable == {"PENDING", "VALIDATING", "WAITING_CREDENTIAL"}
Terminal == {"SUCCEEDED", "FAILED", "CONFLICT", "CANCELLED", "STALE"}
Abandoned == {"CANCELLED", "STALE", "FAILED"}

AllowedTransitions ==
    [s \in GitOperationState |->
        CASE s = "PENDING" -> {"VALIDATING"} \cup Abandoned
          [] s = "VALIDATING" -> {"WAITING_CREDENTIAL"} \cup Abandoned
          [] s = "WAITING_CREDENTIAL" -> {"PUSHING"} \cup Abandoned
          [] s = "PUSHING" -> {"SUCCEEDED", "FAILED", "CONFLICT", "STALE"}
          [] OTHER -> {}]

CredentialLeaseState ==
    {"RESERVED", "ISSUED", "CONSUMED", "EXPIRED", "FAILED", "UNCERTAIN"}
Live == {"RESERVED", "ISSUED"}

PushState == {"none", "sent", "applied", "rejected"}
Heads == Reviews \cup {"absent", "foreign"}

Validating == {"load", "find", "observe", "createBound", "toValidating",
               "usable", "revalidate", "toWaiting", "rejectStale", "rejectFailed"}
Executing == {"prepare", "reserve", "issue", "markIssued", "recheck", "toPushing",
              "push", "pushed", "pullRequest", "markConsumed", "toSucceeded",
              "recordFailure", "recordOutcome"}

IdleCall == [pc |-> "idle", approval |-> "none", status |-> "none", op |-> "none",
             lease |-> "none", head |-> "absent", casConflict |-> FALSE]
Call == [pc : {"idle"} \cup Validating \cup Executing,
         approval : Approvals \cup {"none"},
         status : ApprovalStatus \cup {"none"},
         op : GitOperationState \cup {"none"},
         lease : {"none", "RESERVED", "ISSUED", "CONSUMED"},
         head : Heads,
         casConflict : BOOLEAN]

IdleMigration == [pc |-> "idle", epoch |-> 1, approvals |-> {}, ops |-> {},
                  failed |-> {}, expired |-> {}]
InTransaction == {"checkPushing", "staleApprovals", "cancelOperations",
                  "failReservations", "expireCredentials", "commit"}
MigrationRecord ==
    [pc : {"idle", "enter", "begin"} \cup InTransaction, epoch : 1..MaxEpoch,
     approvals : SUBSET Approvals, ops : SUBSET Approvals,
     failed : SUBSET Approvals, expired : SUBSET Approvals]

TypeOK ==
    /\ epoch \in 1..MaxEpoch
    /\ maintenance \in BOOLEAN
    /\ reviewEpoch \in [Reviews -> 0..MaxEpoch]
    /\ approval \in [Approvals -> ApprovalStatus \cup {"none"}]
    /\ expired \subseteq Approvals
    /\ asking \subseteq Approvals
    /\ approving \subseteq Approvals
    /\ op \in [Approvals -> GitOperationState \cup {"none"}]
    /\ opHead \in [Approvals -> Heads]
    /\ lease \in [Approvals -> CredentialLeaseState \cup {"none"}]
    /\ call \in [Runners -> Call]
    /\ head \in Heads
    /\ push \in [Approvals -> PushState]
    /\ pushes \in [Approvals -> Nat]
    /\ approvedBy \subseteq Approvals
    /\ migration \in MigrationRecord

Init ==
    /\ epoch = 1
    /\ maintenance = FALSE
    /\ reviewEpoch = [v \in Reviews |-> 0]
    /\ approval = [a \in Approvals |-> "none"]
    /\ expired = {}
    /\ asking = {}
    /\ approving = {}
    /\ op = [a \in Approvals |-> "none"]
    /\ opHead = [a \in Approvals |-> "absent"]
    /\ lease = [a \in Approvals |-> "none"]
    /\ call = [r \in Runners |-> IdleCall]
    /\ head = "absent"
    /\ push = [a \in Approvals |-> "none"]
    /\ pushes = [a \in Approvals |-> 0]
    /\ approvedBy = {}
    /\ migration = IdleMigration

-----------------------------------------------------------------------------
(* Row locks the open migration transaction holds until it ends.            *)

(* Mutant: the metadata row is read without FOR UPDATE. *)
MetadataUnlocked == TRUE
MetadataFree == migration.pc \notin InTransaction
ApprovalFree(a) == a \notin migration.approvals
OperationFree(a) == a \notin migration.ops
LeaseFree(a) == a \notin migration.failed \cup migration.expired

ApprovalEpoch(a) == reviewEpoch[ReviewOf[a]]

(* MaintenanceModeGuard.assertAvailable.                                    *)
AssertAvailable == ~maintenance

-----------------------------------------------------------------------------
(* Reviews and approvals.                                                   *)

(* The review pipeline stores a snapshot under the epoch it sampled, which  *)
(* a migration may have replaced in the meantime.                           *)
CreateReview(v) ==
    /\ reviewEpoch[v] = 0
    /\ \E e \in 1..epoch : reviewEpoch' = [reviewEpoch EXCEPT ![v] = e]
    /\ UNCHANGED <<epoch, maintenance, approval, op, opHead, lease, expired,
                   requests, call, remote, approvedBy, migration>>

RequestApproval(a) ==
    /\ approval[a] = "none"
    /\ AssertAvailable
    /\ reviewEpoch[ReviewOf[a]] # 0
    /\ asking' = asking \cup {a}
    /\ UNCHANGED <<database, expired, approving, call, remote, approvedBy, migration>>

(* The rest of the request: an active approval of the review is returned as *)
(* it is, a stale review is refused, otherwise the row is inserted.  The    *)
(* transaction holds the metadata row while it compares and inserts.        *)
(* Mutant: an approval that was decided no longer counts. *)
HasPendingApproval(v) ==
    \E b \in Approvals : ReviewOf[b] = v /\ approval[b] = "PENDING"
HasActiveApproval(v) ==
    \E b \in Approvals : ReviewOf[b] = v /\ approval[b] \in Active

CreateBoundApproval(a) ==
    /\ a \in asking
    /\ MetadataFree
    /\ asking' = asking \ {a}
    /\ IF HasActiveApproval(ReviewOf[a]) \/ ApprovalEpoch(a) # epoch
       THEN UNCHANGED approval
       ELSE approval' = [approval EXCEPT ![a] = "PENDING"]
    /\ UNCHANGED <<epoch, maintenance, reviewEpoch, op, opHead, lease, expired,
                   approving, call, remote, approvedBy, migration>>

Approve(a) ==
    /\ approval[a] # "none"
    /\ AssertAvailable
    /\ approving' = approving \cup {a}
    /\ UNCHANGED <<database, expired, asking, call, remote, approvedBy, migration>>

(* The decision transaction: the row must still be PENDING, an expired row  *)
(* goes stale without a look at the metadata, a row of another epoch goes   *)
(* stale, and only then does the human's decision count.                    *)
Decide(a, decision) ==
    /\ ApprovalFree(a)
    /\ \/ /\ approval[a] # "PENDING"
          /\ UNCHANGED <<approval, approvedBy>>
       \/ /\ approval[a] = "PENDING"
          /\ a \in expired
          /\ approval' = [approval EXCEPT ![a] = "STALE"]
          /\ UNCHANGED approvedBy
       \/ /\ approval[a] = "PENDING"
          /\ a \notin expired
          /\ MetadataFree
          /\ IF ApprovalEpoch(a) # epoch
             THEN /\ approval' = [approval EXCEPT ![a] = "STALE"]
                  /\ UNCHANGED approvedBy
             ELSE /\ approval' = [approval EXCEPT ![a] = decision]
                  /\ approvedBy' = IF decision = "APPROVED"
                                   THEN approvedBy \cup {a} ELSE approvedBy
    /\ UNCHANGED <<epoch, maintenance, reviewEpoch, op, opHead, lease, expired,
                   asking, call, remote, migration>>

DecideApprove(a) ==
    /\ a \in approving
    /\ approving' = approving \ {a}
    /\ Decide(a, "APPROVED")

(* A denial passes no maintenance guard.                                    *)
Deny(a) ==
    /\ approval[a] # "none"
    /\ Decide(a, "DENIED")
    /\ UNCHANGED approving

Expire(a) ==
    /\ approval[a] # "none"
    /\ a \notin expired
    /\ expired' = expired \cup {a}
    /\ UNCHANGED <<database, requests, call, remote, approvedBy, migration>>

-----------------------------------------------------------------------------
(* Runners.  Goto, Take and Finish move the call record of a runner.        *)

At(r, pc) == call[r].pc = pc
Goto(r, pc) == call' = [call EXCEPT ![r].pc = pc]
Finish(r) == call' = [call EXCEPT ![r] = IdleCall]
Fail(r, cas) ==
    call' = [call EXCEPT ![r].pc = "recordFailure", ![r].casConflict = cas]

(* Where start continues for an operation found or moved to a state.        *)
Continue(state) ==
    IF state = "PENDING" THEN "toValidating"
    ELSE IF state = "VALIDATING" THEN "usable" ELSE "prepare"
Resume(r, state) ==
    IF state \in Cancellable
    THEN call' = [call EXCEPT ![r].pc = Continue(state), ![r].op = state]
    ELSE Finish(r)

(* The compare-and-swap of one row: a statement that waits for the row lock *)
(* and then changes the row only if it is still in the expected state.      *)
(* Mutant: the update names the row, not the state it expects. *)
MoveUnchecked(a, from, to) == to \in AllowedTransitions[from]
CanMove(a, from, to) == op[a] = from /\ to \in AllowedTransitions[from]

Transition(a, from, to) ==
    /\ OperationFree(a)
    /\ CanMove(a, from, to)
    /\ op' = [op EXCEPT ![a] = to]
TransitionConflict(a, from, to) ==
    /\ OperationFree(a)
    /\ ~CanMove(a, from, to)
    /\ UNCHANGED op

LeaseTransition(a, from, to) ==
    /\ LeaseFree(a)
    /\ lease[a] = from
    /\ lease' = [lease EXCEPT ![a] = to]
LeaseConflict(a, from) ==
    /\ LeaseFree(a)
    /\ lease[a] # from
    /\ UNCHANGED lease

OnlyCall == UNCHANGED <<database, expired, requests, remote, approvedBy, migration>>
OnlyOp == UNCHANGED <<epoch, maintenance, reviewEpoch, approval, opHead, lease,
                      expired, requests, remote, approvedBy, migration>>
OnlyLease == UNCHANGED <<epoch, maintenance, reviewEpoch, approval, op, opHead,
                         expired, requests, remote, approvedBy, migration>>

(* GitOperationService.start, up to the executor.                           *)
Start(r, a) ==
    /\ At(r, "idle")
    /\ AssertAvailable
    /\ call' = [call EXCEPT ![r] = [IdleCall EXCEPT !.pc = "load", !.approval = a]]
    /\ OnlyCall

LoadApproval(r) ==
    /\ At(r, "load")
    /\ LET status == approval[call[r].approval] IN
       IF status = "none" THEN Finish(r)
       ELSE call' = [call EXCEPT ![r].pc = "find", ![r].status = status]
    /\ OnlyCall

FindOperation(r) ==
    /\ At(r, "find")
    /\ LET found == op[call[r].approval] IN
       IF found = "none" THEN Goto(r, "observe") ELSE Resume(r, found)
    /\ OnlyCall

ObserveRemoteHead(r) ==
    /\ At(r, "observe")
    /\ \/ call' = [call EXCEPT ![r].pc = "createBound", ![r].head = head]
       \/ Finish(r)
    /\ OnlyCall

(* The insert needs an APPROVED unexpired approval of the current epoch and *)
(* loses to the unique index when another runner was faster.                *)
CreateBoundOperation(r) ==
    /\ At(r, "createBound")
    /\ MetadataFree
    /\ LET a == call[r].approval IN
       IF /\ approval[a] = "APPROVED"
          /\ a \notin expired
          /\ ApprovalEpoch(a) = epoch
          /\ op[a] = "none"
       THEN /\ op' = [op EXCEPT ![a] = "PENDING"]
            /\ opHead' = [opHead EXCEPT ![a] = call[r].head]
            /\ Resume(r, "PENDING")
       ELSE UNCHANGED <<op, opHead>> /\ Finish(r)
    /\ UNCHANGED <<epoch, maintenance, reviewEpoch, approval, lease, expired,
                   requests, remote, approvedBy, migration>>

ToValidating(r) ==
    /\ At(r, "toValidating")
    /\ LET a == call[r].approval IN
       \/ Transition(a, "PENDING", "VALIDATING") /\ Resume(r, "VALIDATING")
       \/ TransitionConflict(a, "PENDING", "VALIDATING") /\ Finish(r)
    /\ OnlyOp

(* requireApprovalStillUsable looks at the copy loaded at the start and at  *)
(* the clock, never at the approval row again.                              *)
CheckUsable(r) ==
    /\ At(r, "usable")
    /\ IF call[r].status = "APPROVED" /\ call[r].approval \notin expired
       THEN Goto(r, "revalidate")
       ELSE Goto(r, "rejectStale")
    /\ OnlyCall

(* ExactRevalidator: the security context is compared again after the       *)
(* validator ran; a failing validator is not a mismatch.                    *)
Revalidate(r) ==
    /\ At(r, "revalidate")
    /\ \/ /\ ApprovalEpoch(call[r].approval) = epoch
          /\ Goto(r, "toWaiting")
       \/ Goto(r, "rejectStale")
       \/ Goto(r, "rejectFailed")
    /\ OnlyCall

(* A conflict is thrown inside the try block, so the catch block tries to   *)
(* move the operation to FAILED.                                            *)
ToWaiting(r) ==
    /\ At(r, "toWaiting")
    /\ LET a == call[r].approval IN
       \/ /\ Transition(a, "VALIDATING", "WAITING_CREDENTIAL")
          /\ Resume(r, "WAITING_CREDENTIAL")
       \/ /\ TransitionConflict(a, "VALIDATING", "WAITING_CREDENTIAL")
          /\ Goto(r, "rejectFailed")
    /\ OnlyOp

RejectTo(r) == IF At(r, "rejectStale") THEN "STALE" ELSE "FAILED"
Reject(r) ==
    /\ At(r, "rejectStale") \/ At(r, "rejectFailed")
    /\ LET a == call[r].approval IN
       \/ Transition(a, "VALIDATING", RejectTo(r))
       \/ TransitionConflict(a, "VALIDATING", RejectTo(r))
    /\ Finish(r)
    /\ OnlyOp

-----------------------------------------------------------------------------
(* CredentialedGitWriteExecutor.execute.                                    *)

ContextCurrent(r) ==
    /\ call[r].status = "APPROVED"
    /\ call[r].approval \notin expired
    /\ ~maintenance
    /\ epoch = ApprovalEpoch(call[r].approval)

(* Preparing the bare repository touches nothing shared; the context check  *)
(* that follows it reads the metadata.                                      *)
Prepare(r) ==
    /\ At(r, "prepare")
    /\ \/ ContextCurrent(r) /\ Goto(r, "reserve")
       \/ Fail(r, FALSE)
    /\ OnlyCall

(* Mutant: an operation may have a second lease. *)
ReservableAgain(a) ==
    op[a] = "WAITING_CREDENTIAL" /\ epoch = ApprovalEpoch(a)
Reservable(a) ==
    op[a] = "WAITING_CREDENTIAL" /\ epoch = ApprovalEpoch(a) /\ lease[a] = "none"

(* Mutant: the runner waits until it can have the lease. *)
ReserveOrWait(r) ==
    /\ At(r, "reserve") /\ MetadataFree /\ Reservable(call[r].approval)
    /\ lease' = [lease EXCEPT ![call[r].approval] = "RESERVED"]
    /\ call' = [call EXCEPT ![r].pc = "issue", ![r].lease = "RESERVED"]
    /\ OnlyLease

(* The transaction holds the operation and metadata rows; it may also be    *)
(* the victim of a deadlock or of a lost connection.                        *)
Reserve(r) ==
    /\ At(r, "reserve")
    /\ LET a == call[r].approval IN
       \/ /\ MetadataFree
          /\ Reservable(a)
          /\ lease' = [lease EXCEPT ![a] = "RESERVED"]
          /\ call' = [call EXCEPT ![r].pc = "issue", ![r].lease = "RESERVED"]
       \/ /\ Fail(r, FALSE)
          /\ UNCHANGED lease
    /\ OnlyLease

(* GitHubAppTokenIssuer.issueForOperation.                                  *)
Issue(r) ==
    /\ At(r, "issue")
    /\ \/ /\ ~maintenance
          /\ epoch = ApprovalEpoch(call[r].approval)
          /\ Goto(r, "markIssued")
       \/ Fail(r, FALSE)
    /\ OnlyCall

MarkIssued(r) ==
    /\ At(r, "markIssued")
    /\ LET a == call[r].approval IN
       \/ /\ LeaseTransition(a, "RESERVED", "ISSUED")
          /\ call' = [call EXCEPT ![r].pc = "recheck", ![r].lease = "ISSUED"]
       \/ LeaseConflict(a, "RESERVED") /\ Fail(r, FALSE)
    /\ OnlyLease

(* The last look at the context; the token may also be too close to expiry. *)
Recheck(r) ==
    /\ At(r, "recheck")
    /\ \/ ContextCurrent(r) /\ Goto(r, "toPushing")
       \/ Fail(r, FALSE)
    /\ OnlyCall

ToPushing(r) ==
    /\ At(r, "toPushing")
    /\ LET a == call[r].approval IN
       \/ /\ Transition(a, "WAITING_CREDENTIAL", "PUSHING")
          /\ call' = [call EXCEPT ![r].pc = "push", ![r].op = "PUSHING"]
       \/ TransitionConflict(a, "WAITING_CREDENTIAL", "PUSHING") /\ Fail(r, FALSE)
    /\ OnlyOp

SendPush(r) ==
    /\ At(r, "push")
    /\ LET a == call[r].approval IN
       /\ push' = [push EXCEPT ![a] = "sent"]
       /\ pushes' = [pushes EXCEPT ![a] = @ + 1]
    /\ Goto(r, "pushed")
    /\ UNCHANGED <<database, expired, requests, head, approvedBy, migration>>

(* Mutant: a push that failed is sent again. *)
RetriedPush(r) ==
    /\ At(r, "pushed")
    /\ Goto(r, IF push[call[r].approval] = "applied" THEN "pullRequest" ELSE "push")
    /\ OnlyCall

(* What git push reports: success, the stale-info rejection of the lease,   *)
(* or anything else, a timeout included, whatever the remote did or will do.*)
PushReturns(r) ==
    /\ At(r, "pushed")
    /\ LET a == call[r].approval IN
       \/ push[a] = "applied" /\ Goto(r, "pullRequest")
       \/ push[a] = "rejected" /\ Fail(r, TRUE)
       \/ Fail(r, FALSE)
    /\ OnlyCall

CreatePullRequest(r) ==
    /\ At(r, "pullRequest")
    /\ Goto(r, "markConsumed") \/ Fail(r, FALSE)
    /\ OnlyCall

MarkConsumed(r) ==
    /\ At(r, "markConsumed")
    /\ LET a == call[r].approval IN
       \/ /\ LeaseTransition(a, "ISSUED", "CONSUMED")
          /\ call' = [call EXCEPT ![r].pc = "toSucceeded", ![r].lease = "CONSUMED"]
       \/ LeaseConflict(a, "ISSUED") /\ Fail(r, FALSE)
    /\ OnlyLease

ToSucceeded(r) ==
    /\ At(r, "toSucceeded")
    /\ LET a == call[r].approval IN
       \/ Transition(a, "PUSHING", "SUCCEEDED") /\ Finish(r)
       \/ TransitionConflict(a, "PUSHING", "SUCCEEDED") /\ Fail(r, FALSE)
    /\ OnlyOp

(* recordFailure: the lease is settled first, according to the copy the     *)
(* runner holds, then the operation.  A failing first write is thrown.      *)
(* Mutant: every failing push counts as a rejected one. *)
AnyFailureIsConflict(c) == c.op = "PUSHING"
IsConflict(c) == c.casConflict /\ c.op = "PUSHING"
SettleFrom(c) == IF c.lease = "RESERVED" THEN "RESERVED" ELSE "ISSUED"
SettleTo(c) ==
    IF c.lease = "RESERVED" THEN "FAILED"
    ELSE IF IsConflict(c) THEN "CONSUMED" ELSE "UNCERTAIN"

(* Mutant: the lease is settled and the operation left as it is. *)
SettleLeaseOnly(r) ==
    /\ At(r, "recordFailure")
    /\ call[r].lease # "none"
    /\ LeaseTransition(call[r].approval, SettleFrom(call[r]), SettleTo(call[r]))
    /\ Finish(r)
    /\ OnlyLease

SettleLease(r) ==
    /\ At(r, "recordFailure")
    /\ call[r].lease # "none"
    /\ LET a == call[r].approval IN
       \/ /\ LeaseTransition(a, SettleFrom(call[r]), SettleTo(call[r]))
          /\ Goto(r, "recordOutcome")
       \/ LeaseConflict(a, SettleFrom(call[r])) /\ Finish(r)
    /\ OnlyLease

OutcomeFrom(c) == IF c.op = "PUSHING" THEN "PUSHING" ELSE "WAITING_CREDENTIAL"
OutcomeTo(c) == IF c.lease # "RESERVED" /\ IsConflict(c) THEN "CONFLICT" ELSE "FAILED"

RecordOutcome(r) ==
    /\ \/ At(r, "recordOutcome")
       \/ At(r, "recordFailure") /\ call[r].lease = "none"
    /\ LET a == call[r].approval IN
       \/ Transition(a, OutcomeFrom(call[r]), OutcomeTo(call[r]))
       \/ TransitionConflict(a, OutcomeFrom(call[r]), OutcomeTo(call[r]))
    /\ Finish(r)
    /\ OnlyOp

-----------------------------------------------------------------------------
(* The remote and the rest of the world.                                    *)

LeaseHolds(a) == head \in {opHead[a], ReviewOf[a]}

(* --force-with-lease: the branch moves only if its head is the one the     *)
(* operation observed; a branch already at the target is up to date.  The   *)
(* request may arrive after the runner gave up on it, or never.             *)
RemoteApplies(a) ==
    /\ push[a] = "sent"
    /\ IF LeaseHolds(a)
       THEN /\ push' = [push EXCEPT ![a] = "applied"]
            /\ head' = ReviewOf[a]
       ELSE /\ push' = [push EXCEPT ![a] = "rejected"]
            /\ UNCHANGED head
    /\ UNCHANGED <<database, expired, requests, call, pushes, approvedBy, migration>>

(* Others push to the agent branch, or delete it, as after a merge.         *)
ForeignPush ==
    /\ head' \in {"foreign", "absent"}
    /\ UNCHANGED <<database, expired, requests, call, push, pushes, approvedBy, migration>>

(* rad-control stops and starts again: every request in progress is gone.   *)
Crash ==
    /\ call' = [r \in Runners |-> IdleCall]
    /\ asking' = {}
    /\ approving' = {}
    /\ UNCHANGED <<database, expired, remote, approvedBy, migration>>

-----------------------------------------------------------------------------
(* SecurityMigrationService.migrate, a process of its own.                  *)

MigrationOnly == UNCHANGED <<database, expired, requests, call, remote, approvedBy>>

MigrateRead ==
    /\ migration.pc = "idle"
    /\ migration' = [IdleMigration EXCEPT !.pc = "enter", !.epoch = epoch]
    /\ MigrationOnly

(* The mode is entered once; a retry with the same reason finds it active.  *)
EnterMaintenance ==
    /\ migration.pc = "enter"
    /\ maintenance' = TRUE
    /\ migration' = [migration EXCEPT !.pc = "begin"]
    /\ UNCHANGED <<epoch, reviewEpoch, approval, op, opHead, lease, expired,
                   requests, call, remote, approvedBy>>

(* The transaction locks the metadata row and compares it.                  *)
BeginCommit ==
    /\ migration.pc = "begin"
    /\ IF maintenance /\ epoch = migration.epoch
       THEN migration' = [migration EXCEPT !.pc = "checkPushing"]
       ELSE migration' = IdleMigration
    /\ MigrationOnly

CheckPushing ==
    /\ migration.pc = "checkPushing"
    /\ IF \E a \in Approvals : op[a] = "PUSHING"
       THEN migration' = IdleMigration
       ELSE migration' = [migration EXCEPT !.pc = "staleApprovals"]
    /\ MigrationOnly

StaleApprovals ==
    /\ migration.pc = "staleApprovals"
    /\ migration' = [migration EXCEPT !.pc = "cancelOperations",
                       !.approvals = {a \in Approvals : approval[a] \in Active}]
    /\ MigrationOnly

(* Mutant: everything that is not PUSHING is cancelled. *)
CancelAllOperations ==
    /\ migration.pc = "cancelOperations"
    /\ migration' = [migration EXCEPT !.pc = "failReservations",
                       !.ops = {a \in Approvals : op[a] \notin {"none", "PUSHING"}}]
    /\ MigrationOnly

CancelOperations ==
    /\ migration.pc = "cancelOperations"
    /\ migration' = [migration EXCEPT !.pc = "failReservations",
                       !.ops = {a \in Approvals : op[a] \in Cancellable}]
    /\ MigrationOnly

FailReservations ==
    /\ migration.pc = "failReservations"
    /\ migration' = [migration EXCEPT !.pc = "expireCredentials",
                       !.failed = {a \in Approvals : lease[a] = "RESERVED"}]
    /\ MigrationOnly

ExpireCredentials ==
    /\ migration.pc = "expireCredentials"
    /\ migration' = [migration EXCEPT !.pc = "commit",
                       !.expired = {a \in Approvals : lease[a] = "ISSUED"}]
    /\ MigrationOnly

(* Mutant: no check of the last safe epoch. *)
EpochUnbounded == TRUE
EpochCanGrow == migration.epoch < MaxEpoch

(* Refused at the last safe epoch; otherwise everything becomes visible at  *)
(* once and maintenance ends with the new epoch.                            *)
CommitMigration ==
    /\ migration.pc = "commit"
    /\ EpochCanGrow
    /\ epoch' = migration.epoch + 1
    /\ maintenance' = FALSE
    /\ approval' = [a \in Approvals |->
                      IF a \in migration.approvals THEN "STALE" ELSE approval[a]]
    /\ op' = [a \in Approvals |->
                IF a \in migration.ops THEN "CANCELLED" ELSE op[a]]
    /\ lease' = [a \in Approvals |->
                   CASE a \in migration.failed -> "FAILED"
                     [] a \in migration.expired -> "EXPIRED"
                     [] OTHER -> lease[a]]
    /\ migration' = IdleMigration
    /\ UNCHANGED <<reviewEpoch, opHead, expired, requests, call, remote, approvedBy>>

(* Any failure, a crash of the command included, rolls the transaction back *)
(* and leaves maintenance as it is.                                         *)
AbortMigration ==
    /\ migration.pc # "idle"
    /\ migration' = IdleMigration
    /\ MigrationOnly

-----------------------------------------------------------------------------
RunnerStep(r) ==
    \/ LoadApproval(r)    \/ FindOperation(r)  \/ ObserveRemoteHead(r)
    \/ CreateBoundOperation(r)                 \/ ToValidating(r)
    \/ CheckUsable(r)     \/ Revalidate(r)     \/ ToWaiting(r)
    \/ Reject(r)          \/ Prepare(r)        \/ Reserve(r)
    \/ Issue(r)           \/ MarkIssued(r)     \/ Recheck(r)
    \/ ToPushing(r)       \/ SendPush(r)       \/ PushReturns(r)
    \/ CreatePullRequest(r)                    \/ MarkConsumed(r)
    \/ ToSucceeded(r)     \/ SettleLease(r)    \/ RecordOutcome(r)

ApprovalStep(a) ==
    \/ RequestApproval(a) \/ CreateBoundApproval(a) \/ Approve(a)
    \/ DecideApprove(a)   \/ Deny(a)                \/ Expire(a)

MigrationStep ==
    \/ EnterMaintenance  \/ BeginCommit      \/ CheckPushing
    \/ StaleApprovals    \/ CancelOperations \/ FailReservations
    \/ ExpireCredentials \/ CommitMigration  \/ AbortMigration

Environment ==
    \/ \E v \in Reviews : CreateReview(v)
    \/ \E a \in Approvals : ApprovalStep(a)
    \/ \E a \in Approvals : RemoteApplies(a)
    \/ ForeignPush

Work ==
    \/ Environment
    \/ \E r \in Runners : RunnerStep(r)
    \/ \E r \in Runners, a \in Approvals : Start(r, a)
    \/ MigrateRead \/ MigrationStep

Next == Work \/ Crash

Spec == Init /\ [][Next]_vars

(* Node keeps serving a request it accepted, and the admin command, once    *)
(* started, runs to its end or fails; no crash.  A row lock that migrations *)
(* take again and again is granted to its waiters in their order, so a      *)
(* runner is fairly scheduled even if it is only enabled between two of     *)
(* them.  Nothing is assumed of the remote: git push, the GitHub requests   *)
(* and the validator have timeouts, which are a runner's own failure steps. *)
Fairness ==
    /\ \A r \in Runners : SF_vars(RunnerStep(r))
    /\ WF_vars(MigrationStep)
LiveSpec == Init /\ [][Work]_vars /\ Fairness

-----------------------------------------------------------------------------
(* Properties.                                                              *)

(* One approval writes the remote at most once: whatever runners race for   *)
(* its operation, and however often rad-control crashes and the operation   *)
(* is started again, git push is invoked at most once for it.               *)
PushedAtMostOnce == \A a \in Approvals : pushes[a] <= 1

(* What reaches the remote was approved by a human decision that passed the *)
(* expiry and binding checks of the decision transaction.                   *)
OnlyApprovedIsPushed == \A a \in Approvals : push[a] # "none" => a \in approvedBy

(* The outcomes shown to the user are true of the remote: SUCCEEDED means   *)
(* the branch took the approved target, CONFLICT that it never will, and    *)
(* both used up the credential.                                             *)
DefiniteOutcomesAreTrue ==
    \A a \in Approvals :
        /\ op[a] = "SUCCEEDED" => push[a] = "applied" /\ lease[a] = "CONSUMED"
        /\ op[a] = "CONFLICT" => push[a] = "rejected" /\ lease[a] = "CONSUMED"

(* An operation that ends CANCELLED, STALE or FAILED without an UNCERTAIN   *)
(* lease never reached the remote, and nothing it left behind will: the     *)
(* user may capture and submit the same work again.                         *)
AbandonedWasNeverPushed ==
    \A a \in Approvals :
        op[a] \in Abandoned /\ lease[a] # "UNCERTAIN" => push[a] = "none"

(* A review is written at most once, over all the approvals made for it in  *)
(* turn: an approval that was acted on stays active until a migration, and  *)
(* after the migration the review is of an old epoch.                       *)
ReviewPushedOnce ==
    \A a, b \in Approvals :
        /\ ReviewOf[a] = ReviewOf[b]
        /\ push[a] # "none"
        /\ push[b] # "none"
        => a = b

(* Of all requests racing for an operation at most one holds its credential *)
(* lease, the unique lease row of the operation being the arbiter.          *)
OneCredentialHolder ==
    \A r, s \in Runners :
        /\ call[r].lease # "none"
        /\ call[s].lease # "none"
        /\ call[r].approval = call[s].approval
        => r = s

(* Nothing usable survives a security migration: an active approval, an     *)
(* operation that can still reach the push and a live lease all belong to   *)
(* the current epoch, whatever was being created while the migration ran.   *)
UsableIsOfCurrentEpoch ==
    \A a \in Approvals :
        \/ approval[a] \in Active
        \/ op[a] \in Cancellable
        \/ lease[a] \in Live
        => ApprovalEpoch(a) = epoch

(* A recorded outcome is final, for late runners and for the migration.     *)
OutcomesAreFinal ==
    [][\A a \in Approvals : op[a] \in Terminal => op'[a] = op[a]]_vars

(* A Git operation that is about to write belongs to the current epoch:     *)
(* docs/security/SECURITY_GATE_D.md says that a migration aborts if an      *)
(* operation is PUSHING.                                                    *)
PushingIsOfCurrentEpoch ==
    \A a \in Approvals : op[a] = "PUSHING" => ApprovalEpoch(a) = epoch

(* What docs/OPERATIONS.md asks of the operator, for Git operations: while  *)
(* the migration command runs, rad-control serves no request for one.       *)
ControlStopped == migration.pc # "idle" => \A r \in Runners : At(r, "idle")

(* Every request that starts an operation is answered.                      *)
RequestsReturn == \A r \in Runners : ~At(r, "idle") ~> At(r, "idle")

(* Racing requests never strand an operation between them: without a crash  *)
(* and without a completed migration every operation gets its outcome.      *)
OperationsSettle == \A a \in Approvals : op[a] # "none" ~> op[a] \in Terminal

-----------------------------------------------------------------------------
(* What is told of a write, and the ledger the pipeline keeps.              *)

ToldOf(state) ==
    CASE state = "none" -> "nothing"
      [] state = "SUCCEEDED" -> "written"
      [] state = "CONFLICT" -> "refused"
      [] state \in Abandoned -> "given up"
      [] OTHER -> "started"
Told == [a \in Approvals |-> ToldOf(op[a])]

Doubted == {a \in Approvals : lease[a] = "UNCERTAIN"}

Ledger == INSTANCE WriteLedger WITH
    Approval <- Approvals, Review <- Reviews, ReviewOf <- ReviewOf,
    approved <- approvedBy, told <- Told, remote <- push, doubted <- Doubted

(* The pipeline implements the ledger: whatever requests race, migrations   *)
(* cut in and restarts forget, no write goes out that was not approved and  *)
(* started, each goes out once, the outcome told is final, and a write that *)
(* is given up without a doubtful credential has not gone out.              *)
LedgerKept == Ledger!Spec

-----------------------------------------------------------------------------
(* The inductive invariant: what each runner may rely on at each step, and  *)
(* what the open migration transaction has locked.                          *)

HoldsIssued == {"recheck", "toPushing", "push", "pushed", "pullRequest", "markConsumed"}
OwnsPush == {"push", "pushed", "pullRequest", "markConsumed", "toSucceeded"}

(* A call record matches the step its runner is at.                         *)
CallShape(c) ==
    /\ c.pc = "idle" => c = IdleCall
    /\ c.pc # "idle" => c.approval \in Approvals
    /\ c.pc \in Validating \cup {"prepare", "reserve"} => c.lease = "none"
    /\ c.pc \in {"issue", "markIssued"} => c.lease = "RESERVED"
    /\ c.pc \in HoldsIssued => c.lease = "ISSUED"
    /\ c.pc = "toSucceeded" => c.lease = "CONSUMED"
    /\ c.pc = "recordFailure" => c.lease # "CONSUMED"
    /\ c.pc = "recordOutcome" => c.lease \in {"RESERVED", "ISSUED"}
    /\ c.pc \in OwnsPush => c.op = "PUSHING"
    /\ c.op = "PUSHING" =>
         /\ c.pc \in OwnsPush \cup {"recordFailure", "recordOutcome"}
         /\ c.lease \in {"ISSUED", "CONSUMED"}
    /\ c.casConflict =>
         /\ c.pc \in {"recordFailure", "recordOutcome"}
         /\ c.op = "PUSHING"

CallsMatchSteps == \A r \in Runners : CallShape(call[r])

(* What a runner knows of the rows and of the remote, whatever the others   *)
(* did since it looked.                                                     *)
KnowsRows(c) ==
    /\ c.lease # "none" => lease[c.approval] # "none"
    /\ c.op = "PUSHING" => op[c.approval] = "PUSHING"
    /\ c.pc = "push" => push[c.approval] = "none"
    /\ c.pc \in {"pullRequest", "markConsumed", "toSucceeded"} =>
         push[c.approval] = "applied"
    /\ c.casConflict => push[c.approval] = "rejected"
    /\ c.pc = "toSucceeded" => lease[c.approval] = "CONSUMED"
    /\ c.pc = "recordOutcome" => lease[c.approval] = SettleTo(c)

RunnersKnowRows == \A r \in Runners : KnowsRows(call[r])

(* A push is sent under a PUSHING operation, and is counted.                *)
PushesAreOwned ==
    \A a \in Approvals :
        /\ pushes[a] = IF push[a] = "none" THEN 0 ELSE 1
        /\ push[a] # "none" => op[a] \in {"PUSHING", "SUCCEEDED", "FAILED", "CONFLICT"}

(* An operation comes from an approval, which stays active until its epoch  *)
(* is over; of the approvals of a review one at a time is active, and one   *)
(* ever gets an operation.                                                  *)
ApprovalsBackOperations ==
    /\ \A a \in Approvals :
         /\ approval[a] = "APPROVED" => a \in approvedBy
         /\ op[a] # "none" =>
              /\ a \in approvedBy
              /\ \/ approval[a] = "APPROVED"
                 \/ ApprovalEpoch(a) # 0 /\ ApprovalEpoch(a) < epoch
    /\ \A a, b \in Approvals :
         ReviewOf[a] = ReviewOf[b] =>
           /\ approval[a] \in Active /\ approval[b] \in Active => a = b
           /\ op[a] # "none" /\ op[b] # "none" => a = b

(* The rows an open migration transaction has locked are all the rows its   *)
(* statement selects, until it ends.                                        *)
Reached(steps) == migration.pc \in steps
MigrationLocks ==
    /\ ~MetadataFree => epoch = migration.epoch
    /\ migration.approvals =
         IF Reached({"cancelOperations", "failReservations", "expireCredentials", "commit"})
         THEN {a \in Approvals : approval[a] \in Active} ELSE {}
    /\ migration.ops =
         IF Reached({"failReservations", "expireCredentials", "commit"})
         THEN {a \in Approvals : op[a] \in Cancellable} ELSE {}
    /\ migration.failed =
         IF Reached({"expireCredentials", "commit"})
         THEN {a \in Approvals : lease[a] = "RESERVED"} ELSE {}
    /\ migration.expired =
         IF Reached({"commit"})
         THEN {a \in Approvals : lease[a] = "ISSUED"} ELSE {}

IInv ==
    /\ TypeOK
    /\ CallsMatchSteps
    /\ RunnersKnowRows
    /\ PushesAreOwned
    /\ ApprovalsBackOperations
    /\ MigrationLocks
    /\ DefiniteOutcomesAreTrue
    /\ AbandonedWasNeverPushed
    /\ OneCredentialHolder
    /\ UsableIsOfCurrentEpoch

=============================================================================
