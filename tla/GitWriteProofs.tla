--------------------------- MODULE GitWriteProofs ---------------------------
(***************************************************************************)
(* Machine-checked proofs about GitWrite for every set of approvals,        *)
(* reviews and runners.  IInv is inductive.  A step of a runner changes its *)
(* call record and at most one row, so three lemmas say under what premises *)
(* such a change preserves IInv (CallStep, OperationStep, LeaseStep), and   *)
(* the proof for each runner step only has to supply the premises.          *)
(***************************************************************************)
EXTENDS GitWrite, TLAPS

(* The records of an idle runner and an idle migration are well typed.      *)
LEMMA IdleTypes == IdleCall \in Call /\ IdleMigration \in MigrationRecord
<1>1. IdleCall \in Call
  BY DEF IdleCall, Call, Heads
<1>2. 1 \in 1..MaxEpoch
  BY ConstantsAssumption
<1>3. IdleMigration \in MigrationRecord
  BY <1>2 DEF IdleMigration, MigrationRecord
<1> QED
  BY <1>1, <1>3

(* The initial state satisfies the inductive invariant.                     *)
LEMMA InitInvariant == Init => IInv
<1> SUFFICES ASSUME Init PROVE IInv
  OBVIOUS
<1>1. TypeOK
  <2>1. 1 \in 1..MaxEpoch /\ 0 \in 0..MaxEpoch
    BY ConstantsAssumption
  <2>2. /\ epoch \in 1..MaxEpoch /\ reviewEpoch \in [Reviews -> 0..MaxEpoch]
        /\ call \in [Runners -> Call] /\ migration \in MigrationRecord
    BY <2>1, IdleTypes DEF Init
  <2> QED
    BY <2>2 DEF Init, TypeOK, Heads, PushState
<1>2. CallsMatchSteps
  BY DEF Init, CallsMatchSteps, CallShape, IdleCall, Validating, HoldsIssued, OwnsPush
<1>3. RunnersKnowRows
  <2>1. KnowsRows(IdleCall)
    BY DEF KnowsRows, IdleCall
  <2> QED
    BY <2>1 DEF Init, RunnersKnowRows
<1>4. PushesAreOwned /\ DefiniteOutcomesAreTrue /\ AbandonedWasNeverPushed
  BY DEF Init, PushesAreOwned, DefiniteOutcomesAreTrue, AbandonedWasNeverPushed
<1>5. ApprovalsBackOperations /\ UsableIsOfCurrentEpoch
  BY DEF Init, ApprovalsBackOperations, UsableIsOfCurrentEpoch, Active, Cancellable, Live
<1>6. MigrationLocks
  BY DEF Init, MigrationLocks, MetadataFree, IdleMigration, Reached, InTransaction
<1>7. OneCredentialHolder
  BY DEF Init, OneCredentialHolder, IdleCall
<1> QED
  BY <1>1, <1>2, <1>3, <1>4, <1>5, <1>6, <1>7 DEF IInv

-----------------------------------------------------------------------------
(* A runner keeps the lease it has or gives it up.                          *)
KeepsLease(b, c) == c.lease # "none" => b.lease # "none" /\ b.approval = c.approval

(* A step that only replaces the call record of a runner preserves IInv if  *)
(* the new record has the shape of its step, what it claims of the rows is  *)
(* so, and it claims no lease it did not hold.                              *)
LEMMA CallStep ==
    ASSUME IInv, OnlyCall,
           NEW r \in Runners, NEW c \in Call,
           CallShape(c), KnowsRows(c), KeepsLease(call[r], c),
           call' = [call EXCEPT ![r] = c]
    PROVE  IInv'
<1> USE DEF OnlyCall, database, requests, remote
<1>1. TypeOK'
  BY DEF IInv, TypeOK
<1>2. CallsMatchSteps'
  BY DEF IInv, TypeOK, CallsMatchSteps
<1>3. RunnersKnowRows'
  BY DEF IInv, TypeOK, RunnersKnowRows, KnowsRows
<1>4. OneCredentialHolder'
  BY DEF IInv, TypeOK, OneCredentialHolder, KeepsLease
<1>5. /\ PushesAreOwned' /\ ApprovalsBackOperations'
      /\ DefiniteOutcomesAreTrue' /\ AbandonedWasNeverPushed'
      /\ UsableIsOfCurrentEpoch'
  BY DEF IInv, PushesAreOwned, ApprovalsBackOperations, DefiniteOutcomesAreTrue,
         AbandonedWasNeverPushed, UsableIsOfCurrentEpoch, ApprovalEpoch
<1>6. MigrationLocks'
  BY DEF IInv, MigrationLocks, MetadataFree, Reached
<1> QED
  BY <1>1, <1>2, <1>3, <1>4, <1>5, <1>6 DEF IInv

(* The compare-and-swap of an operation row by a runner preserves IInv: a   *)
(* PUSHING operation is moved only by its owner and to an outcome that is   *)
(* true, any other operation was never pushed.                              *)
LEMMA OperationStep ==
    ASSUME IInv, OnlyOp,
           NEW r \in Runners, NEW c \in Call, NEW a \in Approvals,
           NEW from \in GitOperationState, NEW to \in GitOperationState,
           a = call[r].approval,
           Transition(a, from, to),
           from = "PUSHING" => /\ call[r].op = "PUSHING"
                               /\ to \in {"SUCCEEDED", "CONFLICT", "FAILED"},
           to = "SUCCEEDED" => push[a] = "applied" /\ lease[a] = "CONSUMED",
           to = "CONFLICT" => push[a] = "rejected" /\ lease[a] = "CONSUMED",
           from = "PUSHING" /\ to = "FAILED" => lease[a] = "UNCERTAIN",
           CallShape(c), KnowsRows(c)', KeepsLease(call[r], c),
           call' = [call EXCEPT ![r] = c]
    PROVE  IInv'
<1> USE DEF OnlyOp, requests, remote
<1>0. /\ op[a] = from
      /\ to \in AllowedTransitions[from]
      /\ op' = [op EXCEPT ![a] = to]
      /\ a \notin migration.ops
  BY DEF Transition, CanMove, OperationFree
<1>1. /\ from \in Cancellable \cup {"PUSHING"}
      /\ to # "PENDING"
      /\ to \in Cancellable => from \in Cancellable
      /\ from \in Cancellable => to \notin {"SUCCEEDED", "CONFLICT"}
  BY <1>0 DEF AllowedTransitions, Abandoned, Cancellable, GitOperationState
<1>2. TypeOK'
  BY <1>0 DEF IInv, TypeOK
<1>3. CallsMatchSteps'
  BY DEF IInv, TypeOK, CallsMatchSteps
<1>4. OneCredentialHolder'
  BY DEF IInv, TypeOK, OneCredentialHolder, KeepsLease
<1>5. RunnersKnowRows'
  <2> SUFFICES ASSUME NEW s \in Runners, s # r PROVE KnowsRows(call[s])'
    BY DEF IInv, TypeOK, RunnersKnowRows
  <2>1. call'[s] = call[s] /\ KnowsRows(call[s])
    BY DEF IInv, TypeOK, RunnersKnowRows
  <2>2. CallShape(call[s]) /\ CallShape(call[r])
    BY DEF IInv, CallsMatchSteps
  <2>3. call[s].op = "PUSHING" => op'[call[s].approval] = "PUSHING"
    <3> SUFFICES ASSUME call[s].op = "PUSHING", call[s].approval = a PROVE FALSE
      BY <1>0, <2>1 DEF KnowsRows, IInv, TypeOK
    <3>1. from = "PUSHING"
      BY <1>0, <2>1 DEF KnowsRows
    <3>2. call[r].lease # "none" /\ call[s].lease # "none"
      BY <2>2, <3>1 DEF CallShape
    <3> QED
      BY <3>2 DEF IInv, OneCredentialHolder
  <2> QED
    BY <2>1, <2>3 DEF KnowsRows, SettleTo, IsConflict
<1>6. PushesAreOwned'
  BY <1>0, <1>1 DEF IInv, TypeOK, PushesAreOwned, Cancellable
<1>7. DefiniteOutcomesAreTrue' /\ AbandonedWasNeverPushed'
  BY <1>0, <1>1 DEF IInv, TypeOK, DefiniteOutcomesAreTrue,
     AbandonedWasNeverPushed, PushesAreOwned, Cancellable, Abandoned
<1>8. ApprovalsBackOperations' /\ UsableIsOfCurrentEpoch'
  BY <1>0, <1>1 DEF IInv, TypeOK, ApprovalsBackOperations, ApprovalEpoch,
     UsableIsOfCurrentEpoch, GitOperationState
<1>9. MigrationLocks'
  <2>1. ~Reached({"failReservations", "expireCredentials", "commit"}) \/ from = "PUSHING"
    BY <1>0, <1>1 DEF IInv, MigrationLocks
  <2>2. Reached({"failReservations", "expireCredentials", "commit"}) =>
          {b \in Approvals : op'[b] \in Cancellable} = {b \in Approvals : op[b] \in Cancellable}
    BY <1>0, <1>1, <2>1 DEF IInv, TypeOK, Cancellable
  <2> QED
    BY <2>2 DEF IInv, MigrationLocks, MetadataFree, Reached
<1> QED
  BY <1>2, <1>3, <1>4, <1>5, <1>6, <1>7, <1>8, <1>9 DEF IInv

(* The compare-and-swap of a lease row, or its insertion, preserves IInv:   *)
(* only the runner that holds the lease moves it, and only from a state     *)
(* that no recorded outcome relies on.                                      *)
LEMMA LeaseStep ==
    ASSUME IInv, OnlyLease,
           NEW r \in Runners, NEW c \in Call, NEW a \in Approvals,
           NEW from \in {"none", "RESERVED", "ISSUED"},
           NEW to \in CredentialLeaseState,
           a = call[r].approval, a = c.approval,
           LeaseFree(a), lease[a] = from, lease' = [lease EXCEPT ![a] = to],
           from = "none" => /\ MetadataFree
                            /\ ApprovalEpoch(a) = epoch,
           to = "RESERVED" => from = "none",
           to = "ISSUED" => from = "RESERVED",
           from # "none" => call[r].lease # "none",
           CallShape(c), KnowsRows(c)',
           call' = [call EXCEPT ![r] = c]
    PROVE  IInv'
<1> USE DEF OnlyLease, requests, remote
<1>1. TypeOK'
  BY DEF IInv, TypeOK
<1>2. CallsMatchSteps'
  BY DEF IInv, TypeOK, CallsMatchSteps
<1>3. \A s \in Runners : s # r /\ call[s].lease # "none" => call[s].approval # a
  BY DEF IInv, TypeOK, OneCredentialHolder, RunnersKnowRows, KnowsRows
<1>4. OneCredentialHolder'
  BY <1>3 DEF IInv, TypeOK, OneCredentialHolder
<1>5. RunnersKnowRows'
  <2> SUFFICES ASSUME NEW s \in Runners, s # r PROVE KnowsRows(call[s])'
    BY DEF IInv, TypeOK, RunnersKnowRows
  <2>1. call'[s] = call[s] /\ KnowsRows(call[s]) /\ CallShape(call[s])
    BY DEF IInv, TypeOK, RunnersKnowRows, CallsMatchSteps
  <2>2. call[s].pc \in {"toSucceeded", "recordOutcome"} => call[s].lease # "none"
    BY <2>1 DEF CallShape
  <2>3. call[s].lease # "none" => lease'[call[s].approval] = lease[call[s].approval]
    BY <1>3 DEF IInv, TypeOK
  <2> QED
    BY <2>1, <2>2, <2>3 DEF KnowsRows, SettleTo, IsConflict
<1>6. PushesAreOwned' /\ ApprovalsBackOperations'
  BY DEF IInv, PushesAreOwned, ApprovalsBackOperations, ApprovalEpoch
<1>7. DefiniteOutcomesAreTrue' /\ AbandonedWasNeverPushed'
  BY DEF IInv, TypeOK, DefiniteOutcomesAreTrue, AbandonedWasNeverPushed
<1>8. UsableIsOfCurrentEpoch'
  BY DEF IInv, TypeOK, UsableIsOfCurrentEpoch, ApprovalEpoch, Live
<1>9. MigrationLocks'
  <2>1. ~Reached({"expireCredentials", "commit"}) \/ from = "ISSUED"
    BY DEF IInv, MigrationLocks, LeaseFree, MetadataFree, Reached, InTransaction
  <2>2. ~Reached({"commit"}) \/ from = "none"
    BY <2>1 DEF IInv, MigrationLocks, LeaseFree, Reached
  <2>3. /\ Reached({"expireCredentials", "commit"}) =>
             {b \in Approvals : lease'[b] = "RESERVED"} = {b \in Approvals : lease[b] = "RESERVED"}
        /\ ~Reached({"commit"})
    BY <2>1, <2>2 DEF IInv, TypeOK, Reached
  <2> QED
    BY <2>3 DEF IInv, MigrationLocks, MetadataFree, Reached
<1> QED
  BY <1>1, <1>2, <1>4, <1>5, <1>6, <1>7, <1>8, <1>9 DEF IInv

-----------------------------------------------------------------------------
(* What a runner at a step can cite: its record is typed, has the shape of  *)
(* the step and knows its rows.                                             *)
LEMMA RunnerFacts ==
    ASSUME IInv, NEW r \in Runners
    PROVE  /\ call[r] \in Call /\ CallShape(call[r]) /\ KnowsRows(call[r])
           /\ call[r].pc # "idle" => call[r].approval \in Approvals
BY DEF IInv, TypeOK, CallsMatchSteps, RunnersKnowRows, CallShape

(* Ending a request leaves an idle record, which claims nothing.            *)
LEMMA IdleClaimsNothing ==
    /\ IdleCall \in Call /\ CallShape(IdleCall)
    /\ KnowsRows(IdleCall) /\ KnowsRows(IdleCall)'
    /\ \A c \in Call : KeepsLease(c, IdleCall)
BY IdleTypes DEF CallShape, KnowsRows, KeepsLease, IdleCall, Validating, HoldsIssued, OwnsPush

(* A request that ends without changing a row.                              *)
LEMMA FinishStep ==
    ASSUME IInv, NEW r \in Runners, Finish(r), OnlyCall
    PROVE  IInv'
BY CallStep, RunnerFacts, IdleClaimsNothing DEF Finish

(* Failing sends a runner that has not consumed its lease to recordFailure. *)
LEMMA FailStep ==
    ASSUME IInv, NEW r \in Runners, NEW cas \in BOOLEAN, Fail(r, cas), OnlyCall,
           call[r].pc \in Executing, call[r].lease # "CONSUMED",
           cas => call[r].op = "PUSHING" /\ push[call[r].approval] = "rejected"
    PROVE  IInv'
<1> DEFINE c == [call[r] EXCEPT !.pc = "recordFailure", !.casConflict = cas]
<1>1. /\ call[r] \in Call /\ CallShape(call[r]) /\ KnowsRows(call[r])
      /\ call[r].approval \in Approvals
  BY RunnerFacts DEF Executing
<1>2. c \in Call
  BY <1>1 DEF Call, Executing
<1>3. CallShape(c) /\ KnowsRows(c) /\ KeepsLease(call[r], c)
  BY <1>1 DEF CallShape, KnowsRows, KeepsLease, Call, Executing, Validating,
              HoldsIssued, OwnsPush
<1>4. call' = [call EXCEPT ![r] = c]
  BY DEF Fail
<1> QED
  BY <1>2, <1>3, <1>4, CallStep

(* Resuming at a state leads to the matching step without a lease, or ends. *)
LEMMA ResumeRecord ==
    ASSUME NEW c \in Call, c.approval \in Approvals, c.lease = "none",
           c.casConflict = FALSE, NEW state \in Cancellable,
           NEW d, d = [c EXCEPT !.pc = Continue(state), !.op = state]
    PROVE  /\ d \in Call /\ CallShape(d) /\ KeepsLease(c, d)
           /\ KnowsRows(d) /\ KnowsRows(d)'
<1>1. /\ d \in Call
      /\ d.pc \in {"toValidating", "usable", "prepare"}
      /\ d.op = state /\ d.approval = c.approval
      /\ d.lease = "none" /\ d.casConflict = FALSE
  BY DEF Call, Continue, Cancellable, GitOperationState, Validating, Executing
<1>2. CallShape(d) /\ KeepsLease(c, d)
  BY <1>1 DEF CallShape, KeepsLease, Cancellable, Validating, HoldsIssued, OwnsPush
<1>3. KnowsRows(d) /\ KnowsRows(d)'
  BY <1>1 DEF KnowsRows, Cancellable
<1> QED
  BY <1>1, <1>2, <1>3

(* The steps of GitOperationService.start preserve IInv.                    *)
LEMMA StartSteps ==
    ASSUME IInv, NEW r \in Runners,
           \/ LoadApproval(r) \/ FindOperation(r) \/ ObserveRemoteHead(r)
           \/ CheckUsable(r) \/ Revalidate(r)
    PROVE  IInv'
<1> DEFINE a == call[r].approval
<1>1. /\ call[r] \in Call /\ CallShape(call[r]) /\ KnowsRows(call[r])
      /\ call[r].pc # "idle" => a \in Approvals
  BY RunnerFacts
<1>2. /\ call[r].pc \in Validating
      /\ call[r].lease = "none" /\ ~call[r].casConflict /\ call[r].op # "PUSHING"
  BY <1>1 DEF LoadApproval, FindOperation, ObserveRemoteHead, CheckUsable, Revalidate,
              At, CallShape, Validating, Executing, OwnsPush
<1>3. a \in Approvals
  BY <1>1, <1>2 DEF Validating
<1>4. ASSUME NEW c \in Call, c.pc \in Validating, c.approval = a, c.lease = "none",
             ~c.casConflict, c.op # "PUSHING",
             call' = [call EXCEPT ![r] = c], OnlyCall
      PROVE  IInv'
  <2>1. CallShape(c) /\ KnowsRows(c) /\ KeepsLease(call[r], c)
    BY <1>3, <1>4 DEF CallShape, KnowsRows, KeepsLease, Validating, HoldsIssued, OwnsPush
  <2> QED
    BY <1>4, <2>1, CallStep
<1>5. ASSUME NEW pc \in Validating, Goto(r, pc), OnlyCall PROVE IInv'
  <2> DEFINE c == [call[r] EXCEPT !.pc = pc]
  <2>1. c \in Call /\ c.pc \in Validating /\ call' = [call EXCEPT ![r] = c]
    BY <1>1, <1>5 DEF Call, Goto
  <2>2. c.approval = a /\ c.lease = "none" /\ ~c.casConflict /\ c.op # "PUSHING"
    BY <1>1, <1>2 DEF Call
  <2> QED
    BY <1>4, <1>5, <2>1, <2>2
<1>6. CASE LoadApproval(r)
  <2> DEFINE c == [call[r] EXCEPT !.pc = "find", !.status = approval[a]]
  <2>1. CASE Finish(r)
    BY <1>6, <2>1, FinishStep DEF LoadApproval
  <2>2. CASE approval[a] # "none"
    <3>1. approval[a] \in ApprovalStatus
      BY <1>3, <2>2 DEF IInv, TypeOK
    <3>2. c \in Call /\ c.pc \in Validating
      BY <1>1, <3>1 DEF Call, Validating
    <3>3. c.approval = a /\ c.lease = "none" /\ ~c.casConflict /\ c.op # "PUSHING"
      BY <1>1, <1>2 DEF Call
    <3> QED
      BY <1>4, <1>6, <2>2, <3>2, <3>3 DEF LoadApproval
  <2> QED
    BY <1>6, <2>1, <2>2 DEF LoadApproval
<1>7. CASE FindOperation(r)
  <2>1. CASE op[a] = "none"
    BY <1>5, <1>7, <2>1 DEF FindOperation, Validating
  <2>2. CASE op[a] \in Cancellable
    <3> DEFINE c == [call[r] EXCEPT !.pc = Continue(op[a]), !.op = op[a]]
    <3>1. c \in Call /\ CallShape(c) /\ KeepsLease(call[r], c) /\ KnowsRows(c)
      BY <1>1, <1>2, <1>3, <2>2, ResumeRecord DEF Call
    <3> QED
      BY <1>7, <2>2, <3>1, CallStep DEF FindOperation, Resume, Cancellable
  <2>3. CASE op[a] # "none" /\ op[a] \notin Cancellable
    BY <1>7, <2>3, FinishStep DEF FindOperation, Resume
  <2> QED
    BY <2>1, <2>2, <2>3
<1>8. CASE ObserveRemoteHead(r)
  <2> DEFINE c == [call[r] EXCEPT !.pc = "createBound", !.head = head]
  <2>1. CASE Finish(r)
    BY <1>8, <2>1, FinishStep DEF ObserveRemoteHead
  <2>2. CASE call' = [call EXCEPT ![r] = c]
    <3>1. c \in Call /\ c.pc \in Validating
      BY <1>1 DEF Call, Validating, IInv, TypeOK
    <3>2. c.approval = a /\ c.lease = "none" /\ ~c.casConflict /\ c.op # "PUSHING"
      BY <1>1, <1>2 DEF Call
    <3> QED
      BY <1>4, <1>8, <2>2, <3>1, <3>2 DEF ObserveRemoteHead
  <2> QED
    BY <1>8, <2>1, <2>2 DEF ObserveRemoteHead
<1>9. CASE CheckUsable(r)
  BY <1>5, <1>9 DEF CheckUsable, Validating
<1>10. CASE Revalidate(r)
  BY <1>5, <1>10 DEF Revalidate, Validating
<1> QED
  BY <1>6, <1>7, <1>8, <1>9, <1>10

(* The insertion of an operation for an approved approval preserves IInv:   *)
(* the metadata row is held, so the approval is current and no migration    *)
(* has passed its rows, and the review has no other active approval.        *)
LEMMA CreateBoundOperationStep ==
    ASSUME IInv, NEW r \in Runners, CreateBoundOperation(r)
    PROVE  IInv'
<1> DEFINE a == call[r].approval
           created == /\ approval[a] = "APPROVED"
                      /\ a \notin expired
                      /\ ApprovalEpoch(a) = epoch
                      /\ op[a] = "none"
<1>1. /\ call[r] \in Call /\ CallShape(call[r]) /\ KnowsRows(call[r])
      /\ call[r].pc = "createBound" /\ a \in Approvals
      /\ call[r].lease = "none" /\ call[r].casConflict = FALSE
  BY RunnerFacts DEF CreateBoundOperation, At, CallShape, Call, Validating
<1>2. CASE ~created
  BY <1>2, FinishStep DEF CreateBoundOperation, OnlyCall, database
<1>3. CASE created
  <2> PICK c : c = [call[r] EXCEPT !.pc = Continue("PENDING"), !.op = "PENDING"]
    OBVIOUS
  <2>1. c \in Call /\ CallShape(c) /\ KeepsLease(call[r], c) /\ KnowsRows(c)'
    BY <1>1, ResumeRecord DEF Cancellable
  <2>2. /\ op' = [op EXCEPT ![a] = "PENDING"]
        /\ opHead' = [opHead EXCEPT ![a] = call[r].head]
        /\ call' = [call EXCEPT ![r] = c]
        /\ MetadataFree
        /\ UNCHANGED <<epoch, maintenance, reviewEpoch, approval, lease, expired,
                       requests, remote, approvedBy, migration>>
    BY <1>3 DEF CreateBoundOperation, Resume, Cancellable
  <2> USE <2>2 DEF requests, remote
  <2>3. call[r].head \in Heads
    BY <1>1 DEF Call
  <2>4. TypeOK'
    BY <1>1, <2>1, <2>3 DEF IInv, TypeOK, GitOperationState
  <2>5. CallsMatchSteps' /\ OneCredentialHolder'
    BY <2>1 DEF IInv, TypeOK, CallsMatchSteps, OneCredentialHolder, KeepsLease
  <2>6. RunnersKnowRows'
    <3> SUFFICES ASSUME NEW s \in Runners, s # r PROVE KnowsRows(call[s])'
      BY <2>1 DEF IInv, TypeOK, RunnersKnowRows
    <3>1. call'[s] = call[s] /\ KnowsRows(call[s])
      BY DEF IInv, TypeOK, RunnersKnowRows
    <3>2. call[s].op = "PUSHING" => call[s].approval # a
      BY <1>3, <3>1 DEF KnowsRows
    <3> QED
      BY <3>1, <3>2 DEF KnowsRows, SettleTo, IsConflict, IInv, TypeOK
  <2>7. PushesAreOwned' /\ DefiniteOutcomesAreTrue' /\ AbandonedWasNeverPushed'
    BY <1>1, <1>3 DEF IInv, TypeOK, PushesAreOwned, DefiniteOutcomesAreTrue,
                      AbandonedWasNeverPushed, Abandoned
  <2>8. ApprovalsBackOperations'
    <3>1. \A b \in Approvals : ReviewOf[b] = ReviewOf[a] /\ op[b] # "none" => b = a
      BY <1>1, <1>3 DEF IInv, TypeOK, ApprovalsBackOperations, ApprovalEpoch, Active
    <3>2. a \in approvedBy
      BY <1>1, <1>3 DEF IInv, ApprovalsBackOperations
    <3> QED
      BY <1>1, <1>3, <3>1, <3>2 DEF IInv, TypeOK, ApprovalsBackOperations, ApprovalEpoch
  <2>9. UsableIsOfCurrentEpoch'
    BY <1>1, <1>3 DEF IInv, TypeOK, UsableIsOfCurrentEpoch, ApprovalEpoch
  <2>10. MigrationLocks'
    BY DEF IInv, MigrationLocks, MetadataFree, Reached, InTransaction
  <2> QED
    BY <2>4, <2>5, <2>6, <2>7, <2>8, <2>9, <2>10 DEF IInv
<1> QED
  BY <1>2, <1>3

(* The compare-and-swap steps of start preserve IInv.                       *)
LEMMA ValidationWrites ==
    ASSUME IInv, NEW r \in Runners, ToValidating(r) \/ ToWaiting(r) \/ Reject(r)
    PROVE  IInv'
<1> DEFINE a == call[r].approval
<1>1. /\ call[r] \in Call /\ CallShape(call[r]) /\ KnowsRows(call[r])
      /\ a \in Approvals /\ call[r].lease = "none" /\ call[r].casConflict = FALSE
      /\ call[r].op # "PUSHING"
  BY RunnerFacts DEF ToValidating, ToWaiting, Reject, At, CallShape, Call,
                     Validating, OwnsPush
<1>2. ASSUME UNCHANGED op, OnlyOp PROVE OnlyCall
  BY <1>2 DEF OnlyOp, OnlyCall, database
<1>3. ASSUME NEW from \in {"PENDING", "VALIDATING"}, NEW to \in Cancellable,
             Transition(a, from, to), Resume(r, to), OnlyOp
      PROVE  IInv'
  <2> PICK c : c = [call[r] EXCEPT !.pc = Continue(to), !.op = to]
    OBVIOUS
  <2>1. c \in Call /\ CallShape(c) /\ KeepsLease(call[r], c) /\ KnowsRows(c)'
    BY <1>1, ResumeRecord
  <2>2. call' = [call EXCEPT ![r] = c]
    BY <1>3 DEF Resume
  <2>3. from \in GitOperationState /\ to \in GitOperationState /\ from # "PUSHING"
        /\ to \notin {"SUCCEEDED", "CONFLICT"}
    BY DEF GitOperationState, Cancellable
  <2> QED
    BY <1>1, <1>3, <2>1, <2>2, <2>3, OperationStep
<1>4. CASE ToValidating(r)
  BY <1>2, <1>3, <1>4, FinishStep DEF ToValidating, Cancellable, TransitionConflict
<1>5. CASE ToWaiting(r)
  <2>1. CASE Transition(a, "VALIDATING", "WAITING_CREDENTIAL") /\ Resume(r, "WAITING_CREDENTIAL")
    BY <1>3, <1>5, <2>1 DEF ToWaiting, Cancellable
  <2>2. CASE TransitionConflict(a, "VALIDATING", "WAITING_CREDENTIAL") /\ Goto(r, "rejectFailed")
    <3> DEFINE c == [call[r] EXCEPT !.pc = "rejectFailed"]
    <3>1. /\ c \in Call /\ c.pc = "rejectFailed" /\ c.approval = a /\ c.lease = "none"
          /\ ~c.casConflict /\ c.op # "PUSHING"
      BY <1>1 DEF Call, Validating
    <3>2. CallShape(c) /\ KnowsRows(c) /\ KeepsLease(call[r], c)
      BY <1>1, <3>1 DEF CallShape, KnowsRows, KeepsLease, Validating, HoldsIssued, OwnsPush
    <3> QED
      BY <1>2, <1>5, <2>2, <3>1, <3>2, CallStep DEF ToWaiting, Goto, TransitionConflict
  <2> QED
    BY <1>5, <2>1, <2>2 DEF ToWaiting
<1>6. CASE Reject(r)
  <2>1. CASE Transition(a, "VALIDATING", RejectTo(r))
    <3>1. RejectTo(r) \in {"STALE", "FAILED"}
      BY DEF RejectTo
    <3>2. /\ "VALIDATING" \in GitOperationState /\ RejectTo(r) \in GitOperationState
          /\ RejectTo(r) \notin {"SUCCEEDED", "CONFLICT"}
      BY <3>1 DEF GitOperationState
    <3>3. OnlyOp /\ call' = [call EXCEPT ![r] = IdleCall]
      BY <1>6 DEF Reject, Finish
    <3> QED
      BY <1>1, <2>1, <3>2, <3>3, IdleClaimsNothing, OperationStep
  <2>2. CASE TransitionConflict(a, "VALIDATING", RejectTo(r))
    BY <1>2, <1>6, <2>2, FinishStep DEF Reject, TransitionConflict
  <2> QED
    BY <1>6, <2>1, <2>2 DEF Reject
<1> QED
  BY <1>4, <1>5, <1>6

(* The steps of the executor that write no row preserve IInv.               *)
LEMMA ExecutorReads ==
    ASSUME IInv, NEW r \in Runners,
           Prepare(r) \/ Issue(r) \/ Recheck(r) \/ PushReturns(r) \/ CreatePullRequest(r)
    PROVE  IInv'
<1> DEFINE a == call[r].approval
<1>1. /\ call[r] \in Call /\ CallShape(call[r]) /\ KnowsRows(call[r])
      /\ call[r].pc \in {"prepare", "issue", "recheck", "pushed", "pullRequest"}
      /\ a \in Approvals
  BY RunnerFacts DEF Prepare, Issue, Recheck, PushReturns, CreatePullRequest, At
<1>2. /\ call[r].pc \in Executing
      /\ call[r].lease # "CONSUMED" /\ call[r].casConflict = FALSE
      /\ call[r].pc = "pushed" => call[r].op = "PUSHING"
  BY <1>1 DEF CallShape, Call, Executing, Validating, HoldsIssued, OwnsPush
<1>3. OnlyCall
  BY DEF Prepare, Issue, Recheck, PushReturns, CreatePullRequest
<1>4. ASSUME Fail(r, FALSE) PROVE IInv'
  BY <1>2, <1>3, <1>4, FailStep
<1>5. ASSUME PushReturns(r), push[a] = "rejected", Fail(r, TRUE) PROVE IInv'
  BY <1>2, <1>3, <1>5, FailStep DEF PushReturns, At
<1>6. ASSUME NEW pc,
             \/ call[r].pc = "prepare" /\ pc = "reserve"
             \/ call[r].pc = "issue" /\ pc = "markIssued"
             \/ call[r].pc = "recheck" /\ pc = "toPushing"
             \/ call[r].pc = "pushed" /\ push[a] = "applied" /\ pc = "pullRequest"
             \/ call[r].pc = "pullRequest" /\ pc = "markConsumed",
             Goto(r, pc)
      PROVE  IInv'
  <2> DEFINE c == [call[r] EXCEPT !.pc = pc]
  <2>1. /\ c \in Call /\ c.pc = pc /\ c.approval = a /\ c.lease = call[r].lease
        /\ c.op = call[r].op /\ c.casConflict = FALSE
    BY <1>1, <1>2, <1>6 DEF Call, Executing
  <2>2. CallShape(c)
    BY <1>1, <1>6, <2>1 DEF CallShape, Validating, HoldsIssued, OwnsPush
  <2>3. KnowsRows(c) /\ KeepsLease(call[r], c)
    BY <1>1, <1>6, <2>1 DEF KnowsRows, KeepsLease
  <2> QED
    BY <1>3, <1>6, <2>1, <2>2, <2>3, CallStep DEF Goto
<1>7. CASE Prepare(r)
  BY <1>4, <1>6, <1>7 DEF Prepare, At
<1>8. CASE Issue(r)
  BY <1>4, <1>6, <1>8 DEF Issue, At
<1>9. CASE Recheck(r)
  BY <1>4, <1>6, <1>9 DEF Recheck, At
<1>10. CASE PushReturns(r)
  BY <1>4, <1>5, <1>6, <1>10 DEF PushReturns, At
<1>11. CASE CreatePullRequest(r)
  BY <1>4, <1>6, <1>11 DEF CreatePullRequest, At
<1> QED
  BY <1>7, <1>8, <1>9, <1>10, <1>11

(* The steps of the executor that write the lease preserve IInv.            *)
LEMMA LeaseWrites ==
    ASSUME IInv, NEW r \in Runners,
           Reserve(r) \/ MarkIssued(r) \/ MarkConsumed(r) \/ SettleLease(r)
    PROVE  IInv'
<1> DEFINE a == call[r].approval
<1>1. /\ call[r] \in Call /\ CallShape(call[r]) /\ KnowsRows(call[r])
      /\ call[r].pc \in {"reserve", "markIssued", "markConsumed", "recordFailure"}
      /\ a \in Approvals
  BY RunnerFacts DEF Reserve, MarkIssued, MarkConsumed, SettleLease, At
<1>2. /\ call[r].pc \in Executing /\ call[r].lease # "CONSUMED"
      /\ call[r].pc = "reserve" => call[r].lease = "none"
      /\ call[r].pc = "markIssued" => call[r].lease = "RESERVED"
      /\ call[r].pc = "markConsumed" => call[r].lease = "ISSUED" /\ call[r].op = "PUSHING"
      /\ call[r].pc # "recordFailure" => call[r].casConflict = FALSE
      /\ call[r].op = "PUSHING" => call[r].pc \in {"markConsumed", "recordFailure"}
      /\ call[r].op = "PUSHING" => call[r].lease = "ISSUED"
  BY <1>1 DEF CallShape, Call, Executing, Validating, HoldsIssued, OwnsPush
<1>3. OnlyLease
  BY DEF Reserve, MarkIssued, MarkConsumed, SettleLease
<1>4. ASSUME UNCHANGED lease PROVE OnlyCall
  BY <1>3, <1>4 DEF OnlyLease, OnlyCall, database
<1>5. ASSUME Fail(r, FALSE), UNCHANGED lease PROVE IInv'
  BY <1>2, <1>4, <1>5, FailStep
<1>6. ASSUME NEW pc, NEW copy, NEW from, NEW to,
             \/ /\ call[r].pc = "reserve" /\ pc = "issue" /\ copy = "RESERVED"
                /\ from = "none" /\ to = "RESERVED"
                /\ MetadataFree /\ ApprovalEpoch(a) = epoch
             \/ /\ call[r].pc = "markIssued" /\ pc = "recheck" /\ copy = "ISSUED"
                /\ from = "RESERVED" /\ to = "ISSUED"
             \/ /\ call[r].pc = "markConsumed" /\ pc = "toSucceeded" /\ copy = "CONSUMED"
                /\ from = "ISSUED" /\ to = "CONSUMED"
             \/ /\ call[r].pc = "recordFailure" /\ pc = "recordOutcome"
                /\ call[r].lease # "none" /\ copy = call[r].lease
                /\ from = SettleFrom(call[r]) /\ to = SettleTo(call[r]),
             LeaseFree(a), lease[a] = from, lease' = [lease EXCEPT ![a] = to],
             call' = [call EXCEPT ![r].pc = pc, ![r].lease = copy]
      PROVE  IInv'
  <2> PICK c : c = [call[r] EXCEPT !.pc = pc, !.lease = copy]
    OBVIOUS
  <2>1. /\ c \in Call /\ c.pc = pc /\ c.lease = copy /\ c.approval = a
        /\ c.op = call[r].op /\ c.casConflict = call[r].casConflict
    BY <1>1, <1>6 DEF Call, Executing
  <2>2. CallShape(c)
    BY <1>1, <1>2, <1>6, <2>1 DEF CallShape, Validating, HoldsIssued, OwnsPush, Call
  <2>3. /\ from \in {"none", "RESERVED", "ISSUED"} /\ to \in CredentialLeaseState
        /\ to = "RESERVED" => from = "none"
        /\ to = "ISSUED" => from = "RESERVED"
        /\ from # "none" => call[r].lease # "none"
        /\ from = "none" => MetadataFree /\ ApprovalEpoch(a) = epoch
    BY <1>2, <1>6 DEF SettleFrom, SettleTo, CredentialLeaseState
  <2>4. lease'[a] = to /\ push' = push /\ op' = op
    BY <1>1, <1>3, <1>6 DEF IInv, TypeOK, OnlyLease, remote
  <2>5. KnowsRows(c)'
    <3>1. SettleTo(c) = SettleTo(call[r]) \/ pc # "recordOutcome"
      BY <1>6, <2>1 DEF SettleTo, IsConflict
    <3> QED
      BY <1>1, <1>2, <1>6, <2>1, <2>3, <2>4, <3>1 DEF KnowsRows, SettleTo, IsConflict, CredentialLeaseState
  <2>6. call' = [call EXCEPT ![r] = c]
    BY <1>6
  <2> QED
    BY <1>1, <1>3, <1>6, <2>1, <2>2, <2>3, <2>5, <2>6, LeaseStep
<1>7. CASE Reserve(r)
  <2>1. MetadataFree => LeaseFree(a)
    BY DEF IInv, MigrationLocks, MetadataFree, LeaseFree, Reached, InTransaction
  <2>2. CASE Fail(r, FALSE) /\ UNCHANGED lease
    BY <1>5, <2>2
  <2>3. CASE /\ MetadataFree /\ epoch = ApprovalEpoch(a) /\ lease[a] = "none"
             /\ lease' = [lease EXCEPT ![a] = "RESERVED"]
             /\ call' = [call EXCEPT ![r].pc = "issue", ![r].lease = "RESERVED"]
    <3>1. call[r].pc = "reserve"
      BY <1>7 DEF Reserve, At
    <3> QED
      BY <1>6, <2>1, <2>3, <3>1
  <2> QED
    BY <1>7, <2>2, <2>3 DEF Reserve, Reservable
<1>8. CASE MarkIssued(r)
  <2>1. CASE LeaseConflict(a, "RESERVED") /\ Fail(r, FALSE)
    BY <1>5, <2>1 DEF LeaseConflict
  <2>2. CASE /\ LeaseTransition(a, "RESERVED", "ISSUED")
             /\ call' = [call EXCEPT ![r].pc = "recheck", ![r].lease = "ISSUED"]
    <3>1. call[r].pc = "markIssued"
      BY <1>8 DEF MarkIssued, At
    <3> QED
      BY <1>6, <2>2, <3>1 DEF LeaseTransition
  <2> QED
    BY <1>8, <2>1, <2>2 DEF MarkIssued
<1>9. CASE MarkConsumed(r)
  <2>1. CASE LeaseConflict(a, "ISSUED") /\ Fail(r, FALSE)
    BY <1>5, <2>1 DEF LeaseConflict
  <2>2. CASE /\ LeaseTransition(a, "ISSUED", "CONSUMED")
             /\ call' = [call EXCEPT ![r].pc = "toSucceeded", ![r].lease = "CONSUMED"]
    <3>1. call[r].pc = "markConsumed"
      BY <1>9 DEF MarkConsumed, At
    <3> QED
      BY <1>6, <2>2, <3>1 DEF LeaseTransition
  <2> QED
    BY <1>9, <2>1, <2>2 DEF MarkConsumed
<1>10. CASE SettleLease(r)
  <2>1. CASE LeaseConflict(a, SettleFrom(call[r])) /\ Finish(r)
    BY <1>4, <2>1, FinishStep DEF LeaseConflict
  <2>2. CASE LeaseTransition(a, SettleFrom(call[r]), SettleTo(call[r])) /\ Goto(r, "recordOutcome")
    <3>1. call' = [call EXCEPT ![r].pc = "recordOutcome", ![r].lease = call[r].lease]
      BY <1>1, <2>2 DEF Goto, IInv, TypeOK, Call
    <3> QED
      BY <1>6, <1>10, <2>2, <3>1 DEF SettleLease, At, LeaseTransition
  <2> QED
    BY <1>10, <2>1, <2>2 DEF SettleLease
<1> QED
  BY <1>7, <1>8, <1>9, <1>10

(* The steps of the executor that write the operation preserve IInv.        *)
LEMMA OutcomeWrites ==
    ASSUME IInv, NEW r \in Runners, ToPushing(r) \/ ToSucceeded(r) \/ RecordOutcome(r)
    PROVE  IInv'
<1> DEFINE a == call[r].approval
<1>1. /\ call[r] \in Call /\ CallShape(call[r]) /\ KnowsRows(call[r])
      /\ call[r].pc \in {"toPushing", "toSucceeded", "recordFailure", "recordOutcome"}
      /\ a \in Approvals
  BY RunnerFacts DEF ToPushing, ToSucceeded, RecordOutcome, At
<1>2. OnlyOp
  BY DEF ToPushing, ToSucceeded, RecordOutcome
<1>3. ASSUME UNCHANGED op PROVE OnlyCall
  BY <1>2, <1>3 DEF OnlyOp, OnlyCall, database
<1>4. CASE ToPushing(r)
  <2>0. /\ call[r].pc = "toPushing" /\ call[r].lease = "ISSUED"
        /\ call[r].casConflict = FALSE /\ call[r].op # "PUSHING"
    BY <1>1, <1>4 DEF ToPushing, At, CallShape, HoldsIssued, OwnsPush, Call
  <2>1. CASE TransitionConflict(a, "WAITING_CREDENTIAL", "PUSHING") /\ Fail(r, FALSE)
    BY <1>3, <2>0, <2>1, FailStep DEF TransitionConflict, Executing
  <2>2. CASE /\ Transition(a, "WAITING_CREDENTIAL", "PUSHING")
             /\ call' = [call EXCEPT ![r].pc = "push", ![r].op = "PUSHING"]
    <3> PICK c : c = [call[r] EXCEPT !.pc = "push", !.op = "PUSHING"]
      OBVIOUS
    <3>1. /\ c \in Call /\ c.pc = "push" /\ c.op = "PUSHING" /\ c.approval = a
          /\ c.lease = "ISSUED" /\ c.casConflict = FALSE
      BY <1>1, <2>0 DEF Call, Executing, GitOperationState
    <3>2. CallShape(c) /\ KeepsLease(call[r], c)
      BY <1>1, <2>0, <3>1 DEF CallShape, KeepsLease, Validating, HoldsIssued, OwnsPush
    <3>3. push[a] = "none" /\ lease[a] # "none"
      BY <1>1, <2>0, <2>2 DEF IInv, PushesAreOwned, Transition, CanMove, KnowsRows
    <3>4. op'[a] = "PUSHING" /\ push' = push /\ lease' = lease
      BY <1>1, <1>2, <2>2 DEF Transition, IInv, TypeOK, OnlyOp, remote
    <3>5. KnowsRows(c)'
      BY <3>1, <3>3, <3>4 DEF KnowsRows
    <3>6. call' = [call EXCEPT ![r] = c]
      BY <2>2
    <3>7. "WAITING_CREDENTIAL" \in GitOperationState /\ "PUSHING" \in GitOperationState
      BY DEF GitOperationState
    <3> QED
      BY <1>1, <1>2, <2>2, <3>1, <3>2, <3>5, <3>6, <3>7, OperationStep
  <2> QED
    BY <1>4, <2>1, <2>2 DEF ToPushing
<1>5. CASE ToSucceeded(r)
  <2>0. /\ call[r].op = "PUSHING" /\ push[a] = "applied" /\ lease[a] = "CONSUMED"
        /\ op[a] = "PUSHING"
    BY <1>1, <1>5 DEF ToSucceeded, At, CallShape, OwnsPush, KnowsRows
  <2>1. ~TransitionConflict(a, "PUSHING", "SUCCEEDED")
    BY <2>0 DEF TransitionConflict, CanMove, AllowedTransitions, GitOperationState
  <2>2. Transition(a, "PUSHING", "SUCCEEDED") /\ call' = [call EXCEPT ![r] = IdleCall]
    BY <1>5, <2>1 DEF ToSucceeded, Finish
  <2>3. "SUCCEEDED" \in GitOperationState /\ "PUSHING" \in GitOperationState
    BY DEF GitOperationState
  <2> QED
    BY <1>1, <1>2, <2>0, <2>2, <2>3, IdleClaimsNothing, OperationStep
<1>6. CASE RecordOutcome(r)
  <2> DEFINE from == OutcomeFrom(call[r])
             to == OutcomeTo(call[r])
  <2>1. call' = [call EXCEPT ![r] = IdleCall]
    BY <1>6 DEF RecordOutcome, Finish
  <2>2. CASE TransitionConflict(a, from, to)
    BY <1>3, <1>6, <2>2, FinishStep DEF TransitionConflict, RecordOutcome
  <2>3. CASE Transition(a, from, to)
    <3>1. /\ from \in {"PUSHING", "WAITING_CREDENTIAL"} /\ to \in {"CONFLICT", "FAILED"}
          /\ from = "PUSHING" => call[r].op = "PUSHING"
          /\ to = "CONFLICT" => call[r].lease # "RESERVED" /\ IsConflict(call[r])
      BY DEF OutcomeFrom, OutcomeTo
    <3>2. from \in GitOperationState /\ to \in GitOperationState
      BY <3>1 DEF GitOperationState
    <3>3. call[r].op = "PUSHING" =>
            /\ call[r].pc = "recordOutcome" /\ call[r].lease = "ISSUED"
            /\ lease[a] = SettleTo(call[r])
      BY <1>1, <1>6 DEF RecordOutcome, At, CallShape, KnowsRows
    <3>4. to = "CONFLICT" => push[a] = "rejected" /\ lease[a] = "CONSUMED"
      BY <1>1, <3>1, <3>3 DEF IsConflict, SettleTo, KnowsRows
    <3>5. from = "PUSHING" /\ to = "FAILED" => lease[a] = "UNCERTAIN"
      BY <3>1, <3>3 DEF OutcomeTo, SettleTo
    <3> HIDE DEF from, to
    <3> QED
      BY <1>1, <1>2, <2>1, <2>3, <3>1, <3>2, <3>4, <3>5, IdleClaimsNothing, OperationStep
  <2> QED
    BY <1>6, <2>2, <2>3 DEF RecordOutcome
<1> QED
  BY <1>4, <1>5, <1>6

(* Sending the push and its arrival at the remote preserve IInv.            *)
LEMMA SendPushStep ==
    ASSUME IInv, NEW r \in Runners, SendPush(r)
    PROVE  IInv'
<1> DEFINE a == call[r].approval
           c == [call[r] EXCEPT !.pc = "pushed"]
<1>1. /\ call[r] \in Call /\ CallShape(call[r]) /\ KnowsRows(call[r])
      /\ call[r].pc = "push" /\ a \in Approvals
      /\ call[r].op = "PUSHING" /\ call[r].lease = "ISSUED" /\ call[r].casConflict = FALSE
      /\ op[a] = "PUSHING" /\ push[a] = "none"
  BY RunnerFacts DEF SendPush, At, CallShape, KnowsRows, HoldsIssued, OwnsPush, Call
<1>2. /\ push' = [push EXCEPT ![a] = "sent"] /\ pushes' = [pushes EXCEPT ![a] = @ + 1]
      /\ call' = [call EXCEPT ![r] = c]
      /\ UNCHANGED <<database, expired, requests, head, approvedBy, migration>>
  BY DEF SendPush, Goto
<1>3. /\ c \in Call /\ c.pc = "pushed" /\ c.approval = a /\ c.op = "PUSHING"
      /\ c.lease = "ISSUED" /\ c.casConflict = FALSE
  BY <1>1 DEF Call, Executing
<1>4. CallShape(c)
  BY <1>1, <1>3 DEF CallShape, Validating, HoldsIssued, OwnsPush
<1> HIDE DEF c
<1> USE <1>2 DEF database, requests
<1>5. TypeOK'
  BY <1>1, <1>3 DEF IInv, TypeOK, PushState
<1>6. CallsMatchSteps' /\ OneCredentialHolder'
  BY <1>1, <1>3, <1>4 DEF IInv, TypeOK, CallsMatchSteps, OneCredentialHolder
<1>7. RunnersKnowRows'
  <2>1. KnowsRows(call[r])'
    BY <1>1, <1>3 DEF KnowsRows, IInv, TypeOK
  <2>2. ASSUME NEW s \in Runners, s # r PROVE KnowsRows(call[s])'
    <3>1. call'[s] = call[s] /\ KnowsRows(call[s]) /\ CallShape(call[s])
      BY <2>2 DEF IInv, TypeOK, RunnersKnowRows, CallsMatchSteps
    <3>2. call[s].op = "PUSHING" => call[s].approval # a
      BY <1>1, <2>2, <3>1 DEF IInv, OneCredentialHolder, CallShape
    <3>3. call[s].pc \in OwnsPush \/ call[s].casConflict => call[s].op = "PUSHING"
      BY <3>1 DEF CallShape
    <3> QED
      BY <3>1, <3>2, <3>3 DEF KnowsRows, SettleTo, IsConflict, OwnsPush, IInv, TypeOK
  <2> QED
    BY <2>1, <2>2 DEF RunnersKnowRows
<1>8. PushesAreOwned' /\ DefiniteOutcomesAreTrue' /\ AbandonedWasNeverPushed'
  BY <1>1 DEF IInv, TypeOK, PushesAreOwned, DefiniteOutcomesAreTrue,
              AbandonedWasNeverPushed, Abandoned
<1>9. ApprovalsBackOperations' /\ UsableIsOfCurrentEpoch'
  BY DEF IInv, ApprovalsBackOperations, UsableIsOfCurrentEpoch, ApprovalEpoch
<1>10. MigrationLocks'
  BY DEF IInv, MigrationLocks, MetadataFree, Reached
<1> QED
  BY <1>5, <1>6, <1>7, <1>8, <1>9, <1>10 DEF IInv

(* Every step of a runner preserves IInv.                                   *)
LEMMA RunnerSteps ==
    ASSUME IInv, NEW r \in Runners, RunnerStep(r)
    PROVE  IInv'
BY StartSteps, CreateBoundOperationStep, ValidationWrites, ExecutorReads,
   LeaseWrites, OutcomeWrites, SendPushStep DEF RunnerStep

-----------------------------------------------------------------------------
(* A step that touches neither the rows nor the runners nor the remote nor  *)
(* the migration preserves IInv.                                            *)
LEMMA QuietStep ==
    ASSUME IInv, TypeOK',
           UNCHANGED <<database, call, remote, approvedBy, migration>>
    PROVE  IInv'
<1> USE DEF database, remote
<1>1. CallsMatchSteps' /\ OneCredentialHolder'
  BY DEF IInv, CallsMatchSteps, OneCredentialHolder
<1>2. RunnersKnowRows'
  BY DEF IInv, RunnersKnowRows, KnowsRows
<1>3. /\ PushesAreOwned' /\ ApprovalsBackOperations'
      /\ DefiniteOutcomesAreTrue' /\ AbandonedWasNeverPushed'
      /\ UsableIsOfCurrentEpoch'
  BY DEF IInv, PushesAreOwned, ApprovalsBackOperations, DefiniteOutcomesAreTrue,
         AbandonedWasNeverPushed, UsableIsOfCurrentEpoch, ApprovalEpoch
<1>4. MigrationLocks'
  BY DEF IInv, MigrationLocks, MetadataFree, Reached
<1> QED
  BY <1>1, <1>2, <1>3, <1>4 DEF IInv

(* Requests past their guard, the clock and the start of a request.         *)
LEMMA GuardSteps ==
    ASSUME IInv,
           \/ \E a \in Approvals : RequestApproval(a) \/ Approve(a) \/ Expire(a)
           \/ \E r \in Runners, a \in Approvals : Start(r, a)
    PROVE  IInv'
<1>1. CASE \E a \in Approvals : RequestApproval(a) \/ Approve(a) \/ Expire(a)
  <2>1. UNCHANGED <<database, call, remote, approvedBy, migration>>
    BY <1>1 DEF RequestApproval, Approve, Expire
  <2>2. /\ asking' \subseteq Approvals
        /\ approving' \subseteq Approvals
        /\ expired' \subseteq Approvals
    BY <1>1 DEF RequestApproval, Approve, Expire, requests, IInv, TypeOK
  <2>3. TypeOK'
    BY <2>1, <2>2 DEF IInv, TypeOK, database, remote
  <2> QED
    BY <2>1, <2>3, QuietStep
<1>2. ASSUME NEW r \in Runners, NEW a \in Approvals, Start(r, a) PROVE IInv'
  <2> DEFINE c == [IdleCall EXCEPT !.pc = "load", !.approval = a]
  <2>1. /\ c \in Call /\ c.pc = "load" /\ c.approval = a /\ c.lease = "none"
        /\ c.op = "none" /\ c.casConflict = FALSE
    BY DEF IdleCall, Call, Heads, Validating
  <2>2. CallShape(c) /\ KnowsRows(c) /\ KeepsLease(call[r], c)
    BY <2>1 DEF CallShape, KnowsRows, KeepsLease, Validating, HoldsIssued, OwnsPush
  <2> QED
    BY <1>2, <2>1, <2>2, CallStep DEF Start
<1> QED
  BY <1>1, <1>2

(* A crash forgets every call record.                                       *)
LEMMA CrashStep ==
    ASSUME IInv, Crash
    PROVE  IInv'
<1> USE DEF Crash, database, remote
<1>1. TypeOK'
  BY IdleTypes DEF IInv, TypeOK
<1>2. CallsMatchSteps' /\ RunnersKnowRows'
  <2>1. \A r \in Runners : call'[r] = IdleCall
    OBVIOUS
  <2>2. CallsMatchSteps'
    BY <2>1, IdleClaimsNothing DEF CallsMatchSteps
  <2>3. \A r \in Runners : KnowsRows(call[r])'
    BY <2>1 DEF KnowsRows, IdleCall
  <2> QED
    BY <2>2, <2>3 DEF RunnersKnowRows
<1>3. OneCredentialHolder'
  BY DEF OneCredentialHolder, IdleCall
<1>4. /\ PushesAreOwned' /\ ApprovalsBackOperations'
      /\ DefiniteOutcomesAreTrue' /\ AbandonedWasNeverPushed'
      /\ UsableIsOfCurrentEpoch'
  BY DEF IInv, PushesAreOwned, ApprovalsBackOperations, DefiniteOutcomesAreTrue,
         AbandonedWasNeverPushed, UsableIsOfCurrentEpoch, ApprovalEpoch
<1>5. MigrationLocks'
  BY DEF IInv, MigrationLocks, MetadataFree, Reached
<1> QED
  BY <1>1, <1>2, <1>3, <1>4, <1>5 DEF IInv

(* The remote and outsiders touch no row: a push that was sent is answered. *)
LEMMA RemoteSteps ==
    ASSUME IInv, ForeignPush \/ \E a \in Approvals : RemoteApplies(a)
    PROVE  IInv'
<1> USE ConstantsAssumption DEF database, requests
<1>1. UNCHANGED <<database, expired, requests, call, pushes, approvedBy, migration>>
  BY DEF ForeignPush, RemoteApplies
<1>2. CallsMatchSteps' /\ OneCredentialHolder'
  BY <1>1 DEF IInv, CallsMatchSteps, OneCredentialHolder
<1>3. ApprovalsBackOperations' /\ UsableIsOfCurrentEpoch'
  BY <1>1 DEF IInv, ApprovalsBackOperations, UsableIsOfCurrentEpoch, ApprovalEpoch
<1>4. MigrationLocks'
  BY <1>1 DEF IInv, MigrationLocks, MetadataFree, Reached
<1>5. CASE ForeignPush
  <2> USE <1>5 DEF ForeignPush
  <2>1. TypeOK'
    BY DEF IInv, TypeOK, Heads
  <2>2. RunnersKnowRows'
    BY DEF IInv, RunnersKnowRows, KnowsRows
  <2>3. PushesAreOwned' /\ DefiniteOutcomesAreTrue' /\ AbandonedWasNeverPushed'
    BY DEF IInv, PushesAreOwned, DefiniteOutcomesAreTrue, AbandonedWasNeverPushed
  <2> QED
    BY <1>2, <1>3, <1>4, <2>1, <2>2, <2>3 DEF IInv
<1>6. ASSUME NEW a \in Approvals, RemoteApplies(a) PROVE IInv'
  <2>1. /\ push[a] = "sent"
        /\ push' = [push EXCEPT ![a] = push'[a]]
        /\ \/ push'[a] = "applied" /\ head' = ReviewOf[a]
           \/ push'[a] = "rejected" /\ head' = head
        /\ push \in [Approvals -> PushState]
    BY <1>6 DEF RemoteApplies, IInv, TypeOK
  <2>2. TypeOK'
    BY <1>1, <2>1 DEF IInv, TypeOK, PushState, Heads
  <2>3. RunnersKnowRows'
    <3>1. SUFFICES ASSUME NEW s \in Runners PROVE KnowsRows(call[s])'
      BY DEF RunnersKnowRows
    <3>2. call'[s] = call[s] /\ KnowsRows(call[s]) /\ CallShape(call[s])
      BY <1>1 DEF IInv, RunnersKnowRows, CallsMatchSteps
    <3>3. /\ call[s].pc \in {"push", "pullRequest", "markConsumed", "toSucceeded"}
               \/ call[s].casConflict
            => call[s].approval \in Approvals /\ call[s].approval # a
      BY <2>1, <3>2 DEF KnowsRows, CallShape
    <3>4. \A b \in Approvals : b # a => push'[b] = push[b]
      BY <2>1
    <3>5. lease' = lease /\ op' = op
      BY <1>1
    <3>6. SettleTo(call[s])' = SettleTo(call[s])
      BY <3>2 DEF SettleTo, IsConflict
    <3> QED
      BY <3>2, <3>3, <3>4, <3>5, <3>6 DEF KnowsRows
  <2>4. PushesAreOwned' /\ DefiniteOutcomesAreTrue' /\ AbandonedWasNeverPushed'
    BY <1>1, <2>1 DEF IInv, PushesAreOwned, DefiniteOutcomesAreTrue, AbandonedWasNeverPushed
  <2> QED
    BY <1>2, <1>3, <1>4, <2>2, <2>3, <2>4 DEF IInv
<1> QED
  BY <1>5, <1>6

-----------------------------------------------------------------------------
(* A new review touches no approval that is in use: what is usable or has   *)
(* an operation names a review that exists already.                         *)
LEMMA CreateReviewStep ==
    ASSUME IInv, NEW v \in Reviews, CreateReview(v)
    PROVE  IInv'
<1> USE ConstantsAssumption DEF database, requests, remote, CreateReview
<1>1. PICK e \in 1..epoch : reviewEpoch' = [reviewEpoch EXCEPT ![v] = e]
  OBVIOUS
<1>2. \A a \in Approvals : ApprovalEpoch(a) # 0 => ApprovalEpoch(a)' = ApprovalEpoch(a)
  BY DEF IInv, TypeOK, ApprovalEpoch
<1>3. epoch \in 1..MaxEpoch
  BY DEF IInv, TypeOK
<1>4. TypeOK'
  BY <1>1, <1>3 DEF IInv, TypeOK
<1>5. CallsMatchSteps' /\ OneCredentialHolder'
  BY DEF IInv, CallsMatchSteps, OneCredentialHolder
<1>6. RunnersKnowRows'
  BY DEF IInv, RunnersKnowRows, KnowsRows, SettleTo, IsConflict
<1>7. PushesAreOwned' /\ DefiniteOutcomesAreTrue' /\ AbandonedWasNeverPushed'
  BY DEF IInv, PushesAreOwned, DefiniteOutcomesAreTrue, AbandonedWasNeverPushed
<1>8. ApprovalsBackOperations'
  BY <1>2 DEF IInv, ApprovalsBackOperations
<1>9. UsableIsOfCurrentEpoch'
  BY <1>2, <1>3 DEF IInv, UsableIsOfCurrentEpoch
<1>10. MigrationLocks'
  BY DEF IInv, MigrationLocks, MetadataFree, Reached
<1> QED
  BY <1>4, <1>5, <1>6, <1>7, <1>8, <1>9, <1>10 DEF IInv

(* A step that changes the status of one approval the migration has not     *)
(* locked preserves IInv if a new active status is backed by the epoch and  *)
(* by no other active approval, and an operation keeps its approval.        *)
LEMMA ApprovalRowStep ==
    ASSUME IInv, NEW a \in Approvals, NEW status \in ApprovalStatus,
           approval' = [approval EXCEPT ![a] = status],
           approvedBy \subseteq approvedBy', approvedBy' \subseteq Approvals,
           asking' \subseteq Approvals, approving' \subseteq Approvals,
           status = "APPROVED" => a \in approvedBy',
           op[a] # "none" => ApprovalEpoch(a) # 0 /\ ApprovalEpoch(a) < epoch,
           status \in Active =>
             /\ ApprovalEpoch(a) = epoch
             /\ \A b \in Approvals :
                  ReviewOf[b] = ReviewOf[a] /\ approval[b] \in Active => b = a,
           ~Reached({"cancelOperations", "failReservations", "expireCredentials", "commit"}),
           UNCHANGED <<epoch, maintenance, reviewEpoch, op, opHead, lease, expired,
                       call, remote, migration>>
    PROVE  IInv'
<1> USE ConstantsAssumption DEF remote
<1>1. approval \in [Approvals -> ApprovalStatus \cup {"none"}]
  BY DEF IInv, TypeOK
<1>2. \A b \in Approvals : b # a => approval'[b] = approval[b]
  BY <1>1
<1>3. approval'[a] = status
  BY <1>1
<1>4. TypeOK'
  BY DEF IInv, TypeOK
<1>5. CallsMatchSteps' /\ OneCredentialHolder'
  BY DEF IInv, CallsMatchSteps, OneCredentialHolder
<1>6. RunnersKnowRows'
  BY DEF IInv, RunnersKnowRows, KnowsRows, SettleTo, IsConflict
<1>7. PushesAreOwned' /\ DefiniteOutcomesAreTrue' /\ AbandonedWasNeverPushed'
  BY DEF IInv, PushesAreOwned, DefiniteOutcomesAreTrue, AbandonedWasNeverPushed
<1>8. ApprovalsBackOperations'
  <2>1. \A b \in Approvals : ApprovalEpoch(b)' = ApprovalEpoch(b)
    BY DEF ApprovalEpoch
  <2>2. \A b \in Approvals : approval'[b] = "APPROVED" => b \in approvedBy'
    BY <1>2, <1>3 DEF IInv, ApprovalsBackOperations
  <2>3. ASSUME NEW b \in Approvals, op'[b] # "none"
        PROVE  /\ b \in approvedBy'
               /\ \/ approval'[b] = "APPROVED"
                  \/ ApprovalEpoch(b)' # 0 /\ ApprovalEpoch(b)' < epoch'
    BY <1>2, <2>1, <2>3 DEF IInv, ApprovalsBackOperations
  <2>4. ASSUME NEW b \in Approvals, NEW c \in Approvals, ReviewOf[b] = ReviewOf[c]
        PROVE  /\ approval'[b] \in Active /\ approval'[c] \in Active => b = c
               /\ op'[b] # "none" /\ op'[c] # "none" => b = c
    BY <1>2, <1>3, <2>4 DEF IInv, ApprovalsBackOperations
  <2> QED
    BY <2>2, <2>3, <2>4 DEF ApprovalsBackOperations
<1>9. UsableIsOfCurrentEpoch'
  BY <1>2, <1>3 DEF IInv, UsableIsOfCurrentEpoch, ApprovalEpoch
<1>10. MigrationLocks'
  BY DEF IInv, MigrationLocks, MetadataFree, Reached
<1> QED
  BY <1>4, <1>5, <1>6, <1>7, <1>8, <1>9, <1>10 DEF IInv

(* The insertion of an approval request.                                    *)
LEMMA CreateBoundApprovalStep ==
    ASSUME IInv, NEW a \in Approvals, CreateBoundApproval(a)
    PROVE  IInv'
<1> USE DEF CreateBoundApproval, database, requests, remote
<1>1. asking' \subseteq Approvals /\ approving' \subseteq Approvals
  BY DEF IInv, TypeOK
<1>2. CASE UNCHANGED approval
  <2>1. TypeOK'
    BY <1>1, <1>2 DEF IInv, TypeOK
  <2> QED
    BY <1>2, <2>1, QuietStep
<1>3. CASE ~UNCHANGED approval
  <2>1. /\ ~HasActiveApproval(ReviewOf[a])
        /\ ApprovalEpoch(a) = epoch
        /\ approval' = [approval EXCEPT ![a] = "PENDING"]
    BY <1>3
  <2>2. "PENDING" \in ApprovalStatus
    BY DEF ApprovalStatus, Active
  <2>3. ~Reached({"cancelOperations", "failReservations", "expireCredentials", "commit"})
    BY DEF MetadataFree, Reached, InTransaction
  <2>4. \A b \in Approvals :
          ReviewOf[b] = ReviewOf[a] /\ approval[b] \in Active => b = a
    BY <2>1 DEF HasActiveApproval
  <2>5. op[a] = "none"
    <3>1. approval[a] # "APPROVED"
      BY <2>1 DEF HasActiveApproval, Active
    <3>2. epoch \in Nat
      BY DEF IInv, TypeOK
    <3> QED
      BY <2>1, <3>1, <3>2 DEF IInv, ApprovalsBackOperations
  <2>6. approvedBy \subseteq Approvals
    BY DEF IInv, TypeOK
  <2> QED
    BY <1>1, <2>1, <2>2, <2>3, <2>4, <2>5, <2>6, ApprovalRowStep
<1> QED
  BY <1>2, <1>3

(* The decisions.  Only a PENDING approval the migration has not locked     *)
(* changes, and a PENDING approval has no operation of the current epoch.   *)
LEMMA DecideStep ==
    ASSUME IInv, NEW a \in Approvals, DecideApprove(a) \/ Deny(a)
    PROVE  IInv'
<1> USE DEF database, requests, remote
<1>1. PICK decision \in {"APPROVED", "DENIED"} : Decide(a, decision)
  BY DEF DecideApprove, Deny
<1>2. asking' \subseteq Approvals /\ approving' \subseteq Approvals
  BY <1>1 DEF IInv, TypeOK, DecideApprove, Deny, Decide
<1>3. UNCHANGED <<epoch, maintenance, reviewEpoch, op, opHead, lease, expired,
                  asking, call, remote, migration>>
  BY <1>1 DEF Decide
<1>4. CASE UNCHANGED <<approval, approvedBy>>
  <2>1. TypeOK'
    BY <1>2, <1>3, <1>4 DEF IInv, TypeOK
  <2> QED
    BY <1>3, <1>4, <2>1, QuietStep
<1>5. CASE ~UNCHANGED <<approval, approvedBy>>
  <2>1. PICK status \in {"STALE", decision} :
          /\ approval[a] = "PENDING"
          /\ approval' = [approval EXCEPT ![a] = status]
          /\ status # "STALE" => ApprovalEpoch(a) = epoch
          /\ approvedBy' = IF status = "APPROVED" THEN approvedBy \cup {a} ELSE approvedBy
    BY <1>1, <1>5 DEF Decide
  <2>2. status \in ApprovalStatus /\ (status \in Active => status # "STALE")
    BY DEF ApprovalStatus, Active
  <2>3. ~Reached({"cancelOperations", "failReservations", "expireCredentials", "commit"})
    BY <1>1, <2>1 DEF Decide, ApprovalFree, IInv, MigrationLocks, Active
  <2>4. \A b \in Approvals :
          ReviewOf[b] = ReviewOf[a] /\ approval[b] \in Active => b = a
    BY <2>1 DEF IInv, ApprovalsBackOperations, Active
  <2>5. op[a] # "none" => ApprovalEpoch(a) # 0 /\ ApprovalEpoch(a) < epoch
    BY <2>1 DEF IInv, ApprovalsBackOperations
  <2>6. /\ approvedBy \subseteq approvedBy'
        /\ approvedBy' \subseteq Approvals
        /\ status = "APPROVED" => a \in approvedBy'
    BY <2>1 DEF IInv, TypeOK
  <2> QED
    BY <1>2, <1>3, <2>1, <2>2, <2>3, <2>4, <2>5, <2>6, ApprovalRowStep
<1> QED
  BY <1>4, <1>5

-----------------------------------------------------------------------------
(* A step of the migration that writes nothing but its own record preserves *)
(* IInv if the record locks what its statements selected.                   *)
LEMMA MigrationRecordStep ==
    ASSUME IInv, migration' \in MigrationRecord, MigrationLocks',
           maintenance' \in BOOLEAN,
           UNCHANGED <<epoch, reviewEpoch, approval, op, opHead, lease, expired,
                       requests, call, remote, approvedBy>>
    PROVE  IInv'
<1> USE DEF requests, remote
<1>1. TypeOK'
  BY DEF IInv, TypeOK
<1>2. CallsMatchSteps' /\ OneCredentialHolder'
  BY DEF IInv, CallsMatchSteps, OneCredentialHolder
<1>3. RunnersKnowRows'
  BY DEF IInv, RunnersKnowRows, KnowsRows
<1>4. /\ PushesAreOwned' /\ ApprovalsBackOperations'
      /\ DefiniteOutcomesAreTrue' /\ AbandonedWasNeverPushed'
      /\ UsableIsOfCurrentEpoch'
  BY DEF IInv, PushesAreOwned, ApprovalsBackOperations, DefiniteOutcomesAreTrue,
         AbandonedWasNeverPushed, UsableIsOfCurrentEpoch, ApprovalEpoch
<1> QED
  BY <1>1, <1>2, <1>3, <1>4 DEF IInv

(* The statements before the commit: each one locks what it selects and     *)
(* leaves what the earlier ones selected as it was.                         *)
LEMMA MigrationStatements ==
    ASSUME IInv,
           \/ MigrateRead     \/ EnterMaintenance \/ BeginCommit
           \/ CheckPushing    \/ StaleApprovals   \/ CancelOperations
           \/ FailReservations \/ ExpireCredentials \/ AbortMigration
    PROVE  IInv'
<1>1. /\ UNCHANGED <<epoch, reviewEpoch, approval, op, opHead, lease, expired,
                     requests, call, remote, approvedBy>>
      /\ maintenance' \in BOOLEAN
  BY DEF IInv, TypeOK, MigrationOnly, database, MigrateRead, EnterMaintenance,
         BeginCommit, CheckPushing, StaleApprovals, CancelOperations,
         FailReservations, ExpireCredentials, AbortMigration
<1>2. epoch \in 1..MaxEpoch /\ migration \in MigrationRecord /\ MigrationLocks
  BY DEF IInv, TypeOK
<1> SUFFICES migration' \in MigrationRecord /\ MigrationLocks'
  BY <1>1, MigrationRecordStep
<1>3. CASE migration' = IdleMigration
  <2>1. migration' \in MigrationRecord
    BY <1>3, IdleTypes
  <2>2. MigrationLocks'
    BY <1>3 DEF MigrationLocks, IdleMigration, MetadataFree, Reached, InTransaction
  <2> QED
    BY <2>1, <2>2
<1>4. CASE MigrateRead
  <2>1. migration' = [IdleMigration EXCEPT !.pc = "enter", !.epoch = epoch]
    BY <1>4 DEF MigrateRead
  <2>2. migration' \in MigrationRecord
    BY <1>2, <2>1, IdleTypes DEF MigrationRecord
  <2>3. MigrationLocks'
    BY <2>1 DEF MigrationLocks, IdleMigration, MetadataFree, Reached, InTransaction
  <2> QED
    BY <2>2, <2>3
<1>5. CASE \/ EnterMaintenance
           \/ BeginCommit /\ migration' # IdleMigration
           \/ CheckPushing /\ migration' # IdleMigration
  <2>1. PICK pc \in {"begin", "checkPushing", "staleApprovals"} :
          /\ migration' = [migration EXCEPT !.pc = pc]
          /\ migration.pc \in {"enter", "begin", "checkPushing"}
          /\ pc = "checkPushing" => epoch = migration.epoch
          /\ pc = "staleApprovals" => migration.pc = "checkPushing"
    BY <1>5 DEF EnterMaintenance, BeginCommit, CheckPushing
  <2>2. migration' \in MigrationRecord
    BY <1>2, <2>1 DEF MigrationRecord, InTransaction
  <2>3. MigrationLocks'
    BY <1>1, <1>2, <2>1 DEF MigrationLocks, MigrationRecord, MetadataFree, Reached,
                            InTransaction
  <2> QED
    BY <2>2, <2>3
<1>6. CASE StaleApprovals
  <2>1. /\ migration.pc = "staleApprovals"
        /\ migration' = [migration EXCEPT !.pc = "cancelOperations",
                           !.approvals = {a \in Approvals : approval[a] \in Active}]
    BY <1>6 DEF StaleApprovals
  <2>2. migration' \in MigrationRecord
    BY <1>2, <2>1 DEF MigrationRecord, InTransaction
  <2>3. MigrationLocks'
    BY <1>1, <1>2, <2>1 DEF MigrationLocks, MigrationRecord, MetadataFree, Reached,
                            InTransaction
  <2> QED
    BY <2>2, <2>3
<1>7. CASE CancelOperations
  <2>1. /\ migration.pc = "cancelOperations"
        /\ migration' = [migration EXCEPT !.pc = "failReservations",
                           !.ops = {a \in Approvals : op[a] \in Cancellable}]
    BY <1>7 DEF CancelOperations
  <2>2. migration' \in MigrationRecord
    BY <1>2, <2>1 DEF MigrationRecord, InTransaction
  <2>3. MigrationLocks'
    BY <1>1, <1>2, <2>1 DEF MigrationLocks, MigrationRecord, MetadataFree, Reached,
                            InTransaction
  <2> QED
    BY <2>2, <2>3
<1>8. CASE FailReservations
  <2>1. /\ migration.pc = "failReservations"
        /\ migration' = [migration EXCEPT !.pc = "expireCredentials",
                           !.failed = {a \in Approvals : lease[a] = "RESERVED"}]
    BY <1>8 DEF FailReservations
  <2>2. migration' \in MigrationRecord
    BY <1>2, <2>1 DEF MigrationRecord, InTransaction
  <2>3. MigrationLocks'
    BY <1>1, <1>2, <2>1 DEF MigrationLocks, MigrationRecord, MetadataFree, Reached,
                            InTransaction
  <2> QED
    BY <2>2, <2>3
<1>9. CASE ExpireCredentials
  <2>1. /\ migration.pc = "expireCredentials"
        /\ migration' = [migration EXCEPT !.pc = "commit",
                           !.expired = {a \in Approvals : lease[a] = "ISSUED"}]
    BY <1>9 DEF ExpireCredentials
  <2>2. migration' \in MigrationRecord
    BY <1>2, <2>1 DEF MigrationRecord, InTransaction
  <2>3. MigrationLocks'
    BY <1>1, <1>2, <2>1 DEF MigrationLocks, MigrationRecord, MetadataFree, Reached,
                            InTransaction
  <2> QED
    BY <2>2, <2>3
<1> QED
  BY <1>3, <1>4, <1>5, <1>6, <1>7, <1>8, <1>9 DEF AbortMigration

(* The commit: everything usable was locked and is retired at once, so      *)
(* nothing of the old epoch stays usable, and a retired operation never     *)
(* reached the push.                                                        *)
LEMMA CommitMigrationStep ==
    ASSUME IInv, CommitMigration
    PROVE  IInv'
<1> USE ConstantsAssumption DEF requests, remote
<1>1. /\ migration.pc = "commit" /\ migration.epoch < MaxEpoch /\ epoch = migration.epoch
      /\ epoch' = epoch + 1 /\ epoch \in 1..MaxEpoch
      /\ migration' = IdleMigration
      /\ UNCHANGED <<reviewEpoch, opHead, expired, asking, approving, call, head, push,
                     pushes, approvedBy>>
  BY DEF IInv, TypeOK, MigrationLocks, CommitMigration, EpochCanGrow, MetadataFree, InTransaction
<1>2. /\ migration.approvals = {a \in Approvals : approval[a] \in Active}
      /\ migration.ops = {a \in Approvals : op[a] \in Cancellable}
      /\ migration.failed = {a \in Approvals : lease[a] = "RESERVED"}
      /\ migration.expired = {a \in Approvals : lease[a] = "ISSUED"}
  BY <1>1 DEF IInv, MigrationLocks, Reached
<1>3. \A a \in Approvals :
        /\ approval'[a] = IF approval[a] \in Active THEN "STALE" ELSE approval[a]
        /\ op'[a] = IF op[a] \in Cancellable THEN "CANCELLED" ELSE op[a]
        /\ lease'[a] = IF lease[a] = "RESERVED" THEN "FAILED"
                       ELSE IF lease[a] = "ISSUED" THEN "EXPIRED" ELSE lease[a]
  BY <1>2 DEF CommitMigration
<1>4. TypeOK'
  <2>1. approval' \in [Approvals -> ApprovalStatus \cup {"none"}]
    BY <1>3 DEF IInv, TypeOK, CommitMigration, ApprovalStatus, Active
  <2>2. op' \in [Approvals -> GitOperationState \cup {"none"}]
    BY <1>3 DEF IInv, TypeOK, CommitMigration, GitOperationState, Cancellable
  <2>3. lease' \in [Approvals -> CredentialLeaseState \cup {"none"}]
    <3>1. \A a \in Approvals : lease'[a] \in CredentialLeaseState \cup {"none"}
      BY <1>3 DEF IInv, TypeOK, CredentialLeaseState
    <3>2. lease' = [a \in Approvals |-> lease'[a]]
      BY DEF CommitMigration
    <3> QED
      BY <3>1, <3>2
  <2>4. epoch' \in 1..MaxEpoch /\ maintenance' \in BOOLEAN
    <3>1. maintenance' \in BOOLEAN
      BY DEF CommitMigration
    <3>2. epoch' \in 1..MaxEpoch
      BY <1>1
    <3> QED
      BY <3>1, <3>2
  <2> QED
    BY <1>1, <2>1, <2>2, <2>3, <2>4, IdleTypes DEF IInv, TypeOK
<1>5. CallsMatchSteps' /\ OneCredentialHolder'
  BY <1>1 DEF IInv, CallsMatchSteps, OneCredentialHolder
<1>6. RunnersKnowRows'
  <2>1. SUFFICES ASSUME NEW s \in Runners, call[s].pc # "idle" PROVE KnowsRows(call[s])'
    BY <1>1 DEF IInv, CallsMatchSteps, CallShape, RunnersKnowRows, KnowsRows, IdleCall
  <2>2. /\ call'[s] = call[s] /\ KnowsRows(call[s])
        /\ call[s].approval \in Approvals
        /\ SettleTo(call[s])' = SettleTo(call[s])
    BY <1>1, <2>1 DEF IInv, RunnersKnowRows, CallsMatchSteps, CallShape, SettleTo,
                      IsConflict
  <2>3. SettleTo(call[s]) \notin Live \cup {"none"}
    BY DEF SettleTo, Live
  <2> QED
    BY <1>1, <1>3, <2>2, <2>3 DEF KnowsRows, Cancellable, Live
<1>7. PushesAreOwned' /\ DefiniteOutcomesAreTrue'
  BY <1>1, <1>3 DEF IInv, PushesAreOwned, DefiniteOutcomesAreTrue, Cancellable
<1>8. AbandonedWasNeverPushed'
  BY <1>1, <1>3 DEF IInv, PushesAreOwned, AbandonedWasNeverPushed, Cancellable
<1>9. \A a \in Approvals : approval'[a] \notin Active
  BY <1>3 DEF Active
<1>10. ApprovalsBackOperations'
  <2>1. \A a \in Approvals : op'[a] # "none" => op[a] # "none"
    BY <1>3 DEF Cancellable
  <2>2. ASSUME NEW a \in Approvals, op[a] # "none"
        PROVE  a \in approvedBy /\ ApprovalEpoch(a) # 0 /\ ApprovalEpoch(a) < epoch + 1
    <3>1. CASE approval[a] = "APPROVED"
      <4>1. ApprovalEpoch(a) = epoch
        BY <3>1 DEF IInv, UsableIsOfCurrentEpoch, Active
      <4> QED
        BY <1>1, <2>2, <4>1 DEF IInv, ApprovalsBackOperations
    <3>2. CASE approval[a] # "APPROVED"
      <4>1. a \in approvedBy /\ ApprovalEpoch(a) # 0 /\ ApprovalEpoch(a) < epoch
        BY <2>2, <3>2 DEF IInv, ApprovalsBackOperations
      <4>2. ApprovalEpoch(a) \in Nat
        BY DEF IInv, TypeOK, ApprovalEpoch
      <4> QED
        BY <1>1, <4>1, <4>2
    <3> QED
      BY <3>1, <3>2
  <2>3. \A a \in Approvals : ApprovalEpoch(a)' = ApprovalEpoch(a)
    BY <1>1 DEF ApprovalEpoch
  <2>4. \A a, b \in Approvals :
          ReviewOf[a] = ReviewOf[b] /\ op'[a] # "none" /\ op'[b] # "none" => a = b
    BY <2>1 DEF IInv, ApprovalsBackOperations
  <2> QED
    BY <1>1, <1>9, <2>1, <2>2, <2>3, <2>4 DEF ApprovalsBackOperations, Active
<1>11. UsableIsOfCurrentEpoch'
  BY <1>3, <1>9 DEF UsableIsOfCurrentEpoch, Cancellable, Live
<1>12. MigrationLocks'
  BY <1>1 DEF MigrationLocks, IdleMigration, MetadataFree, Reached, InTransaction
<1> QED
  BY <1>4, <1>5, <1>6, <1>7, <1>8, <1>10, <1>11, <1>12 DEF IInv

-----------------------------------------------------------------------------
(* Every step preserves the inductive invariant.                            *)
LEMMA NextPreserves == IInv /\ [Next]_vars => IInv'
<1> SUFFICES ASSUME IInv, [Next]_vars PROVE IInv'
  OBVIOUS
<1>1. CASE UNCHANGED vars
  <2>1. TypeOK'
    BY <1>1 DEF IInv, TypeOK, vars, database, requests, remote
  <2> QED
    BY <1>1, <2>1, QuietStep DEF vars
<1>2. CASE Environment
  <2>1. ASSUME NEW v \in Reviews, CreateReview(v) PROVE IInv'
    BY <2>1, CreateReviewStep
  <2>2. ASSUME NEW a \in Approvals, ApprovalStep(a) PROVE IInv'
    BY <2>2, GuardSteps, CreateBoundApprovalStep, DecideStep DEF ApprovalStep
  <2>3. CASE ForeignPush \/ \E a \in Approvals : RemoteApplies(a)
    BY <2>3, RemoteSteps
  <2> QED
    BY <1>2, <2>1, <2>2, <2>3 DEF Environment
<1>3. ASSUME NEW r \in Runners, RunnerStep(r) PROVE IInv'
  BY <1>3, RunnerSteps
<1>4. CASE \E r \in Runners, a \in Approvals : Start(r, a)
  BY <1>4, GuardSteps
<1>5. CASE MigrateRead \/ MigrationStep
  BY <1>5, MigrationStatements, CommitMigrationStep DEF MigrationStep
<1>6. CASE Crash
  BY <1>6, CrashStep
<1> QED
  BY <1>1, <1>2, <1>3, <1>4, <1>5, <1>6 DEF Next, Work

(* The inductive invariant holds in every reachable state.                  *)
THEOREM Invariance == Spec => []IInv
<1> QED
  BY InitInvariant, NextPreserves, PTL DEF Spec

(* Every reachable state is well typed.                                     *)
THEOREM TypeCorrectness == Spec => []TypeOK
<1>1. IInv => TypeOK
  BY DEF IInv
<1> QED
  BY <1>1, Invariance, PTL

(* git push is invoked at most once for an approval, whatever requests race *)
(* for its operation and however often rad-control restarts.                *)
THEOREM PushOnce == Spec => []PushedAtMostOnce
<1>1. IInv => PushedAtMostOnce
  BY DEF IInv, PushesAreOwned, PushedAtMostOnce
<1> QED
  BY <1>1, Invariance, PTL

(* Only what a human approved is ever pushed.                               *)
THEOREM ApprovedPushes == Spec => []OnlyApprovedIsPushed
<1>1. IInv => OnlyApprovedIsPushed
  BY DEF IInv, PushesAreOwned, ApprovalsBackOperations, OnlyApprovedIsPushed
<1> QED
  BY <1>1, Invariance, PTL

(* A review is written at most once, over all approvals made for it.        *)
THEOREM ReviewOnce == Spec => []ReviewPushedOnce
<1>1. IInv => ReviewPushedOnce
  BY DEF IInv, PushesAreOwned, ApprovalsBackOperations, ReviewPushedOnce
<1> QED
  BY <1>1, Invariance, PTL

(* SUCCEEDED and CONFLICT are true of the remote and of the credential.     *)
THEOREM TrueOutcomes == Spec => []DefiniteOutcomesAreTrue
<1>1. IInv => DefiniteOutcomesAreTrue
  BY DEF IInv
<1> QED
  BY <1>1, Invariance, PTL

(* An abandoned operation without an UNCERTAIN lease was never pushed and   *)
(* never will be.                                                           *)
THEOREM AbandonedUnpushed == Spec => []AbandonedWasNeverPushed
<1>1. IInv => AbandonedWasNeverPushed
  BY DEF IInv
<1> QED
  BY <1>1, Invariance, PTL

(* At most one runner holds the credential lease of an operation.           *)
THEOREM CredentialExclusion == Spec => []OneCredentialHolder
<1>1. IInv => OneCredentialHolder
  BY DEF IInv
<1> QED
  BY <1>1, Invariance, PTL

(* What is usable belongs to the current security epoch.                    *)
THEOREM EpochFence == Spec => []UsableIsOfCurrentEpoch
<1>1. IInv => UsableIsOfCurrentEpoch
  BY DEF IInv
<1> QED
  BY <1>1, Invariance, PTL

-----------------------------------------------------------------------------
(* The transitions of a row never leave a terminal state, a new row replaces*)
(* none, and the migration cancels only what it selected as cancellable.    *)
LEMMA StepsKeepOutcomes ==
    ASSUME IInv, [Next]_vars, NEW a \in Approvals, op[a] \in Terminal
    PROVE  op'[a] = op[a]
<1> USE DEF database, requests, remote
<1>1. op \in [Approvals -> GitOperationState \cup {"none"}] /\ call \in [Runners -> Call]
  BY DEF IInv, TypeOK
<1>2. ASSUME NEW b, NEW from, NEW to, Transition(b, from, to) PROVE op'[a] = op[a]
  <2>1. op[a] = from => AllowedTransitions[from] = {}
    BY DEF AllowedTransitions, Terminal, GitOperationState
  <2> QED
    BY <1>1, <1>2, <2>1 DEF Transition, CanMove
<1>3. ASSUME NEW r \in Runners, RunnerStep(r) PROVE op'[a] = op[a]
  <2>1. CASE \/ ToValidating(r) \/ ToWaiting(r) \/ Reject(r) \/ ToPushing(r)
             \/ ToSucceeded(r)  \/ RecordOutcome(r)
    BY <1>2, <2>1 DEF ToValidating, ToWaiting, Reject, ToPushing, ToSucceeded,
                      RecordOutcome, TransitionConflict
  <2>2. CASE CreateBoundOperation(r)
    BY <1>1, <2>2 DEF CreateBoundOperation, Terminal
  <2>3. CASE \/ LoadApproval(r) \/ FindOperation(r) \/ ObserveRemoteHead(r)
             \/ CheckUsable(r)  \/ Revalidate(r)    \/ Prepare(r) \/ Issue(r)
             \/ Recheck(r)      \/ PushReturns(r)   \/ CreatePullRequest(r)
    BY <2>3 DEF LoadApproval, FindOperation, ObserveRemoteHead, CheckUsable, Revalidate,
                Prepare, Issue, Recheck, PushReturns, CreatePullRequest, OnlyCall
  <2>4. CASE \/ Reserve(r) \/ MarkIssued(r) \/ MarkConsumed(r) \/ SettleLease(r)
             \/ SendPush(r)
    BY <2>4 DEF Reserve, MarkIssued, MarkConsumed, SettleLease, SendPush, OnlyLease
  <2> QED
    BY <1>3, <2>1, <2>2, <2>3, <2>4 DEF RunnerStep
<1>4. CASE Environment
  BY <1>4 DEF Environment, CreateReview, ApprovalStep, RequestApproval,
              CreateBoundApproval, Approve, DecideApprove, Deny, Decide, Expire,
              RemoteApplies, ForeignPush
<1>5. CASE CommitMigration
  <2>1. a \notin migration.ops
    BY DEF IInv, MigrationLocks, Terminal, Cancellable
  <2> QED
    BY <1>5, <2>1 DEF CommitMigration
<1>6. CASE (MigrateRead \/ MigrationStep) /\ ~CommitMigration
  BY <1>6 DEF MigrationStep, MigrationOnly, MigrateRead, EnterMaintenance, BeginCommit,
              CheckPushing, StaleApprovals, CancelOperations, FailReservations,
              ExpireCredentials, AbortMigration
<1>7. CASE Crash \/ \E r \in Runners, b \in Approvals : Start(r, b)
  BY <1>7 DEF Crash, Start, OnlyCall
<1>8. CASE UNCHANGED vars
  BY <1>8 DEF vars
<1> QED
  BY <1>3, <1>4, <1>5, <1>6, <1>7, <1>8 DEF Next, Work

(* A recorded outcome is final.                                             *)
THEOREM FinalOutcomes == Spec => OutcomesAreFinal
<1>1. IInv /\ [Next]_vars => [\A a \in Approvals : op[a] \in Terminal => op'[a] = op[a]]_vars
  BY StepsKeepOutcomes
<1> QED
  BY <1>1, Invariance, PTL DEF Spec, OutcomesAreFinal

-----------------------------------------------------------------------------
(* An operation becomes PUSHING in one step only, from a cancellable state. *)
LEMMA BecomesPushing ==
    ASSUME IInv, [Next]_vars, NEW a \in Approvals,
           op[a] # "PUSHING", op'[a] = "PUSHING"
    PROVE  /\ op[a] \in Cancellable
           /\ \E r \in Runners : ToPushing(r)
<1> USE DEF database, requests, remote
<1>1. op \in [Approvals -> GitOperationState \cup {"none"}] /\ call \in [Runners -> Call]
  BY DEF IInv, TypeOK
<1>2. ASSUME NEW b, NEW from, NEW to, Transition(b, from, to), to # "PUSHING" PROVE FALSE
  BY <1>1, <1>2 DEF Transition
<1>3. ASSUME NEW r \in Runners, RunnerStep(r) PROVE ToPushing(r)
  <2>1. CASE ToValidating(r) \/ ToWaiting(r) \/ ToSucceeded(r)
    BY <1>2, <2>1 DEF ToValidating, ToWaiting, ToSucceeded, TransitionConflict
  <2>2. CASE Reject(r) \/ RecordOutcome(r)
    <3>1. RejectTo(r) # "PUSHING" /\ OutcomeTo(call[r]) # "PUSHING"
      BY DEF RejectTo, OutcomeTo
    <3> QED
      BY <1>2, <2>2, <3>1 DEF Reject, RecordOutcome, TransitionConflict
  <2>3. CASE CreateBoundOperation(r)
    BY <1>1, <2>3 DEF CreateBoundOperation
  <2>4. CASE \/ LoadApproval(r) \/ FindOperation(r) \/ ObserveRemoteHead(r)
             \/ CheckUsable(r)  \/ Revalidate(r)    \/ Prepare(r) \/ Issue(r)
             \/ Recheck(r)      \/ PushReturns(r)   \/ CreatePullRequest(r)
    BY <2>4 DEF LoadApproval, FindOperation, ObserveRemoteHead, CheckUsable, Revalidate,
                Prepare, Issue, Recheck, PushReturns, CreatePullRequest, OnlyCall
  <2>5. CASE \/ Reserve(r) \/ MarkIssued(r) \/ MarkConsumed(r) \/ SettleLease(r)
             \/ SendPush(r)
    BY <2>5 DEF Reserve, MarkIssued, MarkConsumed, SettleLease, SendPush, OnlyLease
  <2> QED
    BY <1>3, <2>1, <2>2, <2>3, <2>4, <2>5 DEF RunnerStep
<1>4. ~Environment
  BY DEF Environment, CreateReview, ApprovalStep, RequestApproval,
         CreateBoundApproval, Approve, DecideApprove, Deny, Decide, Expire,
         RemoteApplies, ForeignPush
<1>5. ~CommitMigration
  BY DEF CommitMigration
<1>6. ~MigrateRead /\ ~(MigrationStep /\ ~CommitMigration)
  BY DEF MigrationStep, MigrationOnly, MigrateRead, EnterMaintenance, BeginCommit,
         CheckPushing, StaleApprovals, CancelOperations, FailReservations,
         ExpireCredentials, AbortMigration
<1>7. ~Crash /\ \A r \in Runners, b \in Approvals : ~Start(r, b)
  BY DEF Crash, Start, OnlyCall
<1>8. PICK r \in Runners : ToPushing(r)
  BY <1>3, <1>4, <1>5, <1>6, <1>7 DEF Next, Work, vars
<1>9. op[a] = "WAITING_CREDENTIAL"
  BY <1>1, <1>8 DEF ToPushing, Transition, TransitionConflict, CanMove
<1> QED
  BY <1>8, <1>9 DEF Cancellable

(* Once the migration has looked for PUSHING operations, there is none.     *)
NonePushes ==
    Reached(InTransaction \ {"checkPushing"}) => \A a \in Approvals : op[a] # "PUSHING"

(* Only the migration command moves its record.                             *)
LEMMA MigrationMoves ==
    ASSUME [Next]_vars, migration' # migration
    PROVE  MigrateRead \/ MigrationStep
<1> USE DEF database, requests, remote
<1>1. ASSUME NEW r \in Runners, RunnerStep(r) PROVE UNCHANGED migration
  BY <1>1 DEF RunnerStep, LoadApproval, FindOperation, ObserveRemoteHead, CreateBoundOperation,
     ToValidating, CheckUsable, Revalidate, ToWaiting, Reject, Prepare, Reserve, Issue,
     MarkIssued, Recheck, ToPushing, SendPush, PushReturns, CreatePullRequest, MarkConsumed,
     ToSucceeded, SettleLease, RecordOutcome, OnlyCall, OnlyOp, OnlyLease
<1>2. ~Environment
  BY DEF Environment, CreateReview, ApprovalStep, RequestApproval,
         CreateBoundApproval, Approve, DecideApprove, Deny, Decide, Expire,
         RemoteApplies, ForeignPush
<1> QED
  BY <1>1, <1>2 DEF Next, Work, Crash, Start, OnlyCall, vars

(* The epoch moves with the commit of a migration only, and the epoch of a  *)
(* review never once it has one.                                            *)
LEMMA EpochMoves ==
    ASSUME IInv, [Next]_vars
    PROVE  /\ epoch' # epoch => CommitMigration
           /\ \A a \in Approvals : ApprovalEpoch(a) # 0 => ApprovalEpoch(a)' = ApprovalEpoch(a)
<1> USE DEF database, requests, remote
<1>1. reviewEpoch \in [Reviews -> 0..MaxEpoch] /\ \A a \in Approvals : ReviewOf[a] \in Reviews
  BY ConstantsAssumption DEF IInv, TypeOK
<1>2. CASE \E r \in Runners : RunnerStep(r)
  BY <1>2 DEF RunnerStep, LoadApproval, FindOperation, ObserveRemoteHead, CreateBoundOperation,
     ToValidating, CheckUsable, Revalidate, ToWaiting, Reject, Prepare, Reserve, Issue,
     MarkIssued, Recheck, ToPushing, SendPush, PushReturns, CreatePullRequest, MarkConsumed,
     ToSucceeded, SettleLease, RecordOutcome, OnlyCall, OnlyOp, OnlyLease, ApprovalEpoch
<1>3. ASSUME NEW v \in Reviews, CreateReview(v)
      PROVE  /\ epoch' = epoch
             /\ \A a \in Approvals : ApprovalEpoch(a) # 0 => ApprovalEpoch(a)' = ApprovalEpoch(a)
  BY <1>1, <1>3 DEF CreateReview, ApprovalEpoch
<1>4. CASE \/ \E a \in Approvals : ApprovalStep(a) \/ RemoteApplies(a)
           \/ ForeignPush \/ Crash \/ UNCHANGED vars
           \/ \E r \in Runners, a \in Approvals : Start(r, a)
  BY <1>4 DEF ApprovalStep, RequestApproval, CreateBoundApproval, Approve, DecideApprove, Deny,
     Decide, Expire, RemoteApplies, ForeignPush, Crash, Start, OnlyCall, vars, ApprovalEpoch
<1>5. CASE (MigrateRead \/ MigrationStep) /\ ~CommitMigration
  BY <1>5 DEF MigrationStep, MigrationOnly, MigrateRead, EnterMaintenance, BeginCommit,
     CheckPushing, StaleApprovals, CancelOperations, FailReservations, ExpireCredentials,
     AbortMigration, ApprovalEpoch
<1>6. CASE CommitMigration
  BY <1>6 DEF CommitMigration, ApprovalEpoch
<1> QED
  BY <1>2, <1>3, <1>4, <1>5, <1>6 DEF Next, Work, Environment

LEMMA StoppedStep ==
    ASSUME IInv, ControlStopped, NonePushes, PushingIsOfCurrentEpoch, [Next]_vars
    PROVE  NonePushes' /\ PushingIsOfCurrentEpoch'
<1>1. ASSUME NEW a \in Approvals, op[a] # "PUSHING", op'[a] = "PUSHING"
      PROVE  /\ ApprovalEpoch(a) = epoch /\ UNCHANGED <<epoch, reviewEpoch, migration>>
             /\ migration.pc = "idle"
  <2>1. PICK r \in Runners : ToPushing(r)
    BY <1>1, BecomesPushing
  <2>2. op[a] \in Cancellable
    BY <1>1, BecomesPushing
  <2> QED
    BY <2>1, <2>2 DEF IInv, UsableIsOfCurrentEpoch, ControlStopped, ToPushing, At, OnlyOp
<1>2. NonePushes'
  <2> SUFFICES ASSUME Reached(InTransaction \ {"checkPushing"})', NEW a \in Approvals,
                      op'[a] = "PUSHING"
               PROVE  FALSE
    BY DEF NonePushes
  <2>1. CASE op[a] # "PUSHING"
    BY <1>1, <2>1 DEF Reached, InTransaction
  <2>2. CASE op[a] = "PUSHING"
    <3>1. migration' # migration
      BY <2>2 DEF NonePushes, Reached
    <3>2. CASE \/ MigrateRead \/ EnterMaintenance \/ BeginCommit \/ CheckPushing
               \/ CommitMigration \/ AbortMigration
      <4>1. migration \in MigrationRecord
        BY DEF IInv, TypeOK
      <4>2. ~CheckPushing \/ migration' = IdleMigration
        BY <2>2 DEF CheckPushing
      <4>3. CASE MigrateRead
        BY <4>3 DEF MigrateRead, IdleMigration, Reached, InTransaction
      <4>4. CASE EnterMaintenance
        BY <4>1, <4>4 DEF EnterMaintenance, MigrationRecord, Reached, InTransaction
      <4>5. CASE BeginCommit /\ migration' # IdleMigration
        BY <4>1, <4>5 DEF BeginCommit, MigrationRecord, Reached, InTransaction
      <4>6. CASE migration' = IdleMigration
        BY <4>6 DEF IdleMigration, Reached, InTransaction
      <4> QED
        BY <3>2, <4>2, <4>3, <4>4, <4>5, <4>6 DEF CommitMigration, AbortMigration
    <3>3. CASE StaleApprovals \/ CancelOperations \/ FailReservations \/ ExpireCredentials
      BY <2>2, <3>3 DEF StaleApprovals, CancelOperations, FailReservations, ExpireCredentials,
                        NonePushes, Reached, InTransaction
    <3> QED
      BY <3>1, <3>2, <3>3, MigrationMoves DEF MigrationStep
  <2> QED
    BY <2>1, <2>2
<1>3. ASSUME NEW a \in Approvals, op'[a] = "PUSHING" PROVE ApprovalEpoch(a)' = epoch'
  <2>1. CASE op[a] # "PUSHING"
    BY <1>1, <1>3, <2>1 DEF ApprovalEpoch
  <2>2. CASE op[a] = "PUSHING"
    <3>1. ApprovalEpoch(a) = epoch
      BY <2>2 DEF PushingIsOfCurrentEpoch
    <3>2. epoch' = epoch /\ (ApprovalEpoch(a) # 0 => ApprovalEpoch(a)' = ApprovalEpoch(a))
      BY <2>2, EpochMoves DEF NonePushes, CommitMigration, Reached, InTransaction
    <3>3. epoch # 0
      BY ConstantsAssumption DEF IInv, TypeOK
    <3> QED
      BY <3>1, <3>2, <3>3
  <2> QED
    BY <2>1, <2>2
<1> QED
  BY <1>2, <1>3 DEF PushingIsOfCurrentEpoch

(* With rad-control stopped for the migration, as the operations manual     *)
(* asks, nothing is PUSHING in a later epoch than its review's: the finding *)
(* of write_pushing needs a request that runs while the migration does.     *)
THEOREM StoppedMigrationIsSafe ==
    Spec /\ []ControlStopped => []PushingIsOfCurrentEpoch
<1>1. Init => NonePushes /\ PushingIsOfCurrentEpoch
  BY DEF Init, NonePushes, PushingIsOfCurrentEpoch
<1>2. IInv /\ ControlStopped /\ NonePushes /\ PushingIsOfCurrentEpoch /\ [Next]_vars
        => NonePushes' /\ PushingIsOfCurrentEpoch'
  BY StoppedStep
<1> QED
  BY <1>1, <1>2, Invariance, PTL DEF Spec

-----------------------------------------------------------------------------
(***************************************************************************)
(* GitWrite implements WriteLedger: every step of the pipeline is a step of *)
(* the ledger or leaves it alone, by the inductive invariant before and     *)
(* after the step.                                                          *)
(***************************************************************************)


(* What is told of each state of an operation.                              *)
LEMMA ToldOfStates ==
    /\ ToldOf("none") = "nothing"
    /\ \A s \in Cancellable \cup {"PUSHING"} : ToldOf(s) = "started"
    /\ \A s \in Abandoned : ToldOf(s) = "given up"
    /\ ToldOf("SUCCEEDED") = "written"
    /\ ToldOf("CONFLICT") = "refused"
BY DEF ToldOf, Cancellable, Abandoned

(* A step that changes neither operation, decision nor push, and leaves no  *)
(* credential uncertain, does not touch the ledger.                         *)
LEMMA LedgerRests ==
    ASSUME UNCHANGED <<op, push, approvedBy>>, Doubted' = Doubted
    PROVE  UNCHANGED <<approvedBy, Told, push, Doubted>>
BY DEF Told

LEMMA LedgerInit == Init => Ledger!Init
<1> SUFFICES ASSUME Init PROVE Ledger!Init
  OBVIOUS
<1>1. Told = [a \in Approvals |-> "nothing"]
  BY ToldOfStates DEF Init, Told
<1>2. Doubted = {}
  BY DEF Init, Doubted
<1> QED
  BY <1>1, <1>2 DEF Init, Ledger!Init

(* The lease row moves on: it may end uncertain, and leaves that state      *)
(* never.                                                                   *)
LEMMA LedgerLease ==
    ASSUME IInv, NEW a \in Approvals, NEW to,
           lease[a] # "UNCERTAIN", lease' = [lease EXCEPT ![a] = to],
           UNCHANGED <<op, push, approvedBy>>
    PROVE  Ledger!Doubt(a) \/ UNCHANGED <<approvedBy, Told, push, Doubted>>
<1>1. lease \in [Approvals -> CredentialLeaseState \cup {"none"}]
  BY DEF IInv, TypeOK
<1>2. CASE to = "UNCERTAIN"
  <2>1. Doubted' = Doubted \cup {a}
    BY <1>1, <1>2 DEF Doubted
  <2> QED
    BY <2>1 DEF Ledger!Doubt, Told
<1>3. CASE to # "UNCERTAIN"
  <2>1. Doubted' = Doubted
    BY <1>1, <1>3 DEF Doubted
  <2> QED
    BY <2>1, LedgerRests
<1> QED
  BY <1>2, <1>3

(* An operation moves on: what is told of it changes only with its outcome, *)
(* and the outcome is true because the invariant holds after the step.      *)
LEMMA LedgerOutcome ==
    ASSUME IInv, IInv', NEW a \in Approvals, NEW from, NEW to,
           from # "none", Transition(a, from, to),
           UNCHANGED <<lease, push, approvedBy>>
    PROVE  Ledger!Next \/ UNCHANGED <<approvedBy, Told, push, Doubted>>
<1>1. /\ op \in [Approvals -> GitOperationState \cup {"none"}]
      /\ op[a] = from /\ op' = [op EXCEPT ![a] = to]
      /\ to \in AllowedTransitions[from]
      /\ Doubted' = Doubted
  BY DEF IInv, TypeOK, Transition, CanMove, Doubted
<1>2. from \in GitOperationState
  BY <1>1
<1>3. /\ from \in Cancellable \cup {"PUSHING"}
      /\ to \in Cancellable \cup {"PUSHING", "SUCCEEDED", "CONFLICT"} \cup Abandoned
  BY <1>1, <1>2 DEF AllowedTransitions, Cancellable, Abandoned, GitOperationState
<1>4. Told[a] = "started" /\ Told' = [Told EXCEPT ![a] = ToldOf(to)]
  BY <1>1, <1>3, ToldOfStates DEF Told
<1>5. CASE to \in Cancellable \cup {"PUSHING"}
  BY <1>1, <1>4, <1>5, ToldOfStates DEF Told
<1>6. CASE to = "SUCCEEDED"
  <2>1. push[a] = "applied"
    BY <1>1, <1>6 DEF IInv, DefiniteOutcomesAreTrue
  <2> QED
    BY <1>1, <1>4, <1>6, <2>1, ToldOfStates DEF Ledger!Next, Ledger!TellWritten
<1>7. CASE to = "CONFLICT"
  <2>1. push[a] = "rejected"
    BY <1>1, <1>7 DEF IInv, DefiniteOutcomesAreTrue
  <2> QED
    BY <1>1, <1>4, <1>7, <2>1, ToldOfStates DEF Ledger!Next, Ledger!TellRefused
<1>8. CASE to \in Abandoned
  <2>1. push[a] = "none" \/ a \in Doubted
    BY <1>1, <1>8 DEF IInv, AbandonedWasNeverPushed, Doubted
  <2>2. Told' = [b \in Approvals |-> IF b \in {a} THEN "given up" ELSE Told[b]]
    BY <1>4, <1>8, ToldOfStates DEF Told
  <2>3. Ledger!GiveUp({a})
    BY <1>1, <1>4, <2>1, <2>2 DEF Ledger!GiveUp
  <2> QED
    BY <2>3 DEF Ledger!Next
<1> QED
  BY <1>3, <1>5, <1>6, <1>7, <1>8

(* The operation is created: no other approval of the review was acted on.  *)
LEMMA LedgerStart ==
    ASSUME IInv, IInv', NEW r \in Runners, CreateBoundOperation(r)
    PROVE  Ledger!Next \/ UNCHANGED <<approvedBy, Told, push, Doubted>>
<1> DEFINE a == call[r].approval
<1>1. /\ a \in Approvals
      /\ op \in [Approvals -> GitOperationState \cup {"none"}]
  BY DEF IInv, TypeOK, CallsMatchSteps, CallShape, CreateBoundOperation, At
<1>2. UNCHANGED <<push, approvedBy>> /\ Doubted' = Doubted
  BY DEF CreateBoundOperation, remote, Doubted
<1>3. CASE op' = op
  BY <1>2, <1>3, LedgerRests
<1>4. CASE approval[a] = "APPROVED" /\ op[a] = "none" /\ op' = [op EXCEPT ![a] = "PENDING"]
  <2>1. a \in approvedBy
    BY <1>1, <1>4 DEF IInv, ApprovalsBackOperations
  <2>2. \A b \in Approvals : ReviewOf[b] = ReviewOf[a] => op[b] = "none"
    BY <1>1, <1>4 DEF IInv, ApprovalsBackOperations
  <2>3. \A b \in Approvals : ReviewOf[b] = ReviewOf[a] => Told[b] = "nothing"
    BY <2>2, ToldOfStates DEF Told
  <2>4. Told' = [Told EXCEPT ![a] = "started"]
    BY <1>1, <1>4, ToldOfStates DEF Told, Cancellable
  <2>5. Ledger!Start(a)
    BY <1>2, <2>1, <2>3, <2>4 DEF Ledger!Start
  <2> QED
    BY <1>1, <2>5 DEF Ledger!Next
<1> QED
  BY <1>3, <1>4 DEF CreateBoundOperation

(* The push goes out under a PUSHING operation that has not pushed yet.     *)
LEMMA LedgerWrite ==
    ASSUME IInv, NEW r \in Runners, SendPush(r)
    PROVE  Ledger!Next
<1> DEFINE a == call[r].approval
<1>1. /\ a \in Approvals
      /\ call[r].pc = "push" /\ call[r].op = "PUSHING"
  BY DEF IInv, CallsMatchSteps, CallShape, SendPush, At, OwnsPush
<1>2. op[a] = "PUSHING" /\ push[a] = "none"
  BY <1>1 DEF IInv, RunnersKnowRows, KnowsRows
<1>3. Told[a] = "started"
  BY <1>1, <1>2, ToldOfStates DEF Told
<1>4. /\ push' = [push EXCEPT ![a] = "sent"]
      /\ UNCHANGED <<approvedBy, Told, Doubted>>
  BY DEF SendPush, database, Told, Doubted
<1>5. Ledger!Write(a)
  BY <1>2, <1>3, <1>4 DEF Ledger!Write
<1> QED
  BY <1>1, <1>5 DEF Ledger!Next

(* Every step of a runner keeps the ledger.                                 *)
LEMMA LedgerRunner ==
    ASSUME IInv, IInv', NEW r \in Runners, RunnerStep(r)
    PROVE  Ledger!Next \/ UNCHANGED <<approvedBy, Told, push, Doubted>>
<1> DEFINE a == call[r].approval
<1>1. call[r] \in Call /\ (call[r].pc # "idle" => a \in Approvals)
  BY DEF IInv, TypeOK, CallsMatchSteps, CallShape
<1>2. CASE \/ LoadApproval(r) \/ FindOperation(r) \/ ObserveRemoteHead(r)
           \/ CheckUsable(r)  \/ Revalidate(r)    \/ Prepare(r) \/ Issue(r)
           \/ Recheck(r)      \/ PushReturns(r)   \/ CreatePullRequest(r)
  <2>1. OnlyCall
    BY <1>2 DEF LoadApproval, FindOperation, ObserveRemoteHead, CheckUsable,
         Revalidate, Prepare, Issue, Recheck, PushReturns, CreatePullRequest
  <2> QED
    BY <2>1, LedgerRests DEF OnlyCall, database, remote, Doubted
<1>3. CASE CreateBoundOperation(r)
  BY <1>3, LedgerStart
<1>4. CASE SendPush(r)
  BY <1>4, LedgerWrite
<1>5. CASE \/ ToValidating(r) \/ ToWaiting(r) \/ Reject(r) \/ ToPushing(r)
           \/ ToSucceeded(r)  \/ RecordOutcome(r)
  <2>1. /\ a \in Approvals /\ OnlyOp
        /\ op' = op \/ \E from, to : from # "none" /\ Transition(a, from, to)
    BY <1>1, <1>5 DEF ToValidating, ToWaiting, Reject, ToPushing, ToSucceeded,
         RecordOutcome, OutcomeFrom, TransitionConflict, At
  <2>2. UNCHANGED <<lease, push, approvedBy>>
    BY <2>1 DEF OnlyOp, remote
  <2>3. CASE op' = op
    BY <2>2, <2>3, LedgerRests DEF Doubted
  <2>4. ASSUME NEW from, NEW to, from # "none", Transition(a, from, to)
        PROVE  Ledger!Next \/ UNCHANGED <<approvedBy, Told, push, Doubted>>
    BY <2>1, <2>2, <2>4, LedgerOutcome
  <2> QED
    BY <2>1, <2>3, <2>4
<1>6. CASE Reserve(r) \/ MarkIssued(r) \/ MarkConsumed(r) \/ SettleLease(r)
  <2>1. a \in Approvals /\ OnlyLease
    BY <1>1, <1>6 DEF Reserve, MarkIssued, MarkConsumed, SettleLease, At
  <2>2. UNCHANGED <<op, push, approvedBy>>
    BY <2>1 DEF OnlyLease, remote
  <2>3. \/ lease' = lease
        \/ lease[a] # "UNCERTAIN" /\ \E to : lease' = [lease EXCEPT ![a] = to]
    BY <1>6 DEF Reserve, Reservable, MarkIssued, MarkConsumed, SettleLease,
         SettleFrom, LeaseTransition, LeaseConflict
  <2>4. CASE lease' = lease
    BY <2>2, <2>4, LedgerRests DEF Doubted
  <2>5. ASSUME NEW to, lease[a] # "UNCERTAIN", lease' = [lease EXCEPT ![a] = to]
        PROVE  Ledger!Next \/ UNCHANGED <<approvedBy, Told, push, Doubted>>
    BY <2>1, <2>2, <2>5, LedgerLease DEF Ledger!Next
  <2> QED
    BY <2>3, <2>4, <2>5
<1> QED
  BY <1>2, <1>3, <1>4, <1>5, <1>6 DEF RunnerStep

(* A human decides; a PENDING approval of the epoch has no operation yet.   *)
LEMMA LedgerApprove ==
    ASSUME IInv, NEW a \in Approvals, NEW decision, Decide(a, decision)
    PROVE  Ledger!Next \/ UNCHANGED <<approvedBy, Told, push, Doubted>>
<1>1. UNCHANGED <<op, push>> /\ Doubted' = Doubted /\ Told' = Told
  BY DEF Decide, remote, Doubted, Told
<1>2. CASE approvedBy' = approvedBy
  BY <1>1, <1>2
<1>3. CASE approval[a] = "PENDING" /\ ApprovalEpoch(a) = epoch
             /\ approvedBy' = approvedBy \cup {a}
  <2>1. op[a] = "none"
    <3>1. epoch \in Nat
      BY DEF IInv, TypeOK
    <3> QED
      BY <1>3, <3>1 DEF IInv, ApprovalsBackOperations
  <2>2. Told[a] = "nothing"
    BY <2>1, ToldOfStates DEF Told
  <2> QED
    BY <1>1, <1>3, <2>2 DEF Ledger!Next, Ledger!Approve
<1> QED
  BY <1>2, <1>3 DEF Decide

(* The migration gives up what had not been written.                        *)
LEMMA LedgerMigration ==
    ASSUME IInv, CommitMigration
    PROVE  Ledger!Next
<1>1. /\ migration.ops = {a \in Approvals : op[a] \in Cancellable}
      /\ migration.failed = {a \in Approvals : lease[a] = "RESERVED"}
      /\ migration.expired = {a \in Approvals : lease[a] = "ISSUED"}
  BY DEF IInv, MigrationLocks, CommitMigration, Reached
<1>2. Doubted' = Doubted
  BY <1>1 DEF CommitMigration, Doubted
<1>3. Told' = [a \in Approvals |-> IF a \in migration.ops THEN "given up" ELSE Told[a]]
  <2>1. op' = [a \in Approvals |-> IF a \in migration.ops THEN "CANCELLED" ELSE op[a]]
    BY DEF CommitMigration
  <2> QED
    BY <2>1, ToldOfStates DEF Told, Abandoned
<1>4. \A a \in migration.ops : Told[a] = "started" /\ push[a] = "none"
  BY <1>1, ToldOfStates DEF Told, IInv, PushesAreOwned, Cancellable
<1>5. Ledger!GiveUp(migration.ops)
  BY <1>2, <1>3, <1>4 DEF Ledger!GiveUp, CommitMigration, remote
<1> QED
  BY <1>1, <1>5 DEF Ledger!Next

(* The remote answers, or another writer moves the branch.                  *)
LEMMA LedgerRemote ==
    ASSUME IInv, ForeignPush \/ \E a \in Approvals : RemoteApplies(a)
    PROVE  Ledger!Next \/ UNCHANGED <<approvedBy, Told, push, Doubted>>
<1>1. UNCHANGED <<op, lease, approvedBy>> /\ Doubted' = Doubted /\ Told' = Told
  BY DEF ForeignPush, RemoteApplies, database, Doubted, Told
<1>2. CASE ForeignPush
  BY <1>1, <1>2 DEF ForeignPush
<1>3. ASSUME NEW a \in Approvals, RemoteApplies(a) PROVE Ledger!Next
  <2>1. push[a] = "sent" /\ \E s \in {"applied", "rejected"} :
                              push' = [push EXCEPT ![a] = s]
    BY <1>3 DEF RemoteApplies
  <2> QED
    BY <1>1, <2>1 DEF Ledger!Next, Ledger!Answer
<1> QED
  BY <1>2, <1>3

LEMMA LedgerStep ==
    ASSUME IInv, IInv', [Next]_vars
    PROVE  Ledger!Next \/ UNCHANGED <<approvedBy, Told, push, Doubted>>
<1>1. CASE \/ UNCHANGED vars
           \/ \E v \in Reviews : CreateReview(v)
           \/ \E a \in Approvals : \/ RequestApproval(a) \/ CreateBoundApproval(a)
                                   \/ Approve(a) \/ Expire(a)
           \/ \E r \in Runners, a \in Approvals : Start(r, a)
           \/ (MigrateRead \/ MigrationStep) /\ ~CommitMigration
           \/ Crash
  <2>1. UNCHANGED <<op, lease, push, approvedBy>>
    BY <1>1 DEF vars, database, remote, CreateReview, RequestApproval,
         CreateBoundApproval, Approve, Expire, Start, OnlyCall, MigrateRead,
         MigrationStep, MigrationOnly, EnterMaintenance, BeginCommit, CheckPushing,
         StaleApprovals, CancelOperations, FailReservations, ExpireCredentials,
         AbortMigration, Crash
  <2> QED
    BY <2>1, LedgerRests DEF Doubted
<1>2. ASSUME NEW r \in Runners, RunnerStep(r)
      PROVE  Ledger!Next \/ UNCHANGED <<approvedBy, Told, push, Doubted>>
  BY <1>2, LedgerRunner
<1>3. ASSUME NEW a \in Approvals, DecideApprove(a) \/ Deny(a)
      PROVE  Ledger!Next \/ UNCHANGED <<approvedBy, Told, push, Doubted>>
  BY <1>3, LedgerApprove DEF DecideApprove, Deny
<1>4. CASE ForeignPush \/ \E a \in Approvals : RemoteApplies(a)
  BY <1>4, LedgerRemote
<1>5. CASE CommitMigration
  BY <1>5, LedgerMigration
<1> QED
  BY <1>1, <1>2, <1>3, <1>4, <1>5 DEF Next, Work, Environment, ApprovalStep

(* GitWrite implements WriteLedger, for every number of reviews, approvals, *)
(* requests and epochs.                                                     *)
THEOREM WriteImplementsLedger == Spec => LedgerKept
<1>1. IInv /\ IInv' /\ [Next]_vars => [Ledger!Next]_(<<approvedBy, Told, push, Doubted>>)
  BY LedgerStep
<1> QED
  BY <1>1, LedgerInit, Invariance, PTL DEF Spec, LedgerKept, Ledger!Spec, Ledger!vars

=============================================================================
