----------------------------- MODULE MCGitWrite -----------------------------
(* Small instances of GitWrite for TLC.                                     *)
EXTENDS GitWrite, TLC

CONSTANTS a1, a2, v1, v2, r1, r2

(* Every approval is for the first review: a review can be approved again   *)
(* once its previous approval is no longer active.                          *)
OneReview == [a \in Approvals |-> v1]

(* The liveness instance starts where the race starts: with an approval.    *)
ApprovedInit ==
    /\ epoch = 1 /\ maintenance = FALSE
    /\ reviewEpoch = [v \in Reviews |-> 1]
    /\ approval = [a \in Approvals |-> "APPROVED"]
    /\ approvedBy = Approvals
    /\ expired = {} /\ asking = {} /\ approving = {}
    /\ op = [a \in Approvals |-> "none"]
    /\ opHead = [a \in Approvals |-> "absent"]
    /\ lease = [a \in Approvals |-> "none"]
    /\ call = [r \in Runners |-> IdleCall]
    /\ head = "absent"
    /\ push = [a \in Approvals |-> "none"]
    /\ pushes = [a \in Approvals |-> 0]
    /\ migration = IdleMigration

(* Bound: while there is one approval, others leave the branch alone once   *)
(* the remote has answered its push; nothing looks at the branch after it.  *)
Asked == {a \in Approvals : approval[a] # "none" \/ a \in asking}
BranchRests ==
    /\ Cardinality(Asked) <= 1
    /\ \E a \in Approvals : push[a] \in {"applied", "rejected"}
    => head' = head

LiveFromApproved == ApprovedInit /\ [][Work /\ BranchRests]_vars /\ Fairness

Symmetry == Permutations(Runners) \cup Permutations(Approvals)

(* Bound: two requests race for one approval of the first epoch, or one     *)
(* request at a time, to approve or to start, serves two approvals of the   *)
(* review, of which one may expire, and others at most delete the branch.   *)
Busy == {r \in Runners : ~At(r, "idle")}
TwoRequestsOrTwoApprovals ==
    \/ Cardinality(Asked) <= 1 /\ \A v \in Reviews : reviewEpoch[v] <= 1
    \/ Cardinality(Asked) <= 1 /\ Cardinality(Busy) <= 1
    \/ /\ Cardinality(Busy) + Cardinality(approving) <= 1
       /\ Cardinality(expired) <= 1
       /\ head # "foreign"

=============================================================================
