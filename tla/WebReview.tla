------------------------------ MODULE WebReview ------------------------------
(* The review card of one browser session (apps/web/src/app.tsx): four calls  *)
(* of the HTTP API, each with a button that starts it and a handler that      *)
(* stores its answer, while others decide and expire the same approvals.  The *)
(* page keeps what it was last given; nothing orders the answers.             *)
EXTENDS FiniteSets

CONSTANTS
  Review,      (* the review snapshots that validations make                  *)
  Approval,    (* the approval requests of the database                       *)
  None

VARIABLES
  review,      (* the review the page shows                                   *)
  approval,    (* the approval it shows, with the status it had               *)
  operation,   (* the approval whose Git operation it shows                   *)
  call,        (* the mutations, and what was clicked for the one in flight   *)
  maintenance, (* as it was last polled, and true before                      *)
  reviews,     (* the reviews in the database                                 *)
  about,       (* the review each approval is for, None before the request    *)
  status       (* the status of each approval                                 *)

page == <<review, approval, operation, maintenance>>
database == <<reviews, about, status>>
vars == <<page, call, database>>

Mutation == {"validation", "approvalRequest", "approvalDecision", "operationStart"}
Idle == [at |-> "idle"]
Sent(subject, decision) == [at |-> "sent", of |-> subject, decision |-> decision]
Answered(result) == [at |-> "answered", result |-> result]
Pending(m) == call[m].at # "idle"

NoApproval == [id |-> None, status |-> "none"]
Seen(a, s) == [id |-> a, status |-> s]

Init ==
  /\ review = None /\ approval = NoApproval /\ operation = None
  /\ maintenance = TRUE
  /\ call = [m \in Mutation |-> Idle]
  /\ reviews = {}
  /\ about = [a \in Approval |-> None]
  /\ status = [a \in Approval |-> "none"]

-----------------------------------------------------------------------------
(* The buttons *)

(* isPending of the card: it does not look at the validation, whose button    *)
(* does not look at the card.                                                 *)
CardPending ==
  maintenance \/ \E m \in Mutation \ {"validation"} : Pending(m)

Click(m, subject, decision) ==
  /\ call' = [call EXCEPT ![m] = Sent(subject, decision)]
  /\ UNCHANGED <<page, database>>

CaptureAndValidate ==
  /\ ~maintenance
  /\ ~Pending("validation")
  /\ Click("validation", None, "none")

RequestApproval ==
  /\ review # None /\ ~CardPending
  /\ approval.status \in {"none", "DENIED", "STALE"}
  /\ Click("approvalRequest", review, "none")

(* "Approve reviewed digest" and "Deny". *)
CanDecide == review # None /\ ~CardPending /\ approval.status = "PENDING"

DecideApproval ==
  /\ CanDecide
  /\ \E d \in {"APPROVED", "DENIED"} : Click("approvalDecision", approval.id, d)

CreatePullRequest ==
  /\ review # None /\ ~CardPending
  /\ approval.status = "APPROVED" /\ operation = None
  /\ Click("operationStart", approval.id, "none")

-----------------------------------------------------------------------------
(* rad-control *)

Serve(m, result) ==
  /\ call' = [call EXCEPT ![m] = Answered(result)]
  /\ UNCHANGED page

ServeValidation ==
  /\ call["validation"].at = "sent"
  /\ \E v \in Review \ reviews :
       /\ reviews' = reviews \cup {v}
       /\ Serve("validation", v)
  /\ UNCHANGED <<about, status>>

Active(a) == status[a] \in {"PENDING", "APPROVED"}

(* A review has one active approval, and a new one only without it.           *)
ServeRequest ==
  LET v == call["approvalRequest"].of
      active == {a \in Approval : about[a] = v /\ Active(a)}
  IN
  /\ call["approvalRequest"].at = "sent"
  /\ \/ \E a \in active : Serve("approvalRequest", Seen(a, status[a])) /\ UNCHANGED database
     \/ /\ active = {}
        /\ \E a \in Approval :
             /\ about[a] = None
             /\ about' = [about EXCEPT ![a] = v]
             /\ status' = [status EXCEPT ![a] = "PENDING"]
             /\ Serve("approvalRequest", Seen(a, "PENDING"))
        /\ UNCHANGED reviews

(* A decision of an approval that expired, or whose epoch is over, makes it   *)
(* STALE instead.                                                             *)
Decided(a, s) ==
  /\ status[a] = "PENDING"
  /\ status' = [status EXCEPT ![a] = s]

ServeDecision ==
  LET a == call["approvalDecision"].of IN
  /\ call["approvalDecision"].at = "sent"
  /\ \E s \in {call["approvalDecision"].decision, "STALE"} :
       Decided(a, s) /\ Serve("approvalDecision", Seen(a, s))
  /\ UNCHANGED <<reviews, about>>

ServeStart ==
  LET a == call["operationStart"].of IN
  /\ call["operationStart"].at = "sent"
  /\ status[a] = "APPROVED"
  /\ Serve("operationStart", a)
  /\ UNCHANGED database

(* A decision in Discord.                                                     *)
DecidedElsewhere ==
  /\ \E a \in Approval, s \in {"APPROVED", "DENIED", "STALE"} : Decided(a, s)
  /\ UNCHANGED <<page, call, reviews, about>>

(* A security migration.                                                      *)
Migrated ==
  /\ status' = [a \in Approval |-> IF Active(a) THEN "STALE" ELSE status[a]]
  /\ UNCHANGED <<page, call, reviews, about>>

-----------------------------------------------------------------------------
(* The answers *)

Receive(m) ==
  /\ call[m].at = "answered"
  /\ call' = [call EXCEPT ![m] = Idle]
  /\ UNCHANGED <<maintenance, database>>

ReviewArrives ==
  /\ Receive("validation")
  /\ review' = call["validation"].result
  /\ approval' = NoApproval
  /\ operation' = None

ApprovalArrives ==
  /\ \E m \in {"approvalRequest", "approvalDecision"} :
       Receive(m) /\ approval' = call[m].result
  /\ UNCHANGED <<review, operation>>

OperationArrives ==
  /\ Receive("operationStart")
  /\ operation' = call["operationStart"].result
  /\ UNCHANGED <<review, approval>>

(* A call is refused, or fails with its effect done or not: the page shows    *)
(* the error and keeps the rest.                                              *)
CallFails(m) ==
  /\ Pending(m)
  /\ call' = [call EXCEPT ![m] = Idle]
  /\ UNCHANGED <<page, database>>

PollSecurityStatus ==
  /\ maintenance' \in BOOLEAN
  /\ UNCHANGED <<review, approval, operation, call, database>>

Next ==
  \/ CaptureAndValidate \/ RequestApproval \/ DecideApproval \/ CreatePullRequest
  \/ ServeValidation \/ ServeRequest \/ ServeDecision \/ ServeStart
  \/ DecidedElsewhere \/ Migrated
  \/ ReviewArrives \/ ApprovalArrives \/ OperationArrives
  \/ \E m \in Mutation : CallFails(m)
  \/ PollSecurityStatus

Spec == Init /\ [][Next]_vars

-----------------------------------------------------------------------------
(* Properties *)

(* "Approve reviewed digest": what the button approves is the review whose    *)
(* digest the page shows.                                                     *)
ApprovesReviewedDigest == CanDecide => about[approval.id] = review
=============================================================================
