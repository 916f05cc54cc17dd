--------------------------- MODULE WebReviewProofs ---------------------------
(* When the review card of the page comes to approve something else than it   *)
(* shows: in the steps in which a new review overtakes a call for an approval *)
(* and in no others.                                                          *)
EXTENDS WebReview, TLAPS

(* The approvals that are for the review on the page.                         *)
Its(a) == a \in Approval /\ review # None /\ about[a] = review

(* The approval on the page is for the review beside it.                      *)
Beside == approval.status # "none" => Its(approval.id)

(* A call for an approval is about that review too, and so is its answer.     *)
Request ==
  LET c == call["approvalRequest"] IN
  /\ c.at = "sent" => c.of = review /\ review # None
  /\ c.at = "answered" => Its(c.result.id)
Decision ==
  LET c == call["approvalDecision"] IN
  /\ c.at = "sent" => Its(c.of)
  /\ c.at = "answered" => Its(c.result.id)

Together == Beside /\ Request /\ Decision

(* A new review is shown while a call for an approval is in flight.           *)
CardCalls == Pending("approvalRequest") \/ Pending("approvalDecision")
Overtakes == review' # review /\ CardCalls

-----------------------------------------------------------------------------
(* What holds whether or not the page is of one review.                       *)
Shape ==
  /\ call = [m \in Mutation |-> call[m]]
  /\ \A m \in Mutation : call[m].at \in {"idle", "sent", "answered"}
  /\ about \in [Approval -> Review \cup {None}]
  /\ review \in Review \cup {None}
  /\ call["validation"].at = "answered" => call["validation"].result \in Review
  /\ call["approvalRequest"].at = "sent" => call["approvalRequest"].of \in Review

(* The reviews that page and approvals know of are in the database.           *)
Known ==
  /\ review \in reviews \cup {None}
  /\ \A a \in Approval : about[a] \in reviews \cup {None}
  /\ call["approvalRequest"].at = "sent" => call["approvalRequest"].of \in reviews

(* The review of an answer is in the database, and nothing knows of it.       *)
New ==
  call["validation"].at = "answered" =>
    LET v == call["validation"].result IN
    /\ v \in reviews
    /\ \A a \in Approval : about[a] # v
    /\ review # v
    /\ call["approvalRequest"].at = "sent" => call["approvalRequest"].of # v

Inv == Shape /\ Known /\ New

LEMMA PageInit == Init => Inv /\ Together
  BY DEF Init, Inv, Shape, Known, New, Together, Beside, Request, Decision, Its, Mutation,
         Idle, NoApproval

(* An approval does not change the review it is for, so that what was of the  *)
(* review on the page stays so while the page keeps it.                       *)
LEMMA ItsStays ==
  ASSUME Shape, NEW a, Its(a), review' = review,
         \/ about' = about
         \/ \E b \in Approval : \E v : about[b] = None /\ about' = [about EXCEPT ![b] = v]
  PROVE Its(a)'
  BY DEF Its, Shape

-----------------------------------------------------------------------------
(* A click sends what the page shows.                                         *)
LEMMA ClickKeeps ==
  ASSUME Inv, CaptureAndValidate \/ RequestApproval \/ DecideApproval \/ CreatePullRequest
  PROVE  Inv' /\ review' = review /\ (Together => Together')
<1>1. CASE CaptureAndValidate
  BY <1>1 DEF Inv, Shape, Known, New, Together, Beside, Request, Decision, Its, Mutation,
              CaptureAndValidate, Click, Sent, page, database
<1>2. CASE RequestApproval
  <2>1. call' = [call EXCEPT !["approvalRequest"] =
                   [at |-> "sent", of |-> review, decision |-> "none"]]
    BY <1>2 DEF RequestApproval, Click, Sent
  <2>2. review # None /\ UNCHANGED <<page, database>>
    BY <1>2 DEF RequestApproval, Click
  <2>3. Inv'
    BY <2>1, <2>2 DEF Inv, Shape, Known, New, Mutation, page, database
  <2>4. Together => Together'
    BY <2>1, <2>2 DEF Inv, Shape, Together, Beside, Request, Decision, Its, Mutation,
                      page, database
  <2> QED BY <2>2, <2>3, <2>4 DEF page
<1>3. CASE DecideApproval
  <2>1. Together => Its(approval.id)
    BY <1>3 DEF DecideApproval, CanDecide, Together, Beside
  <2>2. PICK d \in {"APPROVED", "DENIED"} : Click("approvalDecision", approval.id, d)
    BY <1>3 DEF DecideApproval
  <2>3. call' = [call EXCEPT !["approvalDecision"] =
                   [at |-> "sent", of |-> approval.id, decision |-> d]]
    BY <2>2 DEF Click, Sent
  <2>4. UNCHANGED <<page, database>>
    BY <2>2 DEF Click
  <2>5. Inv'
    BY <2>3, <2>4 DEF Inv, Shape, Known, New, Mutation, page, database
  <2>6. Together => Together'
    BY <2>1, <2>3, <2>4
    DEF Inv, Shape, Together, Beside, Request, Decision, Its, Mutation, page, database
  <2> QED BY <2>4, <2>5, <2>6 DEF page
<1>4. CASE CreatePullRequest
  BY <1>4 DEF Inv, Shape, Known, New, Together, Beside, Request, Decision, Its, Mutation,
              CreatePullRequest, Click, Sent, page, database
<1> QED BY <1>1, <1>2, <1>3, <1>4

(* rad-control answers with an approval of the review that was asked about,   *)
(* with the one that was decided, or with a review that is new.               *)
LEMMA ServeKeeps ==
  ASSUME None \notin Review,
         Inv, ServeValidation \/ ServeRequest \/ ServeDecision \/ ServeStart
  PROVE  Inv' /\ review' = review /\ (Together => Together')
<1>1. CASE ServeValidation
  <2>1. PICK r \in Review \ reviews : Serve("validation", r) /\ reviews' = reviews \cup {r}
    BY <1>1 DEF ServeValidation
  <2>2. call' = [call EXCEPT !["validation"] = [at |-> "answered", result |-> r]]
    BY <2>1 DEF Serve, Answered
  <2>3. UNCHANGED <<page, about>>
    BY <1>1, <2>1 DEF ServeValidation, Serve
  <2>4. Inv'
    BY <2>1, <2>2, <2>3 DEF Inv, Shape, Known, New, Mutation, page
  <2>5. Together => Together'
    BY <2>2, <2>3 DEF Inv, Shape, Together, Beside, Request, Decision, Its, Mutation, page
  <2> QED BY <2>3, <2>4, <2>5 DEF page
<1>2. CASE ServeRequest
  <2> DEFINE v == call["approvalRequest"].of
  <2>1. /\ v \in Review /\ v \in reviews
        /\ call["validation"].at = "answered" => v # call["validation"].result
    BY <1>2 DEF ServeRequest, Inv, Shape, Known, New
  <2>t. Together => v = review
    BY <1>2 DEF ServeRequest, Together, Request
  <2> DEFINE Served(a, s) ==
               /\ Serve("approvalRequest", Seen(a, s))
               /\ \/ about' = about /\ about[a] = v
                  \/ about[a] = None /\ about' = [about EXCEPT ![a] = v]
  <2>0. PICK a \in Approval : \E s : Served(a, s)
    BY <1>2 DEF ServeRequest, database
  <2>2. PICK s : Served(a, s)
    BY <2>0
  <2>3. review' = review /\ approval' = approval /\ reviews' = reviews
    BY <1>2, <2>2 DEF ServeRequest, Serve, page, database
  <2>4. call' = [call EXCEPT !["approvalRequest"] = [at |-> "answered", result |-> [id |-> a, status |-> s]]]
    BY <2>2 DEF Serve, Answered, Seen
  <2>5. about'[a] = v
    BY <2>2 DEF Inv, Shape
  <2>6. \A b : Its(b) => Its(b)'
    BY <2>2, <2>3, ItsStays DEF Inv
  <2>7. /\ about' \in [Approval -> Review \cup {None}]
        /\ \A b \in Approval : about'[b] = about[b] \/ about'[b] = v
    BY <2>1, <2>2 DEF Inv, Shape
  <2>8. /\ call' = [m \in Mutation |-> call'[m]]
        /\ call'["validation"] = call["validation"]
        /\ call'["approvalDecision"] = call["approvalDecision"]
        /\ call'["approvalRequest"] = [at |-> "answered", result |-> [id |-> a, status |-> s]]
        /\ \A m \in Mutation : call'[m].at \in {"idle", "sent", "answered"}
    BY <2>4 DEF Inv, Shape, Mutation
  <2> HIDE DEF v, Served
  <2>9. Inv'
    BY <2>1, <2>3, <2>7, <2>8 DEF Inv, Shape, Known, New
  <2>10. ASSUME Together PROVE Together'
    <3>1. Its(a)'
      BY <2>1, <2>3, <2>5, <2>t, <2>10 DEF Its
    <3> QED
      BY <2>3, <2>6, <2>8, <2>10, <3>1 DEF Together, Beside, Request, Decision
  <2> QED BY <2>3, <2>9, <2>10
<1>3. CASE ServeDecision
  <2> DEFINE a == call["approvalDecision"].of
  <2>1. Together => Its(a)
    BY <1>3 DEF ServeDecision, Together, Decision
  <2>2. PICK s : Serve("approvalDecision", Seen(a, s))
    BY <1>3 DEF ServeDecision
  <2>3. call' = [call EXCEPT !["approvalDecision"] =
                   [at |-> "answered", result |-> [id |-> a, status |-> s]]]
    BY <2>2 DEF Serve, Answered, Seen
  <2>4. UNCHANGED <<page, about, reviews>>
    BY <1>3, <2>2 DEF ServeDecision, Serve
  <2> HIDE DEF a
  <2>5. Inv'
    BY <2>3, <2>4 DEF Inv, Shape, Known, New, Mutation, page
  <2>6. Together => Together'
    BY <2>1, <2>3, <2>4
    DEF Inv, Shape, Together, Beside, Request, Decision, Its, Mutation, page
  <2> QED BY <2>4, <2>5, <2>6 DEF page
<1>4. CASE ServeStart
  BY <1>4 DEF Inv, Shape, Known, New, Together, Beside, Request, Decision, Its, Mutation,
              ServeStart, Serve, Answered, page, database
<1> QED BY <1>1, <1>2, <1>3, <1>4

(* A review that arrives is one that no approval and no request knows of, so  *)
(* that whatever is in flight for an approval is of another.                  *)
LEMMA ReviewArrivesTogether ==
  ASSUME None \notin Review, Inv, ReviewArrives
  PROVE  Inv' /\ review' # review /\ (Together' <=> ~CardCalls)
<1> DEFINE v == call["validation"].result
<1>1. /\ call["validation"].at = "answered"
      /\ call' = [call EXCEPT !["validation"] = Idle]
      /\ review' = v /\ approval' = NoApproval
      /\ UNCHANGED <<reviews, about, status>>
  BY DEF ReviewArrives, Receive, database
<1>2. /\ v \in Review /\ v \in reviews /\ v # None /\ review # v
      /\ \A a \in Approval : about[a] # v
      /\ call["approvalRequest"].at = "sent" => call["approvalRequest"].of # v
  BY <1>1 DEF Inv, Shape, New
<1>3. /\ call' = [m \in Mutation |-> call'[m]]
      /\ \A m \in Mutation : call[m].at \in {"idle", "sent", "answered"}
      /\ \A m \in Mutation : call'[m] = IF m = "validation" THEN Idle ELSE call[m]
      /\ call'["validation"] = Idle
      /\ call'["approvalRequest"] = call["approvalRequest"]
      /\ call'["approvalDecision"] = call["approvalDecision"]
  BY <1>1 DEF Inv, Shape, Mutation
<1> HIDE DEF v
<1>4. Inv'
  BY <1>1, <1>2, <1>3 DEF Inv, Shape, Known, New, Idle
<1>5. \A a : ~Its(a)'
  BY <1>1, <1>2 DEF Its
<1>6. Together' <=> ~CardCalls
  <2>1. Beside'
    BY <1>1 DEF Beside, NoApproval
  <2>2. Request' => call["approvalRequest"].at \notin {"sent", "answered"}
    BY <1>1, <1>2, <1>3, <1>5 DEF Request
  <2>3. Decision' => call["approvalDecision"].at \notin {"sent", "answered"}
    BY <1>3, <1>5 DEF Decision
  <2>4. call["approvalRequest"].at = "idle" => Request'
    BY <1>3 DEF Request
  <2>5. call["approvalDecision"].at = "idle" => Decision'
    BY <1>3 DEF Decision
  <2> QED BY <1>3, <2>1, <2>2, <2>3, <2>4, <2>5 DEF Together, CardCalls, Pending, Mutation
<1> QED BY <1>1, <1>2, <1>4, <1>6

(* The other answers are kept beside the review they are for.                 *)
LEMMA ReceiveKeeps ==
  ASSUME Inv, ApprovalArrives \/ OperationArrives
  PROVE  Inv' /\ review' = review /\ (Together => Together')
<1>2. CASE ApprovalArrives
  <2>1. PICK m \in {"approvalRequest", "approvalDecision"} :
          Receive(m) /\ approval' = call[m].result
    BY <1>2 DEF ApprovalArrives
  <2>2. Together => Its(call[m].result.id)
    BY <2>1 DEF Receive, Together, Request, Decision
  <2>3. /\ call' = [call EXCEPT ![m] = Idle]
        /\ UNCHANGED <<review, reviews, about>>
    BY <1>2, <2>1 DEF ApprovalArrives, Receive, database
  <2>4. Inv'
    BY <2>3 DEF Inv, Shape, Known, New, Mutation, Idle
  <2>5. Together => Together'
    BY <2>1, <2>2, <2>3 DEF Inv, Shape, Together, Beside, Request, Decision, Its, Mutation, Idle
  <2> QED BY <2>3, <2>4, <2>5
<1>3. CASE OperationArrives
  BY <1>3 DEF Inv, Shape, Known, New, Together, Beside, Request, Decision, Its, Mutation,
              OperationArrives, Receive, Idle, database
<1> QED BY <1>2, <1>3

LEMMA OthersKeep ==
  ASSUME Inv,
         \/ DecidedElsewhere \/ Migrated \/ PollSecurityStatus
         \/ \E m \in Mutation : CallFails(m)
         \/ UNCHANGED vars
  PROVE  Inv' /\ review' = review /\ (Together => Together')
<1>1. CASE DecidedElsewhere \/ Migrated \/ PollSecurityStatus \/ UNCHANGED vars
  BY <1>1 DEF Inv, Shape, Known, New, Together, Beside, Request, Decision, Its, Mutation,
              DecidedElsewhere, Migrated, PollSecurityStatus, page, database, vars
<1>2. ASSUME NEW m \in Mutation, CallFails(m)
      PROVE  Inv' /\ review' = review /\ (Together => Together')
  BY <1>2 DEF Inv, Shape, Known, New, Together, Beside, Request, Decision, Its, Mutation,
              CallFails, Idle, page, database
<1> QED BY <1>1, <1>2

LEMMA PageStep ==
  ASSUME None \notin Review, Inv, [Next]_vars
  PROVE  /\ Inv'
         /\ Together /\ ~Together' => Overtakes
         /\ review' # review => (Together' <=> ~Overtakes)
<1>1. CASE ReviewArrives
  <2>1. Inv' /\ review' # review /\ (Together' <=> ~CardCalls)
    BY <1>1, ReviewArrivesTogether
  <2>2. Overtakes <=> CardCalls
    BY <2>1 DEF Overtakes
  <2> QED BY <2>1, <2>2
<1>2. CASE [Next]_vars /\ ~ReviewArrives
  <2>1. Inv' /\ review' = review /\ (Together => Together')
    BY <1>2, ClickKeeps, ServeKeeps, ReceiveKeeps, OthersKeep DEF Next
  <2> QED BY <2>1
<1> QED BY <1>1, <1>2

-----------------------------------------------------------------------------
(* What lets "Approve reviewed digest" approve another review than the page   *)
(* shows, and what ends it.  While the page and its calls are of one review   *)
(* the button approves that review.  They come apart in no step but one in    *)
(* which a new review overtakes a call for an approval, which the two groups  *)
(* of buttons allow (app.tsx:98-112, 272, 288-293); every such step takes     *)
(* them apart, and every other new review puts them together again.           *)
THEOREM ApartByOvertaking ==
  ASSUME None \notin Review
  PROVE  Spec => /\ [](Together => ApprovesReviewedDigest)
                 /\ [][/\ Together /\ ~Together' => Overtakes
                       /\ review' # review => (Together' <=> ~Overtakes)]_vars
<1>1. Together => ApprovesReviewedDigest
  BY DEF Together, Beside, Its, ApprovesReviewedDigest, CanDecide
<1>2. Inv /\ [Next]_vars =>
        /\ Inv'
        /\ [/\ Together /\ ~Together' => Overtakes
            /\ review' # review => (Together' <=> ~Overtakes)]_vars
  BY PageStep
<1> QED
  BY PageInit, <1>1, <1>2, PTL DEF Spec
=============================================================================
