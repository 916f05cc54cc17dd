----------------------------- MODULE WriteLedger -----------------------------
(* What the approved write promises to the human who approves it: nothing is  *)
(* written that was not approved, a review is written at most once, and what  *)
(* is told of a write is final and true of the remote branch, unless it was   *)
(* given up and marked doubtful.                                              *)
CONSTANTS
  Approval, Review,
  ReviewOf     (* the review each approval is for                             *)

VARIABLES
  approved,    (* the approvals a human has decided to grant                  *)
  told,        (* what is told of the write of each approval                  *)
  remote,      (* what the remote made of it                                  *)
  doubted      (* the writes whose credential was left uncertain              *)

vars == <<approved, told, remote, doubted>>

Init ==
  /\ approved = {}
  /\ told = [a \in Approval |-> "nothing"]
  /\ remote = [a \in Approval |-> "none"]
  /\ doubted = {}

Approve(a) ==
  /\ told[a] = "nothing"
  /\ approved' = approved \cup {a}
  /\ UNCHANGED <<told, remote, doubted>>

(* One approval of a review is ever acted on.                                 *)
Start(a) ==
  /\ a \in approved
  /\ \A b \in Approval : ReviewOf[b] = ReviewOf[a] => told[b] = "nothing"
  /\ told' = [told EXCEPT ![a] = "started"]
  /\ UNCHANGED <<approved, remote, doubted>>

Write(a) ==
  /\ told[a] = "started"
  /\ remote[a] = "none"
  /\ remote' = [remote EXCEPT ![a] = "sent"]
  /\ UNCHANGED <<approved, told, doubted>>

(* The answer may come long after something was told.                         *)
Answer(a) ==
  /\ remote[a] = "sent"
  /\ \E s \in {"applied", "rejected"} : remote' = [remote EXCEPT ![a] = s]
  /\ UNCHANGED <<approved, told, doubted>>

(* The credential may be lost sight of before anything is told.               *)
Doubt(a) ==
  /\ doubted' = doubted \cup {a}
  /\ UNCHANGED <<approved, told, remote>>

TellWritten(a) ==
  /\ told[a] = "started"
  /\ remote[a] = "applied"
  /\ told' = [told EXCEPT ![a] = "written"]
  /\ UNCHANGED <<approved, remote, doubted>>

TellRefused(a) ==
  /\ told[a] = "started"
  /\ remote[a] = "rejected"
  /\ told' = [told EXCEPT ![a] = "refused"]
  /\ UNCHANGED <<approved, remote, doubted>>

(* Several writes are given up at once by a security migration.               *)
GiveUp(S) ==
  /\ \A a \in S : told[a] = "started" /\ (remote[a] = "none" \/ a \in doubted)
  /\ told' = [a \in Approval |-> IF a \in S THEN "given up" ELSE told[a]]
  /\ UNCHANGED <<approved, remote, doubted>>

Next ==
  \/ \E a \in Approval :
       \/ Approve(a) \/ Start(a) \/ Write(a) \/ Answer(a) \/ Doubt(a)
       \/ TellWritten(a) \/ TellRefused(a)
  \/ \E S \in SUBSET Approval : GiveUp(S)

Spec == Init /\ [][Next]_vars
=============================================================================
