---------------------------- MODULE ReviewLedger ----------------------------
(* What the review pipeline promises to those who approve and push: an        *)
(* artifact's identity is recorded once and for good, and so is its review,   *)
(* which says what one validator image made of exactly those bytes in one     *)
(* security epoch.  GitWrite relies on no more than this.                     *)
EXTENDS Naturals

CONSTANTS Artifact, Bundle, Image

VARIABLES
  epoch,      (* the security epoch of the instance                           *)
  identity,   (* the digest recorded of each artifact, <<>> before            *)
  review      (* the review of each artifact, <<>> before                     *)

Init ==
  /\ epoch = 1
  /\ identity = [a \in Artifact |-> <<>>]
  /\ review = [a \in Artifact |-> <<>>]

(* A migration opens the next epoch and leaves artifacts and reviews alone.   *)
OpenEpoch ==
  /\ epoch' = epoch + 1
  /\ UNCHANGED <<identity, review>>

Record(a) ==
  /\ identity[a] = <<>>
  /\ \E b \in Bundle : identity' = [identity EXCEPT ![a] = <<b>>]
  /\ UNCHANGED <<epoch, review>>

(* The review of the recorded bytes, sampled in this epoch or an earlier one. *)
Review(a) ==
  /\ identity[a] # <<>>
  /\ review[a] = <<>>
  /\ \E i \in Image, e \in 1..epoch :
       review' = [review EXCEPT ![a] = <<identity[a][1], i, e>>]
  /\ UNCHANGED <<epoch, identity>>

Next == OpenEpoch \/ \E a \in Artifact : Record(a) \/ Review(a)

Spec == Init /\ [][Next]_<<epoch, identity, review>>
=============================================================================
