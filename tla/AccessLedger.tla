---------------------------- MODULE AccessLedger ----------------------------
(* What IDE access promises to the owner of a Workspace: at any time at most  *)
(* one code opens its IDE and at most one session has it open, a code opens   *)
(* one session and is gone, and nothing of one security epoch reaches the     *)
(* next.                                                                      *)
EXTENDS Naturals

CONSTANTS Workspace, Code, Session

VARIABLES
  epoch,      (* the security epoch of the instance                           *)
  offered,    (* of each Workspace, the code it can be entered by: none or    *)
              (* one, with the epoch in which it was issued                   *)
  opened,     (* its session, in the same way                                 *)
  known,      (* every code that was ever issued                              *)
  exchanges   (* every session that was ever opened, with its code            *)

vars == <<epoch, offered, opened, known, exchanges>>

Init ==
  /\ epoch = 1
  /\ offered = [w \in Workspace |-> {}]
  /\ opened = [w \in Workspace |-> {}]
  /\ known = {}
  /\ exchanges = {}

(* A new code takes the place of one that was not used.                       *)
Issue(w, c) ==
  /\ c \notin known
  /\ known' = known \cup {c}
  /\ offered' = [offered EXCEPT ![w] = {<<c, epoch>>}]
  /\ UNCHANGED <<epoch, opened, exchanges>>

(* The code is exchanged for a session, which takes the place of the last.    *)
Redeem(w, c, s) ==
  /\ offered[w] = {<<c, epoch>>}
  /\ offered' = [offered EXCEPT ![w] = {}]
  /\ \A x \in exchanges : x[1] # s
  /\ exchanges' = exchanges \cup {<<s, c>>}
  /\ opened' = [opened EXCEPT ![w] = {<<s, epoch>>}]
  /\ UNCHANGED <<epoch, known>>

(* A migration leaves nothing of the epoch before it.                         *)
OpenEpoch ==
  /\ epoch' = epoch + 1
  /\ offered' = [w \in Workspace |-> {}]
  /\ opened' = [w \in Workspace |-> {}]
  /\ UNCHANGED <<known, exchanges>>

Next ==
  \/ \E w \in Workspace, c \in Code :
       Issue(w, c) \/ \E s \in Session : Redeem(w, c, s)
  \/ OpenEpoch

Spec == Init /\ [][Next]_vars
=============================================================================
