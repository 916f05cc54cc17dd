--------------------------- MODULE CommandLedger ---------------------------
(* What the outbox promises to those who store a command: it is handed to one *)
(* reconciliation at a time, a bounded number of times, and what is said to   *)
(* have become of it is true and final.                                       *)
EXTENDS Naturals

CONSTANTS Command, MaximumAttempts

VARIABLES
  told,       (* what is said of each command                                 *)
  tries,      (* how often it was handed over                                 *)
  underway,   (* the commands somebody is working on                          *)
  complete,   (* those for which a reconciliation has returned                *)
  restarts    (* how often all work in progress was lost                      *)

vars == <<told, tries, underway, complete, restarts>>

Init ==
  /\ told = [c \in Command |-> "nothing"]
  /\ tries = [c \in Command |-> 0]
  /\ underway = {}
  /\ complete = {}
  /\ restarts = 0

Request(c) ==
  /\ told[c] = "nothing"
  /\ told' = [told EXCEPT ![c] = "accepted"]
  /\ UNCHANGED <<tries, underway, complete, restarts>>

(* Nobody works on it; the one it is handed to may be lost at once.           *)
HandOver(c) ==
  /\ told[c] = "accepted" /\ c \notin underway
  /\ tries[c] < MaximumAttempts + restarts
  /\ tries' = [tries EXCEPT ![c] = @ + 1]
  /\ underway' \in {underway, underway \cup {c}}
  /\ UNCHANGED <<told, complete, restarts>>

Complete(c) ==
  /\ c \in underway
  /\ complete' = complete \cup {c}
  /\ UNCHANGED <<told, tries, underway, restarts>>

(* It is put back, or forgotten by a dispatcher that cannot record its end.   *)
LetGo(c) ==
  /\ c \in underway
  /\ underway' = underway \ {c}
  /\ UNCHANGED <<told, tries, complete, restarts>>

TellDone(c) ==
  /\ told[c] = "accepted" /\ c \in underway /\ c \in complete
  /\ told' = [told EXCEPT ![c] = "done"]
  /\ underway' \in {underway, underway \ {c}}
  /\ UNCHANGED <<tries, complete, restarts>>

TellFailed(c) ==
  /\ told[c] = "accepted" /\ c \in underway /\ tries[c] >= MaximumAttempts
  /\ told' = [told EXCEPT ![c] = "failed"]
  /\ underway' = underway \ {c}
  /\ UNCHANGED <<tries, complete, restarts>>

Restart ==
  /\ underway' = {}
  /\ restarts' = restarts + 1
  /\ UNCHANGED <<told, tries, complete>>

Next ==
  \/ \E c \in Command :
       Request(c) \/ HandOver(c) \/ Complete(c) \/ LetGo(c) \/ TellDone(c) \/ TellFailed(c)
  \/ Restart

Spec == Init /\ [][Next]_vars
=============================================================================
