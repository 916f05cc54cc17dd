--------------------------- MODULE WorkspaceLedger ---------------------------
(* What the lifecycle promises to the owner of a Workspace: what is told of   *)
(* it speaks of what was asked for last, its work is kept unless it was asked *)
(* to be destroyed, and a task that works in it found it ready.               *)
CONSTANT Task

VARIABLES
  intent,     (* the state asked for last                                     *)
  asked,      (* every state that was ever asked for                          *)
  told,       (* what is told of the Workspace                                *)
  work,       (* it has a volume                                              *)
  atWork,     (* the tasks that work in it                                    *)
  status      (* what is told of each task                                    *)

vars == <<intent, asked, told, work, atWork, status>>

(* What may be told under an intent, but for a task that works.               *)
SpeaksOf(d) ==
  {"FAILED"} \cup
    CASE d = "RUNNING" -> {"PROVISIONING", "STARTING", "READY"}
      [] d = "SUSPENDED" -> {"SUSPENDING", "SUSPENDED"}
      [] d = "STOPPED" -> {"STOPPING", "STOPPED"}
      [] OTHER -> {"DESTROYING", "DESTROYED"}

Init ==
  /\ intent = "RUNNING"
  /\ asked = {"RUNNING"}
  /\ told = "MISSING"
  /\ work = FALSE
  /\ atWork = {}
  /\ status = [t \in Task |-> "NONE"]

Ask ==
  /\ intent' \in {"RUNNING", "SUSPENDED", "STOPPED", "DESTROYED"}
  /\ asked' = asked \cup {intent'}
  /\ UNCHANGED <<told, work, atWork, status>>

Tell ==
  /\ told' \in SpeaksOf(intent)
  /\ UNCHANGED <<intent, asked, work, atWork, status>>

BeginWork ==
  /\ work' = TRUE
  /\ UNCHANGED <<intent, asked, told, atWork, status>>

LoseWork ==
  /\ "DESTROYED" \in asked
  /\ work' = FALSE
  /\ UNCHANGED <<intent, asked, told, atWork, status>>

Create(t) ==
  /\ status[t] = "NONE"
  /\ status' = [status EXCEPT ![t] = "PENDING"]
  /\ UNCHANGED <<intent, asked, told, work, atWork>>

Claim(t) ==
  /\ intent = "RUNNING" /\ told = "READY"
  /\ told' = "BUSY"
  /\ atWork' = atWork \cup {t}
  /\ UNCHANGED <<intent, asked, work, status>>

Run(t) ==
  /\ t \in atWork /\ status[t] = "PENDING"
  /\ status' = [status EXCEPT ![t] = "RUNNING"]
  /\ UNCHANGED <<intent, asked, told, work, atWork>>

Finish(t) ==
  /\ t \in atWork /\ status[t] = "RUNNING"
  /\ \E s \in {"COMPLETED", "FAILED"} : status' = [status EXCEPT ![t] = s]
  /\ atWork' = atWork \ {t}
  /\ UNCHANGED <<intent, asked, told, work>>

(* rad-control stops, and nothing is told of the tasks that were at work.     *)
Interrupt ==
  /\ atWork' = {}
  /\ UNCHANGED <<intent, asked, told, work, status>>

Next ==
  \/ Ask \/ Tell \/ BeginWork \/ LoseWork \/ Interrupt
  \/ \E t \in Task : Create(t) \/ Claim(t) \/ Run(t) \/ Finish(t)

Spec == Init /\ [][Next]_vars
=============================================================================
