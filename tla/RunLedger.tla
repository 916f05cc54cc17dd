----------------------------- MODULE RunLedger -----------------------------
(* What the run of an agent task promises to the one who asked for it: the    *)
(* agent takes one turn, in an environment that is ready, and the task has    *)
(* one verdict, which is good only if the turn was, with all that the agent   *)
(* said in it.                                                                *)
EXTENDS Naturals

VARIABLES
  verdict,    (* what is told of the task                                     *)
  ready,      (* the environment is connected                                 *)
  turn,       (* what becomes of the agent's turn                             *)
  said,       (* how many pieces of its message the agent has said            *)
  message     (* the pieces told with the verdict                             *)

vars == <<verdict, ready, turn, said, message>>

Init ==
  /\ verdict = "idle"
  /\ ready = FALSE
  /\ turn = "none"
  /\ said = 0
  /\ message = {}

Start ==
  /\ verdict = "idle"
  /\ verdict' = "running"
  /\ UNCHANGED <<ready, turn, said, message>>

Connect ==
  /\ ready' = TRUE
  /\ UNCHANGED <<verdict, turn, said, message>>

(* The turn may outlive the verdict: one that was timed out, or lost.         *)
BeginTurn ==
  /\ verdict # "idle" /\ ready
  /\ turn = "none"
  /\ turn' = "running"
  /\ UNCHANGED <<verdict, ready, said, message>>

Speak ==
  /\ turn = "running"
  /\ said' = said + 1
  /\ UNCHANGED <<verdict, ready, turn, message>>

EndTurn ==
  /\ turn = "running"
  /\ turn' \in {"completed", "failed"}
  /\ UNCHANGED <<verdict, ready, said, message>>

TellCompleted ==
  /\ verdict = "running" /\ turn = "completed"
  /\ verdict' = "completed"
  /\ message' = 1..said
  /\ UNCHANGED <<ready, turn, said>>

(* A task may fail whatever its turn does, or never begin; its verdict is     *)
(* lost with the process that waits for it.                                   *)
TellFailed ==
  /\ verdict \in {"idle", "running"}
  /\ verdict' = "failed"
  /\ UNCHANGED <<ready, turn, said, message>>

Lose ==
  /\ verdict = "running"
  /\ verdict' = "lost"
  /\ UNCHANGED <<ready, turn, said, message>>

Next ==
  \/ Start \/ Connect \/ BeginTurn \/ Speak \/ EndTurn
  \/ TellCompleted \/ TellFailed \/ Lose

Spec == Init /\ [][Next]_vars
=============================================================================
