------------------------------- MODULE Outbox -------------------------------
(* The outbox of Workspace commands (packages/outbox): requests insert them,  *)
(* dispatchers (the timer of rad-control and each state request run one)      *)
(* claim them, hand them to the reconciler and record the result, and a       *)
(* restarted rad-control takes back what it finds claimed for too long.       *)
(*                                                                            *)
(* A dispatcher takes one step per statement or call.  Time is what a query   *)
(* can tell of available_at: in the future, past ("due"), or past by the      *)
(* grace that recoverStale is given ("old").                                  *)
EXTENDS Naturals, FiniteSets

CONSTANTS
  Dispatcher,       (* the dispatchAvailable calls in flight at a time        *)
  Commands,         (* how many commands there are, in the order of created_at*)
  MaximumAttempts,  (* 5 in rad-control                                       *)
  Limit,            (* commands one dispatchAvailable handles, 25 there       *)
  MaxRestarts,      (* bound: restarts of rad-control                         *)
  MaxErrors         (* bound: failing database calls                          *)

ASSUME OutboxAssumption ==
  /\ Commands \in Nat
  /\ MaximumAttempts \in Nat \ {0}
  /\ Limit \in Nat \ {0}
  /\ MaxRestarts \in Nat
  /\ MaxErrors \in Nat

Command == 1..Commands

OutboxCommandState == {"NONE", "PENDING", "PROCESSING", "SUCCEEDED", "FAILED"}
Age == {"future", "due", "old"}
Place == {"idle", "select", "claim", "handle", "succeed", "fail"}

VARIABLES
  state,      (* of each command; NONE before it is requested                 *)
  attempts,
  age,        (* available_at as seen now                                     *)
  handled,    (* history: the commands whose handler has returned             *)
  at,         (* where each dispatcher stands                                 *)
  cmd,        (* the command it has selected or claimed, 0 if none            *)
  left,       (* how many commands it may still handle                        *)
  restarts,
  errors

vars == <<state, attempts, age, handled, at, cmd, left, restarts, errors>>

Init ==
  /\ state = [c \in Command |-> "NONE"]
  /\ attempts = [c \in Command |-> 0]
  /\ age = [c \in Command |-> "due"]
  /\ handled = {}
  /\ at = [d \in Dispatcher |-> "idle"]
  /\ cmd = [d \in Dispatcher |-> 0]
  /\ left = [d \in Dispatcher |-> 0]
  /\ restarts = 0
  /\ errors = 0

(* Where a dispatcher goes; it forgets its command when it is done with it.   *)
Goes(d, place) ==
  /\ at' = [at EXCEPT ![d] = place]
  /\ cmd' = [cmd EXCEPT ![d] = IF place \in {"idle", "select"} THEN 0 ELSE @]

-----------------------------------------------------------------------------
(* requestWorkspaceState inserts the command with the intent.  created_at is  *)
(* taken before the transaction, so commands may be inserted out of order.    *)
Enqueue(c) ==
  /\ state[c] = "NONE"
  /\ state' = [state EXCEPT ![c] = "PENDING"]
  /\ UNCHANGED <<attempts, age, handled, at, cmd, left, restarts, errors>>

Dispatch(d) ==
  /\ at[d] = "idle"
  /\ Goes(d, "select")
  /\ left' = [left EXCEPT ![d] = Limit]
  /\ UNCHANGED <<state, attempts, age, handled, restarts, errors>>

(* The rows a claiming transaction has locked.                                *)
Locked == {cmd[d] : d \in {e \in Dispatcher : at[e] = "claim"}}

(* Mutants: what may be claimed without the test of the state, and with a     *)
(* wrong test of the time.                                                    *)
ClaimableOnTime ==
  {c \in Command : state[c] = "PENDING" /\ age[c] = "due"} \ Locked
ClaimableAnyState ==
  {c \in Command : state[c] \in {"PENDING", "PROCESSING"} /\ age[c] # "future"}
    \ Locked

(* What the SELECT ... FOR UPDATE SKIP LOCKED of claimNext finds.             *)
Claimable ==
  {c \in Command : state[c] = "PENDING" /\ age[c] # "future"} \ Locked

(* claimNext: the oldest one is locked, or the dispatcher is done.            *)
SelectNext(d) ==
  /\ at[d] = "select"
  /\ IF Claimable = {} THEN Goes(d, "idle")
     ELSE \E c \in Claimable :
            /\ \A b \in Claimable : c <= b
            /\ at' = [at EXCEPT ![d] = "claim"]
            /\ cmd' = [cmd EXCEPT ![d] = c]
  /\ UNCHANGED <<state, attempts, age, handled, left, restarts, errors>>

(* claimNext: the update of the locked row.                                   *)
StoreClaim(c) ==
  /\ state' = [state EXCEPT ![c] = "PROCESSING"]
  /\ attempts' = [attempts EXCEPT ![c] = @ + 1]
  /\ UNCHANGED age

Claim(d) ==
  /\ at[d] = "claim"
  /\ StoreClaim(cmd[d])
  /\ Goes(d, "handle")
  /\ UNCHANGED <<handled, left, restarts, errors>>

(* The reconciliation returns or throws.                                      *)
HandlerReturns(d) ==
  /\ at[d] = "handle"
  /\ handled' = handled \cup {cmd[d]}
  /\ Goes(d, "succeed")
  /\ UNCHANGED <<state, attempts, age, left, restarts, errors>>

(* Mutant: the error of the handler is swallowed.                             *)
ErrorSwallowed(d) ==
  /\ at[d] = "handle"
  /\ Goes(d, "succeed")
  /\ UNCHANGED <<state, attempts, age, handled, left, restarts, errors>>

HandlerThrows(d) ==
  /\ at[d] = "handle"
  /\ Goes(d, "fail")
  /\ UNCHANGED <<state, attempts, age, handled, left, restarts, errors>>

(* Mutant: the loop does not look at the limit.                               *)
NextCommandUnlimited(d) ==
  /\ left' = [left EXCEPT ![d] = @ - 1]
  /\ Goes(d, "select")

(* The loop goes on with the next command until the limit is reached.         *)
NextCommand(d) ==
  /\ left' = [left EXCEPT ![d] = @ - 1]
  /\ Goes(d, IF left[d] > 1 THEN "select" ELSE "idle")

StoreSuccess(c) ==
  /\ state[c] = "PROCESSING"
  /\ state' = [state EXCEPT ![c] = "SUCCEEDED"]
  /\ UNCHANGED <<attempts, age>>

MarkSucceeded(d) ==
  /\ at[d] = "succeed"
  /\ StoreSuccess(cmd[d])
  /\ NextCommand(d)
  /\ UNCHANGED <<handled, restarts, errors>>

(* Mutant: an attempt is terminal one too late.                               *)
TerminalLate(c) == attempts[c] > MaximumAttempts

Terminal(c) == attempts[c] >= MaximumAttempts

(* markFailed: the last attempt ends the command, any other backs off.        *)
StoreFailure(c) ==
  /\ state[c] = "PROCESSING"
  /\ IF Terminal(c)
     THEN state' = [state EXCEPT ![c] = "FAILED"] /\ UNCHANGED age
     ELSE /\ state' = [state EXCEPT ![c] = "PENDING"]
          /\ age' = [age EXCEPT ![c] = "future"]
  /\ UNCHANGED attempts

MarkFailed(d) ==
  /\ at[d] = "fail"
  /\ StoreFailure(cmd[d])
  /\ NextCommand(d)
  /\ UNCHANGED <<handled, restarts, errors>>

(* OUTBOX_STATE_CONFLICT: a failed markSucceeded is taken for a failed        *)
(* handler, and a failed markFailed ends dispatchAvailable.                   *)
MarkConflict(d) ==
  /\ at[d] \in {"succeed", "fail"}
  /\ state[cmd[d]] # "PROCESSING"
  /\ Goes(d, IF at[d] = "succeed" THEN "fail" ELSE "idle")
  /\ UNCHANGED <<state, attempts, age, handled, left, restarts, errors>>

(* A database call rejects, its statement done or not: as a conflict, and a   *)
(* failed claim ends dispatchAvailable too.                                   *)
DatabaseFails(d) ==
  /\ at[d] \in {"select", "claim", "succeed", "fail"}
  /\ errors < MaxErrors
  /\ errors' = errors + 1
  /\ \/ UNCHANGED <<state, attempts, age>>
     \/ at[d] = "claim" /\ StoreClaim(cmd[d])
     \/ at[d] = "succeed" /\ StoreSuccess(cmd[d])
     \/ at[d] = "fail" /\ StoreFailure(cmd[d])
  /\ Goes(d, IF at[d] = "succeed" THEN "fail" ELSE "idle")
  /\ UNCHANGED <<handled, left, restarts>>

(* Time goes by.                                                              *)
Due(c) ==
  /\ age[c] = "future"
  /\ age' = [age EXCEPT ![c] = "due"]
  /\ UNCHANGED <<state, attempts, handled, at, cmd, left, restarts, errors>>

Ages(c) ==
  /\ state[c] \in {"PENDING", "PROCESSING"}
  /\ age[c] = "due"
  /\ age' = [age EXCEPT ![c] = "old"]
  /\ UNCHANGED <<state, attempts, handled, at, cmd, left, restarts, errors>>

(* recoverStale *)
Stale == {c \in Command : state[c] = "PROCESSING" /\ age[c] = "old"}

(* rad-control stops and starts again: stale claims are pending at once, and  *)
(* no dispatcher is left of the old process.                                  *)
Restart ==
  /\ restarts < MaxRestarts
  /\ restarts' = restarts + 1
  /\ state' = [c \in Command |-> IF c \in Stale THEN "PENDING" ELSE state[c]]
  /\ age' = [c \in Command |-> IF c \in Stale THEN "due" ELSE age[c]]
  /\ at' = [d \in Dispatcher |-> "idle"]
  /\ cmd' = [d \in Dispatcher |-> 0]
  /\ UNCHANGED <<attempts, handled, left, errors>>

DispatchStep(d) ==
  \/ SelectNext(d) \/ Claim(d) \/ HandlerReturns(d) \/ HandlerThrows(d)
  \/ MarkSucceeded(d) \/ MarkFailed(d) \/ MarkConflict(d)

Next ==
  \/ \E c \in Command : Enqueue(c) \/ Due(c) \/ Ages(c)
  \/ \E d \in Dispatcher : Dispatch(d) \/ DispatchStep(d) \/ DatabaseFails(d)
  \/ Restart

Spec == Init /\ [][Next]_vars

(* The timer dispatches for ever, calls return, and time goes by.             *)
FairSpec ==
  /\ Spec
  /\ WF_vars(\E d \in Dispatcher : Dispatch(d))
  /\ \A d \in Dispatcher : WF_vars(DispatchStep(d))
  /\ \A c \in Command : WF_vars(Due(c))

-----------------------------------------------------------------------------
(* Properties *)

TypeOK ==
  /\ state \in [Command -> OutboxCommandState]
  /\ attempts \in [Command -> Nat]
  /\ age \in [Command -> Age]
  /\ handled \subseteq Command
  /\ at \in [Dispatcher -> Place]
  /\ cmd \in [Dispatcher -> Command \cup {0}]
  /\ left \in [Dispatcher -> 0..Limit]
  /\ restarts \in 0..MaxRestarts
  /\ errors \in 0..MaxErrors

Delivering(d) == at[d] \in {"claim", "handle", "succeed", "fail"}

(* A command is in the hands of one dispatcher at a time: neither two racing  *)
(* claims nor a recovered claim have two reconciliations answer for it.       *)
DeliveredByOne ==
  \A d, e \in Dispatcher :
    d # e /\ Delivering(d) /\ Delivering(e) => cmd[d] # cmd[e]

(* "Retries boundedly": a command is tried MaximumAttempts times, and once    *)
(* more for each restart that took it back from a dead dispatcher.            *)
AttemptsBounded ==
  \A c \in Command : attempts[c] <= MaximumAttempts + restarts

(* SUCCEEDED is recorded of a command whose reconciliation has returned,      *)
(* FAILED of one whose attempts are used up; a claim that was lost or         *)
(* recovered in between never passes for either.                              *)
OutcomesTrue ==
  \A c \in Command :
    /\ state[c] = "SUCCEEDED" => c \in handled
    /\ state[c] = "FAILED" => attempts[c] >= MaximumAttempts

(* What the table and the dispatchers say to those who stored a command       *)
(* (CommandLedger).                                                           *)
Says(s) ==
  CASE s = "NONE" -> "nothing"
    [] s \in {"PENDING", "PROCESSING"} -> "accepted"
    [] s = "SUCCEEDED" -> "done"
    [] s = "FAILED" -> "failed"
Told == [c \in Command |-> Says(state[c])]
Works(d) == at[d] \in {"handle", "succeed", "fail"}
Underway == {cmd[d] : d \in {e \in Dispatcher : Works(e)}}

Ledger == INSTANCE CommandLedger
            WITH told <- Told, tries <- attempts, underway <- Underway, complete <- handled

(* Whatever dispatchers, failing calls, stale claims and restarts interleave, *)
(* a command is handed to one reconciliation at a time, never again once it   *)
(* was said to be done or failed, and a bounded number of times (claimNext,   *)
(* markSucceeded, markFailed, recoverStale).                                  *)
CommandsKept == Ledger!Spec

(* As long as rad-control and its database stay up, every command that was    *)
(* stored is delivered or given up, however many share the dispatchers.       *)
CommandsSettle ==
  \A c \in Command :
    state[c] = "PENDING" ~>
      state[c] \in {"SUCCEEDED", "FAILED"} \/ restarts > 0 \/ errors > 0
=============================================================================
