---------------------------- MODULE OutboxProofs ----------------------------
(* What holds of Outbox for every number of dispatchers, commands, attempts   *)
(* and restarts.                                                              *)
EXTENDS Outbox, TLAPS

(* A dispatcher that works on a command has claimed it, or locked it pending; *)
(* a failed record may have been made after all.                              *)
Holds(d) ==
  /\ Delivering(d) => cmd[d] \in Command
  /\ at[d] = "claim" => state[cmd[d]] = "PENDING"
  /\ at[d] \in {"handle", "succeed"} => state[cmd[d]] = "PROCESSING"
  /\ at[d] = "fail" => state[cmd[d]] \in {"PROCESSING", "SUCCEEDED"}
  /\ at[d] = "succeed" => cmd[d] \in handled
  /\ at[d] = "select" => left[d] > 0
  /\ at[d] \in {"claim", "handle", "succeed", "fail"} => left[d] > 0

(* A command that waits has an attempt left.                                  *)
AttemptsLeft(c) ==
  /\ state[c] = "NONE" => attempts[c] = 0
  /\ state[c] = "PENDING" => attempts[c] < MaximumAttempts + restarts

InOrder(c) ==
  /\ AttemptsLeft(c)
  /\ attempts[c] <= MaximumAttempts + restarts
  /\ state[c] = "SUCCEEDED" => c \in handled
  /\ state[c] = "FAILED" => attempts[c] >= MaximumAttempts

OInv ==
  /\ TypeOK
  /\ \A d \in Dispatcher : Holds(d)
  /\ DeliveredByOne
  /\ \A c \in Command : AttemptsLeft(c)
  /\ AttemptsBounded
  /\ OutcomesTrue

-----------------------------------------------------------------------------
LEMMA OutboxInit == Init => OInv
<1> SUFFICES ASSUME Init PROVE OInv
  OBVIOUS
<1>1. TypeOK
  <2>1. /\ state \in [Command -> OutboxCommandState]
        /\ attempts \in [Command -> Nat]
        /\ age \in [Command -> Age]
        /\ handled \subseteq Command
    BY DEF Init, OutboxCommandState, Age
  <2>2. /\ at \in [Dispatcher -> Place]
        /\ cmd \in [Dispatcher -> Command \cup {0}]
        /\ left \in [Dispatcher -> 0..Limit]
    BY OutboxAssumption DEF Init, Place
  <2>3. restarts \in 0..MaxRestarts /\ errors \in 0..MaxErrors
    BY OutboxAssumption DEF Init
  <2> QED BY <2>1, <2>2, <2>3 DEF TypeOK
<1>2. ASSUME NEW d \in Dispatcher PROVE Holds(d) /\ ~Delivering(d)
  BY DEF Init, Holds, Delivering
<1>3. ASSUME NEW c \in Command PROVE AttemptsLeft(c) /\ attempts[c] <= MaximumAttempts + restarts
  BY OutboxAssumption DEF Init, AttemptsLeft
<1>4. OutcomesTrue
  BY DEF Init, OutcomesTrue
<1> QED BY <1>1, <1>2, <1>3, <1>4 DEF OInv, DeliveredByOne, AttemptsBounded

(* Time and requests: the dispatchers are where they were, and the state of a *)
(* command changes only from NONE to PENDING.                                 *)
LEMMA CommandStep ==
  ASSUME OInv, NEW c \in Command, Enqueue(c) \/ Due(c) \/ Ages(c)
  PROVE  OInv'
<1>1. /\ UNCHANGED <<attempts, handled, at, cmd, left, restarts, errors>>
      /\ state' \in [Command -> OutboxCommandState] /\ age' \in [Command -> Age]
      /\ \A b \in Command : state'[b] = state[b] \/ (state[b] = "NONE" /\ state'[b] = "PENDING")
  BY DEF Enqueue, Due, Ages, OInv, TypeOK, OutboxCommandState, Age
<1>2. TypeOK'
  BY <1>1 DEF OInv, TypeOK
<1>3. ASSUME NEW d \in Dispatcher PROVE Holds(d)'
  BY <1>1 DEF OInv, Holds, Delivering
<1>4. ASSUME NEW b \in Command PROVE AttemptsLeft(b)'
  BY <1>1, OutboxAssumption DEF OInv, TypeOK, AttemptsLeft
<1>5. DeliveredByOne' /\ AttemptsBounded' /\ OutcomesTrue'
  BY <1>1 DEF OInv, DeliveredByOne, Delivering, AttemptsBounded, OutcomesTrue
<1> QED BY <1>2, <1>3, <1>4, <1>5 DEF OInv

(* What one statement does to the command a dispatcher holds.                 *)
LEMMA StoreEffects ==
  ASSUME OInv, NEW d \in Dispatcher, Delivering(d)
  PROVE  /\ StoreClaim(cmd[d]) /\ at[d] = "claim" =>
              /\ state' = [state EXCEPT ![cmd[d]] = "PROCESSING"]
              /\ attempts' \in [Command -> Nat] /\ age' \in [Command -> Age]
              /\ attempts'[cmd[d]] <= MaximumAttempts + restarts
              /\ \A b \in Command \ {cmd[d]} : attempts'[b] = attempts[b]
         /\ StoreSuccess(cmd[d]) =>
              /\ state' = [state EXCEPT ![cmd[d]] = "SUCCEEDED"]
              /\ attempts' = attempts /\ age' \in [Command -> Age]
         /\ StoreFailure(cmd[d]) =>
              /\ \E s \in {"FAILED", "PENDING"} :
                   /\ state' = [state EXCEPT ![cmd[d]] = s]
                   /\ s = "FAILED" => attempts[cmd[d]] >= MaximumAttempts
                   /\ s = "PENDING" => attempts[cmd[d]] < MaximumAttempts
              /\ attempts' = attempts /\ age' \in [Command -> Age]
<1>1. cmd[d] \in Command /\ Holds(d) /\ AttemptsLeft(cmd[d])
  BY DEF OInv, Holds
<1>2. attempts[cmd[d]] \in Nat /\ restarts \in Nat
  BY <1>1 DEF OInv, TypeOK
<1>3. StoreClaim(cmd[d]) /\ at[d] = "claim" =>
        /\ state' = [state EXCEPT ![cmd[d]] = "PROCESSING"]
        /\ attempts' \in [Command -> Nat] /\ age' \in [Command -> Age]
        /\ attempts'[cmd[d]] <= MaximumAttempts + restarts
        /\ \A b \in Command \ {cmd[d]} : attempts'[b] = attempts[b]
  BY <1>1, <1>2, OutboxAssumption DEF StoreClaim, OInv, TypeOK, Holds, AttemptsLeft
<1>4. StoreSuccess(cmd[d]) =>
        /\ state' = [state EXCEPT ![cmd[d]] = "SUCCEEDED"]
        /\ attempts' = attempts /\ age' \in [Command -> Age]
  BY DEF StoreSuccess, OInv, TypeOK
<1>5. StoreFailure(cmd[d]) =>
        /\ \E s \in {"FAILED", "PENDING"} :
             /\ state' = [state EXCEPT ![cmd[d]] = s]
             /\ s = "FAILED" => attempts[cmd[d]] >= MaximumAttempts
             /\ s = "PENDING" => attempts[cmd[d]] < MaximumAttempts
        /\ attempts' = attempts /\ age' \in [Command -> Age]
  BY <1>1, <1>2, OutboxAssumption DEF StoreFailure, Terminal, OInv, TypeOK, Age
<1> QED BY <1>3, <1>4, <1>5

(* A step of one dispatcher keeps the invariant if it changes no command but  *)
(* its own and leaves that one, and itself, in order.                         *)
LEMMA DispatcherFrame ==
  ASSUME OInv, NEW d \in Dispatcher, TypeOK',
         \A e \in Dispatcher \ {d} : at'[e] = at[e] /\ cmd'[e] = cmd[e] /\ left'[e] = left[e],
         handled \subseteq handled',
         restarts' = restarts,
         \A b \in Command : ~(Delivering(d) /\ b = cmd[d])
                              => state'[b] = state[b] /\ attempts'[b] = attempts[b],
         Holds(d)',
         Delivering(d)' =>
           \A e \in Dispatcher \ {d} : Delivering(e) => cmd[e] # cmd'[d],
         \A b \in Command : Delivering(d) /\ b = cmd[d] => InOrder(b)'
  PROVE  OInv'
<1>1. ASSUME NEW e \in Dispatcher PROVE Holds(e)'
  <2>1. CASE e = d
    BY <2>1
  <2>2. CASE e # d
    <3>1. Holds(e) /\ (Delivering(e) /\ Delivering(d) => cmd[e] # cmd[d])
      BY <2>2 DEF OInv, DeliveredByOne
    <3> QED BY <2>2, <3>1 DEF Holds, Delivering
  <2> QED BY <2>1, <2>2
<1>2. DeliveredByOne'
  BY DEF OInv, DeliveredByOne, Delivering
<1>3. ASSUME NEW b \in Command PROVE InOrder(b)'
  <2>1. CASE Delivering(d) /\ b = cmd[d]
    BY <2>1
  <2>2. CASE ~(Delivering(d) /\ b = cmd[d])
    <3>1. InOrder(b)
      BY DEF OInv, InOrder, AttemptsBounded, OutcomesTrue
    <3>2. state'[b] = state[b] /\ attempts'[b] = attempts[b]
      BY <2>2
    <3> QED BY <3>1, <3>2 DEF InOrder, AttemptsLeft
  <2> QED BY <2>1, <2>2
<1> QED BY <1>1, <1>2, <1>3 DEF OInv, InOrder, AttemptsBounded, OutcomesTrue

(* The steps of a dispatcher that change no command.                          *)
LEMMA WalkStep ==
  ASSUME OInv, NEW d \in Dispatcher,
         \/ Dispatch(d) \/ SelectNext(d) \/ HandlerReturns(d) \/ HandlerThrows(d)
         \/ MarkConflict(d)
  PROVE  OInv'
<1> USE DEF OInv, TypeOK
<1>1. Holds(d) /\ Command \subseteq Nat \ {0}
  BY OutboxAssumption DEF Command
<1>2. /\ UNCHANGED <<state, attempts, age, restarts, errors>>
      /\ \A e \in Dispatcher \ {d} : at'[e] = at[e] /\ cmd'[e] = cmd[e] /\ left'[e] = left[e]
      /\ at' \in [Dispatcher -> Place]
  BY DEF Dispatch, SelectNext, HandlerReturns, HandlerThrows, MarkConflict, Goes, Place
<1>3. /\ cmd' \in [Dispatcher -> Command \cup {0}]
      /\ left' \in [Dispatcher -> 0..Limit]
      /\ handled' \subseteq Command /\ handled \subseteq handled'
  <2>1. CASE SelectNext(d)
    BY <2>1 DEF SelectNext, Goes, Claimable
  <2>2. CASE Dispatch(d)
    BY <2>2, OutboxAssumption DEF Dispatch, Goes
  <2>3. CASE HandlerReturns(d) \/ HandlerThrows(d) \/ MarkConflict(d)
    BY <1>1, <2>3 DEF HandlerReturns, HandlerThrows, MarkConflict, Goes, Holds, Delivering
  <2> QED BY <2>1, <2>2, <2>3
<1>4. Holds(d)'
  <2>1. CASE SelectNext(d)
    BY <1>1, <1>2, <2>1 DEF SelectNext, Goes, Claimable, Holds, Delivering
  <2>2. CASE Dispatch(d)
    BY <1>2, <2>2, OutboxAssumption DEF Dispatch, Goes, Holds, Delivering
  <2>3. CASE HandlerReturns(d) \/ HandlerThrows(d)
    BY <1>1, <1>2, <2>3 DEF HandlerReturns, HandlerThrows, Goes, Holds, Delivering
  <2>4. CASE MarkConflict(d)
    <3>1. at[d] = "fail" /\ at' = [at EXCEPT ![d] = "idle"]
      BY <1>1, <2>4 DEF MarkConflict, Goes, Holds
    <3> QED BY <3>1 DEF Holds, Delivering
  <2> QED BY <2>1, <2>2, <2>3, <2>4
<1>5. Delivering(d)' => \A e \in Dispatcher \ {d} : Delivering(e) => cmd[e] # cmd'[d]
  <2>1. CASE SelectNext(d)
    <3> SUFFICES ASSUME Delivering(d)', NEW e \in Dispatcher \ {d}, Delivering(e)
                 PROVE  cmd[e] # cmd'[d]
      OBVIOUS
    <3>1. cmd'[d] \in Claimable
      BY <2>1 DEF SelectNext, Goes, Delivering
    <3>2. CASE at[e] = "claim"
      BY <3>1, <3>2 DEF Claimable, Locked
    <3>3. CASE at[e] # "claim"
      BY <3>1, <3>3 DEF Claimable, Holds, Delivering
    <3> QED BY <3>2, <3>3
  <2>2. CASE Dispatch(d)
    BY <2>2 DEF Dispatch, Goes, Delivering
  <2>3. CASE HandlerReturns(d) \/ HandlerThrows(d) \/ MarkConflict(d)
    BY <2>3 DEF HandlerReturns, HandlerThrows, MarkConflict, Goes, Delivering, DeliveredByOne
  <2> QED BY <2>1, <2>2, <2>3
<1>6. ASSUME NEW b \in Command PROVE InOrder(b)'
  <2>1. InOrder(b)
    BY DEF InOrder, AttemptsBounded, OutcomesTrue
  <2> HIDE DEF OInv, TypeOK
  <2> QED BY <1>2, <1>3, <2>1 DEF InOrder, AttemptsLeft
<1>7. TypeOK'
  BY <1>2, <1>3
<1> HIDE DEF OInv, TypeOK
<1> QED BY <1>2, <1>3, <1>4, <1>5, <1>6, <1>7, DispatcherFrame

(* The steps of a dispatcher that write the command it holds.                 *)
LEMMA StoreStep ==
  ASSUME OInv, NEW d \in Dispatcher,
         Claim(d) \/ MarkSucceeded(d) \/ MarkFailed(d) \/ DatabaseFails(d)
  PROVE  OInv'
<1>1. /\ Holds(d) /\ (Delivering(d) => cmd[d] \in Command)
      /\ Command \subseteq Nat \ {0} /\ restarts \in Nat
  BY OutboxAssumption DEF OInv, TypeOK, Holds, Command
<1>2. /\ UNCHANGED <<handled, restarts>> /\ errors' \in 0..MaxErrors
      /\ \A e \in Dispatcher \ {d} : at'[e] = at[e] /\ cmd'[e] = cmd[e] /\ left'[e] = left[e]
      /\ at' \in [Dispatcher -> Place]
  BY OutboxAssumption
     DEF OInv, TypeOK, Claim, MarkSucceeded, MarkFailed, DatabaseFails, NextCommand, Goes, Place
<1>3. /\ cmd' \in [Dispatcher -> Command \cup {0}]
      /\ Delivering(d)' => Delivering(d) /\ cmd'[d] = cmd[d]
  <2>1. CASE Claim(d)
    BY <1>1, <2>1 DEF OInv, TypeOK, Claim, Goes, Delivering
  <2>2. CASE MarkSucceeded(d) \/ MarkFailed(d)
    BY <2>2 DEF OInv, TypeOK, MarkSucceeded, MarkFailed, NextCommand, Goes, Delivering
  <2>3. CASE DatabaseFails(d)
    BY <1>1, <2>3 DEF OInv, TypeOK, DatabaseFails, Goes, Delivering
  <2> QED BY <2>1, <2>2, <2>3
<1>4. left' \in [Dispatcher -> 0..Limit]
  BY <1>1, OutboxAssumption
     DEF OInv, TypeOK, Claim, MarkSucceeded, MarkFailed, DatabaseFails, NextCommand, Goes, Holds
<1>5. \/ UNCHANGED <<state, attempts, age>>
      \/ at[d] = "claim" /\ StoreClaim(cmd[d])
      \/ at[d] = "succeed" /\ StoreSuccess(cmd[d])
      \/ at[d] = "fail" /\ StoreFailure(cmd[d])
  BY DEF Claim, MarkSucceeded, MarkFailed, DatabaseFails
<1>6. /\ state' \in [Command -> OutboxCommandState]
      /\ attempts' \in [Command -> Nat] /\ age' \in [Command -> Age]
      /\ \A b \in Command : ~(Delivering(d) /\ b = cmd[d])
                              => state'[b] = state[b] /\ attempts'[b] = attempts[b]
  <2>1. CASE UNCHANGED <<state, attempts, age>>
    BY <2>1 DEF OInv, TypeOK
  <2>2. CASE at[d] = "claim" /\ StoreClaim(cmd[d])
    BY <1>1, <2>2, StoreEffects DEF OInv, TypeOK, Delivering, OutboxCommandState
  <2>3. CASE at[d] = "succeed" /\ StoreSuccess(cmd[d])
    BY <1>1, <2>3, StoreEffects DEF OInv, TypeOK, Delivering, OutboxCommandState
  <2>4. CASE at[d] = "fail" /\ StoreFailure(cmd[d])
    BY <1>1, <2>4, StoreEffects DEF OInv, TypeOK, Delivering, OutboxCommandState
  <2> QED BY <1>5, <2>1, <2>2, <2>3, <2>4
<1>7. ASSUME NEW b \in Command, Delivering(d), b = cmd[d] PROVE InOrder(b)'
  <2>1. InOrder(b) /\ attempts[b] \in Nat
    BY DEF OInv, TypeOK, InOrder, AttemptsBounded, OutcomesTrue
  <2>2. CASE UNCHANGED <<state, attempts, age>>
    BY <1>2, <2>1, <2>2 DEF InOrder, AttemptsLeft
  <2>3. CASE at[d] = "claim" /\ StoreClaim(cmd[d])
    <3>1. state'[b] = "PROCESSING" /\ attempts'[b] <= MaximumAttempts + restarts
      BY <1>7, <2>3, StoreEffects DEF OInv, TypeOK
    <3> QED BY <1>2, <3>1 DEF InOrder, AttemptsLeft
  <2>4. CASE at[d] = "succeed" /\ StoreSuccess(cmd[d])
    <3>1. state'[b] = "SUCCEEDED" /\ attempts' = attempts
      BY <1>7, <2>4, StoreEffects DEF OInv, TypeOK
    <3>2. b \in handled
      BY <1>1, <1>7, <2>4 DEF Holds
    <3> QED BY <1>2, <2>1, <3>1, <3>2 DEF InOrder, AttemptsLeft
  <2>5. CASE at[d] = "fail" /\ StoreFailure(cmd[d])
    <3>1. PICK s \in {"FAILED", "PENDING"} :
            /\ state'[b] = s /\ attempts' = attempts
            /\ s = "FAILED" => attempts[b] >= MaximumAttempts
            /\ s = "PENDING" => attempts[b] < MaximumAttempts
      BY <1>7, <2>5, StoreEffects DEF OInv, TypeOK
    <3>2. MaximumAttempts \in Nat
      BY OutboxAssumption
    <3>3. attempts[b] < MaximumAttempts => attempts[b] < MaximumAttempts + restarts
      BY <1>1, <2>1, <3>2
    <3> QED BY <1>2, <2>1, <3>1, <3>3 DEF InOrder, AttemptsLeft
  <2> QED BY <1>5, <2>2, <2>3, <2>4, <2>5
<1>8. Holds(d)'
  <2>1. CASE Claim(d)
    <3>1. /\ cmd[d] \in Command /\ cmd'[d] = cmd[d] /\ at'[d] = "handle"
          /\ state' = [state EXCEPT ![cmd[d]] = "PROCESSING"] /\ left'[d] = left[d]
      BY <1>1, <2>1, StoreEffects DEF OInv, TypeOK, Claim, Goes, Delivering
    <3> QED BY <1>1, <2>1, <3>1 DEF OInv, TypeOK, Claim, Holds, Delivering
  <2>2. CASE MarkSucceeded(d) \/ MarkFailed(d)
    <3>1. left[d] \in Nat /\ left'[d] = left[d] - 1
          /\ at'[d] = (IF left[d] > 1 THEN "select" ELSE "idle")
      BY <2>2, OutboxAssumption DEF OInv, TypeOK, MarkSucceeded, MarkFailed, NextCommand, Goes
    <3> QED BY <3>1 DEF Holds, Delivering
  <2>3. CASE DatabaseFails(d) /\ at[d] # "succeed"
    <3>1. at'[d] = "idle"
      BY <2>3 DEF OInv, TypeOK, DatabaseFails, Goes
    <3> QED BY <3>1 DEF Holds, Delivering
  <2>4. CASE DatabaseFails(d) /\ at[d] = "succeed"
    <3>1. /\ at'[d] = "fail" /\ cmd'[d] = cmd[d] /\ cmd[d] \in Command /\ left'[d] = left[d]
      BY <1>1, <2>4 DEF OInv, TypeOK, DatabaseFails, Goes, Delivering
    <3>2. state'[cmd[d]] \in {"PROCESSING", "SUCCEEDED"}
      BY <1>1, <1>5, <2>4, <3>1, StoreEffects DEF OInv, TypeOK, Holds, Delivering
    <3> QED BY <1>1, <2>4, <3>1, <3>2 DEF Holds, Delivering
  <2> QED BY <2>1, <2>2, <2>3, <2>4
<1>9. Delivering(d)' => \A e \in Dispatcher \ {d} : Delivering(e) => cmd[e] # cmd'[d]
  BY <1>3 DEF OInv, DeliveredByOne
<1>10. TypeOK'
  BY <1>2, <1>3, <1>4, <1>6 DEF OInv, TypeOK
<1> QED BY <1>2, <1>6, <1>7, <1>8, <1>9, <1>10, DispatcherFrame

(* A restart leaves no dispatcher, and gives each claim it takes back one     *)
(* attempt more.                                                              *)
LEMMA RestartStep ==
  ASSUME OInv, Restart
  PROVE  OInv'
<1>1. restarts \in Nat /\ restarts' = restarts + 1 /\ restarts' \in 0..MaxRestarts
  BY OutboxAssumption DEF OInv, TypeOK, Restart
<1>2. TypeOK'
  BY <1>1 DEF OInv, TypeOK, Restart, OutboxCommandState, Age, Place
<1>3. ASSUME NEW d \in Dispatcher PROVE Holds(d)' /\ ~Delivering(d)'
  BY DEF Restart, Holds, Delivering
<1>4. ASSUME NEW b \in Command PROVE InOrder(b)'
  <2>1. /\ InOrder(b) /\ attempts[b] \in Nat /\ MaximumAttempts \in Nat
        /\ attempts'[b] = attempts[b] /\ handled' = handled
    BY OutboxAssumption DEF OInv, TypeOK, InOrder, AttemptsBounded, OutcomesTrue, Restart
  <2>2. state'[b] = state[b] \/ state'[b] = "PENDING"
    BY DEF Restart
  <2>3. attempts[b] < MaximumAttempts + (restarts + 1)
    BY <1>1, <2>1 DEF InOrder
  <2> QED BY <1>1, <2>1, <2>2, <2>3 DEF InOrder, AttemptsLeft
<1> QED BY <1>2, <1>3, <1>4 DEF OInv, DeliveredByOne, InOrder, AttemptsBounded, OutcomesTrue

LEMMA OutboxNext ==
  ASSUME OInv, [Next]_vars
  PROVE  OInv'
<1>1. CASE UNCHANGED vars
  <2>1. UNCHANGED <<state, attempts, age, handled, at, cmd, left, restarts, errors>>
    BY <1>1 DEF vars
  <2> QED BY <2>1
       DEF OInv, TypeOK, Holds, AttemptsLeft, Delivering, DeliveredByOne, AttemptsBounded,
           OutcomesTrue
<1>2. CASE \E c \in Command : Enqueue(c) \/ Due(c) \/ Ages(c)
  BY <1>2, CommandStep
<1>3. CASE \E d \in Dispatcher : Dispatch(d) \/ DispatchStep(d) \/ DatabaseFails(d)
  BY <1>3, WalkStep, StoreStep DEF DispatchStep
<1>4. CASE Restart
  BY <1>4, RestartStep
<1> QED BY <1>1, <1>2, <1>3, <1>4 DEF Next

(* The invariant holds in every reachable state of the outbox.                *)
THEOREM OutboxInvariance == Spec => []OInv
BY OutboxInit, OutboxNext, PTL DEF Spec

(* The variables of the outbox keep their types.                              *)
THEOREM OutboxTypes == Spec => []TypeOK
<1>1. OInv => TypeOK
  BY DEF OInv
<1> QED BY <1>1, OutboxInvariance, PTL

(* FOR UPDATE SKIP LOCKED, the PENDING test and recovery at the start keep a  *)
(* command in the hands of one dispatcher, however many of them run.          *)
THEOREM OneDelivery == Spec => []DeliveredByOne
<1>1. OInv => DeliveredByOne
  BY DEF OInv
<1> QED BY <1>1, OutboxInvariance, PTL

(* claimNext counts an attempt only of a command that markFailed or           *)
(* recoverStale left pending, so restarts alone add to the maximum.           *)
THEOREM BoundedAttempts == Spec => []AttemptsBounded
<1>1. OInv => AttemptsBounded
  BY DEF OInv
<1> QED BY <1>1, OutboxInvariance, PTL

(* markSucceeded and markFailed record what became of the command, database   *)
(* errors and restarts included.                                              *)
THEOREM TrueDeliveries == Spec => []OutcomesTrue
<1>1. OInv => OutcomesTrue
  BY DEF OInv
<1> QED BY <1>1, OutboxInvariance, PTL

-----------------------------------------------------------------------------
(* The outbox implements CommandLedger.                                       *)

LEMMA CommandsInit == Init => Ledger!Init
BY DEF Init, Ledger!Init, Told, Says, Underway, Works

(* The statement of one command is all that a dispatcher changes of them.     *)
LEMMA ToldMoves ==
  ASSUME OInv, NEW c \in Command, NEW s \in OutboxCommandState,
         state' = [state EXCEPT ![c] = s]
  PROVE  /\ (state[c] \in {"PENDING", "PROCESSING"} /\ s \in {"PENDING", "PROCESSING"})
              => Told' = Told
         /\ s \in {"PENDING", "PROCESSING"} => Told' = [Told EXCEPT ![c] = "accepted"]
         /\ s = "SUCCEEDED" => Told' = [Told EXCEPT ![c] = "done"]
         /\ s = "FAILED" => Told' = [Told EXCEPT ![c] = "failed"]
BY DEF OInv, TypeOK, Told, Says, OutboxCommandState

LEMMA ToldRests ==
  ASSUME UNCHANGED state
  PROVE  Told' = Told
BY DEF Told

LEMMA ToldIs ==
  ASSUME OInv, NEW c \in Command
  PROVE  /\ state[c] = "NONE" => Told[c] = "nothing"
         /\ state[c] \in {"PENDING", "PROCESSING"} => Told[c] = "accepted"
BY DEF Told, Says

(* Because a command is in the hands of one dispatcher, the commands that are *)
(* underway change by that of the dispatcher that moves.                      *)
LEMMA UnderwayMoves ==
  ASSUME OInv, NEW d \in Dispatcher,
         \A e \in Dispatcher \ {d} : at'[e] = at[e] /\ cmd'[e] = cmd[e],
         Works(d)' => cmd'[d] = cmd[d]
  PROVE  /\ (Works(d)' <=> Works(d)) => Underway' = Underway
         /\ Works(d) /\ ~Works(d)' => Underway' = Underway \ {cmd[d]}
         /\ ~Works(d) /\ Works(d)' => Underway' = Underway \cup {cmd[d]}
<1>1. \A e \in Dispatcher \ {d} :
        /\ Works(e)' <=> Works(e)
        /\ Works(e) /\ Works(d) => cmd[e] # cmd[d]
  BY DEF OInv, DeliveredByOne, Delivering, Works
<1>2. \A c : c \in Underway <=> \E e \in Dispatcher : Works(e) /\ cmd[e] = c
  BY DEF Underway
<1>3. \A c : c \in Underway' <=> \E e \in Dispatcher : Works(e)' /\ cmd'[e] = c
  BY DEF Underway
<1> QED BY <1>1, <1>2, <1>3

(* What a dispatcher works on is underway, what it has locked is not.         *)
LEMMA Possesses ==
  ASSUME OInv, NEW d \in Dispatcher
  PROVE  /\ Works(d) => cmd[d] \in Underway
         /\ at[d] = "claim" => cmd[d] \notin Underway
         /\ Delivering(d) => cmd[d] \in Command
BY DEF OInv, DeliveredByOne, Delivering, Works, Underway, Holds

LEMMA LedgerRests ==
  ASSUME UNCHANGED <<Told, attempts, Underway, handled, restarts>>
  PROVE  UNCHANGED Ledger!vars
BY DEF Ledger!vars

(* Time and requests.                                                         *)
LEMMA LedgerCommand ==
  ASSUME OInv, NEW c \in Command, Enqueue(c) \/ Due(c) \/ Ages(c)
  PROVE  [Ledger!Next]_Ledger!vars
<1>1. Underway' = Underway
  BY DEF Enqueue, Due, Ages, Underway, Works
<1>2. CASE Enqueue(c)
  <2>1. Told[c] = "nothing" /\ Told' = [Told EXCEPT ![c] = "accepted"]
    BY <1>2, ToldMoves, ToldIs DEF Enqueue, OutboxCommandState
  <2>2. Ledger!Request(c)
    BY <1>1, <1>2, <2>1 DEF Enqueue, Ledger!Request
  <2> QED BY <2>2 DEF Ledger!Next
<1>3. CASE Due(c) \/ Ages(c)
  <2>1. UNCHANGED <<state, attempts, handled, restarts>>
    BY <1>3 DEF Due, Ages
  <2> QED BY <1>1, <2>1, ToldRests, LedgerRests
<1> QED BY <1>2, <1>3

(* The steps of a dispatcher that change no command: only a handler that      *)
(* returns, and one whose record conflicts twice, are seen.                   *)
LEMMA LedgerWalk ==
  ASSUME OInv, NEW d \in Dispatcher,
         \/ Dispatch(d) \/ SelectNext(d) \/ HandlerReturns(d) \/ HandlerThrows(d)
         \/ MarkConflict(d)
  PROVE  [Ledger!Next]_Ledger!vars
<1>1. /\ UNCHANGED <<state, attempts, restarts, Told>>
      /\ \A e \in Dispatcher \ {d} : at'[e] = at[e] /\ cmd'[e] = cmd[e]
      /\ Works(d)' => cmd'[d] = cmd[d]
  <2>1. UNCHANGED <<state, attempts, restarts>>
    BY DEF Dispatch, SelectNext, HandlerReturns, HandlerThrows, MarkConflict
  <2>2. \A e \in Dispatcher \ {d} : at'[e] = at[e] /\ cmd'[e] = cmd[e]
    BY DEF OInv, TypeOK, Dispatch, SelectNext, HandlerReturns, HandlerThrows, MarkConflict, Goes
  <2>3. Works(d)' => cmd'[d] = cmd[d]
    BY DEF OInv, TypeOK, Dispatch, SelectNext, HandlerReturns, HandlerThrows, MarkConflict, Goes,
           Works
  <2> QED BY <2>1, <2>2, <2>3, ToldRests
<1>2. CASE Dispatch(d) \/ SelectNext(d)
  <2>1. ~Works(d) /\ ~Works(d)' /\ UNCHANGED handled
    BY <1>2 DEF OInv, TypeOK, Dispatch, SelectNext, Goes, Works
  <2> QED BY <1>1, <2>1, UnderwayMoves, LedgerRests
<1>3. CASE HandlerThrows(d)
  <2>1. Works(d) /\ Works(d)' /\ UNCHANGED handled
    BY <1>3 DEF OInv, TypeOK, HandlerThrows, Goes, Works
  <2> QED BY <1>1, <2>1, UnderwayMoves, LedgerRests
<1>4. CASE HandlerReturns(d)
  <2>1. Works(d) /\ Works(d)' /\ Delivering(d) /\ handled' = handled \cup {cmd[d]}
    BY <1>4 DEF OInv, TypeOK, HandlerReturns, Goes, Works, Delivering
  <2>2. Underway' = Underway
    BY <1>1, <2>1, UnderwayMoves
  <2>3. Ledger!Complete(cmd[d])
    BY <1>1, <2>1, <2>2, Possesses DEF Ledger!Complete
  <2> QED BY <2>1, <2>3, Possesses DEF Ledger!Next
<1>5. CASE MarkConflict(d)
  <2>1. Works(d) /\ ~Works(d)' /\ Delivering(d) /\ UNCHANGED handled
    BY <1>5 DEF OInv, TypeOK, Holds, MarkConflict, Goes, Works, Delivering
  <2>2. Underway' = Underway \ {cmd[d]}
    BY <1>1, <2>1, UnderwayMoves
  <2>3. Ledger!LetGo(cmd[d])
    BY <1>1, <2>1, <2>2, Possesses DEF Ledger!LetGo
  <2> QED BY <2>1, <2>3, Possesses DEF Ledger!Next
<1> QED BY <1>2, <1>3, <1>4, <1>5

(* The statements on the command a dispatcher holds, recorded or lost.        *)
LEMMA LedgerStore ==
  ASSUME OInv, NEW d \in Dispatcher,
         Claim(d) \/ MarkSucceeded(d) \/ MarkFailed(d) \/ DatabaseFails(d)
  PROVE  [Ledger!Next]_Ledger!vars
<1>1. /\ UNCHANGED <<handled, restarts>>
      /\ \A e \in Dispatcher \ {d} : at'[e] = at[e] /\ cmd'[e] = cmd[e]
      /\ Works(d)' => cmd'[d] = cmd[d]
  BY DEF OInv, TypeOK, Claim, MarkSucceeded, MarkFailed, DatabaseFails, NextCommand, Goes, Works
<1>2. /\ Claim(d) => Works(d)'
      /\ MarkSucceeded(d) \/ MarkFailed(d) => ~Works(d)'
      /\ DatabaseFails(d) => (Works(d)' <=> at[d] = "succeed")
      /\ Works(d) <=> Delivering(d) /\ at[d] # "claim"
  BY DEF OInv, TypeOK, Claim, MarkSucceeded, MarkFailed, DatabaseFails, NextCommand, Goes, Works,
         Delivering
<1>3. Holds(d)
  BY DEF OInv
<1>4. CASE UNCHANGED <<state, attempts, age>>
  <2>1. UNCHANGED <<Told, attempts>>
    BY <1>4, ToldRests
  <2>2. CASE ~Works(d)' /\ ~Works(d)
    BY <1>1, <2>1, <2>2, UnderwayMoves, LedgerRests
  <2>3. CASE Works(d)' /\ Works(d)
    BY <1>1, <2>1, <2>3, UnderwayMoves, LedgerRests
  <2>4. CASE ~Works(d)' /\ Works(d)
    <3>1. Underway' = Underway \ {cmd[d]} /\ cmd[d] \in Underway /\ cmd[d] \in Command
      BY <1>1, <1>2, <2>4, UnderwayMoves, Possesses
    <3>2. Ledger!LetGo(cmd[d])
      BY <1>1, <2>1, <3>1 DEF Ledger!LetGo
    <3> QED BY <3>1, <3>2 DEF Ledger!Next
  <2>5. CASE Works(d)' /\ ~Works(d)
    <3>1. Claim(d)
      BY <1>2, <2>5 DEF Works, MarkSucceeded, MarkFailed
    <3>2. attempts'[cmd[d]] = attempts[cmd[d]] + 1 /\ attempts[cmd[d]] \in Nat
      BY <1>2, <1>3, <3>1, Possesses DEF Claim, StoreClaim, OInv, TypeOK, Delivering
    <3> QED BY <1>4, <3>2
  <2> QED BY <2>2, <2>3, <2>4, <2>5
<1>5. CASE at[d] = "claim" /\ StoreClaim(cmd[d])
  <2>1. cmd[d] \in Command /\ cmd[d] \notin Underway /\ ~Works(d)
    BY <1>2, <1>5, Possesses DEF Delivering
  <2>2. Underway' \in {Underway, Underway \cup {cmd[d]}}
    BY <1>1, <2>1, UnderwayMoves
  <2>3. Told[cmd[d]] = "accepted" /\ Told' = Told
    BY <1>3, <1>5, <2>1, ToldIs, ToldMoves DEF StoreClaim, Holds, OutboxCommandState
  <2>4. attempts[cmd[d]] < MaximumAttempts + restarts
    BY <1>3, <1>5, <2>1 DEF OInv, Holds, AttemptsLeft
  <2>5. Ledger!HandOver(cmd[d])
    BY <1>1, <1>5, <2>1, <2>2, <2>3, <2>4 DEF Ledger!HandOver, StoreClaim
  <2> QED BY <2>1, <2>5 DEF Ledger!Next
<1>6. CASE at[d] = "succeed" /\ StoreSuccess(cmd[d])
  <2>1. cmd[d] \in Command /\ cmd[d] \in Underway /\ Works(d) /\ cmd[d] \in handled
    BY <1>2, <1>3, <1>6, Possesses DEF Delivering, Holds
  <2>2. Underway' \in {Underway, Underway \ {cmd[d]}}
    BY <1>1, <2>1, UnderwayMoves
  <2>3. Told[cmd[d]] = "accepted" /\ Told' = [Told EXCEPT ![cmd[d]] = "done"]
    BY <1>6, <2>1, ToldIs, ToldMoves DEF StoreSuccess, OutboxCommandState
  <2>4. Ledger!TellDone(cmd[d])
    BY <1>1, <1>6, <2>1, <2>2, <2>3 DEF Ledger!TellDone, StoreSuccess
  <2> QED BY <2>1, <2>4 DEF Ledger!Next
<1>7. CASE at[d] = "fail" /\ StoreFailure(cmd[d])
  <2>1. cmd[d] \in Command /\ cmd[d] \in Underway /\ Works(d) /\ ~Works(d)'
    BY <1>2, <1>7, Possesses DEF Delivering, Claim
  <2>2. Underway' = Underway \ {cmd[d]}
    BY <1>1, <2>1, UnderwayMoves
  <2>3. Told[cmd[d]] = "accepted" /\ UNCHANGED attempts
    BY <1>7, <2>1, ToldIs DEF StoreFailure
  <2>4. CASE Terminal(cmd[d])
    <3>1. Told' = [Told EXCEPT ![cmd[d]] = "failed"]
      BY <1>7, <2>1, <2>4, ToldMoves DEF StoreFailure, OutboxCommandState
    <3>2. Ledger!TellFailed(cmd[d])
      BY <1>1, <2>1, <2>2, <2>3, <2>4, <3>1 DEF Ledger!TellFailed, Terminal
    <3> QED BY <2>1, <3>2 DEF Ledger!Next
  <2>5. CASE ~Terminal(cmd[d])
    <3>1. Told' = Told
      BY <1>7, <2>1, <2>5, ToldMoves DEF StoreFailure, OutboxCommandState
    <3>2. Ledger!LetGo(cmd[d])
      BY <1>1, <2>1, <2>2, <2>3, <3>1 DEF Ledger!LetGo
    <3> QED BY <2>1, <3>2 DEF Ledger!Next
  <2> QED BY <2>4, <2>5
<1> QED BY <1>4, <1>5, <1>6, <1>7 DEF Claim, MarkSucceeded, MarkFailed, DatabaseFails

LEMMA LedgerRestart ==
  ASSUME OInv, Restart
  PROVE  [Ledger!Next]_Ledger!vars
<1>1. Underway' = {}
  BY DEF Restart, Underway, Works
<1>2. Told' = Told
  <2>1. ASSUME NEW c \in Command
        PROVE  \/ state'[c] = state[c]
               \/ state[c] = "PROCESSING" /\ state'[c] = "PENDING"
    BY DEF Restart, Stale
  <2>2. Says("PENDING") = Says("PROCESSING")
    BY DEF Says
  <2>3. ASSUME NEW c \in Command PROVE Says(state'[c]) = Says(state[c])
    BY <2>1, <2>2
  <2> QED BY <2>3 DEF Told
<1>3. Ledger!Restart
  BY <1>1, <1>2 DEF Restart, Ledger!Restart
<1> QED BY <1>3 DEF Ledger!Next

LEMMA LedgerStep == OInv /\ [Next]_vars => [Ledger!Next]_Ledger!vars
<1> SUFFICES ASSUME OInv, [Next]_vars PROVE [Ledger!Next]_Ledger!vars
  OBVIOUS
<1>1. CASE UNCHANGED vars
  <2>1. Underway' = Underway
    BY <1>1 DEF vars, Underway, Works
  <2> QED BY <1>1, <2>1, ToldRests, LedgerRests DEF vars
<1>2. CASE \E c \in Command : Enqueue(c) \/ Due(c) \/ Ages(c)
  BY <1>2, LedgerCommand
<1>3. CASE \E d \in Dispatcher : Dispatch(d) \/ DispatchStep(d) \/ DatabaseFails(d)
  BY <1>3, LedgerWalk, LedgerStore DEF DispatchStep
<1>4. CASE Restart
  BY <1>4, LedgerRestart
<1> QED BY <1>1, <1>2, <1>3, <1>4 DEF Next

(* The outbox keeps what CommandLedger promises, for every number of          *)
(* dispatchers, commands, attempts, failures and restarts.                    *)
THEOREM OutboxImplementsLedger == Spec => CommandsKept
<1>1. OInv /\ [Next]_vars => [Ledger!Next]_Ledger!vars
  BY LedgerStep
<1> QED BY <1>1, CommandsInit, OutboxInvariance, PTL DEF Spec, CommandsKept, Ledger!Spec
=============================================================================
