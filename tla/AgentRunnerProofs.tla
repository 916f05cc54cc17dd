-------------------------- MODULE AgentRunnerProofs --------------------------
(* What holds of AgentRunner for every bound of lines, pieces and faults.     *)
EXTENDS AgentRunner, TLAPS


Lines(s) == {s[i] : i \in DOMAIN s}
OwnDelta(line) == line.kind = "delta" /\ line.of = "own"
OwnEnd(line) == line.kind = "turn/completed" /\ line.of = "own"
Says(line, s) == line.kind = "response" /\ line.says \in s
Pieces(lines) == {line.piece : line \in {l \in Lines(lines) : OwnDelta(l)}}

Started == {"turn/start", "turn"}
Ending == {"close", "closing", "stranded", "over"}

(* The parts of TypeOK: the flags apart from all else.                        *)
Flags ==
  /\ signalled \in BOOLEAN /\ connected \in BOOLEAN
  /\ late \in BOOLEAN /\ listening \in BOOLEAN /\ ended \in BOOLEAN
Typed ==
  /\ task \in TaskState
  /\ runner \in {"none", "up", "gone"}
  /\ exit \in {"none", "zero", "nonzero"}
  /\ pc \in WorkerStep
  /\ answer \in Outcome \cup {"none"}
  /\ pending \subseteq Request
  /\ heard \subseteq Nat
  /\ known \in TurnOutcome \cup {"none"}
  /\ reported \in TurnOutcome \cup {"none"}
  /\ server \in {"none", "up", "zero", "code", "signal", "gone"}
  /\ asked \subseteq Request \cup {"denial"}
  /\ output \in Seq(Line)
  /\ turn \in TurnOutcome \cup {"none", "running"}
  /\ said \in 0..MaxDeltas
  /\ faults \in 0..MaxFaults

(* What the worker or the App Server holds of a ready environment is true.    *)
EnvironmentInv ==
  /\ pc \in {"thread/start"} \cup Started => connected
  /\ "turn/start" \in asked => connected
  /\ answer = "ready" => connected
  /\ \A line \in Lines(output) : Says(line, {"ready"}) => connected
  /\ TurnNeedsEnvironment

(* Before the worker asks for a turn there is none, and nothing of it.        *)
TurnInv ==
  /\ "turn/start" \in asked \/ turn # "none" => pc \in Started \cup Ending
  /\ turn = "none" =>
       /\ said = 0 /\ heard = {}
       /\ \A line \in Lines(output) : ~OwnDelta(line) /\ ~OwnEnd(line)

(* A completion on its way is that of the turn, and no piece follows it.      *)
OutputInv ==
  /\ \A line \in Lines(output) :
       ~Says(line, TurnOutcome) /\ (OwnEnd(line) => turn = line.says)
  /\ \A i, j \in DOMAIN output :
       i < j /\ OwnEnd(output[i]) => ~OwnDelta(output[j])

(* While the turn is waited for each piece was heard or is on its way.        *)
CollectedInv ==
  pc \in Started => listening /\ heard \cup Pieces(output) = 1..said

(* A known completion is that of the turn, and was the last line of it.       *)
KnownInv ==
  /\ known # "none" =>
       turn = known /\ \A line \in Lines(output) : ~OwnDelta(line)
  /\ pc = "turn" /\ answer \in TurnOutcome => answer = known
  /\ NoLostCompletion

VerdictInv ==
  /\ task = "idle" => runner = "none" /\ pc = "none"
  /\ reported # "none" => pc \in Ending /\ ~listening
  /\ reported = "completed" => turn = "completed" /\ heard = 1..said
  /\ task = "completed" => reported = "completed" /\ runner = "gone"

IInv ==
  /\ Typed /\ Flags
  /\ EnvironmentInv /\ TurnInv /\ OutputInv
  /\ CollectedInv /\ KnownInv /\ VerdictInv

-----------------------------------------------------------------------------
LEMMA LinesAreTyped ==
  /\ \A m \in Request, s \in Outcome : Response(m, s) \in Line
  /\ \A w \in Whose, n \in Nat : Delta(w, n) \in Line
  /\ \A w \in Whose, s \in TurnOutcome : TurnCompleted(w, s) \in Line
  /\ \A k \in {"request", "garbage", "error"} : Odd(k) \in Line
BY DEF Response, Delta, TurnCompleted, Odd, Line

LEMMA NoLines == <<>> \in Seq(Line) /\ Lines(<<>>) = {} /\ DOMAIN <<>> = {}
BY DEF Lines

(* A line that is written comes last.                                         *)
LEMMA Appended ==
  ASSUME NEW s \in Seq(Line), NEW x \in Line
  PROVE  /\ Append(s, x) \in Seq(Line)
         /\ Lines(Append(s, x)) = Lines(s) \cup {x}
         /\ DOMAIN Append(s, x) = 1..Len(s) + 1 /\ Len(s) \in Nat
         /\ DOMAIN s = 1..Len(s)
         /\ Append(s, x)[Len(s) + 1] = x
         /\ \A i \in DOMAIN s : Append(s, x)[i] = s[i]
BY DEF Lines

(* A line that is handled comes first.                                        *)
LEMMA Taken ==
  ASSUME NEW s \in Seq(Line), s # <<>>
  PROVE  /\ Head(s) \in Line /\ Tail(s) \in Seq(Line)
         /\ Head(s) = s[1] /\ 1 \in DOMAIN s
         /\ Lines(s) = {Head(s)} \cup Lines(Tail(s))
         /\ \A i \in DOMAIN Tail(s) : i \in Nat \ {0} /\ i + 1 \in DOMAIN s /\ Tail(s)[i] = s[i + 1]
<1>1. Head(s) \in Line /\ Tail(s) \in Seq(Line)
  OBVIOUS
<1>2. Head(s) = s[1] /\ 1 \in DOMAIN s
  OBVIOUS
<1>3. \A i \in DOMAIN Tail(s) : i \in Nat \ {0} /\ i + 1 \in DOMAIN s /\ Tail(s)[i] = s[i + 1]
  OBVIOUS
<1>4. \A i \in DOMAIN s : i = 1 \/ (i - 1 \in DOMAIN Tail(s) /\ s[i] = Tail(s)[i - 1])
  OBVIOUS
<1>5. Lines(s) \subseteq {Head(s)} \cup Lines(Tail(s))
  BY <1>2, <1>4 DEF Lines
<1>6. {Head(s)} \cup Lines(Tail(s)) \subseteq Lines(s)
  BY <1>2, <1>3 DEF Lines
<1> QED BY <1>1, <1>2, <1>3, <1>5, <1>6

USE DEF Request, WorkerStep, TaskState, TurnOutcome, Outcome, Started, Ending

LEMMA RunnerInit == Init => IInv
<1> SUFFICES ASSUME Init PROVE IInv
  OBVIOUS
<1>1. Typed
  BY NoLines, BoundsAssumption DEF Init, Typed
<1>2. Flags
  BY DEF Init, Flags
<1>3. EnvironmentInv /\ TurnInv /\ OutputInv
  BY NoLines DEF Init, EnvironmentInv, TurnInv, OutputInv, TurnNeedsEnvironment
<1>4. CollectedInv /\ KnownInv /\ VerdictInv
  BY DEF Init, CollectedInv, KnownInv, VerdictInv, NoLostCompletion
<1> QED BY <1>1, <1>2, <1>3, <1>4 DEF IInv

(* The worker's end leaves no line and no step of the worker.                 *)
LEMMA EndKeeps ==
  ASSUME IInv, runner = "up", NEW c \in {"zero", "nonzero"}, WorkerEnds(c),
         faults' \in 0..MaxFaults
  PROVE  IInv'
<1> USE DEF WorkerEnds, control, client
<1>1. Typed'
  BY NoLines DEF IInv, Typed
<1>2. Flags'
  BY DEF IInv, Flags
<1>3. EnvironmentInv' /\ TurnInv' /\ OutputInv'
  BY NoLines DEF IInv, EnvironmentInv, TurnInv, OutputInv, TurnNeedsEnvironment
<1>4. CollectedInv' /\ KnownInv'
  BY NoLines DEF IInv, CollectedInv, KnownInv, NoLostCompletion
<1>5. VerdictInv'
  BY DEF IInv, VerdictInv, Typed
<1> QED BY <1>1, <1>2, <1>3, <1>4, <1>5 DEF IInv

(* rad-control passes its verdict on once the container is gone, or gives up. *)
LEMMA TaskKeeps ==
  ASSUME IInv, UNCHANGED <<runner, exit, worker, appServer>>,
         task' \in TaskState \ {"idle"},
         task' = "completed" => reported = "completed" /\ runner = "gone",
         signalled' \in BOOLEAN, faults' \in 0..MaxFaults
  PROVE  IInv'
<1> USE DEF worker, client, appServer
<1>1. Typed'
  BY DEF IInv, Typed
<1>2. Flags'
  BY DEF IInv, Flags
<1>3. EnvironmentInv' /\ TurnInv' /\ OutputInv'
  BY DEF IInv, EnvironmentInv, TurnInv, TurnNeedsEnvironment, OutputInv
<1>4. CollectedInv' /\ KnownInv' /\ VerdictInv'
  BY DEF IInv, CollectedInv, KnownInv, VerdictInv, NoLostCompletion, Pieces
<1> QED BY <1>1, <1>2, <1>3, <1>4 DEF IInv

(* rad-control and Docker: a new run begins before any turn, and a verdict is  *)
(* passed on only when the container is gone.                                 *)
LEMMA ControlKeeps ==
  ASSUME IInv,
         \/ StartRun
         \/ RunRefused
         \/ RunReturns
         \/ RunTimesOut
         \/ RunnerKilled
         \/ ClientBreaks
         \/ ControlCrashes
  PROVE  IInv'
<1>1. CASE StartRun
  <2>1. Typed'
    BY <1>1, BoundsAssumption DEF IInv, Typed, StartRun, Send
  <2>2. Flags'
    BY <1>1 DEF IInv, Flags, StartRun, Send
  <2>3. EnvironmentInv' /\ TurnInv'
    BY <1>1
       DEF IInv, Typed, EnvironmentInv, TurnInv, TurnNeedsEnvironment,
           VerdictInv, StartRun, Send
  <2>4. OutputInv'
    BY <1>1 DEF IInv, TurnInv, OutputInv, StartRun, Send
  <2>5. CollectedInv'
    BY <1>1 DEF IInv, CollectedInv, Pieces, StartRun, Send
  <2>6. KnownInv' /\ VerdictInv'
    BY <1>1
       DEF IInv, Typed, TurnInv, CollectedInv, KnownInv, VerdictInv,
           NoLostCompletion, Pieces, StartRun, Send
  <2> QED BY <2>1, <2>2, <2>3, <2>4, <2>5, <2>6 DEF IInv
<1>2. CASE RunRefused
  <2>1. UNCHANGED <<runner, exit, worker, appServer>>
    BY <1>2 DEF RunRefused
  <2>2. /\ task' \in TaskState \ {"idle"} /\ faults' \in 0..MaxFaults
        /\ task' = "completed" => reported = "completed" /\ runner = "gone"
    BY <1>2, BoundsAssumption DEF RunRefused, IInv, Typed, VerdictInv
  <2>3. signalled' \in BOOLEAN
    BY <1>2 DEF RunRefused, IInv, Flags
  <2> QED BY <2>1, <2>2, <2>3, TaskKeeps
<1>3. CASE RunReturns
  <2>1. UNCHANGED <<runner, exit, worker, appServer>>
    BY <1>3 DEF RunReturns
  <2>2. /\ task' \in TaskState \ {"idle"} /\ faults' \in 0..MaxFaults
        /\ task' = "completed" => reported = "completed" /\ runner = "gone"
    BY <1>3, BoundsAssumption
       DEF RunReturns, Completion, IInv, Typed, VerdictInv
  <2>3. signalled' \in BOOLEAN
    BY <1>3 DEF RunReturns, IInv, Flags
  <2> QED BY <2>1, <2>2, <2>3, TaskKeeps
<1>4. CASE RunTimesOut
  <2>1. UNCHANGED <<runner, exit, worker, appServer>>
    BY <1>4 DEF RunTimesOut
  <2>2. /\ task' \in TaskState \ {"idle"} /\ faults' \in 0..MaxFaults
        /\ task' = "completed" => reported = "completed" /\ runner = "gone"
    BY <1>4, BoundsAssumption DEF RunTimesOut, IInv, Typed, VerdictInv
  <2>3. signalled' \in BOOLEAN
    BY <1>4 DEF RunTimesOut, IInv, Flags
  <2> QED BY <2>1, <2>2, <2>3, TaskKeeps
<1>5. CASE RunnerKilled
  BY <1>5, EndKeeps, BoundsAssumption DEF RunnerKilled, At, Fault, IInv, Typed
<1>6. CASE ClientBreaks
  <2>1. UNCHANGED <<runner, exit, worker, appServer>>
    BY <1>6 DEF ClientBreaks
  <2>2. /\ task' \in TaskState \ {"idle"} /\ faults' \in 0..MaxFaults
        /\ task' = "completed" => reported = "completed" /\ runner = "gone"
    BY <1>6, BoundsAssumption DEF ClientBreaks, Fault, IInv, Typed, VerdictInv
  <2>3. signalled' \in BOOLEAN
    BY <1>6 DEF ClientBreaks, IInv, Flags
  <2> QED BY <2>1, <2>2, <2>3, TaskKeeps
<1>7. CASE ControlCrashes
  <2>1. UNCHANGED <<runner, exit, worker, appServer>>
    BY <1>7 DEF ControlCrashes
  <2>2. /\ task' \in TaskState \ {"idle"} /\ faults' \in 0..MaxFaults
        /\ task' = "completed" => reported = "completed" /\ runner = "gone"
    BY <1>7, BoundsAssumption DEF ControlCrashes, Fault, IInv, Typed, VerdictInv
  <2>3. signalled' \in BOOLEAN
    BY <1>7 DEF ControlCrashes, IInv, Flags
  <2> QED BY <2>1, <2>2, <2>3, TaskKeeps
<1> QED BY <1>1, <1>2, <1>3, <1>4, <1>5, <1>6, <1>7

(* A timer settles what is waited for with an error.                          *)
LEMMA TimersKeep ==
  ASSUME IInv,
         \/ (\E m \in Request : RequestTimesOut(m))
         \/ TurnTimesOut
         \/ DeadlinePasses
  PROVE  IInv'
<1>1. CASE (\E m \in Request : RequestTimesOut(m))
  <2>1. Typed'
    BY <1>1, BoundsAssumption
       DEF IInv, Typed, RequestTimesOut, Settle, Stays, OnlyClient, control,
           appServer
  <2>2. Flags'
    BY <1>1
       DEF IInv, Flags, RequestTimesOut, Settle, Stays, OnlyClient, control,
           appServer
  <2>3. EnvironmentInv' /\ TurnInv'
    BY <1>1
       DEF IInv, Typed, EnvironmentInv, TurnInv, TurnNeedsEnvironment,
           VerdictInv, RequestTimesOut, Settle, Stays, OnlyClient, control,
           appServer
  <2>4. OutputInv'
    BY <1>1
       DEF IInv, TurnInv, OutputInv, RequestTimesOut, Settle, Stays,
           OnlyClient, control, appServer
  <2>5. CollectedInv'
    BY <1>1
       DEF IInv, CollectedInv, Pieces, RequestTimesOut, Settle, Stays,
           OnlyClient, control, appServer
  <2>6. KnownInv' /\ VerdictInv'
    BY <1>1
       DEF IInv, Typed, TurnInv, CollectedInv, KnownInv, VerdictInv,
           NoLostCompletion, Pieces, RequestTimesOut, Settle, Stays,
           OnlyClient, control, appServer
  <2> QED BY <2>1, <2>2, <2>3, <2>4, <2>5, <2>6 DEF IInv
<1>2. CASE TurnTimesOut
  <2>1. Typed'
    BY <1>2, BoundsAssumption
       DEF IInv, Typed, TurnTimesOut, Stays, OnlyClient, TurnTimer, control,
           appServer
  <2>2. Flags'
    BY <1>2
       DEF IInv, Flags, TurnTimesOut, Stays, OnlyClient, TurnTimer, control,
           appServer
  <2>3. EnvironmentInv' /\ TurnInv'
    BY <1>2
       DEF IInv, Typed, EnvironmentInv, TurnInv, TurnNeedsEnvironment,
           VerdictInv, TurnTimesOut, Stays, OnlyClient, TurnTimer, control,
           appServer
  <2>4. OutputInv'
    BY <1>2
       DEF IInv, TurnInv, OutputInv, TurnTimesOut, Stays, OnlyClient,
           TurnTimer, control, appServer
  <2>5. CollectedInv'
    BY <1>2
       DEF IInv, CollectedInv, Pieces, TurnTimesOut, Stays, OnlyClient,
           TurnTimer, control, appServer
  <2>6. KnownInv' /\ VerdictInv'
    BY <1>2
       DEF IInv, Typed, TurnInv, CollectedInv, KnownInv, VerdictInv,
           NoLostCompletion, Pieces, TurnTimesOut, Stays, OnlyClient,
           TurnTimer, control, appServer
  <2> QED BY <2>1, <2>2, <2>3, <2>4, <2>5, <2>6 DEF IInv
<1>3. CASE DeadlinePasses
  <2>1. Typed'
    BY <1>3, BoundsAssumption
       DEF IInv, Typed, DeadlinePasses, control, appServer
  <2>2. Flags'
    BY <1>3 DEF IInv, Flags, DeadlinePasses, control, appServer
  <2>3. EnvironmentInv' /\ TurnInv'
    BY <1>3
       DEF IInv, Typed, EnvironmentInv, TurnInv, TurnNeedsEnvironment,
           VerdictInv, DeadlinePasses, control, appServer
  <2>4. OutputInv'
    BY <1>3 DEF IInv, TurnInv, OutputInv, DeadlinePasses, control, appServer
  <2>5. CollectedInv'
    BY <1>3 DEF IInv, CollectedInv, Pieces, DeadlinePasses, control, appServer
  <2>6. KnownInv' /\ VerdictInv'
    BY <1>3
       DEF IInv, Typed, TurnInv, CollectedInv, KnownInv, VerdictInv,
           NoLostCompletion, Pieces, DeadlinePasses, control, appServer
  <2> QED BY <2>1, <2>2, <2>3, <2>4, <2>5, <2>6 DEF IInv
<1> QED BY <1>1, <1>2, <1>3

(* What ends with the App Server: pending requests, or the worker.            *)
LEMMA DeathsKeep ==
  ASSUME IInv,
         \/ HandleErrorNotification
         \/ OutputEnds
         \/ InputBreaks
  PROVE  IInv'
<1>1. CASE HandleErrorNotification
  BY <1>1, EndKeeps, BoundsAssumption
     DEF HandleErrorNotification, At, Fault, IInv, Typed
<1>2. CASE OutputEnds
  <2>1. Typed'
    <3>1. pending' \in SUBSET Request /\ answer' \in Outcome \cup {"none"}
      BY <1>2 DEF IInv, Typed, OutputEnds, FailPending
    <3> QED BY <1>2, <3>1 DEF IInv, Typed, OutputEnds, OnlyClient, control, appServer
  <2>2. Flags'
    BY <1>2
       DEF IInv, Flags, OutputEnds, FailPending, OnlyClient, control,
           appServer
  <2>3. EnvironmentInv' /\ TurnInv'
    BY <1>2
       DEF IInv, Typed, EnvironmentInv, TurnInv, TurnNeedsEnvironment,
           VerdictInv, OutputEnds, FailPending, OnlyClient, control,
           appServer
  <2>4. OutputInv'
    BY <1>2
       DEF IInv, TurnInv, OutputInv, OutputEnds, FailPending, OnlyClient,
           control, appServer
  <2>5. CollectedInv'
    BY <1>2
       DEF IInv, CollectedInv, Pieces, OutputEnds, FailPending, OnlyClient,
           control, appServer
  <2>6. KnownInv' /\ VerdictInv'
    BY <1>2
       DEF IInv, Typed, TurnInv, CollectedInv, KnownInv, VerdictInv,
           NoLostCompletion, Pieces, OutputEnds, FailPending, OnlyClient,
           control, appServer
  <2> QED BY <2>1, <2>2, <2>3, <2>4, <2>5, <2>6 DEF IInv
<1>3. CASE InputBreaks
  BY <1>3, EndKeeps, BoundsAssumption DEF InputBreaks, At, Fault, IInv, Typed
<1> QED BY <1>1, <1>2, <1>3

(* The worker's continuations.                                                *)
LEMMA WorkerKeeps ==
  ASSUME IInv,
         \/ AfterInitialize
         \/ AfterAdd
         \/ AfterStatus
         \/ AfterPause
         \/ AfterThreadStart
         \/ AfterTurnStart
         \/ AfterTurn
         \/ Rejected
         \/ Close
         \/ CloseReturns
         \/ Strand
  PROVE  IInv'
<1>1. CASE AfterInitialize
  <2>1. Typed'
    BY <1>1, BoundsAssumption
       DEF IInv, Typed, AfterInitialize, Send, At, Fulfilled, WorkerOnly,
           control
  <2>2. Flags'
    BY <1>1
       DEF IInv, Flags, AfterInitialize, Send, At, Fulfilled, WorkerOnly,
           control
  <2>3. EnvironmentInv' /\ TurnInv'
    BY <1>1
       DEF IInv, Typed, EnvironmentInv, TurnInv, TurnNeedsEnvironment,
           VerdictInv, AfterInitialize, Send, At, Fulfilled, WorkerOnly,
           control
  <2>4. OutputInv'
    BY <1>1
       DEF IInv, TurnInv, OutputInv, AfterInitialize, Send, At, Fulfilled,
           WorkerOnly, control
  <2>5. CollectedInv'
    BY <1>1
       DEF IInv, CollectedInv, Pieces, AfterInitialize, Send, At, Fulfilled,
           WorkerOnly, control
  <2>6. KnownInv' /\ VerdictInv'
    BY <1>1
       DEF IInv, Typed, TurnInv, CollectedInv, KnownInv, VerdictInv,
           NoLostCompletion, Pieces, AfterInitialize, Send, At, Fulfilled,
           WorkerOnly, control
  <2> QED BY <2>1, <2>2, <2>3, <2>4, <2>5, <2>6 DEF IInv
<1>2. CASE AfterAdd
  <2>1. Typed'
    BY <1>2, BoundsAssumption
       DEF IInv, Typed, AfterAdd, Send, At, Fulfilled, WorkerOnly, control
  <2>2. Flags'
    BY <1>2 DEF IInv, Flags, AfterAdd, Send, At, Fulfilled, WorkerOnly, control
  <2>3. EnvironmentInv' /\ TurnInv'
    BY <1>2
       DEF IInv, Typed, EnvironmentInv, TurnInv, TurnNeedsEnvironment,
           VerdictInv, AfterAdd, Send, At, Fulfilled, WorkerOnly, control
  <2>4. OutputInv'
    BY <1>2
       DEF IInv, TurnInv, OutputInv, AfterAdd, Send, At, Fulfilled,
           WorkerOnly, control
  <2>5. CollectedInv'
    BY <1>2
       DEF IInv, CollectedInv, Pieces, AfterAdd, Send, At, Fulfilled,
           WorkerOnly, control
  <2>6. KnownInv' /\ VerdictInv'
    BY <1>2
       DEF IInv, Typed, TurnInv, CollectedInv, KnownInv, VerdictInv,
           NoLostCompletion, Pieces, AfterAdd, Send, At, Fulfilled,
           WorkerOnly, control
  <2> QED BY <2>1, <2>2, <2>3, <2>4, <2>5, <2>6 DEF IInv
<1>3. CASE AfterStatus
  <2>1. Typed'
    <3>1. /\ pc' \in WorkerStep /\ answer' \in Outcome \cup {"none"}
          /\ reported' \in TurnOutcome \cup {"none"}
      BY <1>3 DEF IInv, Typed, AfterStatus, Send, Fail
    <3>2. pending' \subseteq Request /\ asked' \subseteq Request \cup {"denial"}
      BY <1>3 DEF IInv, Typed, AfterStatus, Send, Fail
    <3> QED BY <1>3, <3>1, <3>2 DEF IInv, Typed, AfterStatus, WorkerOnly, control
  <2>2. Flags'
    BY <1>3
       DEF IInv, Flags, AfterStatus, Send, Fail, At, Fulfilled, WorkerOnly,
           control
  <2>3. EnvironmentInv' /\ TurnInv'
    BY <1>3
       DEF IInv, Typed, EnvironmentInv, TurnInv, TurnNeedsEnvironment,
           VerdictInv, AfterStatus, Send, Fail, At, Fulfilled, WorkerOnly,
           control
  <2>4. OutputInv'
    BY <1>3
       DEF IInv, TurnInv, OutputInv, AfterStatus, Send, Fail, At, Fulfilled,
           WorkerOnly, control
  <2>5. CollectedInv'
    BY <1>3
       DEF IInv, CollectedInv, Pieces, AfterStatus, Send, Fail, At, Fulfilled,
           WorkerOnly, control
  <2>6. KnownInv' /\ VerdictInv'
    BY <1>3
       DEF IInv, Typed, TurnInv, CollectedInv, KnownInv, VerdictInv,
           NoLostCompletion, Pieces, AfterStatus, Send, Fail, At, Fulfilled,
           WorkerOnly, control
  <2> QED BY <2>1, <2>2, <2>3, <2>4, <2>5, <2>6 DEF IInv
<1>4. CASE AfterPause
  <2>1. Typed'
    <3>1. /\ pc' \in WorkerStep /\ answer' \in Outcome \cup {"none"}
          /\ reported' \in TurnOutcome \cup {"none"}
      BY <1>4 DEF IInv, Typed, AfterPause, Send, GiveUpLate, Fail
    <3>2. pending' \subseteq Request /\ asked' \subseteq Request \cup {"denial"}
      BY <1>4 DEF IInv, Typed, AfterPause, Send, GiveUpLate, Fail
    <3> QED BY <1>4, <3>1, <3>2 DEF IInv, Typed, AfterPause, WorkerOnly, control
  <2>2. Flags'
    BY <1>4
       DEF IInv, Flags, AfterPause, Send, Fail, GiveUpLate, At, WorkerOnly,
           control
  <2>3. EnvironmentInv' /\ TurnInv'
    BY <1>4
       DEF IInv, Typed, EnvironmentInv, TurnInv, TurnNeedsEnvironment,
           VerdictInv, AfterPause, Send, Fail, GiveUpLate, At, WorkerOnly,
           control
  <2>4. OutputInv'
    BY <1>4
       DEF IInv, TurnInv, OutputInv, AfterPause, Send, Fail, GiveUpLate, At,
           WorkerOnly, control
  <2>5. CollectedInv'
    BY <1>4
       DEF IInv, CollectedInv, Pieces, AfterPause, Send, Fail, GiveUpLate, At,
           WorkerOnly, control
  <2>6. KnownInv' /\ VerdictInv'
    BY <1>4
       DEF IInv, Typed, TurnInv, CollectedInv, KnownInv, VerdictInv,
           NoLostCompletion, Pieces, AfterPause, Send, Fail, GiveUpLate, At,
           WorkerOnly, control
  <2> QED BY <2>1, <2>2, <2>3, <2>4, <2>5, <2>6 DEF IInv
<1>5. CASE AfterThreadStart
  <2>1. Typed'
    BY <1>5, BoundsAssumption
       DEF IInv, Typed, AfterThreadStart, Send, At, Fulfilled, WorkerOnly,
           control
  <2>2. Flags'
    BY <1>5
       DEF IInv, Flags, AfterThreadStart, Send, At, Fulfilled, WorkerOnly,
           control
  <2>3. EnvironmentInv' /\ TurnInv'
    BY <1>5
       DEF IInv, Typed, EnvironmentInv, TurnInv, TurnNeedsEnvironment,
           VerdictInv, AfterThreadStart, Send, At, Fulfilled, WorkerOnly,
           control
  <2>4. OutputInv'
    BY <1>5
       DEF IInv, TurnInv, OutputInv, AfterThreadStart, Send, At, Fulfilled,
           WorkerOnly, control
  <2>5. CollectedInv'
    <3>1. said = 0 /\ heard = {} /\ Pieces(output) = {}
      BY <1>5 DEF IInv, TurnInv, AfterThreadStart, At, Pieces
    <3> QED BY <1>5, <3>1 DEF CollectedInv, Pieces, AfterThreadStart, Send, WorkerOnly
  <2>6. KnownInv' /\ VerdictInv'
    BY <1>5
       DEF IInv, Typed, TurnInv, CollectedInv, KnownInv, VerdictInv,
           NoLostCompletion, Pieces, AfterThreadStart, Send, At, Fulfilled,
           WorkerOnly, control
  <2> QED BY <2>1, <2>2, <2>3, <2>4, <2>5, <2>6 DEF IInv
<1>6. CASE AfterTurnStart
  <2>1. Typed'
    BY <1>6, BoundsAssumption
       DEF IInv, Typed, AfterTurnStart, At, Fulfilled, WorkerOnly, control
  <2>2. Flags'
    BY <1>6 DEF IInv, Flags, AfterTurnStart, At, Fulfilled, WorkerOnly, control
  <2>3. EnvironmentInv' /\ TurnInv'
    BY <1>6
       DEF IInv, Typed, EnvironmentInv, TurnInv, TurnNeedsEnvironment,
           VerdictInv, AfterTurnStart, At, Fulfilled, WorkerOnly, control
  <2>4. OutputInv'
    BY <1>6
       DEF IInv, TurnInv, OutputInv, AfterTurnStart, At, Fulfilled,
           WorkerOnly, control
  <2>5. CollectedInv'
    BY <1>6
       DEF IInv, CollectedInv, Pieces, AfterTurnStart, At, Fulfilled,
           WorkerOnly, control
  <2>6. KnownInv' /\ VerdictInv'
    BY <1>6
       DEF IInv, Typed, TurnInv, CollectedInv, KnownInv, VerdictInv,
           NoLostCompletion, Pieces, AfterTurnStart, At, Fulfilled,
           WorkerOnly, control
  <2> QED BY <2>1, <2>2, <2>3, <2>4, <2>5, <2>6 DEF IInv
<1>7. CASE AfterTurn
  <2>1. Typed'
    BY <1>7, BoundsAssumption
       DEF IInv, Typed, AfterTurn, Fail, Succeeded, At, Fulfilled, WorkerOnly,
           control
  <2>2. Flags'
    BY <1>7
       DEF IInv, Flags, AfterTurn, Fail, Succeeded, At, Fulfilled, WorkerOnly,
           control
  <2>3. EnvironmentInv' /\ TurnInv'
    BY <1>7
       DEF IInv, Typed, EnvironmentInv, TurnInv, TurnNeedsEnvironment,
           VerdictInv, AfterTurn, Fail, Succeeded, At, Fulfilled, WorkerOnly,
           control
  <2>4. OutputInv'
    BY <1>7
       DEF IInv, TurnInv, OutputInv, AfterTurn, Fail, Succeeded, At,
           Fulfilled, WorkerOnly, control
  <2>5. CollectedInv'
    BY <1>7
       DEF IInv, CollectedInv, Pieces, AfterTurn, Fail, Succeeded, At,
           Fulfilled, WorkerOnly, control
  <2>6. KnownInv' /\ VerdictInv'
    BY <1>7
       DEF IInv, Typed, TurnInv, CollectedInv, KnownInv, VerdictInv,
           NoLostCompletion, Pieces, AfterTurn, Fail, Succeeded, At,
           Fulfilled, WorkerOnly, control
  <2> QED BY <2>1, <2>2, <2>3, <2>4, <2>5, <2>6 DEF IInv
<1>8. CASE Rejected
  <2>1. Typed'
    BY <1>8, BoundsAssumption
       DEF IInv, Typed, Rejected, Fail, WorkerOnly, control
  <2>2. Flags'
    BY <1>8 DEF IInv, Flags, Rejected, Fail, WorkerOnly, control
  <2>3. EnvironmentInv' /\ TurnInv'
    BY <1>8
       DEF IInv, Typed, EnvironmentInv, TurnInv, TurnNeedsEnvironment,
           VerdictInv, Rejected, Fail, WorkerOnly, control
  <2>4. OutputInv'
    BY <1>8 DEF IInv, TurnInv, OutputInv, Rejected, Fail, WorkerOnly, control
  <2>5. CollectedInv'
    BY <1>8 DEF IInv, CollectedInv, Pieces, Rejected, Fail, WorkerOnly, control
  <2>6. KnownInv' /\ VerdictInv'
    BY <1>8
       DEF IInv, Typed, TurnInv, CollectedInv, KnownInv, VerdictInv,
           NoLostCompletion, Pieces, Rejected, Fail, WorkerOnly, control
  <2> QED BY <2>1, <2>2, <2>3, <2>4, <2>5, <2>6 DEF IInv
<1>9. CASE Close
  <2>1. Typed'
    BY <1>9, BoundsAssumption
       DEF IInv, Typed, Close, At, WorkerOnly, control, client
  <2>2. Flags'
    BY <1>9 DEF IInv, Flags, Close, At, WorkerOnly, control, client
  <2>3. EnvironmentInv' /\ TurnInv'
    BY <1>9
       DEF IInv, Typed, EnvironmentInv, TurnInv, TurnNeedsEnvironment,
           VerdictInv, Close, At, WorkerOnly, control, client
  <2>4. OutputInv'
    BY <1>9 DEF IInv, TurnInv, OutputInv, Close, At, WorkerOnly, control, client
  <2>5. CollectedInv'
    BY <1>9
       DEF IInv, CollectedInv, Pieces, Close, At, WorkerOnly, control, client
  <2>6. KnownInv' /\ VerdictInv'
    BY <1>9
       DEF IInv, Typed, TurnInv, CollectedInv, KnownInv, VerdictInv,
           NoLostCompletion, Pieces, Close, At, WorkerOnly, control, client
  <2> QED BY <2>1, <2>2, <2>3, <2>4, <2>5, <2>6 DEF IInv
<1>10. CASE CloseReturns
  BY <1>10, EndKeeps, BoundsAssumption DEF CloseReturns, At, Fault, IInv, Typed
<1>11. CASE Strand
  BY <1>11, EndKeeps, BoundsAssumption DEF Strand, At, Fault, IInv, Typed
<1> QED BY <1>1, <1>2, <1>3, <1>4, <1>5, <1>6, <1>7, <1>8, <1>9, <1>10, <1>11

(* The App Server writes a line.                                              *)
LEMMA WritesKeep ==
  ASSUME IInv, NEW x \in Line, Writes(x), ServerOnly, UNCHANGED server,
         asked' \subseteq asked, faults' \in 0..MaxFaults,
         said' \in 0..MaxDeltas, connected' \in BOOLEAN, connected => connected',
         turn' \in TurnOutcome \cup {"none", "running"},
         turn = "none" <=> turn' = "none",
         turn # turn' => turn = "running",
         ~Says(x, TurnOutcome),
         Says(x, {"ready"}) => connected',
         OwnEnd(x) => turn = "running" /\ turn' = x.says /\ said' = said,
         OwnDelta(x) => turn = "running" /\ turn' = turn /\ said' = said + 1 /\ x.piece = said',
         ~OwnDelta(x) => said' = said
  PROVE  IInv'
<1> USE DEF Writes, ServerOnly, control, client, worker
<1>1. /\ output' \in Seq(Line)
      /\ Lines(output') = Lines(output) \cup {x}
      /\ DOMAIN output' = 1..Len(output) + 1 /\ Len(output) \in Nat
      /\ DOMAIN output = 1..Len(output)
      /\ output'[Len(output) + 1] = x
      /\ \A i \in DOMAIN output : output'[i] = output[i]
  BY Appended DEF IInv, Typed
<1>2. Typed'
  BY <1>1 DEF IInv, Typed
<1>3. Flags'
  BY DEF IInv, Flags
<1>4. \A line \in Lines(output) : ~OwnEnd(line) \/ turn' = turn
  BY DEF IInv, OutputInv, OwnEnd, Line, Typed, Lines
<1>5. EnvironmentInv' /\ TurnInv'
  BY <1>1 DEF IInv, EnvironmentInv, TurnInv, TurnNeedsEnvironment
<1>6. OutputInv'
  <2>1. \A line \in Lines(output) : ~Says(line, TurnOutcome) /\ (OwnEnd(line) => turn' = line.says)
    BY <1>4 DEF IInv, OutputInv
  <2>2. \A line \in Lines(output') : ~Says(line, TurnOutcome) /\ (OwnEnd(line) => turn' = line.says)
    BY <1>1, <2>1
  <2>3. ASSUME NEW i \in DOMAIN output', NEW j \in DOMAIN output',
               i < j, OwnEnd(output'[i])
        PROVE  ~OwnDelta(output'[j])
    <3>1. i \in DOMAIN output /\ output'[i] = output[i] /\ output[i] \in Lines(output)
      BY <1>1, <2>3 DEF Lines
    <3>2. CASE j \in DOMAIN output
      BY <1>1, <2>3, <3>1, <3>2 DEF IInv, OutputInv
    <3>3. CASE j \notin DOMAIN output
      <4>1. output'[j] = x
        BY <1>1, <3>3
      <4>2. turn' = turn /\ turn = output[i].says /\ turn # "running"
        BY <1>4, <2>3, <3>1 DEF IInv, OutputInv, OwnEnd, Line, Typed, Lines
      <4> QED BY <4>1, <4>2
    <3> QED BY <3>2, <3>3
  <2> QED BY <2>2, <2>3 DEF OutputInv
<1>7. CollectedInv'
  <2>1. Pieces(output') = Pieces(output) \cup (IF OwnDelta(x) THEN {said + 1} ELSE {})
    BY <1>1 DEF Pieces
  <2>2. said' = said + (IF OwnDelta(x) THEN 1 ELSE 0) /\ said \in Nat
    BY DEF IInv, Typed
  <2> QED BY <2>1, <2>2 DEF IInv, CollectedInv
<1>8. KnownInv'
  BY <1>1 DEF IInv, Typed, KnownInv, NoLostCompletion
<1>9. VerdictInv'
  BY <1>1 DEF IInv, Typed, VerdictInv
<1> QED BY <1>2, <1>3, <1>5, <1>6, <1>7, <1>8, <1>9 DEF IInv

(* The App Server answers, speaks, ends its turn or says something else.      *)
LEMMA ServerKeeps ==
  ASSUME IInv, ServerStep
  PROVE  IInv'
<1>1. CASE \E m \in Request : Answer(m)
  <2>1. PICK m \in Request : Answer(m)
    BY <1>1
  <2>2. PICK t \in AnswersTo(m) : Writes(Response(m, t)) /\ connected' = (connected \/ t = "ready")
    BY <2>1 DEF Answer
  <2>3. t \in Outcome \ TurnOutcome
    BY <2>2 DEF AnswersTo
  <2> DEFINE x == Response(m, t)
  <2>4. x \in Line /\ ~OwnEnd(x) /\ ~OwnDelta(x) /\ ~Says(x, TurnOutcome)
    BY <2>3, LinesAreTyped DEF Response, OwnEnd, OwnDelta, Says
  <2>5. connected' \in BOOLEAN /\ (connected => connected')
    BY <2>2
  <2>6. Says(x, {"ready"}) => connected'
    BY <2>2 DEF Response, Says
  <2>7. /\ asked' \subseteq asked /\ ServerOnly
        /\ UNCHANGED <<server, turn, said, faults>>
    BY <2>1 DEF Answer
  <2>8. faults' \in 0..MaxFaults /\ said' \in 0..MaxDeltas /\ turn' \in TurnOutcome \cup {"none", "running"}
    BY <2>7 DEF IInv, Typed
  <2> HIDE DEF x
  <2> QED BY <2>2, <2>4, <2>5, <2>6, <2>7, <2>8, WritesKeep DEF x
<1>2. CASE HearsDenial
  <2> USE DEF HearsDenial, ServerOnly, control, client, worker
  <2>1. Typed'
    BY <1>2 DEF IInv, Typed
  <2>2. Flags'
    BY <1>2 DEF IInv, Flags
  <2>3. EnvironmentInv' /\ TurnInv' /\ OutputInv'
    BY <1>2 DEF IInv, EnvironmentInv, TurnInv, TurnNeedsEnvironment, OutputInv
  <2>4. CollectedInv' /\ KnownInv' /\ VerdictInv'
    BY <1>2 DEF IInv, CollectedInv, KnownInv, VerdictInv, NoLostCompletion
  <2> QED BY <2>1, <2>2, <2>3, <2>4 DEF IInv
<1>3. CASE BeginTurn
  <2> USE DEF BeginTurn, ServerOnly, control, client, worker
  <2>1. Typed'
    BY <1>3 DEF IInv, Typed
  <2>2. Flags'
    BY <1>3 DEF IInv, Flags
  <2>3. EnvironmentInv' /\ TurnInv' /\ OutputInv'
    BY <1>3 DEF IInv, EnvironmentInv, TurnInv, TurnNeedsEnvironment, OutputInv
  <2>4. CollectedInv' /\ KnownInv' /\ VerdictInv'
    BY <1>3
       DEF IInv, Typed, CollectedInv, KnownInv, VerdictInv, NoLostCompletion,
           Pieces
  <2> QED BY <2>1, <2>2, <2>3, <2>4 DEF IInv
<1>4. CASE Speak
  <2> DEFINE x == Delta("own", said + 1)
  <2>1. said \in Nat /\ said + 1 \in 0..MaxDeltas
    BY <1>4, BoundsAssumption DEF Speak, IInv, Typed
  <2>2. x \in Line
    BY <2>1, LinesAreTyped DEF Whose
  <2>3. ~OwnEnd(x) /\ OwnDelta(x) /\ x.piece = said + 1 /\ ~Says(x, TurnOutcome) /\ ~Says(x, {"ready"})
    BY DEF Delta, OwnEnd, OwnDelta, Says
  <2>4. connected' \in BOOLEAN /\ (connected => connected')
    BY <1>4 DEF Speak, IInv, Flags
  <2>5. /\ Writes(x) /\ ServerOnly /\ said' = said + 1 /\ turn = "running"
        /\ UNCHANGED <<server, asked, turn, faults>>
    BY <1>4 DEF Speak
  <2>6. faults' \in 0..MaxFaults
    BY <2>5 DEF IInv, Typed
  <2> HIDE DEF x
  <2> QED BY <2>1, <2>2, <2>3, <2>4, <2>5, <2>6, WritesKeep
<1>5. CASE \E t \in TurnOutcome : CompleteTurn(t)
  <2>1. PICK t \in TurnOutcome : CompleteTurn(t)
    BY <1>5
  <2> DEFINE x == TurnCompleted("own", t)
  <2>2. x \in Line
    BY LinesAreTyped DEF Whose
  <2>3. OwnEnd(x) /\ ~OwnDelta(x) /\ x.says = t /\ ~Says(x, TurnOutcome) /\ ~Says(x, {"ready"})
    BY DEF TurnCompleted, OwnEnd, OwnDelta, Says
  <2>4. connected' \in BOOLEAN /\ (connected => connected')
    BY <2>1 DEF CompleteTurn, IInv, Flags
  <2>5. /\ Writes(x) /\ ServerOnly /\ turn = "running" /\ turn' = t
        /\ UNCHANGED <<server, asked, said, faults>>
    BY <2>1 DEF CompleteTurn
  <2>6. faults' \in 0..MaxFaults /\ said' \in 0..MaxDeltas
    BY <2>5 DEF IInv, Typed
  <2> HIDE DEF x
  <2> QED BY <2>2, <2>3, <2>4, <2>5, <2>6, WritesKeep
<1>6. CASE SaySomethingElse
  <2>1. PICK x \in Line : /\ Writes(x) /\ ~OwnEnd(x) /\ ~OwnDelta(x)
                          /\ ~Says(x, TurnOutcome) /\ ~Says(x, {"ready"})
    <3>1. CASE Writes(Delta("other", 0))
      <4>1. Delta("other", 0) \in Line
        BY LinesAreTyped DEF Whose
      <4> QED BY <3>1, <4>1 DEF Delta, OwnEnd, OwnDelta, Says
    <3>2. CASE \E t \in TurnOutcome : Writes(TurnCompleted("other", t))
      <4>1. PICK t \in TurnOutcome : Writes(TurnCompleted("other", t))
        BY <3>2
      <4>2. TurnCompleted("other", t) \in Line
        BY LinesAreTyped DEF Whose
      <4> QED BY <4>1, <4>2 DEF TurnCompleted, OwnEnd, OwnDelta, Says
    <3>3. CASE \E k \in {"request", "garbage", "error"} : Writes(Odd(k))
      <4>1. PICK k \in {"request", "garbage", "error"} : Writes(Odd(k))
        BY <3>3
      <4>2. Odd(k) \in Line
        BY LinesAreTyped
      <4> QED BY <4>1, <4>2 DEF Odd, OwnEnd, OwnDelta, Says
    <3> QED BY <1>6, <3>1, <3>2, <3>3 DEF SaySomethingElse
  <2>2. connected' \in BOOLEAN /\ (connected => connected')
    BY <1>6 DEF SaySomethingElse, IInv, Flags
  <2>3. ServerOnly /\ UNCHANGED <<server, asked, turn, said>>
    BY <1>6 DEF SaySomethingElse
  <2>4. /\ faults' \in 0..MaxFaults /\ said' \in 0..MaxDeltas
        /\ turn' \in TurnOutcome \cup {"none", "running"}
    BY <1>6, <2>3, BoundsAssumption DEF SaySomethingElse, Fault, IInv, Typed
  <2> QED BY <2>1, <2>2, <2>3, <2>4, WritesKeep
<1>7. CASE ServerExits
  <2> USE DEF ServerExits, ServerOnly, control, client, worker
  <2>1. faults' \in 0..MaxFaults
    BY <1>7, BoundsAssumption DEF IInv, Typed, Fault
  <2>2. Typed'
    BY <1>7, <2>1 DEF IInv, Typed
  <2>3. Flags'
    BY <1>7 DEF IInv, Flags
  <2>4. EnvironmentInv' /\ TurnInv' /\ OutputInv'
    BY <1>7 DEF IInv, EnvironmentInv, TurnInv, TurnNeedsEnvironment, OutputInv
  <2>5. CollectedInv' /\ KnownInv' /\ VerdictInv'
    BY <1>7
       DEF IInv, CollectedInv, KnownInv, VerdictInv, NoLostCompletion, Pieces
  <2> QED BY <2>2, <2>3, <2>4, <2>5 DEF IInv
<1> QED BY <1>1, <1>2, <1>3, <1>4, <1>5, <1>6, <1>7 DEF ServerStep

(* A line is handled: what it settles is what it says, and a piece that is    *)
(* taken off the pipe while the turn is waited for is heard.                  *)
LEMMA LineKeeps ==
  ASSUME IInv, HandleLine
  PROVE  IInv'
<1> DEFINE line == Head(output)
<1>1. /\ line \in Line /\ line \in Lines(output)
      /\ output' \in Seq(Line)
      /\ Lines(output) = {line} \cup Lines(output')
      /\ line = output[1] /\ 1 \in DOMAIN output
      /\ \A i \in DOMAIN output' : i \in Nat \ {0} /\ i + 1 \in DOMAIN output /\ output'[i] = output[i + 1]
  BY Taken DEF IInv, Typed, HandleLine
<1>2. UNCHANGED <<task, signalled, runner, exit, pc, reported, late, listening, ended,
                  server, connected, turn, said, faults>>
  BY DEF HandleLine, Stays, OnlyClient, control
<1>3. \/ HandleResponse(line) \/ HandleDelta(line) \/ HandleTurnCompleted(line)
      \/ HandleRequest(line) \/ HandleGarbage(line)
  BY DEF HandleLine
<1> HIDE DEF line
<1>4. asked' \subseteq asked \cup {"denial"} /\ pending' \subseteq pending
  BY <1>3
     DEF HandleResponse, HandleDelta, HandleTurnCompleted, HandleRequest,
         HandleGarbage,
              Settle, FailPending
<1>5. \/ answer' = answer \/ answer' = "error"
      \/ line.kind = "response" /\ answer' = line.says
      \/ OwnEnd(line) /\ answer' = line.says /\ known' = line.says
  BY <1>3
     DEF HandleResponse, HandleDelta, HandleTurnCompleted, HandleRequest,
         HandleGarbage,
              Settle, FailPending, OwnEnd
<1>6. /\ known' = known \/ (OwnEnd(line) /\ known' = line.says)
      /\ OwnEnd(line) => known' = line.says /\ (pc = "turn" /\ answer = "none" => answer' = line.says)
  BY <1>3
     DEF HandleResponse, HandleDelta, HandleTurnCompleted, HandleRequest,
         HandleGarbage,
              OwnEnd
<1>7. heard' = IF listening /\ OwnDelta(line) THEN heard \cup {line.piece} ELSE heard
  BY <1>3
     DEF HandleResponse, HandleDelta, HandleTurnCompleted, HandleRequest,
         HandleGarbage,
              TakesPiece, OwnDelta
<1>8. /\ line.kind = "response" => line.says \in Outcome
      /\ OwnEnd(line) => line.says \in TurnOutcome
      /\ OwnDelta(line) => line.piece \in Nat
  BY <1>1 DEF Line, OwnEnd, OwnDelta
<1>9. /\ ~Says(line, TurnOutcome)
      /\ OwnEnd(line) => turn = line.says /\ \A l \in Lines(output') : ~OwnDelta(l)
  <2>1. ~Says(line, TurnOutcome) /\ (OwnEnd(line) => turn = line.says)
    BY <1>1 DEF IInv, OutputInv
  <2>2. ASSUME OwnEnd(line), NEW i \in DOMAIN output' PROVE ~OwnDelta(output'[i])
    BY <1>1, <2>2 DEF IInv, OutputInv
  <2> QED BY <2>1, <2>2 DEF Lines
<1>10. Typed'
  <2>1. answer' \in Outcome \cup {"none"} /\ known' \in TurnOutcome \cup {"none"}
    BY <1>5, <1>6, <1>8 DEF IInv, Typed
  <2>2. heard' \subseteq Nat
    BY <1>7, <1>8 DEF IInv, Typed
  <2>3. pending' \subseteq Request /\ asked' \subseteq Request \cup {"denial"}
    BY <1>4 DEF IInv, Typed
  <2> QED BY <1>1, <1>2, <2>1, <2>2, <2>3 DEF IInv, Typed
<1>11. Flags'
  BY <1>2 DEF IInv, Flags
<1>12. EnvironmentInv'
  <2>1. answer' = "ready" => answer = "ready" \/ Says(line, {"ready"})
    BY <1>5, <1>8 DEF Says
  <2> QED BY <1>1, <1>2, <1>4, <2>1 DEF IInv, EnvironmentInv, TurnNeedsEnvironment
<1>13. TurnInv'
  BY <1>1, <1>2, <1>4, <1>7 DEF IInv, TurnInv
<1>14. OutputInv'
  <2>1. ASSUME NEW i \in DOMAIN output', NEW j \in DOMAIN output', i < j, OwnEnd(output'[i])
        PROVE  ~OwnDelta(output'[j])
    BY <1>1, <2>1 DEF IInv, OutputInv
  <2> QED BY <1>1, <1>2, <2>1 DEF IInv, OutputInv
<1>15. CollectedInv'
  <2>1. Pieces(output) = Pieces(output') \cup (IF OwnDelta(line) THEN {line.piece} ELSE {})
    BY <1>1 DEF Pieces
  <2> QED BY <1>2, <1>7, <2>1 DEF IInv, CollectedInv
<1>16. KnownInv'
  <2>1. known' # "none" => turn' = known' /\ \A l \in Lines(output') : ~OwnDelta(l)
    BY <1>1, <1>2, <1>6, <1>9 DEF IInv, KnownInv
  <2>2. pc' = "turn" /\ answer' \in TurnOutcome => answer' = known'
    BY <1>2, <1>5, <1>6, <1>9 DEF IInv, KnownInv, Says
  <2>3. NoLostCompletion'
    BY <1>2, <1>5, <1>6, <1>8 DEF IInv, KnownInv, NoLostCompletion
  <2> QED BY <2>1, <2>2, <2>3 DEF KnownInv
<1>17. VerdictInv'
  BY <1>2, <1>7 DEF IInv, VerdictInv
<1> QED BY <1>10, <1>11, <1>12, <1>13, <1>14, <1>15, <1>16, <1>17 DEF IInv

LEMMA RunnerStep == IInv /\ [Next]_vars => IInv'
<1> SUFFICES ASSUME IInv, [Next]_vars PROVE IInv'
  OBVIOUS
<1>1. CASE UNCHANGED vars
  <2> USE <1>1 DEF vars, control, client, worker, appServer
  <2>1. Typed'
    BY DEF IInv, Typed
  <2>2. Flags'
    BY DEF IInv, Flags
  <2>3. EnvironmentInv' /\ TurnInv' /\ OutputInv'
    BY DEF IInv, EnvironmentInv, TurnInv, TurnNeedsEnvironment, OutputInv
  <2>4. CollectedInv' /\ KnownInv' /\ VerdictInv'
    BY DEF IInv, CollectedInv, KnownInv, VerdictInv, NoLostCompletion, Pieces
  <2> QED BY <2>1, <2>2, <2>3, <2>4 DEF IInv
<1>2. CASE Next
  BY <1>2, ControlKeeps, TimersKeep, DeathsKeep, WorkerKeeps, ServerKeeps, LineKeeps
     DEF Next, Continue
<1> QED BY <1>1, <1>2

(* The invariant of one run: what is on its way, what is known and what was   *)
(* reported agree with what became of the turn.                               *)
THEOREM RunnerInvariance == Spec => []IInv
BY RunnerInit, RunnerStep, PTL DEF Spec

(* Variables keep their types, for every number of lines and faults.          *)
THEOREM RunnerTypes == Spec => []TypeOK
<1>1. IInv => TypeOK
  BY DEF IInv, Typed, Flags, TypeOK
<1> QED BY <1>1, RunnerInvariance, PTL

(* A turn that completed early is not waited for (waitForTurn).               *)
THEOREM CompletionKept == Spec => []NoLostCompletion
<1>1. IInv => NoLostCompletion
  BY DEF IInv, KnownInv
<1> QED BY <1>1, RunnerInvariance, PTL

(* No turn runs before the remote environment is ready (connectEnvironment).  *)
THEOREM EnvironmentFirst == Spec => []TurnNeedsEnvironment
<1>1. IInv => TurnNeedsEnvironment
  BY DEF IInv, EnvironmentInv
<1> QED BY <1>1, RunnerInvariance, PTL

(* A COMPLETED task's turn completed, its message is whole and its container  *)
(* is gone (runTask of the supervisor, the worker and the client).            *)
THEOREM CompletionTrue == Spec => []CompletedIsTrue
<1>1. IInv => CompletedIsTrue
  BY DEF IInv, VerdictInv, EnvironmentInv, TurnNeedsEnvironment, CompletedIsTrue
<1> QED BY <1>1, RunnerInvariance, PTL

-----------------------------------------------------------------------------
(* The run implements RunLedger.                                              *)
LEMMA RunBegins == Init => Ledger!Init
BY DEF Init, Ledger!Init, Message

(* A completed task hears nothing more, for its container is gone.            *)
LEMMA MessageStays ==
  ASSUME IInv, UNCHANGED task, heard' = heard \/ runner = "up"
  PROVE  Message' = Message
BY DEF IInv, VerdictInv, Message

LEMMA RunRests ==
  ASSUME IInv, UNCHANGED <<task, connected, turn, said>>, heard' = heard \/ runner = "up"
  PROVE  UNCHANGED Ledger!vars
BY MessageStays DEF Ledger!vars

(* Of the App Server's steps the ledger sees what is true of its turn.        *)
LEMMA RunServer ==
  ASSUME IInv, ServerStep
  PROVE  [Ledger!Next]_Ledger!vars
<1>1. UNCHANGED <<task, heard>>
  BY DEF ServerStep, Answer, HearsDenial, BeginTurn, Speak, CompleteTurn, SaySomethingElse,
         ServerExits, ServerOnly, control, worker, client
<1>2. Message' = Message
  BY <1>1, MessageStays
<1>3. ASSUME NEW m \in Request, Answer(m) PROVE [Ledger!Next]_Ledger!vars
  <2>1. UNCHANGED <<turn, said>> /\ (connected' = connected \/ connected' = TRUE)
    <3>1. PICK s \in AnswersTo(m) : connected' = (connected \/ s = "ready")
      BY <1>3 DEF Answer
    <3>2. connected \in BOOLEAN
      BY DEF IInv, Flags
    <3>3. UNCHANGED <<turn, said>>
      BY <1>3 DEF Answer
    <3> QED BY <3>1, <3>2, <3>3
  <2>2. CASE connected' = connected
    BY <1>1, <2>1, <2>2, RunRests
  <2>3. CASE connected' = TRUE
    <3>1. Ledger!Connect
      BY <1>1, <1>2, <2>1, <2>3 DEF Ledger!Connect
    <3> QED BY <3>1 DEF Ledger!Next
  <2> QED BY <2>1, <2>2, <2>3
<1>4. CASE BeginTurn
  <2>1. task # "idle" /\ connected
    BY <1>4 DEF BeginTurn, IInv, TurnInv, VerdictInv, EnvironmentInv, Started, Ending
  <2>2. Ledger!BeginTurn
    BY <1>1, <1>2, <1>4, <2>1 DEF BeginTurn, Ledger!BeginTurn
  <2> QED BY <2>2 DEF Ledger!Next
<1>5. CASE Speak
  <2>1. Ledger!Speak
    BY <1>1, <1>2, <1>5 DEF Speak, Ledger!Speak
  <2> QED BY <2>1 DEF Ledger!Next
<1>6. ASSUME NEW s \in TurnOutcome, CompleteTurn(s) PROVE [Ledger!Next]_Ledger!vars
  <2>1. Ledger!EndTurn
    BY <1>1, <1>2, <1>6 DEF CompleteTurn, Ledger!EndTurn, TurnOutcome
  <2> QED BY <2>1 DEF Ledger!Next
<1>7. CASE HearsDenial \/ SaySomethingElse \/ ServerExits
  <2>1. UNCHANGED <<connected, turn, said>>
    BY <1>7 DEF HearsDenial, SaySomethingElse, ServerExits
  <2> QED BY <1>1, <2>1, RunRests
<1> QED BY <1>3, <1>4, <1>5, <1>6, <1>7 DEF ServerStep

(* A verdict is told once, and COMPLETED of a turn that was.                  *)
LEMMA RunControl ==
  ASSUME IInv,
         \/ StartRun \/ RunRefused \/ RunReturns \/ RunTimesOut
         \/ ClientBreaks \/ ControlCrashes
  PROVE  [Ledger!Next]_Ledger!vars
<1>1. UNCHANGED <<connected, turn, said, heard>>
  BY DEF StartRun, RunRefused, RunReturns, RunTimesOut, ClientBreaks, ControlCrashes, worker,
         client, appServer
<1>2. CASE RunTimesOut
  <2>1. UNCHANGED task
    BY <1>2 DEF RunTimesOut
  <2> QED BY <1>1, <2>1, RunRests
<1>3. CASE StartRun
  <2>1. Ledger!Start
    BY <1>1, <1>3 DEF StartRun, Ledger!Start, Message
  <2> QED BY <2>1 DEF Ledger!Next
<1>4. CASE RunRefused \/ ClientBreaks
  <2>1. Ledger!TellFailed
    BY <1>1, <1>4 DEF RunRefused, ClientBreaks, Ledger!TellFailed, Message
  <2> QED BY <2>1 DEF Ledger!Next
<1>5. CASE ControlCrashes
  <2>1. Ledger!Lose
    BY <1>1, <1>5 DEF ControlCrashes, Ledger!Lose, Message
  <2> QED BY <2>1 DEF Ledger!Next
<1>6. CASE RunReturns /\ task' = "failed"
  <2>1. Ledger!TellFailed
    BY <1>1, <1>6 DEF RunReturns, Ledger!TellFailed, Message
  <2> QED BY <2>1 DEF Ledger!Next
<1>7. CASE RunReturns /\ task' = "completed"
  <2>1. task = "running" /\ reported = "completed"
    BY <1>7 DEF RunReturns, Completion
  <2>2. turn = "completed" /\ heard = 1..said
    BY <2>1 DEF IInv, VerdictInv
  <2>3. Message' = 1..said
    BY <1>1, <1>7, <2>2 DEF Message
  <2>4. Ledger!TellCompleted
    BY <1>1, <1>7, <2>1, <2>2, <2>3 DEF Ledger!TellCompleted
  <2> QED BY <2>4 DEF Ledger!Next
<1>8. RunReturns => task' \in {"failed", "completed"}
  BY DEF RunReturns
<1> QED BY <1>2, <1>3, <1>4, <1>5, <1>6, <1>7, <1>8

(* All else happens in a container that is up, and nobody is told of it.      *)
LEMMA RunInside ==
  ASSUME IInv,
         \/ RunnerKilled \/ HandleLine \/ HandleErrorNotification
         \/ OutputEnds \/ InputBreaks \/ \E m \in Request : RequestTimesOut(m)
         \/ TurnTimesOut \/ DeadlinePasses \/ Continue
  PROVE  [Ledger!Next]_Ledger!vars
<1>1. CASE Continue
  <2>1. UNCHANGED <<task, connected, turn, said>>
    BY <1>1 DEF Continue, AfterInitialize, AfterAdd, AfterStatus, AfterPause, AfterThreadStart,
         AfterTurnStart, AfterTurn, Rejected, Close, CloseReturns, Strand, WorkerOnly, WorkerEnds,
         control
  <2>2. runner = "up"
    BY <1>1 DEF Continue, AfterInitialize, AfterAdd, AfterStatus, AfterPause, AfterThreadStart,
         AfterTurnStart, AfterTurn, Rejected, Close, CloseReturns, Strand, At
  <2> QED BY <2>1, <2>2, RunRests
<1>2. CASE ~Continue
  <2>1. UNCHANGED <<task, connected, turn, said>>
    BY <1>2 DEF RunnerKilled, HandleLine, HandleErrorNotification, OutputEnds, InputBreaks,
         RequestTimesOut, TurnTimesOut, DeadlinePasses, OnlyClient, WorkerEnds, appServer, control
  <2>2. runner = "up"
    BY <1>2 DEF RunnerKilled, HandleLine, HandleErrorNotification, OutputEnds, InputBreaks,
         RequestTimesOut, TurnTimesOut, DeadlinePasses
  <2> QED BY <2>1, <2>2, RunRests
<1> QED BY <1>1, <1>2

LEMMA RunStep == IInv /\ [Next]_vars => [Ledger!Next]_Ledger!vars
<1> SUFFICES ASSUME IInv, [Next]_vars PROVE [Ledger!Next]_Ledger!vars
  OBVIOUS
<1>1. CASE UNCHANGED vars
  BY <1>1, RunRests DEF vars, control, worker, client, appServer
<1>2. CASE Next
  BY <1>2, RunServer, RunControl, RunInside DEF Next
<1> QED BY <1>1, <1>2

(* A run keeps what RunLedger promises, for every number of lines, pieces and *)
(* faults.                                                                    *)
THEOREM RunImplementsLedger == Spec => RunKept
<1>1. IInv /\ [Next]_vars => [Ledger!Next]_Ledger!vars
  BY RunStep
<1> QED BY <1>1, RunBegins, RunnerInvariance, PTL DEF Spec, RunKept, Ledger!Spec

-----------------------------------------------------------------------------
(* The safety half of RunsEnd.                                                *)

(* The worker has one request in the map exactly while it waits for one, and  *)
(* nothing settled while it waits for nothing.                                *)
WaitInv ==
  runner = "up" =>
    /\ pc \notin {"none", "over"}
    /\ pending = IF pc \in Request /\ answer = "none" THEN {pc} ELSE {}
    /\ pc \in {"pause", "close", "closing", "stranded"} => answer = "none"

LEMMA WaitBegins == Init => WaitInv
BY DEF Init, WaitInv

(* What is not the worker's or its client's leaves it as it was.              *)
LEMMA WaitRests ==
  ASSUME WaitInv, UNCHANGED <<pc, answer, pending>>, runner' = runner \/ runner' = "gone"
  PROVE  WaitInv'
BY DEF WaitInv

LEMMA ServerAside ==
  ASSUME ServerStep
  PROVE  UNCHANGED <<runner, pc, answer, pending, late>>
BY DEF ServerStep, Answer, HearsDenial, BeginTurn, Speak, CompleteTurn, SaySomethingElse,
       ServerExits, ServerOnly, control, worker, client

LEMMA ControlAside ==
  ASSUME RunRefused \/ RunReturns \/ RunTimesOut \/ ClientBreaks \/ ControlCrashes
  PROVE  UNCHANGED <<runner, pc, answer, pending, late>>
BY DEF RunRefused, RunReturns, RunTimesOut, ClientBreaks, ControlCrashes, worker, client

LEMMA RunnerEnds ==
  ASSUME RunnerKilled \/ HandleErrorNotification \/ InputBreaks \/ CloseReturns \/ Strand
  PROVE  runner' = "gone"
BY DEF RunnerKilled, HandleErrorNotification, InputBreaks, CloseReturns, Strand, WorkerEnds

(* The client settles what the worker waits for, or nothing.                  *)
LEMMA ClientSettles ==
  ASSUME IInv, WaitInv,
         \/ HandleLine \/ OutputEnds \/ TurnTimesOut
         \/ \E m \in Request : RequestTimesOut(m)
  PROVE  /\ UNCHANGED <<runner, pc, late>> /\ runner = "up"
         /\ \/ UNCHANGED <<answer, pending>>
            \/ /\ pc \in Request \cup {"turn"}
               /\ answer = "none" /\ answer' # "none" /\ pending' = {}
         /\ TurnTimesOut \/ (\E m \in Request : RequestTimesOut(m)) =>
              answer = "none" /\ answer' # "none"
<1> DEFINE Timer == TurnTimesOut \/ \E m \in Request : RequestTimesOut(m)
<1>0. Timer => answer = "none" /\ answer' # "none"
  BY DEF TurnTimesOut, TurnTimer, RequestTimesOut, Settle, WaitInv
<1> HIDE DEF Timer
<1> SUFFICES /\ UNCHANGED <<runner, pc, late>> /\ runner = "up"
             /\ \/ UNCHANGED <<answer, pending>>
                \/ /\ pc \in Request \cup {"turn"}
                   /\ answer = "none" /\ answer' # "none" /\ pending' = {}
  BY <1>0 DEF Timer
<1>1. CASE HandleLine
  <2>1. PICK line \in Line :
          \/ HandleResponse(line) \/ HandleDelta(line) \/ HandleTurnCompleted(line)
          \/ HandleRequest(line) \/ HandleGarbage(line)
    BY <1>1, Taken DEF HandleLine, IInv, Typed
  <2>2. line.kind = "response" => line.says \in Outcome
    BY DEF Line
  <2>3. HandleTurnCompleted(line) => line.says \in TurnOutcome
    BY DEF Line, HandleTurnCompleted
  <2>4. UNCHANGED <<runner, pc, late>> /\ runner = "up"
    BY <1>1 DEF HandleLine, Stays, OnlyClient
  <2>5. \/ UNCHANGED <<answer, pending>>
        \/ /\ pc \in Request \cup {"turn"}
           /\ answer = "none" /\ answer' # "none" /\ pending' = {}
    <3>1. CASE HandleResponse(line)
      BY <2>2, <2>4, <3>1 DEF HandleResponse, Settle, WaitInv
    <3>2. CASE HandleTurnCompleted(line)
      BY <2>3, <2>4, <3>2 DEF HandleTurnCompleted, WaitInv
    <3>3. CASE HandleGarbage(line)
      BY <2>4, <3>3 DEF HandleGarbage, FailPending, WaitInv
    <3>4. CASE HandleDelta(line) \/ HandleRequest(line)
      BY <3>4 DEF HandleDelta, HandleRequest
    <3> QED BY <2>1, <3>1, <3>2, <3>3, <3>4
  <2> QED BY <1>1, <2>4, <2>5
<1>2. CASE OutputEnds
  BY <1>2 DEF OutputEnds, FailPending, WaitInv, OnlyClient
<1>3. CASE TurnTimesOut
  BY <1>3 DEF TurnTimesOut, TurnTimer, WaitInv, Stays, OnlyClient
<1>4. CASE \E m \in Request : RequestTimesOut(m)
  BY <1>4 DEF RequestTimesOut, Settle, WaitInv, Stays, OnlyClient
<1> QED BY <1>1, <1>2, <1>3, <1>4

(* Where the worker goes on to, with a new request or with none.              *)
LEMMA WorkerMoves ==
  ASSUME IInv, WaitInv, Continue, runner' # "gone"
  PROVE  /\ UNCHANGED runner /\ runner = "up"
         /\ late' = late \/ (pc = "environment/add" /\ ~late')
         /\ \/ pc = "initialize" /\ pc' = "environment/add"
            \/ pc = "environment/add" /\ pc' = "environment/status"
            \/ pc = "environment/status" /\ pc' \in {"thread/start", "pause"}
            \/ pc = "pause" /\ pc' = (IF late THEN "close" ELSE "environment/status")
            \/ pc = "thread/start" /\ pc' = "turn/start"
            \/ pc = "turn/start" /\ pc' = "turn"
            \/ pc \in Request \cup {"turn"} /\ pc' = "close"
            \/ pc = "close" /\ pc' \in {"closing", "stranded"}
         /\ IF pc' \in Request THEN answer' = "none" /\ pending' = {pc'}
            ELSE pending' = {} /\ (pc' = "turn" \/ answer' = "none")
         /\ pc \in Request \cup {"turn"} => answer # "none"
<1> USE DEF WaitInv, At, Fulfilled, WorkerOnly
<1>1. CASE AfterInitialize \/ AfterAdd \/ AfterThreadStart
  BY <1>1 DEF AfterInitialize, AfterAdd, AfterThreadStart, Send
<1>2. CASE AfterStatus
  BY <1>2 DEF AfterStatus, Send, Fail
<1>3. CASE AfterPause
  BY <1>3 DEF AfterPause, GiveUpLate, Send, Fail
<1>4. CASE AfterTurnStart
  BY <1>4 DEF AfterTurnStart
<1>5. CASE AfterTurn
  BY <1>5 DEF AfterTurn, Fail
<1>6. CASE Rejected
  BY <1>6 DEF Rejected, Fail, IInv, Typed
<1>7. CASE Close
  BY <1>7 DEF Close, client
<1>8. ~CloseReturns /\ ~Strand
  BY RunnerEnds
<1> QED BY <1>1, <1>2, <1>3, <1>4, <1>5, <1>6, <1>7, <1>8 DEF Continue

LEMMA WaitStep == IInv /\ WaitInv /\ [Next]_vars => WaitInv'
<1> SUFFICES ASSUME IInv, WaitInv, [Next]_vars PROVE WaitInv'
  OBVIOUS
<1>1. CASE UNCHANGED vars \/ ServerStep
           \/ RunRefused \/ RunReturns \/ RunTimesOut \/ ClientBreaks \/ ControlCrashes
  BY <1>1, ServerAside, ControlAside, WaitRests DEF vars, worker, client
<1>2. CASE StartRun
  BY <1>2 DEF StartRun, Send, WaitInv
<1>3. CASE RunnerKilled \/ HandleErrorNotification \/ InputBreaks
  BY <1>3, RunnerEnds DEF WaitInv
<1>4. CASE HandleLine \/ OutputEnds \/ TurnTimesOut \/ \E m \in Request : RequestTimesOut(m)
  BY <1>4, ClientSettles DEF WaitInv
<1>5. CASE DeadlinePasses
  BY <1>5, WaitRests DEF DeadlinePasses
<1>6. CASE Continue
  BY <1>6, WorkerMoves DEF WaitInv
<1> QED BY <1>1, <1>2, <1>3, <1>4, <1>5, <1>6 DEF Next

(* The distance, without its CASE.                                            *)
StageIs ==
  Stage =
    IF pc = "initialize" THEN 10 ELSE IF pc = "environment/add" THEN 9
    ELSE IF pc = "environment/status" THEN IF late THEN 7 ELSE 8
    ELSE IF pc = "pause" THEN IF late THEN 6 ELSE 8
    ELSE IF pc = "thread/start" THEN 5 ELSE IF pc = "turn/start" THEN 4
    ELSE IF pc = "turn" THEN 3 ELSE IF pc = "close" THEN 2 ELSE 1
DistanceIs ==
  /\ Stage \in 1..10
  /\ Distance = 2 * Stage \/ Distance = 2 * Stage + 1
  /\ Distance = 2 * Stage + 1 <=> ~Polling /\ answer = "none"

LEMMA StageHere == StageIs /\ StageIs'
BY DEF StageIs, Stage, Polling

LEMMA DistanceHere == DistanceIs /\ DistanceIs'
<1>1. Stage \in 1..10 /\ Stage' \in 1..10
  BY StageHere DEF StageIs
<1>2. DistanceIs
  BY <1>1 DEF DistanceIs, Distance
<1>3. DistanceIs'
  BY <1>1 DEF DistanceIs, Distance
<1> QED BY <1>2, <1>3

LEMMA Doubled ==
  ASSUME NEW s \in Nat, NEW t \in Nat, NEW d \in Nat, NEW e \in Nat, t < s,
         d = 2 * s \/ d = 2 * s + 1, e = 2 * t \/ e = 2 * t + 1
  PROVE  e < d
OBVIOUS

(* A run gets no further from its end.                                        *)
LEMMA Descent ==
  ASSUME IInv, WaitInv, [Next]_vars, runner = "up", runner' # "gone"
  PROVE  Distance' <= Distance /\ (GoesOn => Distance' < Distance)
<1>1. /\ Stage \in 1..10 /\ Stage' \in 1..10
      /\ Distance \in Nat /\ Distance' \in Nat
  BY DistanceHere DEF DistanceIs
<1>2. ASSUME UNCHANGED <<pc, late>> PROVE Polling' = Polling /\ Stage' = Stage
  BY <1>2 DEF Polling, Stage
<1>3. CASE UNCHANGED vars \/ ServerStep
           \/ RunRefused \/ RunReturns \/ RunTimesOut \/ ClientBreaks \/ ControlCrashes
  <2>1. UNCHANGED <<runner, pc, answer, late, pending>>
    BY <1>3, ServerAside, ControlAside DEF vars, worker, client
  <2>2. ~GoesOn
    <3>1. ASSUME Continue PROVE FALSE
      BY <2>1, <3>1, WorkerMoves
    <3>2. ASSUME TurnTimesOut \/ \E m \in Request : RequestTimesOut(m) PROVE FALSE
      BY <2>1, <3>2, ClientSettles
    <3>3. ~DeadlinePasses
      BY <2>1 DEF DeadlinePasses
    <3> QED BY <3>1, <3>2, <3>3 DEF GoesOn
  <2>3. Distance' = Distance
    BY <1>2, <2>1 DEF Distance
  <2> QED BY <1>1, <2>2, <2>3
<1>4. CASE HandleLine \/ OutputEnds \/ TurnTimesOut \/ \E m \in Request : RequestTimesOut(m)
  <2>1. /\ UNCHANGED <<pc, late>>
        /\ UNCHANGED <<answer, pending>> \/ (answer = "none" /\ answer' # "none")
        /\ answer' = answer => ~TurnTimesOut /\ ~\E m \in Request : RequestTimesOut(m)
    BY <1>4, ClientSettles
  <2>2. Polling' = Polling /\ Stage' = Stage
    BY <1>2, <2>1
  <2>3. CASE answer = "none" /\ answer' # "none" /\ ~Polling
    BY <1>1, <2>2, <2>3, DistanceHere DEF DistanceIs
  <2>4. CASE answer = "none" /\ answer' # "none" /\ Polling
    <3>1. ~GoesOn
      BY <2>1, <2>4 DEF GoesOn, DeadlinePasses
    <3>2. Distance' = Distance
      BY <2>2, <2>4 DEF Distance
    <3> QED BY <1>1, <3>1, <3>2
  <2>5. CASE UNCHANGED <<answer, pending>>
    <3>1. Distance' = Distance
      BY <2>2, <2>5 DEF Distance
    <3>2. ~DeadlinePasses
      BY <2>1, <2>5 DEF DeadlinePasses
    <3>3. ~Continue
      BY <2>1, <2>5, WorkerMoves
    <3> QED BY <1>1, <2>1, <2>5, <3>1, <3>2, <3>3 DEF GoesOn
  <2> QED BY <2>1, <2>3, <2>4, <2>5
<1>5. CASE DeadlinePasses
  <2>1. pc' = pc /\ Polling /\ ~Polling' /\ late' /\ ~late
        /\ pc \in {"environment/status", "pause"}
    BY <1>5 DEF DeadlinePasses, Polling
  <2>2. Stage = 8 /\ Stage' \in {6, 7}
    BY <2>1, StageHere DEF StageIs
  <2> QED BY <2>1, <2>2, DistanceHere DEF DistanceIs
<1>6. CASE Continue
  <2>1. GoesOn => ~Polling
    BY <1>6, WorkerMoves DEF GoesOn, DeadlinePasses
  <2>2. Stage' < Stage \/ (Polling /\ Polling' /\ Stage' = Stage)
    BY <1>6, WorkerMoves, StageHere DEF StageIs, Polling
  <2>3. Polling /\ Polling' => Distance' = 2 * Stage' /\ Distance = 2 * Stage
    BY <1>1 DEF Distance
  <2>4. /\ Distance' = 2 * Stage' \/ Distance' = 2 * Stage' + 1
        /\ Distance = 2 * Stage \/ Distance = 2 * Stage + 1
    BY DistanceHere DEF DistanceIs
  <2>5. ASSUME Stage' < Stage PROVE Distance' < Distance
    <3>1. Stage \in Nat /\ Stage' \in Nat
      BY <1>1
    <3> QED BY <1>1, <2>4, <2>5, <3>1, Doubled
  <2>6. Polling /\ Polling' /\ Stage' = Stage => Distance' = Distance
    BY <1>1, <2>3
  <2> QED BY <1>1, <2>1, <2>2, <2>5, <2>6
<1>7. ~StartRun
  BY DEF StartRun, IInv, VerdictInv
<1> QED BY <1>3, <1>4, <1>5, <1>6, <1>7, RunnerEnds DEF Next

(* The invariant of the worker's waiting.                                     *)
THEOREM WaitInvariance == Spec => []WaitInv
BY WaitBegins, WaitStep, RunnerInvariance, PTL DEF Spec

(* Whatever is said, dies or fails, a run gets no further from its end, and    *)
(* every timer and continuation takes it nearer: the safety half of RunsEnd   *)
(* (the worker's main and its client's request and waitForTurn).              *)
THEOREM RunGoesDown == Spec => RunDescends
<1>1. IInv /\ WaitInv /\ [Next]_vars =>
        [runner = "up" =>
           \/ runner' = "gone"
           \/ Distance' <= Distance /\ (GoesOn => Distance' < Distance)]_vars
  BY Descent
<1> QED BY <1>1, RunnerInvariance, WaitInvariance, PTL DEF Spec, RunDescends

(* The worker never waits without a timer, so that what the fairness of the   *)
(* timers and continuations assumes is there to be fair to.                   *)
THEOREM TimerAlways == Spec => []AlwaysATimer
<1>1. IInv /\ WaitInv => AlwaysATimer
  BY DEF IInv, Typed, WaitInv, AlwaysATimer, TurnTimer
<1> QED BY <1>1, RunnerInvariance, WaitInvariance, PTL
=============================================================================
