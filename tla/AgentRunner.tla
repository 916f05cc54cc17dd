----------------------------- MODULE AgentRunner -----------------------------
(* One agent task from docker run to its verdict: rad-control runs the Agent  *)
(* Runner container (apps/control/src/workspace/docker-supervisor.ts), whose  *)
(* only process is the worker (apps/agent-worker), which spawns the Codex App *)
(* Server and talks to it over its standard input and output                  *)
(* (packages/agents/src/app-server-client.ts and process.ts).                 *)
(*                                                                            *)
(* readline hands all lines of a chunk to handleLine before any promise       *)
(* continues, so that a line and the continuation of what it settled are      *)
(* separate steps, and other lines, timers and deaths may come in between.    *)
(* The worker has one call outstanding at a time and request ids are never    *)
(* used again: a request is known by its method.                              *)
EXTENDS Naturals, Sequences

CONSTANTS
  MaxOutput,   (* bound: lines of the App Server that are not handled yet     *)
  MaxDeltas,   (* bound: pieces of the agent's message                        *)
  MaxFaults    (* bound: odd lines and failures of containers and processes   *)

ASSUME BoundsAssumption == /\ MaxOutput \in Nat \ {0}
                           /\ MaxDeltas \in Nat
                           /\ MaxFaults \in Nat

VARIABLES
  task,        (* how rad-control sees the task; "lost" after a crash         *)
  signalled,   (* the docker client was told to stop                          *)
  runner,      (* the container                                               *)
  exit,        (* how the worker ended                                        *)
  pc,          (* what the worker waits for                                   *)
  answer,      (* what the awaited promise was settled with, "none" before    *)
  pending,     (* the requests in the client's pending map                    *)
  late,        (* the deadline of connectEnvironment has passed               *)
  listening,   (* the delta listener is registered                            *)
  heard,       (* the pieces in the message put together so far; the pipe     *)
               (* keeps their order                                           *)
  known,       (* completedTurns, of the task's turn                          *)
  reported,    (* the event the worker wrote last of all                      *)
  ended,       (* readline saw the end of the App Server's output             *)
  server,      (* the App Server's process                                    *)
  asked,       (* what was written to the App Server and not dealt with       *)
  output,      (* its lines on their way to the client                        *)
  connected,   (* it said that the remote environment is ready                *)
  turn,        (* what became of the task's turn                              *)
  said,        (* the pieces of the agent's message it sent                   *)
  faults

control == <<task, signalled>>
client == <<pending, late, listening, heard, known, ended>>
worker == <<pc, answer, reported, client>>
appServer == <<server, asked, output, connected, turn, said>>
vars == <<control, runner, exit, worker, appServer, faults>>

Request == {"initialize", "environment/add", "environment/status",
            "thread/start", "turn/start"}
WorkerStep == Request \cup {"pause", "turn", "close", "closing", "stranded",
                            "none", "over"}
TaskState == {"idle", "running", "completed", "failed", "lost"}
TurnOutcome == {"completed", "failed"}
Outcome == {"ok", "error"} \cup TurnOutcome \cup {"ready", "pending", "down"}

(* Of threads and turns the client tells its own from any other.              *)
Whose == {"own", "other"}
Line ==
  [kind : {"response"}, to : Request, says : Outcome]
    \cup [kind : {"delta"}, of : Whose, piece : Nat]
    \cup [kind : {"turn/completed"}, of : Whose, says : TurnOutcome]
    \cup [kind : {"request", "garbage", "error"}]
Response(m, s) == [kind |-> "response", to |-> m, says |-> s]
Delta(w, n) == [kind |-> "delta", of |-> w, piece |-> n]
TurnCompleted(w, s) == [kind |-> "turn/completed", of |-> w, says |-> s]
Odd(k) == [kind |-> k]

Init ==
  /\ task = "idle" /\ signalled = FALSE
  /\ runner = "none" /\ exit = "none"
  /\ pc = "none" /\ answer = "none" /\ reported = "none"
  /\ pending = {} /\ late = FALSE /\ listening = FALSE
  /\ heard = {} /\ known = "none" /\ ended = FALSE
  /\ server = "none" /\ asked = {} /\ output = <<>>
  /\ connected = FALSE /\ turn = "none" /\ said = 0
  /\ faults = 0

Fault == faults < MaxFaults /\ faults' = faults + 1

-----------------------------------------------------------------------------
(* The client's requests *)

(* request: a new entry of the map with its timer, and a line written.        *)
Send(m) ==
  /\ pc' = m
  /\ answer' = "none"
  /\ pending' = {m}
  /\ asked' = asked \cup {m}

(* An entry leaves the map when its promise is settled, and only then.        *)
Settle(m, s) ==
  /\ pending' = pending \ {m}
  /\ answer' = s

Stays == UNCHANGED <<pc, reported, late, listening, ended>>
OnlyClient == UNCHANGED <<control, runner, exit>>

(* failPending: every request in the map is rejected; a wait for a turn is    *)
(* not among them.                                                            *)
FailPending ==
  IF pending = {} THEN UNCHANGED <<pending, answer>>
  ELSE pending' = {} /\ answer' = "error"

RequestTimesOut(m) ==
  /\ runner = "up"
  /\ m \in pending
  /\ Settle(m, "error")
  /\ Stays /\ OnlyClient
  /\ UNCHANGED <<heard, known, appServer, faults>>

TurnTimer == pc = "turn" /\ answer = "none"

TurnTimesOut ==
  /\ runner = "up"
  /\ TurnTimer
  /\ answer' = "error"
  /\ Stays /\ OnlyClient
  /\ UNCHANGED <<pending, heard, known, appServer, faults>>

-----------------------------------------------------------------------------
(* handleLine *)

(* Process exits: the container ends with its only process, and what that     *)
(* process spawned ends with the container.                                   *)
WorkerEnds(code) ==
  /\ runner' = "gone"
  /\ exit' = code
  /\ pc' = "over"
  /\ server' = "gone"
  /\ output' = <<>>
  /\ UNCHANGED <<control, answer, reported, client, asked, connected, turn, said>>

(* Mutant: the pieces of any thread are taken. *)
TakesAnyPiece(line) == listening
TakesPiece(line) == listening /\ line.of = "own"

HandleResponse(line) ==
  /\ line.kind = "response"
  /\ IF line.to \in pending THEN Settle(line.to, line.says)
     ELSE UNCHANGED <<pending, answer>>
  /\ UNCHANGED <<heard, known, asked>>

HandleDelta(line) ==
  /\ line.kind = "delta"
  /\ heard' = IF TakesPiece(line) THEN heard \cup {line.piece} ELSE heard
  /\ UNCHANGED <<pending, answer, known, asked>>

HandleTurnCompleted(line) ==
  /\ line.kind = "turn/completed"
  /\ IF line.of = "own"
     THEN /\ known' = line.says
          /\ answer' = IF pc = "turn" /\ answer = "none" THEN line.says ELSE answer
     ELSE UNCHANGED <<known, answer>>
  /\ UNCHANGED <<pending, heard, asked>>

(* A request of the App Server is denied, whatever it asks.                   *)
HandleRequest(line) ==
  /\ line.kind = "request"
  /\ asked' = asked \cup {"denial"}
  /\ UNCHANGED <<pending, answer, heard, known>>

HandleGarbage(line) ==
  /\ line.kind = "garbage"
  /\ FailPending
  /\ UNCHANGED <<heard, known, asked>>

HandleLine ==
  /\ runner = "up"
  /\ output # <<>>
  /\ LET line == Head(output) IN
       \/ HandleResponse(line) \/ HandleDelta(line) \/ HandleTurnCompleted(line)
       \/ HandleRequest(line) \/ HandleGarbage(line)
  /\ output' = Tail(output)
  /\ Stays /\ OnlyClient
  /\ UNCHANGED <<server, connected, turn, said, faults>>

(* A notification of the name "error" has no listener, and emit throws it out *)
(* of the handler: the worker ends without a verdict.                         *)
HandleErrorNotification ==
  /\ runner = "up"
  /\ output # <<>>
  /\ Head(output).kind = "error"
  /\ WorkerEnds("nonzero")
  /\ UNCHANGED faults

(* The lines are at their end once the process is gone and all are handled.   *)
OutputEnds ==
  /\ runner = "up"
  /\ server \notin {"none", "up"}
  /\ output = <<>>
  /\ ~ended
  /\ ended' = TRUE
  /\ FailPending
  /\ OnlyClient
  /\ UNCHANGED <<pc, reported, late, listening, heard, known, appServer, faults>>

(* A line written to a process that is gone raises an error on its input,     *)
(* which nobody handles.                                                      *)
InputBreaks ==
  /\ runner = "up"
  /\ server \notin {"none", "up"}
  /\ asked # {}
  /\ WorkerEnds("nonzero")
  /\ UNCHANGED faults

-----------------------------------------------------------------------------
(* The worker *)

At(s) == runner = "up" /\ pc = s
Fulfilled == answer \notin {"none", "error"}
WorkerOnly == UNCHANGED <<control, runner, exit, server, output, connected,
                          turn, said, faults>>

(* Mutant: the event is named after the error. *)
FailVerbatim == pc' = "close" /\ answer' = "none" /\ reported' = answer /\ listening' = FALSE

(* The catch block: the failure is written and the client closed.             *)
Fail ==
  /\ pc' = "close"
  /\ answer' = "none"
  /\ reported' = "failed"
  /\ listening' = FALSE

(* The notification that follows the answer is not answered itself.           *)
AfterInitialize ==
  /\ At("initialize") /\ Fulfilled
  /\ Send("environment/add")
  /\ WorkerOnly
  /\ UNCHANGED <<reported, late, listening, heard, known, ended>>

(* The deadline is set and the status asked for a first time.                 *)
AfterAdd ==
  /\ At("environment/add") /\ Fulfilled
  /\ late' = FALSE
  /\ Send("environment/status")
  /\ WorkerOnly
  /\ UNCHANGED <<reported, listening, heard, known, ended>>

AfterStatus ==
  /\ At("environment/status") /\ Fulfilled
  /\ \/ /\ answer = "ready"
        /\ Send("thread/start")
        /\ UNCHANGED <<reported, listening>>
     \/ /\ answer = "pending"
        /\ pc' = "pause"
        /\ answer' = "none"
        /\ UNCHANGED <<pending, asked, reported, listening>>
     \/ /\ answer \notin {"ready", "pending"}
        /\ Fail
        /\ UNCHANGED <<pending, asked>>
  /\ WorkerOnly
  /\ UNCHANGED <<late, heard, known, ended>>

(* Mutant: the loop is left at the deadline as if the environment were ready. *)
ProceedLate == Send("thread/start") /\ UNCHANGED <<reported, listening>>
GiveUpLate == Fail /\ UNCHANGED <<pending, asked>>

(* The hundred milliseconds are over: the loop ends by its deadline or asks   *)
(* again.                                                                     *)
AfterPause ==
  /\ At("pause")
  /\ IF late THEN GiveUpLate
     ELSE Send("environment/status") /\ UNCHANGED <<reported, listening>>
  /\ WorkerOnly
  /\ UNCHANGED <<late, heard, known, ended>>

DeadlinePasses ==
  /\ runner = "up"
  /\ pc \in {"environment/status", "pause"}
  /\ ~late
  /\ late' = TRUE
  /\ UNCHANGED <<control, runner, exit, pc, answer, reported, pending, listening,
                 heard, known, ended, appServer, faults>>

AfterThreadStart ==
  /\ At("thread/start") /\ Fulfilled
  /\ listening' = TRUE
  /\ Send("turn/start")
  /\ WorkerOnly
  /\ UNCHANGED <<reported, late, heard, known, ended>>

(* Mutant: completedTurns is not looked up. *)
WaitAfresh ==
  /\ At("turn/start") /\ Fulfilled
  /\ pc' = "turn"
  /\ answer' = "none"
  /\ WorkerOnly
  /\ UNCHANGED <<pending, asked, reported, late, listening, heard, known, ended>>

(* waitForTurn: a turn that has completed already is not waited for.          *)
AfterTurnStart ==
  /\ At("turn/start") /\ Fulfilled
  /\ pc' = "turn"
  /\ answer' = known
  /\ WorkerOnly
  /\ UNCHANGED <<pending, asked, reported, late, listening, heard, known, ended>>

Succeeded == answer = "completed"

AfterTurn ==
  /\ At("turn") /\ Fulfilled
  /\ IF Succeeded
     THEN /\ reported' = "completed"
          /\ pc' = "close"
          /\ answer' = "none"
          /\ listening' = FALSE
     ELSE Fail
  /\ WorkerOnly
  /\ UNCHANGED <<pending, asked, late, heard, known, ended>>

Rejected ==
  /\ runner = "up"
  /\ answer = "error"
  /\ Fail
  /\ WorkerOnly
  /\ UNCHANGED <<pending, asked, late, heard, known, ended>>

(* close: SIGTERM, and then the exit of the process is waited for.  An exit   *)
(* code may be there at once; an end by a signal that was announced before    *)
(* leaves no code and is not announced again.                                 *)
Close ==
  /\ At("close")
  /\ \/ pc' = "closing"
     \/ server = "signal" /\ pc' = "stranded"
  /\ WorkerOnly
  /\ UNCHANGED <<answer, reported, client, asked>>

(* Mutant: the exit of the process alone ends the wait. *)
ExitOnly == server # "up"
ExitOrFiveSeconds == TRUE

(* The process has exited, or SIGKILL follows after five seconds; a non-zero  *)
(* code is thrown out of the worker's finally block.                          *)
CloseReturns ==
  /\ At("closing")
  /\ ExitOrFiveSeconds
  /\ WorkerEnds(IF server = "code" \/ reported # "completed"
                THEN "nonzero" ELSE "zero")
  /\ UNCHANGED faults

(* The five seconds do not keep the event loop alive: they pass only if some  *)
(* other handle does, an output that is still open, and else Node gives up.   *)
Strand ==
  /\ At("stranded")
  /\ \/ WorkerEnds("nonzero")
     \/ reported = "completed" /\ WorkerEnds("zero")
  /\ UNCHANGED faults

Continue ==
  \/ AfterInitialize \/ AfterAdd \/ AfterStatus \/ AfterPause
  \/ AfterThreadStart \/ AfterTurnStart \/ AfterTurn \/ Rejected
  \/ Close \/ CloseReturns \/ Strand

-----------------------------------------------------------------------------
(* The App Server *)

ServerOnly == UNCHANGED <<control, runner, exit, worker>>
Writes(line) ==
  /\ Len(output) < MaxOutput
  /\ output' = Append(output, line)

AnswersTo(m) ==
  CASE m = "environment/status" -> {"ready", "pending", "down", "error"}
    [] m = "turn/start" -> IF turn = "none" THEN {"error"} ELSE {"ok"}
    [] OTHER -> {"ok", "error"}

Answer(m) ==
  /\ server = "up"
  /\ m \in asked
  /\ asked' = asked \ {m}
  /\ \E s \in AnswersTo(m) :
       /\ Writes(Response(m, s))
       /\ connected' = (connected \/ s = "ready")
  /\ ServerOnly
  /\ UNCHANGED <<server, turn, said, faults>>

HearsDenial ==
  /\ server = "up"
  /\ "denial" \in asked
  /\ asked' = asked \ {"denial"}
  /\ ServerOnly
  /\ UNCHANGED <<server, output, connected, turn, said, faults>>

(* The turn runs from the request on; its lines may come before the answer.   *)
BeginTurn ==
  /\ server = "up"
  /\ "turn/start" \in asked
  /\ turn = "none"
  /\ turn' = "running"
  /\ ServerOnly
  /\ UNCHANGED <<server, asked, output, connected, said, faults>>

Speak ==
  /\ server = "up"
  /\ turn = "running"
  /\ said < MaxDeltas
  /\ said' = said + 1
  /\ Writes(Delta("own", said + 1))
  /\ ServerOnly
  /\ UNCHANGED <<server, asked, connected, turn, faults>>

CompleteTurn(s) ==
  /\ server = "up"
  /\ turn = "running"
  /\ turn' = s
  /\ Writes(TurnCompleted("own", s))
  /\ ServerOnly
  /\ UNCHANGED <<server, asked, connected, said, faults>>

(* Lines of other threads, requests of its own, errors and garbage.           *)
SaySomethingElse ==
  /\ server = "up"
  /\ Fault
  /\ \/ Writes(Delta("other", 0))
     \/ \E s \in TurnOutcome : Writes(TurnCompleted("other", s))
     \/ \E k \in {"request", "garbage", "error"} : Writes(Odd(k))
  /\ ServerOnly
  /\ UNCHANGED <<server, asked, connected, turn, said>>

(* It exits with a code or by a signal: by itself, which is a fault, or when  *)
(* it was told to.  What it was asked and did not answer is gone with it.     *)
ServerExits ==
  /\ server = "up"
  /\ IF pc = "closing" THEN UNCHANGED faults ELSE Fault
  /\ server' \in {"zero", "code", "signal"}
  /\ asked' = {}
  /\ ServerOnly
  /\ UNCHANGED <<output, connected, turn, said>>

ServerStep ==
  \/ \E m \in Request : Answer(m)
  \/ HearsDenial
  \/ BeginTurn \/ Speak \/ \E s \in TurnOutcome : CompleteTurn(s)
  \/ SaySomethingElse \/ ServerExits

-----------------------------------------------------------------------------
(* rad-control and Docker *)

(* runTask: docker run starts the worker, which spawns the App Server and     *)
(* writes its first request.                                                  *)
StartRun ==
  /\ task = "idle"
  /\ task' = "running"
  /\ runner' = "up"
  /\ server' = "up"
  /\ Send("initialize")
  /\ UNCHANGED <<signalled, exit, reported, late, listening, heard, known, ended,
                 output, connected, turn, said, faults>>

(* The Workspace is not running, there is no key, docker run is refused, or   *)
(* the worker does not get as far as its first request.                       *)
RunRefused ==
  /\ task = "idle"
  /\ task' = "failed"
  /\ UNCHANGED <<signalled, runner, exit, worker, appServer, faults>>

(* docker run ends with the container and passes its exit code on.  Once it   *)
(* was signalled what the worker writes is not collected any more.            *)
Completion == exit = "zero" /\ reported = "completed"

RunReturns ==
  /\ task = "running"
  /\ runner = "gone"
  /\ \/ Completion /\ task' = "completed"
     \/ (signalled \/ ~Completion) /\ task' = "failed"
  /\ UNCHANGED <<signalled, runner, exit, worker, appServer, faults>>

(* After sixty minutes, or a mebibyte of output, SIGTERM goes to the docker   *)
(* client, which forwards it and goes on waiting.                             *)
RunTimesOut ==
  /\ task = "running"
  /\ ~signalled
  /\ signalled' = TRUE
  /\ UNCHANGED <<task, runner, exit, worker, appServer, faults>>

(* The container ends by a signal: the forwarded one, or any other.           *)
RunnerKilled ==
  /\ runner = "up"
  /\ IF signalled THEN UNCHANGED faults ELSE Fault
  /\ WorkerEnds("nonzero")

(* The docker client fails and leaves the container behind.                   *)
ClientBreaks ==
  /\ task = "running"
  /\ Fault
  /\ task' = "failed"
  /\ UNCHANGED <<signalled, runner, exit, worker, appServer>>

ControlCrashes ==
  /\ task = "running"
  /\ Fault
  /\ task' = "lost"
  /\ UNCHANGED <<signalled, runner, exit, worker, appServer>>

-----------------------------------------------------------------------------
Next ==
  \/ StartRun \/ RunRefused \/ RunReturns \/ RunTimesOut
  \/ RunnerKilled \/ ClientBreaks \/ ControlCrashes
  \/ HandleLine \/ HandleErrorNotification \/ OutputEnds \/ InputBreaks
  \/ \E m \in Request : RequestTimesOut(m)
  \/ TurnTimesOut \/ DeadlinePasses
  \/ Continue
  \/ ServerStep

Spec == Init /\ [][Next]_vars

(* Node runs timers and continuations, and docker run returns when its        *)
(* container is gone.  Nothing is assumed of the App Server, not even that it *)
(* answers or that its output ends when it does.                              *)
FairSpec ==
  /\ Spec
  /\ WF_vars(\E m \in Request : RequestTimesOut(m))
  /\ WF_vars(TurnTimesOut)
  /\ WF_vars(DeadlinePasses)
  /\ WF_vars(Continue)
  /\ WF_vars(RunReturns)

-----------------------------------------------------------------------------
(* Properties *)

TypeOK ==
  /\ task \in TaskState
  /\ signalled \in BOOLEAN
  /\ runner \in {"none", "up", "gone"}
  /\ exit \in {"none", "zero", "nonzero"}
  /\ pc \in WorkerStep
  /\ answer \in Outcome \cup {"none"}
  /\ pending \subseteq Request
  /\ late \in BOOLEAN /\ listening \in BOOLEAN /\ ended \in BOOLEAN
  /\ heard \subseteq Nat
  /\ known \in TurnOutcome \cup {"none"}
  /\ reported \in TurnOutcome \cup {"none"}
  /\ server \in {"none", "up", "zero", "code", "signal", "gone"}
  /\ asked \subseteq Request \cup {"denial"}
  /\ output \in Seq(Line)
  /\ connected \in BOOLEAN
  /\ turn \in TurnOutcome \cup {"none", "running"}
  /\ said \in 0..MaxDeltas
  /\ faults \in 0..MaxFaults

(* A turn that completed while its answer, or the continuation of it, was on  *)
(* its way is not waited for in vain.                                         *)
NoLostCompletion == pc = "turn" /\ known # "none" => answer # "none"

(* A task is COMPLETED only if its own turn completed in an environment that  *)
(* was ready, its result is all the agent said and nothing else, and the      *)
(* Agent Runner is gone, whatever died, timed out or was said in between.     *)
CompletedIsTrue ==
  task = "completed" =>
    turn = "completed" /\ connected /\ heard = 1..said /\ runner = "gone"

(* "waits for environment/status=ready, and fails closed on disconnected,     *)
(* unknown, or timeout states": no turn runs before the environment is ready. *)
TurnNeedsEnvironment == turn # "none" => connected

(* What a task's record says of the agent's message (RunLedger).              *)
Message == IF task = "completed" THEN heard ELSE {}

Ledger == INSTANCE RunLedger WITH verdict <- task, ready <- connected, message <- Message

(* Whatever the App Server says, and whoever dies or times out, a task has    *)
(* one verdict and one turn, which begins when the environment is ready, and  *)
(* is COMPLETED with the whole of its message once that turn was, and no      *)
(* piece is said or heard after it (runTask, the worker and its client).      *)
RunKept == Ledger!Spec

(* A run ends, and the task with it unless rad-control crashes, even if the   *)
(* App Server never answers, dies, or is always about to be ready.            *)
RunsEnd ==
  /\ runner = "up" ~> runner = "gone"
  /\ task = "running" ~> task # "running"

(* How far a run is from its end.  While the environment is not ready and the *)
(* deadline has not passed the worker goes round in a loop.                   *)
Polling == pc \in {"environment/status", "pause"} /\ ~late
Stage ==
  CASE pc = "initialize" -> 10
    [] pc = "environment/add" -> 9
    [] Polling -> 8
    [] pc = "environment/status" /\ late -> 7
    [] pc = "pause" /\ late -> 6
    [] pc = "thread/start" -> 5
    [] pc = "turn/start" -> 4
    [] pc = "turn" -> 3
    [] pc = "close" -> 2
    [] OTHER -> 1
Distance == 2 * Stage + (IF ~Polling /\ answer = "none" THEN 1 ELSE 0)

(* What takes the run on: in the loop its deadline, and else a timer or the   *)
(* continuation of the worker.                                                *)
GoesOn ==
  IF Polling THEN DeadlinePasses
  ELSE Continue \/ TurnTimesOut \/ \E m \in Request : RequestTimesOut(m)

(* The safety half of RunsEnd: nothing that is said, dies or fails takes a    *)
(* run further from its end, and each timer and continuation takes it nearer. *)
RunDescends ==
  [][runner = "up" =>
       \/ runner' = "gone"
       \/ Distance' <= Distance /\ (GoesOn => Distance' < Distance)]_vars

(* And the worker never waits without a timer: at any time it has a promise   *)
(* that is settled, a request in the map or a turn that can time out, or a    *)
(* pause or an end of the process to go on from.                              *)
AlwaysATimer ==
  runner = "up" =>
    \/ answer # "none"
    \/ pending # {} \/ TurnTimer
    \/ pc \in {"pause", "close", "closing", "stranded"}
=============================================================================
