------------------------------ MODULE IdeAccess ------------------------------
(* One-time access to the IDE of a Workspace (packages/ide-access and the ide *)
(* service of rad-control): requests issue a code, exchange it for a session  *)
(* and resolve the session for each connection of the IDE proxy, while the    *)
(* Workspaces change state and a security migration rotates the epoch.        *)
(*                                                                            *)
(* A transaction takes one step per statement; what it writes is seen when it *)
(* commits, with its last step, and the rows it locks or writes are locked    *)
(* until then.  The three reads of a resolution lock nothing.                 *)
EXTENDS Naturals, FiniteSets

CONSTANTS
  Request,          (* the HTTP requests in flight                            *)
  Workspace,
  Code,             (* identities of codes, and of sessions                   *)
  Session,
  CodeTtl,          (* seconds, here units of the clock                       *)
  SessionTtl,
  WorkspaceExpiry,  (* expires_at of every Workspace                          *)
  MaxTime,          (* bound of the clock                                     *)
  MaxVersion,       (* bound of state_version                                 *)
  MaxEpoch          (* Number.MAX_SAFE_INTEGER                                *)

ASSUME IdeAccessAssumption ==
  /\ CodeTtl \in Nat \ {0} /\ SessionTtl \in Nat \ {0}
  /\ WorkspaceExpiry \in Nat /\ MaxTime \in Nat
  /\ MaxVersion \in Nat /\ MaxEpoch \in Nat \ {0}
  /\ Code \cap Session = {}

(* A row that was not inserted yet.                                           *)
None == [state |-> "NONE"]

CodeRecord ==
  [state : {"UNUSED", "CONSUMED", "INVALIDATED"}, workspace : Workspace,
   epoch : Nat, version : Nat, expires : Nat]

SessionRecord ==
  [state : {"ACTIVE", "REVOKED"}, workspace : Workspace,
   epoch : Nat, version : Nat, expires : Nat,
   code : Code]     (* history: the code it was exchanged for                 *)

(* What the service tells apart: RUNNING and READY or anything else.          *)
WorkspaceRow ==
  [desired : {"RUNNING", "STOPPED"}, observed : {"READY", "OTHER"},
   version : 0..MaxVersion]

(* Where a request stands: idle, or about to take the named lock or step.     *)
IssuePlace == {"issue_metadata", "issue_workspace", "issue_code", "issue_insert"}
RedeemPlace ==
  {"redeem_code", "redeem_metadata", "redeem_workspace", "redeem_session", "redeem_insert"}
ResolvePlace == {"resolve_session", "resolve_metadata", "resolve_workspace", "accepted"}
AuditPlace == {"issue_audit", "redeem_audit"}
Place == {"idle"} \cup IssuePlace \cup RedeemPlace \cup ResolvePlace \cup AuditPlace

VARIABLES
  epoch, maintenance,        (* instance_metadata                             *)
  migration,                 (* idle, in maintenance, metadata row locked     *)
  row,                       (* workspaces                                    *)
  code, session,             (* ide_access_codes, ide_access_sessions         *)
  sent,                      (* the codes and sessions a client was given     *)
  now,
  req                        (* the locals of each request                    *)

database == <<epoch, maintenance, row, code, session>>
vars == <<database, migration, sent, now, req>>

RequestRecord ==
  [at : Place,
   arg : Workspace \cup Code \cup Session \cup {0},  (* what it is about      *)
   time : 0..MaxTime,         (* the clock when it began                       *)
   context : 0..MaxEpoch,     (* the epoch its transaction read                *)
   rows : SUBSET (Code \cup Session),  (* what it has invalidated or revoked   *)
   valid : BOOLEAN]           (* history: was the session valid when it began  *)

At(place, subject, t, was) ==
  [at |-> place, arg |-> subject, time |-> t, context |-> 0, rows |-> {}, valid |-> was]

Idle == At("idle", 0, 0, FALSE)

Init ==
  /\ epoch = 1 /\ maintenance = FALSE /\ migration = "idle"
  /\ row = [w \in Workspace |-> [desired |-> "RUNNING", observed |-> "OTHER", version |-> 0]]
  /\ code = [c \in Code |-> None]
  /\ session = [s \in Session |-> None]
  /\ sent = {}
  /\ now = 0
  /\ req = [r \in Request |-> Idle]

-----------------------------------------------------------------------------
(* Row locks, as the places of the transactions imply them *)

(* Mutant: the metadata row is read without FOR SHARE.                        *)
SharesNothing(r) == FALSE

SharesMetadata(r) ==
  req[r].at \in {"issue_workspace", "issue_code", "issue_insert",
                "redeem_workspace", "redeem_session", "redeem_insert"}

(* FOR SHARE and FOR UPDATE of the metadata row.                              *)
MetadataFree == migration # "locked"
MetadataUnlocked == MetadataFree /\ \A r \in Request : ~SharesMetadata(r)

LocksCode(r, c) ==
  \/ /\ req[r].at \in {"redeem_metadata", "redeem_workspace", "redeem_session", "redeem_insert"}
     /\ req[r].arg = c
  \/ req[r].at = "issue_insert" /\ c \in req[r].rows
CodeFree(c) == \A r \in Request : ~LocksCode(r, c)

(* Mutant: the Workspace row is read without FOR UPDATE.                      *)
LocksNoWorkspace(r, w) == FALSE

LocksWorkspace(r, w) ==
  \/ req[r].at \in {"issue_code", "issue_insert"} /\ req[r].arg = w
  \/ req[r].at \in {"redeem_session", "redeem_insert"} /\ code[req[r].arg].workspace = w
WorkspaceFree(w) == \A r \in Request : ~LocksWorkspace(r, w)

Begins(r, place, subject, was) ==
  /\ req[r].at = "idle"
  /\ req' = [req EXCEPT ![r] = At(place, subject, now, was)]
  /\ UNCHANGED <<database, migration, sent, now>>

(* The request goes on, or ends and forgets everything.                       *)
Goes(r, place) ==
  req' = [req EXCEPT ![r] = IF place = "idle" THEN Idle ELSE [@ EXCEPT !.at = place]]

(* A step that writes nothing: the request goes on if the test is good.       *)
Reads(r, place, good, next) ==
  /\ req[r].at = place
  /\ Goes(r, IF good THEN next ELSE "idle")
  /\ UNCHANGED <<database, migration, sent, now>>

-----------------------------------------------------------------------------
(* POST /api/workspaces/:id/ide-access *)

(* Bounds: no request begins that could find no identity left.                *)
CodesLeft ==
  Cardinality({c \in Code : code[c] = None})
    > Cardinality({r \in Request : req[r].at \in IssuePlace})
SessionsLeft ==
  Cardinality({s \in Session : session[s] = None})
    > Cardinality({r \in Request : req[r].at \in RedeemPlace})

(* The guard of the route; issue takes createdAt before its transaction.      *)
BeginIssue(r, w) ==
  /\ ~maintenance /\ CodesLeft
  /\ Begins(r, "issue_metadata", w, FALSE)

(* requireIssuableContext, the metadata half.                                 *)
IssueMetadata(r) ==
  /\ req[r].at = "issue_metadata"
  /\ MetadataFree
  /\ req' = [req EXCEPT ![r] =
       IF maintenance THEN Idle ELSE [@ EXCEPT !.at = "issue_workspace", !.context = epoch]]
  /\ UNCHANGED <<database, migration, sent, now>>

(* Ready at a time, as issue, redeem and resolve all test it.                 *)
Ready(w, t) ==
  /\ row[w].desired = "RUNNING"
  /\ row[w].observed = "READY"
  /\ WorkspaceExpiry > t

(* Mutant: a Workspace that is not ready is waited for.                       *)
IssueWorkspaceWaits(r) ==
  /\ Reads(r, "issue_workspace", TRUE, "issue_code")
  /\ WorkspaceFree(req[r].arg) /\ Ready(req[r].arg, req[r].time)

IssueWorkspace(r) ==
  /\ Reads(r, "issue_workspace", Ready(req[r].arg, req[r].time), "issue_code")
  /\ WorkspaceFree(req[r].arg)

Unused(w) == {c \in Code : code[c].state = "UNUSED" /\ code[c].workspace = w}

(* The invalidation of the codes that are replaced; it waits for one that is  *)
(* being redeemed.                                                            *)
InvalidateCodes(r) ==
  /\ req[r].at = "issue_code"
  /\ \A c \in Unused(req[r].arg) : CodeFree(c)
  /\ req' = [req EXCEPT ![r].at = "issue_insert", ![r].rows = Unused(req[r].arg)]
  /\ UNCHANGED <<database, migration, sent, now>>

(* The insert and the commit.                                                 *)
InsertCode(r) ==
  LET w == req[r].arg IN
  /\ req[r].at = "issue_insert"
  /\ \E new \in Code :
       /\ code[new] = None
       /\ code' = [c \in Code |->
            CASE c = new -> [state |-> "UNUSED", workspace |-> w, epoch |-> req[r].context,
                             version |-> row[w].version, expires |-> req[r].time + CodeTtl]
              [] c \in req[r].rows -> [code[c] EXCEPT !.state = "INVALIDATED"]
              [] OTHER -> code[c]]
       /\ req' = [req EXCEPT ![r] = At("issue_audit", new, 0, FALSE)]
  /\ UNCHANGED <<epoch, maintenance, row, session, migration, sent, now>>

-----------------------------------------------------------------------------
(* POST /internal/ide-access/redeem *)

BeginRedeem(r, c) ==
  /\ c \in sent /\ SessionsLeft
  /\ Begins(r, "redeem_code", c, FALSE)

RedeemCode(r) ==
  /\ Reads(r, "redeem_code", TRUE, "redeem_metadata")
  /\ CodeFree(req[r].arg)

(* assertRedeemableContext, the code and the metadata row.                    *)
RedeemMetadata(r) ==
  LET c == req[r].arg IN
  /\ Reads(r, "redeem_metadata",
           /\ code[c].state = "UNUSED" /\ code[c].expires > req[r].time
           /\ ~maintenance /\ epoch = code[c].epoch,
           "redeem_workspace")
  /\ MetadataFree

(* assertRedeemableContext, the Workspace row.                                *)
RedeemWorkspace(r) ==
  LET w == code[req[r].arg].workspace IN
  /\ Reads(r, "redeem_workspace",
           Ready(w, req[r].time) /\ row[w].version = code[req[r].arg].version,
           "redeem_session")
  /\ WorkspaceFree(w)

Active(w) == {s \in Session : session[s].state = "ACTIVE" /\ session[s].workspace = w}

(* Mutants: the code is not marked, and the sessions are left alone.          *)
ConsumeNothing(c) == code' = code
SupersededNone(w) == {}

Consume(c) == code' = [code EXCEPT ![c].state = "CONSUMED"]

(* The sessions that a new one of the Workspace revokes.                      *)
Superseded(w) == Active(w)

Earlier(m, n) == IF m < n THEN m ELSE n

(* The conditional update of the code, and the revocation.                    *)
RevokeSessions(r) ==
  /\ req[r].at = "redeem_session"
  /\ req' = [req EXCEPT ![r].at = "redeem_insert",
                        ![r].rows = Superseded(code[req[r].arg].workspace)]
  /\ UNCHANGED <<database, migration, sent, now>>

(* The insert and the commit.                                                 *)
InsertSession(r) ==
  LET c == req[r].arg IN
  /\ req[r].at = "redeem_insert"
  /\ Consume(c)
  /\ \E new \in Session :
       /\ session[new] = None
       /\ session' = [s \in Session |->
            CASE s = new -> [state |-> "ACTIVE", workspace |-> code[c].workspace,
                             epoch |-> code[c].epoch, version |-> code[c].version,
                             expires |-> Earlier(req[r].time + SessionTtl, WorkspaceExpiry),
                             code |-> c]
              [] s \in req[r].rows -> [session[s] EXCEPT !.state = "REVOKED"]
              [] OTHER -> session[s]]
       /\ req' = [req EXCEPT ![r] = At("redeem_audit", new, 0, FALSE)]
  /\ UNCHANGED <<epoch, maintenance, row, migration, sent, now>>

(* The audit event, and the answer that gives the client what was made.       *)
Answer(r) ==
  /\ req[r].at \in AuditPlace
  /\ sent' = sent \cup {req[r].arg}
  /\ Goes(r, "idle")
  /\ UNCHANGED <<database, migration, now>>

-----------------------------------------------------------------------------
(* POST /internal/ide-access/resolve, for a connection at the proxy *)

Expired(s, t) == session[s].expires <= t
Blocked(s) == maintenance \/ epoch # session[s].epoch
Moved(s, t) ==
  \/ ~Ready(session[s].workspace, t)
  \/ row[session[s].workspace].version # session[s].version

(* What the three reads of a resolution look for, all at one moment.          *)
Resolves(s, t) ==
  session[s].state = "ACTIVE" /\ ~Expired(s, t) /\ ~Blocked(s) /\ ~Moved(s, t)

BeginResolve(r, s) ==
  /\ s \in sent
  /\ Begins(r, "resolve_session", s, Resolves(s, now))

ResolveSession(r) ==
  Reads(r, "resolve_session",
        session[req[r].arg].state = "ACTIVE" /\ ~Expired(req[r].arg, req[r].time),
        "resolve_metadata")
ResolveMetadata(r) ==
  Reads(r, "resolve_metadata", ~Blocked(req[r].arg), "resolve_workspace")
ResolveWorkspace(r) ==
  Reads(r, "resolve_workspace", ~Moved(req[r].arg, req[r].time), "accepted")

(* The proxy forwards the connection.                                         *)
Forward(r) == Reads(r, "accepted", TRUE, "idle")

(* A request fails: a deadlock of its transaction, a database or audit error, *)
(* a proxy that waited five seconds, a stop of rad-control.                   *)
Fail(r) ==
  /\ req[r].at # "idle"
  /\ Goes(r, "idle")
  /\ UNCHANGED <<database, migration, sent, now>>

-----------------------------------------------------------------------------
(* The Workspace rows, the migration and the clock *)

(* Mutant: an update keeps the state version.                                 *)
UpdatedQuietly(w, d, o) == [row EXCEPT ![w].desired = d, ![w].observed = o]

(* Every update of a Workspace row counts its state version up.               *)
Updated(w, d, o) ==
  [row EXCEPT ![w] = [desired |-> d, observed |-> o, version |-> @.version + 1]]

(* An intent or an observation is stored; READY speaks of the intent RUNNING. *)
UpdateWorkspace(w, d, o) ==
  /\ row[w].version < MaxVersion
  /\ WorkspaceFree(w)
  /\ \/ o = row[w].observed
     \/ d = row[w].desired /\ (o = "READY" => d = "RUNNING")
  /\ row' = Updated(w, d, o)
  /\ UNCHANGED <<epoch, maintenance, code, session, migration, sent, now, req>>

EnterMaintenance ==
  /\ migration = "idle"
  /\ maintenance \/ MetadataUnlocked
  /\ maintenance' = TRUE
  /\ migration' = "maintenance"
  /\ UNCHANGED <<epoch, row, code, session, sent, now, req>>

LockMetadata ==
  /\ migration = "maintenance"
  /\ MetadataUnlocked
  /\ migration' = "locked"
  /\ UNCHANGED <<database, sent, now, req>>

(* Mutant: the epoch grows without end.                                       *)
EpochUnbounded == TRUE

EpochCanGrow == epoch < MaxEpoch

(* The statements of commit for IDE access and Workspaces; the first waits    *)
(* for codes that are being redeemed.  Of the other intents and observations, *)
(* which a row does not tell apart here, SUSPENDED ones are stopped too and   *)
(* DESTROYED ones are not.                                                    *)
CommitMigration ==
  /\ migration = "locked"
  /\ EpochCanGrow
  /\ \A c \in Code : code[c].state = "UNUSED" => CodeFree(c)
  /\ \A w \in Workspace : WorkspaceFree(w) /\ row[w].version < MaxVersion
  /\ code' = [c \in Code |->
       IF code[c].state = "UNUSED" THEN [code[c] EXCEPT !.state = "INVALIDATED"] ELSE code[c]]
  /\ session' = [s \in Session |->
       IF session[s].state = "ACTIVE" THEN [session[s] EXCEPT !.state = "REVOKED"]
       ELSE session[s]]
  /\ \E stopped \in SUBSET Workspace :
       /\ {w \in Workspace : row[w].desired = "RUNNING" /\ row[w].observed = "READY"}
            \subseteq stopped
       /\ row' = [w \in Workspace |->
            IF w \in stopped THEN [row[w] EXCEPT !.desired = "STOPPED", !.version = @ + 1]
            ELSE row[w]]
  /\ epoch' = epoch + 1
  /\ maintenance' = FALSE
  /\ migration' = "idle"
  /\ UNCHANGED <<sent, now, req>>

(* The migration fails, as a victim of a deadlock or otherwise; maintenance   *)
(* stays.                                                                     *)
AbortMigration ==
  /\ migration # "idle"
  /\ migration' = "idle"
  /\ UNCHANGED <<database, sent, now, req>>

Tick ==
  /\ now < MaxTime
  /\ now' = now + 1
  /\ UNCHANGED <<database, migration, sent, req>>

RequestStep(r) ==
  \/ IssueMetadata(r) \/ IssueWorkspace(r) \/ InvalidateCodes(r) \/ InsertCode(r)
  \/ RedeemCode(r) \/ RedeemMetadata(r) \/ RedeemWorkspace(r)
  \/ RevokeSessions(r) \/ InsertSession(r)
  \/ ResolveSession(r) \/ ResolveMetadata(r) \/ ResolveWorkspace(r)
  \/ Answer(r) \/ Forward(r)

Next ==
  \/ \E r \in Request :
       \/ \E w \in Workspace : BeginIssue(r, w)
       \/ \E c \in Code : BeginRedeem(r, c)
       \/ \E s \in Session : BeginResolve(r, s)
       \/ RequestStep(r)
       \/ Fail(r)
  \/ \E w \in Workspace, d \in {"RUNNING", "STOPPED"}, o \in {"READY", "OTHER"} :
       UpdateWorkspace(w, d, o)
  \/ EnterMaintenance \/ LockMetadata \/ CommitMigration \/ AbortMigration
  \/ Tick

Spec == Init /\ [][Next]_vars

(* An issue that holds the Workspace waits for the code a redemption holds,   *)
(* which waits for the Workspace: PostgreSQL aborts one of the two.           *)
WaitForEachOther(r, i) ==
  /\ req[r].at = "redeem_workspace"
  /\ req[i].at = "issue_code"
  /\ code[req[r].arg].workspace = req[i].arg
  /\ code[req[r].arg].state = "UNUSED"

BreakDeadlock(r, i) == WaitForEachOther(r, i) /\ (Fail(r) \/ Fail(i))

(* Row locks are given in the order in which they were asked for, deadlocks   *)
(* are broken, and the transaction of a migration ends.                       *)
FairSpec ==
  /\ Spec
  /\ \A r \in Request : SF_vars(RequestStep(r))
  /\ \A r, i \in Request : WF_vars(BreakDeadlock(r, i))
  /\ WF_vars(CommitMigration \/ (migration = "locked" /\ AbortMigration))

-----------------------------------------------------------------------------
(* Properties *)

TypeOK ==
  /\ epoch \in 1..MaxEpoch /\ maintenance \in BOOLEAN
  /\ migration \in {"idle", "maintenance", "locked"}
  /\ row \in [Workspace -> WorkspaceRow]
  /\ code \in [Code -> {None} \cup CodeRecord]
  /\ session \in [Session -> {None} \cup SessionRecord]
  /\ sent \subseteq Code \cup Session
  /\ now \in 0..MaxTime
  /\ req \in [Request -> RequestRecord]

(* "Issuing a replacement invalidates any unused code for that Workspace":    *)
(* two requests that issue at once, or redeem the one that is replaced, do    *)
(* not leave two codes that can be used.                                      *)
OneUnusedCode == \A w \in Workspace : \A c, d \in Unused(w) : c = d

(* "Redeeming a code revokes the previous active session": racing redemptions *)
(* of different codes leave one active session of a Workspace.                *)
OneActiveSession == \A w \in Workspace : \A s, t \in Active(w) : s = t

(* "A consumed code cannot be used again", by no race of two redemptions.     *)
CodeUsedOnce ==
  \A s, t \in Session :
    s # t /\ session[s] # None /\ session[t] # None => session[s].code # session[t].code

(* A migration invalidates "every unused IDE code and revokes every active    *)
(* IDE session in the same transaction that advances the epoch": none is left *)
(* of an older epoch, nor inserted after it by a request that began before.   *)
OldEpochIsGone ==
  /\ \A c \in Code : code[c].state = "UNUSED" => code[c].epoch = epoch
  /\ \A s \in Session : session[s].state = "ACTIVE" => session[s].epoch = epoch

(* "Session resolution fails closed": a resolution reads three rows at three  *)
(* moments without a lock, yet one that succeeds was valid in every respect   *)
(* when it began.                                                             *)
AcceptedWasValid == \A r \in Request : req[r].at = "accepted" => req[r].valid

(* What the tables say to the owner of a Workspace (AccessLedger).            *)
Offered == [w \in Workspace |-> {<<c, code[c].epoch>> : c \in Unused(w)}]
Opened == [w \in Workspace |-> {<<s, session[s].epoch>> : s \in Active(w)}]
Known == {c \in Code : code[c] # None}
Exchanges == {<<s, session[s].code>> : s \in {t \in Session : session[t] # None}}

Ledger == INSTANCE AccessLedger
            WITH offered <- Offered, opened <- Opened, known <- Known, exchanges <- Exchanges

(* Whatever requests, failures, deadlocks and migrations interleave, a code   *)
(* takes the place of the last one, is exchanged once for the one session,    *)
(* and the migration ends all of them together: the transactions on codes,    *)
(* sessions and the metadata row are atomic (issueCode, redeemCode, commit).   *)
AccessKept == Ledger!Spec

(* What a request waits for: a row another one has locked, or the metadata    *)
(* row, while the migration holds it.                                         *)
WaitsFor(r, q) ==
  \/ req[r].at = "issue_workspace" /\ LocksWorkspace(q, req[r].arg)
  \/ req[r].at = "issue_code" /\ \E c \in Unused(req[r].arg) : LocksCode(q, c)
  \/ req[r].at = "redeem_code" /\ LocksCode(q, req[r].arg)
  \/ req[r].at = "redeem_workspace" /\ LocksWorkspace(q, code[req[r].arg].workspace)
WaitsForMigration(r) == migration = "locked" /\ req[r].at \in {"issue_metadata", "redeem_metadata"}

(* What the migration waits for.                                              *)
MigrationWaitsFor(q) ==
  \/ migration # "locked" /\ SharesMetadata(q)
  \/ migration = "locked" /\ \/ \E c \in Code : code[c].state = "UNUSED" /\ LocksCode(q, c)
                             \/ \E w \in Workspace : LocksWorkspace(q, w)

(* Requests that wait for each other, for ever unless one is aborted; m says  *)
(* whether the migration is one of them.                                      *)
Stuck(S, m) ==
  /\ S # {}
  /\ \A r \in S : (\E q \in S : WaitsFor(r, q)) \/ (m /\ WaitsForMigration(r))
  /\ m => \E q \in S : MigrationWaitsFor(q)

(* Whoever is stuck, a redemption is among them, which locks its code first:  *)
(* it faces an issue that holds the Workspace, or the migration.  These are   *)
(* the deadlocks that are broken in FairSpec, and there are no others.        *)
DeadlocksAreKnown ==
  \A S \in SUBSET Request, m \in BOOLEAN :
    Stuck(S, m) =>
      \/ \E r, i \in S : WaitForEachOther(r, i)
      \/ m /\ migration = "locked" /\ \E r \in S : req[r].at = "redeem_metadata"

(* Every request ends, although issue and migration lock the metadata row or  *)
(* the Workspace before the codes and redeem after them.                      *)
RequestsEnd == \A r \in Request : req[r].at # "idle" ~> req[r].at = "idle"

(* "The resulting session lifetime is 3,600 seconds, bounded by the Workspace *)
(* expiry": a session resolves until it expires, is revoked, the epoch or     *)
(* maintenance changes, or the Workspace leaves its state.                    *)
SessionsLast ==
  [][\A s \in Session :
       Resolves(s, now) /\ ~Resolves(s, now)' =>
         \/ session'[s].state = "REVOKED"
         \/ maintenance' \/ epoch' # epoch
         \/ now' # now
         \/ row'[session[s].workspace].desired # "RUNNING"
         \/ row'[session[s].workspace].observed # "READY"]_vars
=============================================================================
