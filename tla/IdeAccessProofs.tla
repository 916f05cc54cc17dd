-------------------------- MODULE IdeAccessProofs --------------------------
(* What holds of IdeAccess for all numbers of requests, Workspaces, codes and *)
(* sessions, and all times to live.                                           *)
EXTENDS IdeAccess, TLAPS

(* What a request is about exists.                                            *)
Has(r) ==
  /\ req[r].at \in IssuePlace => req[r].arg \in Workspace
  /\ req[r].at \in RedeemPlace \cup {"issue_audit"} =>
       req[r].arg \in Code /\ code[req[r].arg] # None
  /\ req[r].at \in ResolvePlace \cup {"redeem_audit"} =>
       req[r].arg \in Session /\ session[req[r].arg] # None

(* What a transaction has read is still so, because it holds the rows.        *)
Holds(r) ==
  /\ SharesMetadata(r) => migration # "locked"
  /\ req[r].at \in {"issue_workspace", "issue_code", "issue_insert"} =>
       req[r].context = epoch
  /\ req[r].at \in {"redeem_workspace", "redeem_session", "redeem_insert"} =>
       code[req[r].arg].state = "UNUSED"
  /\ req[r].at = "issue_insert" => req[r].rows = Unused(req[r].arg)
  /\ req[r].at = "redeem_insert" => req[r].rows = Active(code[req[r].arg].workspace)

(* The rest of a resolution fails if the session was not valid when it began: *)
(* what was wrong then is wrong for good, and is still to be read.            *)
StillToSee(r) ==
  \/ req[r].at \notin ResolvePlace \/ req[r].valid
  \/ req[r].at = "resolve_session" /\ session[req[r].arg].state = "REVOKED"
  \/ req[r].at = "resolve_session" /\ Expired(req[r].arg, req[r].time)
  \/ req[r].at \in {"resolve_session", "resolve_metadata"} /\ Blocked(req[r].arg)
  \/ req[r].at # "accepted" /\ Moved(req[r].arg, req[r].time)

(* No two transactions hold one row.                                          *)
Apart(q, r) ==
  /\ \A c \in Code : ~(LocksCode(q, c) /\ LocksCode(r, c))
  /\ \A w \in Workspace : ~(LocksWorkspace(q, w) /\ LocksWorkspace(r, w))

(* A code or session speaks of no epoch or version that is yet to come, and   *)
(* one that can be used speaks of this epoch.                                 *)
CodeInOrder(c) ==
  code[c] # None =>
    /\ code[c].version <= row[code[c].workspace].version
    /\ code[c].state = "UNUSED" => code[c].epoch = epoch

SessionInOrder(s) ==
  session[s] # None =>
    /\ session[s].version <= row[session[s].workspace].version
    /\ session[s].epoch <= epoch
    /\ session[s].state = "ACTIVE" => session[s].epoch = epoch
    /\ code[session[s].code].state = "CONSUMED"

Given ==
  /\ \A c \in Code : c \in sent => code[c] # None
  /\ \A s \in Session : s \in sent => session[s] # None

AInv ==
  /\ TypeOK
  /\ \A r \in Request : Has(r) /\ Holds(r) /\ StillToSee(r)
  /\ \A q, r \in Request : q # r => Apart(q, r)
  /\ \A c \in Code : CodeInOrder(c)
  /\ \A s \in Session : SessionInOrder(s)
  /\ OneUnusedCode
  /\ OneActiveSession
  /\ CodeUsedOnce
  /\ Given

-----------------------------------------------------------------------------
LEMMA IdeInit == Init => AInv
<1> SUFFICES ASSUME Init PROVE AInv
  OBVIOUS
<1> USE IdeAccessAssumption DEF Init
<1>1. Idle \in RequestRecord
  BY DEF Idle, At, RequestRecord, Place
<1>2. TypeOK
  <2>1. epoch \in 1..MaxEpoch /\ now \in 0..MaxTime /\ 0 \in 0..MaxVersion
    OBVIOUS
  <2>2. row \in [Workspace -> WorkspaceRow]
    BY <2>1 DEF WorkspaceRow
  <2>3. code \in [Code -> {None} \cup CodeRecord]
    OBVIOUS
  <2>4. session \in [Session -> {None} \cup SessionRecord]
    OBVIOUS
  <2>5. req \in [Request -> RequestRecord]
    BY <1>1
  <2> QED BY <2>1, <2>2, <2>3, <2>4, <2>5 DEF TypeOK
<1>3. ASSUME NEW r \in Request
      PROVE /\ Has(r) /\ Holds(r) /\ StillToSee(r)
            /\ \A c \in Code : ~LocksCode(r, c)
            /\ \A w \in Workspace : ~LocksWorkspace(r, w)
  BY DEF Idle, At, Has, Holds, StillToSee, SharesMetadata, IssuePlace, RedeemPlace, ResolvePlace,
         LocksCode, LocksWorkspace
<1>4. /\ \A c \in Code : CodeInOrder(c) /\ code[c].state # "UNUSED"
      /\ \A s \in Session : SessionInOrder(s) /\ session[s].state # "ACTIVE"
  BY DEF None, CodeInOrder, SessionInOrder
<1>5. OneUnusedCode /\ OneActiveSession /\ CodeUsedOnce /\ Given
  BY <1>4 DEF OneUnusedCode, OneActiveSession, CodeUsedOnce, Given, Unused, Active
<1> QED BY <1>2, <1>3, <1>4, <1>5 DEF AInv, Apart

(* A step of one request that writes nothing keeps the invariant if it leaves *)
(* the request in order.                                                      *)
LEMMA RequestFrame ==
  ASSUME AInv, NEW r \in Request, TypeOK', UNCHANGED <<database, migration>>,
         \A q \in Request \ {r} : req'[q] = req[q],
         Has(r)', Holds(r)', StillToSee(r)', Given',
         \A q \in Request \ {r} : Apart(q, r)'
  PROVE  AInv'
<1> USE DEF database
<1>1. ASSUME NEW q \in Request PROVE (Has(q) /\ Holds(q) /\ StillToSee(q))'
  <2>1. CASE q = r
    BY <2>1
  <2>2. CASE q # r
    <3>1. Has(q) /\ Holds(q) /\ StillToSee(q) /\ req'[q] = req[q]
      BY <2>2 DEF AInv
    <3>2. Has(q)' /\ Holds(q)'
      BY <3>1 DEF Has, Holds, SharesMetadata, Unused, Active
    <3>3. StillToSee(q)'
      BY <3>1 DEF StillToSee, Expired, Blocked, Moved, Ready
    <3> QED BY <3>2, <3>3
  <2> QED BY <2>1, <2>2
<1>2. ASSUME NEW p \in Request, NEW q \in Request, p # q PROVE Apart(p, q)'
  <2>1. CASE p # r /\ q # r
    BY <1>2, <2>1 DEF AInv, Apart, LocksCode, LocksWorkspace
  <2>2. CASE q = r
    BY <1>2, <2>2
  <2>3. CASE p = r
    BY <1>2, <2>3 DEF Apart
  <2> QED BY <2>1, <2>2, <2>3
<1>3. (\A c \in Code : CodeInOrder(c))' /\ (\A s \in Session : SessionInOrder(s))'
  BY DEF AInv, CodeInOrder, SessionInOrder
<1>4. OneUnusedCode' /\ OneActiveSession' /\ CodeUsedOnce'
  BY DEF AInv, OneUnusedCode, OneActiveSession, CodeUsedOnce, Unused, Active
<1> QED BY <1>1, <1>2, <1>3, <1>4 DEF AInv

(* A request that goes on has the fields it had, and one that ends has none.  *)
LEMMA ReadsEffect ==
  ASSUME AInv, NEW r \in Request, NEW place, NEW good, NEW next \in Place,
         Reads(r, place, good, next)
  PROVE  /\ req[r].at = place /\ TypeOK' /\ UNCHANGED <<database, migration, sent, now>>
         /\ \A q \in Request \ {r} : req'[q] = req[q]
         /\ \/ req'[r] = Idle
            \/ /\ good
               /\ req'[r].at = next /\ req'[r].arg = req[r].arg /\ req'[r].time = req[r].time
               /\ req'[r].context = req[r].context /\ req'[r].rows = req[r].rows
               /\ req'[r].valid = req[r].valid
<1>1. /\ req \in [Request -> RequestRecord] /\ req[r] \in RequestRecord /\ Idle \in RequestRecord
      /\ req[r].at = place /\ UNCHANGED <<database, migration, sent, now>>
  BY IdeAccessAssumption DEF AInv, TypeOK, Reads, Idle, At, RequestRecord, Place
<1>2. \/ req' = [req EXCEPT ![r] = Idle]
      \/ good /\ req' = [req EXCEPT ![r] = [req[r] EXCEPT !.at = next]]
  BY DEF Reads, Goes
<1>3. [req[r] EXCEPT !.at = next] \in RequestRecord
  BY <1>1 DEF RequestRecord
<1>4. req' \in [Request -> RequestRecord]
  BY <1>1, <1>2, <1>3
<1>5. TypeOK'
  BY <1>1, <1>4 DEF AInv, TypeOK, database
<1>6. \A q \in Request \ {r} : req'[q] = req[q]
  BY <1>1, <1>2
<1>7. \/ req'[r] = Idle
      \/ /\ good
         /\ req'[r].at = next /\ req'[r].arg = req[r].arg /\ req'[r].time = req[r].time
         /\ req'[r].context = req[r].context /\ req'[r].rows = req[r].rows
         /\ req'[r].valid = req[r].valid
  BY <1>1, <1>2, <1>3 DEF RequestRecord
<1> QED BY <1>1, <1>5, <1>6, <1>7

LEMMA GoesOn ==
  ASSUME AInv, NEW r \in Request, NEW place, NEW good, NEW next \in Place \ {"idle"},
         Reads(r, place, good, next), req'[r].at = next
  PROVE  /\ UNCHANGED <<database, migration>> /\ req[r].at = place
         /\ \A q \in Request \ {r} : req'[q] = req[q]
         /\ req'[r].arg = req[r].arg /\ req'[r].time = req[r].time
         /\ req'[r].valid = req[r].valid
<1>1. req'[r] # Idle
  BY DEF Idle, At
<1> QED BY <1>1, ReadsEffect

(* An idle request is always in order.                                        *)
LEMMA IdleInOrder ==
  ASSUME NEW r \in Request, req'[r] = Idle
  PROVE  /\ Has(r)' /\ Holds(r)' /\ StillToSee(r)'
         /\ \A q \in Request : Apart(q, r)'
BY DEF Idle, At, Has, Holds, StillToSee, Apart, SharesMetadata, IssuePlace, RedeemPlace, ResolvePlace,
       LocksCode, LocksWorkspace

LEMMA BeginsEffect ==
  ASSUME AInv, NEW r \in Request, NEW place \in Place,
         NEW subject \in Workspace \cup Code \cup Session, NEW was \in BOOLEAN,
         Begins(r, place, subject, was)
  PROVE  /\ TypeOK' /\ UNCHANGED <<database, migration, sent, now>>
         /\ \A q \in Request \ {r} : req'[q] = req[q]
         /\ req'[r].at = place /\ req'[r].arg = subject /\ req'[r].time = now
         /\ req'[r].valid = was
<1> DEFINE new == At(place, subject, now, was)
<1>1. /\ req \in [Request -> RequestRecord] /\ req' = [req EXCEPT ![r] = new]
      /\ UNCHANGED <<database, migration, sent, now>>
  BY DEF AInv, TypeOK, Begins
<1>2. now \in 0..MaxTime /\ 0 \in 0..MaxEpoch
  BY IdeAccessAssumption DEF AInv, TypeOK
<1>3. /\ new \in RequestRecord
      /\ new.at = place /\ new.arg = subject /\ new.time = now /\ new.valid = was
  BY <1>2 DEF RequestRecord, At
<1>4. TypeOK'
  <2> HIDE DEF new
  <2> QED BY <1>1, <1>3 DEF AInv, TypeOK, database
<1>5. req'[r] = new /\ \A q \in Request \ {r} : req'[q] = req[q]
  <2> HIDE DEF new
  <2> QED BY <1>1
<1> QED BY <1>1, <1>3, <1>4, <1>5

(* A request that begins holds nothing, and is about something that exists.   *)
LEMMA BeginStep ==
  ASSUME AInv, NEW r \in Request,
         \/ \E w \in Workspace : BeginIssue(r, w)
         \/ \E c \in Code : BeginRedeem(r, c)
         \/ \E s \in Session : BeginResolve(r, s)
  PROVE  AInv'
<1>1. ASSUME NEW w \in Workspace, BeginIssue(r, w) PROVE AInv'
  <2>1. /\ TypeOK' /\ UNCHANGED <<database, migration, sent, now>>
        /\ \A q \in Request \ {r} : req'[q] = req[q]
        /\ req'[r].at = "issue_metadata" /\ req'[r].arg = w
    BY <1>1, BeginsEffect DEF BeginIssue, Place, IssuePlace
  <2>2. Has(r)' /\ Holds(r)' /\ StillToSee(r)' /\ \A q \in Request : Apart(q, r)'
    BY <2>1 DEF Has, Holds, StillToSee, Apart, SharesMetadata, IssuePlace, RedeemPlace,
                ResolvePlace, LocksCode, LocksWorkspace
  <2>3. Given'
    BY <2>1 DEF AInv, Given, database
  <2> QED BY <2>1, <2>2, <2>3, RequestFrame
<1>2. ASSUME NEW c \in Code, BeginRedeem(r, c) PROVE AInv'
  <2>1. /\ TypeOK' /\ UNCHANGED <<database, migration, sent, now>>
        /\ \A q \in Request \ {r} : req'[q] = req[q]
        /\ req'[r].at = "redeem_code" /\ req'[r].arg = c /\ c \in sent
    BY <1>2, BeginsEffect DEF BeginRedeem, Place, RedeemPlace
  <2>2. code[c] # None /\ code' = code
    BY <2>1 DEF AInv, Given, database
  <2>3. Has(r)' /\ Holds(r)' /\ StillToSee(r)' /\ \A q \in Request : Apart(q, r)'
    BY <2>1, <2>2 DEF Has, Holds, StillToSee, Apart, SharesMetadata, IssuePlace, RedeemPlace,
                ResolvePlace, LocksCode, LocksWorkspace
  <2>4. Given'
    BY <2>1 DEF AInv, Given, database
  <2> QED BY <2>1, <2>3, <2>4, RequestFrame
<1>3. ASSUME NEW s \in Session, BeginResolve(r, s) PROVE AInv'
  <2>1. Resolves(s, now) \in BOOLEAN
    BY DEF Resolves
  <2>2. /\ TypeOK' /\ UNCHANGED <<database, migration, sent, now>>
        /\ \A q \in Request \ {r} : req'[q] = req[q]
        /\ req'[r].at = "resolve_session" /\ req'[r].arg = s /\ req'[r].time = now
        /\ req'[r].valid = Resolves(s, now) /\ s \in sent
    BY <1>3, <2>1, BeginsEffect DEF BeginResolve, Place, ResolvePlace
  <2>3. session[s] # None /\ session[s] \in SessionRecord
    BY <2>2 DEF AInv, Given, TypeOK
  <2>4. session[s].state \in {"ACTIVE", "REVOKED"}
    BY <2>3 DEF SessionRecord
  <2>5. StillToSee(r)'
    <3>1. UNCHANGED <<epoch, maintenance, row, code, session, now>>
      BY <2>2 DEF database
    <3>2. CASE Resolves(s, now)
      BY <2>2, <3>2 DEF StillToSee
    <3>3. CASE ~Resolves(s, now)
      <4>1. session[s].state = "REVOKED" \/ Expired(s, now) \/ Blocked(s) \/ Moved(s, now)
        BY <2>4, <3>3 DEF Resolves
      <4> QED BY <2>2, <3>1, <4>1 DEF StillToSee, Expired, Blocked, Moved, Ready
    <3> QED BY <3>2, <3>3
  <2>6. Has(r)' /\ Holds(r)' /\ \A q \in Request : Apart(q, r)'
    BY <2>2, <2>3 DEF Has, Holds, Apart, SharesMetadata, IssuePlace, RedeemPlace,
                ResolvePlace, LocksCode, LocksWorkspace, database
  <2>7. Given'
    BY <2>2 DEF AInv, Given, database
  <2> QED BY <2>2, <2>5, <2>6, <2>7, RequestFrame
<1> QED BY <1>1, <1>2, <1>3

(* The steps of an issue before it inserts.                                   *)
LEMMA IssueStep ==
  ASSUME AInv, NEW r \in Request,
         IssueMetadata(r) \/ IssueWorkspace(r) \/ InvalidateCodes(r)
  PROVE  AInv'
<1>1. /\ req \in [Request -> RequestRecord] /\ req[r] \in RequestRecord /\ Idle \in RequestRecord
      /\ Has(r) /\ Holds(r) /\ epoch \in 0..MaxEpoch /\ Given
  BY IdeAccessAssumption DEF AInv, TypeOK, Idle, At, RequestRecord, Place
<1>2. CASE IssueMetadata(r)
  <2> DEFINE new == [req[r] EXCEPT !.at = "issue_workspace", !.context = epoch]
  <2>1. /\ UNCHANGED <<database, migration, sent, now>> /\ migration # "locked"
        /\ req[r].at = "issue_metadata"
        /\ req' = [req EXCEPT ![r] = IF maintenance THEN Idle ELSE new]
    BY <1>2 DEF IssueMetadata, MetadataFree
  <2>2. /\ new \in RequestRecord /\ new.at = "issue_workspace" /\ new.context = epoch
        /\ new.arg = req[r].arg
    BY <1>1 DEF RequestRecord, Place, IssuePlace
  <2>3. /\ req' \in [Request -> RequestRecord] /\ (req'[r] = Idle \/ req'[r] = new)
        /\ \A q \in Request \ {r} : req'[q] = req[q]
    <3> HIDE DEF new
    <3> QED BY <1>1, <2>1, <2>2
  <2>4. TypeOK' /\ Given'
    BY <2>1, <2>3 DEF AInv, TypeOK, Given, database
  <2>5. CASE req'[r] = Idle
    BY <2>1, <2>3, <2>4, <2>5, IdleInOrder, RequestFrame
  <2>6. CASE req'[r] = new
    <3>1. /\ req'[r].at = "issue_workspace" /\ req'[r].context = epoch
          /\ req'[r].arg \in Workspace /\ migration' # "locked" /\ epoch' = epoch
      BY <1>1, <2>1, <2>2, <2>6 DEF Has, IssuePlace, database
    <3>2. Has(r)' /\ Holds(r)' /\ StillToSee(r)' /\ \A q \in Request : Apart(q, r)'
      BY <3>1 DEF Has, Holds, StillToSee, Apart, SharesMetadata, IssuePlace, RedeemPlace,
                  ResolvePlace, LocksCode, LocksWorkspace
    <3> QED BY <2>1, <2>3, <2>4, <3>2, RequestFrame
  <2> QED BY <2>3, <2>5, <2>6
<1>3. CASE IssueWorkspace(r)
  <2>1. /\ TypeOK' /\ UNCHANGED <<database, migration, sent, now>>
        /\ \A q \in Request \ {r} : req'[q] = req[q]
        /\ req[r].at = "issue_workspace"
        /\ \/ req'[r] = Idle
           \/ /\ req'[r].at = "issue_code" /\ req'[r].arg = req[r].arg
              /\ req'[r].context = req[r].context
    BY <1>3, ReadsEffect DEF IssueWorkspace, Place, IssuePlace
  <2>2. Given'
    BY <1>1, <2>1 DEF Given, database
  <2>3. CASE req'[r] = Idle
    BY <2>1, <2>2, <2>3, IdleInOrder, RequestFrame
  <2>4. CASE req'[r].at = "issue_code" /\ req'[r].arg = req[r].arg
             /\ req'[r].context = req[r].context
    <3>1. Has(r)' /\ Holds(r)' /\ StillToSee(r)'
      BY <1>1, <2>1, <2>4 DEF Has, Holds, StillToSee, SharesMetadata, IssuePlace, RedeemPlace,
                  ResolvePlace, database
    <3>2. WorkspaceFree(req[r].arg)
      BY <1>3 DEF IssueWorkspace
    <3>3. ASSUME NEW q \in Request \ {r} PROVE Apart(q, r)'
      BY <2>1, <2>4, <3>2, <3>3 DEF Apart, LocksCode, LocksWorkspace, WorkspaceFree, database
    <3> QED BY <2>1, <2>2, <3>1, <3>3, RequestFrame
  <2> QED BY <2>1, <2>3, <2>4
<1>4. CASE InvalidateCodes(r)
  <2> DEFINE new == [req[r] EXCEPT !.at = "issue_insert", !.rows = Unused(req[r].arg)]
  <2>1. /\ UNCHANGED <<database, migration, sent, now>>
        /\ req[r].at = "issue_code" /\ \A c \in Unused(req[r].arg) : CodeFree(c)
        /\ req' = [req EXCEPT ![r] = new]
    BY <1>1, <1>4 DEF InvalidateCodes
  <2>2. /\ new \in RequestRecord /\ new.at = "issue_insert" /\ new.context = req[r].context
        /\ new.arg = req[r].arg /\ new.rows = Unused(req[r].arg)
    BY <1>1 DEF RequestRecord, Place, IssuePlace, Unused
  <2>3. /\ req' \in [Request -> RequestRecord] /\ req'[r] = new
        /\ \A q \in Request \ {r} : req'[q] = req[q]
    <3> HIDE DEF new
    <3> QED BY <1>1, <2>1, <2>2
  <2>4. TypeOK' /\ Given'
    BY <2>1, <2>3 DEF AInv, TypeOK, Given, database
  <2>5. /\ req'[r].at = "issue_insert" /\ req'[r].context = req[r].context
        /\ req'[r].arg = req[r].arg /\ req'[r].rows = Unused(req[r].arg)
    BY <2>2, <2>3
  <2>6. Has(r)' /\ Holds(r)' /\ StillToSee(r)'
    BY <1>1, <2>1, <2>5 DEF Has, Holds, StillToSee, SharesMetadata, IssuePlace, RedeemPlace,
                ResolvePlace, Unused, database
  <2>7. ASSUME NEW q \in Request \ {r} PROVE Apart(q, r)'
    <3>1. \A c \in Code : ~(LocksCode(q, c) /\ c \in Unused(req[r].arg))
      BY <2>1 DEF CodeFree
    <3>2. \A w \in Workspace : ~(LocksWorkspace(q, w) /\ LocksWorkspace(r, w))
      BY DEF AInv, Apart
    <3>3. req'[q] = req[q] /\ code' = code
      BY <2>1, <2>3 DEF database
    <3>4. \A c \in Code : ~(LocksCode(q, c) /\ LocksCode(r, c))'
      BY <2>5, <3>1, <3>3 DEF LocksCode
    <3>5. \A w \in Workspace : ~(LocksWorkspace(q, w) /\ LocksWorkspace(r, w))'
      BY <2>1, <2>5, <3>2, <3>3 DEF LocksWorkspace
    <3> QED BY <3>4, <3>5 DEF Apart
  <2> HIDE DEF new
  <2> QED BY <2>1, <2>3, <2>4, <2>6, <2>7, RequestFrame
<1> QED BY <1>2, <1>3, <1>4

(* A reading step that goes on keeps the invariant if the request is in order *)
(* where it goes to.                                                          *)
LEMMA ReadsFrame ==
  ASSUME AInv, NEW r \in Request, NEW place, NEW good, NEW next \in Place,
         Reads(r, place, good, next),
         good /\ req'[r].at = next => Has(r)' /\ Holds(r)' /\ StillToSee(r)',
         good /\ req'[r].at = next => \A q \in Request \ {r} : Apart(q, r)'
  PROVE  AInv'
<1>1. /\ TypeOK' /\ UNCHANGED <<database, migration, sent, now>>
      /\ \A q \in Request \ {r} : req'[q] = req[q]
      /\ req'[r] = Idle \/ (good /\ req'[r].at = next)
  BY ReadsEffect
<1>2. Given'
  BY <1>1 DEF AInv, Given, database
<1>3. CASE req'[r] = Idle
  BY <1>1, <1>2, <1>3, IdleInOrder, RequestFrame
<1>4. CASE good /\ req'[r].at = next
  BY <1>1, <1>2, <1>4, RequestFrame
<1> QED BY <1>1, <1>3, <1>4

LEMMA RedeemStep ==
  ASSUME AInv, NEW r \in Request,
         RedeemCode(r) \/ RedeemMetadata(r) \/ RedeemWorkspace(r) \/ RevokeSessions(r)
  PROVE  AInv'
<1>1. /\ req \in [Request -> RequestRecord] /\ req[r] \in RequestRecord
      /\ Has(r) /\ Holds(r) /\ Given
  BY DEF AInv, TypeOK
<1>2. CASE RedeemCode(r)
  <2>1. Reads(r, "redeem_code", TRUE, "redeem_metadata") /\ "redeem_metadata" \in Place
    BY <1>2 DEF RedeemCode, Place, RedeemPlace
  <2>2. SUFFICES ASSUME req'[r].at = "redeem_metadata"
                 PROVE  /\ Has(r)' /\ Holds(r)' /\ StillToSee(r)'
                        /\ \A q \in Request \ {r} : Apart(q, r)'
    BY <2>1, ReadsFrame
  <2>3. /\ UNCHANGED <<database, migration>> /\ req[r].at = "redeem_code"
        /\ \A q \in Request \ {r} : req'[q] = req[q]
        /\ req'[r].arg = req[r].arg
    BY <2>1, <2>2, GoesOn DEF Place, RedeemPlace
  <2>4. Has(r)' /\ Holds(r)' /\ StillToSee(r)'
    BY <1>1, <2>2, <2>3 DEF Has, Holds, StillToSee, SharesMetadata, IssuePlace, RedeemPlace,
                ResolvePlace, database
  <2>5. ASSUME NEW q \in Request \ {r} PROVE Apart(q, r)'
    <3>1. CodeFree(req[r].arg)
      BY <1>2 DEF RedeemCode
    <3> QED BY <2>2, <2>3, <3>1 DEF Apart, LocksCode, LocksWorkspace, CodeFree
  <2> QED BY <2>4, <2>5
<1>3. CASE RedeemMetadata(r)
  <2> DEFINE c == req[r].arg
             good == /\ code[c].state = "UNUSED" /\ code[c].expires > req[r].time
                     /\ ~maintenance /\ epoch = code[c].epoch
  <2>1. /\ Reads(r, "redeem_metadata", good, "redeem_workspace") /\ "redeem_workspace" \in Place
        /\ migration # "locked"
    BY <1>3 DEF RedeemMetadata, Place, RedeemPlace, MetadataFree
  <2>2. SUFFICES ASSUME good, req'[r].at = "redeem_workspace"
                 PROVE  /\ Has(r)' /\ Holds(r)' /\ StillToSee(r)'
                        /\ \A q \in Request \ {r} : Apart(q, r)'
    <3> HIDE DEF good
    <3> QED BY <2>1, ReadsFrame
  <2>3. /\ UNCHANGED <<database, migration>> /\ req[r].at = "redeem_metadata"
        /\ \A q \in Request \ {r} : req'[q] = req[q]
        /\ req'[r].arg = req[r].arg
    <3> HIDE DEF good
    <3> QED BY <2>1, <2>2, GoesOn DEF Place, RedeemPlace
  <2>4. Has(r)' /\ Holds(r)' /\ StillToSee(r)'
    BY <1>1, <2>1, <2>2, <2>3 DEF Has, Holds, StillToSee, SharesMetadata, IssuePlace,
                RedeemPlace, ResolvePlace, database
  <2>5. ASSUME NEW q \in Request \ {r} PROVE Apart(q, r)'
    BY <2>2, <2>3 DEF AInv, Apart, LocksCode, LocksWorkspace, database
  <2> QED BY <2>4, <2>5
<1>4. CASE RedeemWorkspace(r)
  <2> DEFINE w == code[req[r].arg].workspace
             good == Ready(w, req[r].time) /\ row[w].version = code[req[r].arg].version
  <2>1. /\ Reads(r, "redeem_workspace", good, "redeem_session") /\ "redeem_session" \in Place
        /\ WorkspaceFree(w)
    BY <1>4 DEF RedeemWorkspace, Place, RedeemPlace
  <2>2. SUFFICES ASSUME req'[r].at = "redeem_session"
                 PROVE  /\ Has(r)' /\ Holds(r)' /\ StillToSee(r)'
                        /\ \A q \in Request \ {r} : Apart(q, r)'
    <3> HIDE DEF good
    <3> QED BY <2>1, ReadsFrame
  <2>3. /\ UNCHANGED <<database, migration>> /\ req[r].at = "redeem_workspace"
        /\ \A q \in Request \ {r} : req'[q] = req[q]
        /\ req'[r].arg = req[r].arg
    <3> HIDE DEF good
    <3> QED BY <2>1, <2>2, GoesOn DEF Place, RedeemPlace
  <2>4. Has(r)' /\ Holds(r)' /\ StillToSee(r)'
    BY <1>1, <2>2, <2>3 DEF Has, Holds, StillToSee, SharesMetadata, IssuePlace, RedeemPlace,
                ResolvePlace, database
  <2>5. ASSUME NEW q \in Request \ {r} PROVE Apart(q, r)'
    BY <2>1, <2>2, <2>3 DEF AInv, Apart, LocksCode, LocksWorkspace, WorkspaceFree, database
  <2> QED BY <2>4, <2>5
<1>5. CASE RevokeSessions(r)
  <2> DEFINE rows == Active(code[req[r].arg].workspace)
             new == [req[r] EXCEPT !.at = "redeem_insert", !.rows = rows]
  <2>1. /\ UNCHANGED <<database, migration, sent, now>> /\ req[r].at = "redeem_session"
        /\ req' = [req EXCEPT ![r] = new]
    BY <1>1, <1>5 DEF RevokeSessions, Superseded
  <2>2. /\ new \in RequestRecord /\ new.at = "redeem_insert" /\ new.arg = req[r].arg
        /\ new.rows = rows
    BY <1>1 DEF RequestRecord, Place, RedeemPlace, Active
  <2>3. /\ req' \in [Request -> RequestRecord] /\ req'[r] = new
        /\ \A q \in Request \ {r} : req'[q] = req[q]
    <3> HIDE DEF new
    <3> QED BY <1>1, <2>1, <2>2
  <2>4. TypeOK' /\ Given'
    BY <2>1, <2>3 DEF AInv, TypeOK, Given, database
  <2>5. req'[r].at = "redeem_insert" /\ req'[r].arg = req[r].arg /\ req'[r].rows = rows
    BY <2>2, <2>3
  <2>6. Has(r)' /\ Holds(r)' /\ StillToSee(r)'
    BY <1>1, <2>1, <2>5 DEF Has, Holds, StillToSee, SharesMetadata, IssuePlace, RedeemPlace,
                ResolvePlace, Active, database
  <2>7. ASSUME NEW q \in Request \ {r} PROVE Apart(q, r)'
    <3> HIDE DEF new, rows
    <3> QED BY <2>1, <2>3, <2>5 DEF AInv, Apart, LocksCode, LocksWorkspace, database
  <2> HIDE DEF new
  <2> QED BY <2>1, <2>3, <2>4, <2>6, <2>7, RequestFrame
<1> QED BY <1>2, <1>3, <1>4, <1>5

(* A resolution reads what is still to be seen, and holds nothing.            *)
LEMMA ResolveStep ==
  ASSUME AInv, NEW r \in Request,
         ResolveSession(r) \/ ResolveMetadata(r) \/ ResolveWorkspace(r) \/ Forward(r)
  PROVE  AInv'
<1>1. /\ req[r] \in RequestRecord /\ Has(r) /\ StillToSee(r)
      /\ req[r].at \in ResolvePlace => session[req[r].arg] \in SessionRecord
  BY DEF AInv, TypeOK, Has
<1> DEFINE s == req[r].arg
<1>2. ASSUME NEW place \in ResolvePlace, NEW good, NEW next \in ResolvePlace,
             Reads(r, place, good, next), good, req'[r].at = next
      PROVE  /\ Has(r)' /\ Holds(r)' /\ \A q \in Request \ {r} : Apart(q, r)'
             /\ UNCHANGED <<epoch, maintenance, row, session>> /\ req[r].at = place
             /\ req'[r].arg = s /\ req'[r].time = req[r].time /\ req'[r].valid = req[r].valid
  <2>1. /\ UNCHANGED <<database, migration>> /\ req[r].at = place
        /\ req'[r].arg = s /\ req'[r].time = req[r].time /\ req'[r].valid = req[r].valid
    BY <1>2, GoesOn DEF Place, ResolvePlace
  <2>2. Has(r)' /\ Holds(r)' /\ \A q \in Request \ {r} : Apart(q, r)'
    BY <1>1, <1>2, <2>1 DEF Has, Holds, Apart, SharesMetadata, IssuePlace, RedeemPlace,
                ResolvePlace, LocksCode, LocksWorkspace, database
  <2> QED BY <2>1, <2>2 DEF database
<1>3. CASE ResolveSession(r)
  <2> DEFINE good == session[s].state = "ACTIVE" /\ ~Expired(s, req[r].time)
  <2>1. Reads(r, "resolve_session", good, "resolve_metadata")
    BY <1>3 DEF ResolveSession
  <2>2. ASSUME good, req'[r].at = "resolve_metadata" PROVE StillToSee(r)'
    <3> HIDE DEF good
    <3>1. /\ UNCHANGED <<epoch, maintenance, row, session>> /\ req[r].at = "resolve_session"
          /\ req'[r].arg = s /\ req'[r].time = req[r].time /\ req'[r].valid = req[r].valid
      BY <1>2, <2>1, <2>2 DEF ResolvePlace
    <3>2. req[r].valid \/ Blocked(s) \/ Moved(s, req[r].time)
      BY <1>1, <2>2, <3>1 DEF good, StillToSee, ResolvePlace
    <3> QED BY <2>2, <3>1, <3>2 DEF StillToSee, Blocked, Moved, Ready
  <2> HIDE DEF good
  <2> QED BY <1>2, <2>1, <2>2, ReadsFrame DEF ResolvePlace, Place
<1>4. CASE ResolveMetadata(r)
  <2> DEFINE good == ~Blocked(s)
  <2>1. Reads(r, "resolve_metadata", good, "resolve_workspace")
    BY <1>4 DEF ResolveMetadata
  <2>2. ASSUME good, req'[r].at = "resolve_workspace" PROVE StillToSee(r)'
    <3> HIDE DEF good
    <3>1. /\ UNCHANGED <<epoch, maintenance, row, session>> /\ req[r].at = "resolve_metadata"
          /\ req'[r].arg = s /\ req'[r].time = req[r].time /\ req'[r].valid = req[r].valid
      BY <1>2, <2>1, <2>2 DEF ResolvePlace
    <3>2. req[r].valid \/ Moved(s, req[r].time)
      BY <1>1, <2>2, <3>1 DEF good, StillToSee, ResolvePlace
    <3> QED BY <2>2, <3>1, <3>2 DEF StillToSee, Moved, Ready
  <2> HIDE DEF good
  <2> QED BY <1>2, <2>1, <2>2, ReadsFrame DEF ResolvePlace, Place
<1>5. CASE ResolveWorkspace(r)
  <2> DEFINE good == ~Moved(s, req[r].time)
  <2>1. Reads(r, "resolve_workspace", good, "accepted")
    BY <1>5 DEF ResolveWorkspace
  <2>2. ASSUME good, req'[r].at = "accepted" PROVE StillToSee(r)'
    <3> HIDE DEF good
    <3>1. req[r].at = "resolve_workspace" /\ req'[r].valid = req[r].valid
      BY <1>2, <2>1, <2>2 DEF ResolvePlace
    <3>2. req[r].valid
      BY <1>1, <2>2, <3>1 DEF good, StillToSee, ResolvePlace
    <3> QED BY <3>1, <3>2 DEF StillToSee
  <2> HIDE DEF good
  <2> QED BY <1>2, <2>1, <2>2, ReadsFrame DEF ResolvePlace, Place
<1>6. CASE Forward(r)
  <2>1. /\ TypeOK' /\ UNCHANGED <<database, migration, sent, now>>
        /\ \A q \in Request \ {r} : req'[q] = req[q] /\ req'[r] = Idle
    <3>1. Reads(r, "accepted", TRUE, "idle") /\ "idle" \in Place
      BY <1>6 DEF Forward, Place
    <3> QED BY <3>1, ReadsEffect, <1>1 DEF Reads, Goes, AInv, TypeOK
  <2>2. Given' /\ req'[r] = Idle
    BY <1>6, <2>1 DEF AInv, TypeOK, Given, database, Forward, Reads, Goes
  <2> QED BY <2>1, <2>2, IdleInOrder, RequestFrame
<1> QED BY <1>3, <1>4, <1>5, <1>6

(* A request that ends, with or without an answer.                            *)
LEMMA EndStep ==
  ASSUME AInv, NEW r \in Request, Answer(r) \/ Fail(r)
  PROVE  AInv'
<1>1. /\ req \in [Request -> RequestRecord] /\ Idle \in RequestRecord /\ Has(r)
      /\ Code \cap Session = {}
  BY IdeAccessAssumption DEF AInv, TypeOK, Idle, At, RequestRecord, Place
<1>2. UNCHANGED <<database, migration, now>> /\ req' = [req EXCEPT ![r] = Idle]
  BY DEF Answer, Fail, Goes
<1>3. /\ req' \in [Request -> RequestRecord] /\ req'[r] = Idle
      /\ \A q \in Request \ {r} : req'[q] = req[q]
  BY <1>1, <1>2
<1>4. sent' \subseteq Code \cup Session /\ Given'
  BY <1>1, <1>2 DEF Answer, Fail, AuditPlace, Has, AInv, TypeOK, Given, database
<1>5. TypeOK'
  BY <1>2, <1>3, <1>4 DEF AInv, TypeOK, database
<1> QED BY <1>2, <1>3, <1>4, <1>5, IdleInOrder, RequestFrame

(* A new code replaces the unused ones of its Workspace, and no other         *)
(* transaction is about one of them.                                          *)
LEMMA InsertCodeStep ==
  ASSUME AInv, NEW r \in Request, InsertCode(r)
  PROVE  AInv'
<1> DEFINE w == req[r].arg
<1>1. /\ req \in [Request -> RequestRecord] /\ req[r] \in RequestRecord
      /\ code \in [Code -> {None} \cup CodeRecord] /\ row[w] \in WorkspaceRow /\ w \in Workspace
      /\ Has(r) /\ Holds(r) /\ req[r].at = "issue_insert"
      /\ UNCHANGED <<epoch, maintenance, row, session, migration, sent, now>>
  BY DEF AInv, TypeOK, InsertCode, Has, IssuePlace
<1>2. req[r].rows = Unused(w) /\ req[r].context = epoch /\ epoch \in Nat /\ migration # "locked"
  BY <1>1 DEF Holds, SharesMetadata, AInv, TypeOK
<1> DEFINE fresh == [state |-> "UNUSED", workspace |-> w, epoch |-> req[r].context,
                     version |-> row[w].version, expires |-> req[r].time + CodeTtl]
           answer(new) == At("issue_audit", new, 0, FALSE)
<1>3. PICK new \in Code :
        /\ code[new] = None
        /\ code' = [c \in Code |->
             CASE c = new -> fresh
               [] c \in req[r].rows -> [code[c] EXCEPT !.state = "INVALIDATED"]
               [] OTHER -> code[c]]
        /\ req' = [req EXCEPT ![r] = answer(new)]
  BY DEF InsertCode
<1>4. fresh \in CodeRecord
  BY <1>1, <1>2, IdeAccessAssumption DEF CodeRecord, RequestRecord, WorkspaceRow
<1>5. /\ answer(new) \in RequestRecord
      /\ answer(new).at = "issue_audit" /\ answer(new).arg = new
  <2>1. 0 \in 0..MaxTime /\ 0 \in 0..MaxEpoch /\ "issue_audit" \in Place
    BY IdeAccessAssumption DEF Place, AuditPlace
  <2> QED BY <2>1 DEF At, RequestRecord
<1>6. /\ req' \in [Request -> RequestRecord] /\ \A q \in Request \ {r} : req'[q] = req[q]
      /\ req'[r].at = "issue_audit" /\ req'[r].arg = new
  <2> HIDE DEF answer
  <2> QED BY <1>1, <1>3, <1>5
<1>7. new \notin Unused(w) /\ code'[new] = fresh
  <2>1. new \notin Unused(w)
    BY <1>3 DEF Unused, None
  <2>2. code'[new] = fresh
    <3> HIDE DEF fresh, answer
    <3> QED BY <1>2, <1>3, <2>1
  <2> QED BY <2>1, <2>2
<1>8. ASSUME NEW c \in Unused(w)
      PROVE  /\ c \in Code /\ code[c] \in CodeRecord /\ code'[c] \in CodeRecord
             /\ code'[c].state = "INVALIDATED" /\ code'[c].workspace = w
             /\ code'[c].version = code[c].version /\ code'[c].epoch = code[c].epoch
  <2>1. c \in Code /\ code[c] \in CodeRecord /\ c # new /\ code[c].workspace = w
    BY <1>1, <1>7 DEF Unused, None
  <2>2. code'[c] = [code[c] EXCEPT !.state = "INVALIDATED"]
    BY <1>2, <1>3, <2>1
  <2> QED BY <2>1, <2>2 DEF CodeRecord
<1>9. \A c \in Code : c # new /\ c \notin Unused(w) => code'[c] = code[c]
  BY <1>2, <1>3
<1>10. ASSUME NEW c \in Code PROVE code'[c] \in {None} \cup CodeRecord
  <2> HIDE DEF fresh
  <2> QED BY <1>1, <1>4, <1>7, <1>8, <1>9
<1>11. code' \in [Code -> {None} \cup CodeRecord]
  <2>1. code' = [c \in Code |-> code'[c]]
    BY <1>3
  <2> QED BY <1>10, <2>1
<1>12. TypeOK'
  BY <1>1, <1>6, <1>11 DEF AInv, TypeOK
<1>13. ASSUME NEW c \in Code
       PROVE  /\ CodeInOrder(c)'
              /\ code[c] # None => code'[c] # None
              /\ code[c].state = "CONSUMED" => code'[c] = code[c]
  <2>1. CodeInOrder(c)
    BY DEF AInv
  <2>2. fresh # None /\ \A d \in CodeRecord : d # None
    BY <1>4 DEF None, CodeRecord
  <2>3. CASE c = new
    <3>1. fresh.version = row[w].version /\ fresh.workspace = w /\ fresh.epoch = epoch
      BY <1>2
    <3>2. row[w].version <= row[w].version
      BY <1>1 DEF WorkspaceRow
    <3>3. code[c].state # "CONSUMED"
      BY <1>3, <2>3 DEF None
    <3> HIDE DEF fresh
    <3> QED BY <1>1, <1>3, <1>7, <2>2, <2>3, <3>1, <3>2, <3>3 DEF CodeInOrder
  <2>4. CASE c \in Unused(w)
    <3>1. code[c].state = "UNUSED" /\ code[c].workspace = w /\ code[c] # None
      BY <2>4, <1>8, <2>2 DEF Unused
    <3> QED BY <1>1, <1>8, <2>1, <2>2, <2>4, <3>1 DEF CodeInOrder
  <2>5. CASE c # new /\ c \notin Unused(w)
    BY <1>1, <1>9, <2>1, <2>5 DEF CodeInOrder
  <2> QED BY <2>3, <2>4, <2>5
<1>14. ASSUME NEW q \in Request \ {r}, NEW c \in Code, LocksCode(q, c) \/ req[q].arg = c
       PROVE  LocksCode(q, c) => c \notin Unused(w)
  BY <1>1, <1>2 DEF AInv, Apart, LocksCode
<1>15. ASSUME NEW q \in Request PROVE (Has(q) /\ Holds(q) /\ StillToSee(q))'
  <2>1. CASE q = r
    <3>1. code'[new] # None
      BY <1>4, <1>7 DEF None, CodeRecord
    <3> QED BY <1>6, <2>1, <3>1 DEF Has, Holds, StillToSee, SharesMetadata, IssuePlace,
                  RedeemPlace, ResolvePlace
  <2>2. CASE q # r
    <3>1. Has(q) /\ Holds(q) /\ StillToSee(q) /\ req'[q] = req[q] /\ Apart(q, r)
      BY <1>6, <2>2 DEF AInv
    <3>2. Has(q)'
      BY <1>1, <1>13, <3>1 DEF Has, IssuePlace, RedeemPlace, ResolvePlace
    <3>3. StillToSee(q)'
      BY <1>1, <3>1 DEF StillToSee, Expired, Blocked, Moved, Ready
    <3>4. ASSUME req[q].at \in {"redeem_workspace", "redeem_session", "redeem_insert"}
          PROVE  code'[req[q].arg] = code[req[q].arg]
      <4>1. req[q].arg \in Code /\ code[req[q].arg] # None /\ LocksCode(q, req[q].arg)
        BY <3>1, <3>4 DEF Has, RedeemPlace, LocksCode
      <4> QED BY <1>3, <1>9, <1>14, <2>2, <4>1
    <3>5. ASSUME req[q].at = "issue_insert"
          PROVE  Unused(req[q].arg)' = Unused(req[q].arg)
      <4>1. req[q].arg \in Workspace /\ req[q].arg # w
        BY <1>1, <3>1, <3>5 DEF Has, IssuePlace, Apart, LocksWorkspace
      <4>2. ASSUME NEW c \in Code
            PROVE  c \in Unused(req[q].arg)' <=> c \in Unused(req[q].arg)
        <5>1. req'[q].arg = req[q].arg
          BY <3>1
        <5>2. CASE c = new
          <6>1. code[c].state # "UNUSED"
            BY <1>3, <5>2 DEF None
          <6>2. code'[c].workspace = w
            BY <1>7, <5>2
          <6> QED BY <4>1, <5>1, <6>1, <6>2 DEF Unused
        <5>3. CASE c \in Unused(w)
          <6>1. code'[c].workspace = w /\ code[c].workspace = w
            BY <1>8, <5>3 DEF Unused
          <6> QED BY <4>1, <5>1, <6>1 DEF Unused
        <5>4. CASE c # new /\ c \notin Unused(w)
          BY <1>9, <5>1, <5>4 DEF Unused
        <5> QED BY <5>2, <5>3, <5>4
      <4> QED BY <4>2, <3>1 DEF Unused
    <3>6. Holds(q)'
      <4>1. SharesMetadata(q)' => migration' # "locked"
        BY <1>1, <1>2
      <4>2. req[q].at = "redeem_insert" =>
              Active(code[req[q].arg].workspace)' = Active(code[req[q].arg].workspace)
        BY <1>1, <3>1, <3>4 DEF Active
      <4> QED BY <1>1, <3>1, <3>4, <3>5, <4>1, <4>2 DEF Holds
    <3> QED BY <3>2, <3>3, <3>6
  <2> QED BY <2>1, <2>2
<1>16. ASSUME NEW p \in Request, NEW q \in Request, p # q PROVE Apart(p, q)'
  <2>1. CASE p = r \/ q = r
    BY <1>6, <2>1 DEF Apart, LocksCode, LocksWorkspace
  <2>2. CASE p # r /\ q # r
    <3>1. Apart(p, q) /\ req'[p] = req[p] /\ req'[q] = req[q]
      BY <1>6, <1>16, <2>2 DEF AInv
    <3>2. ASSUME NEW x \in Request \ {r}, req[x].at \in {"redeem_session", "redeem_insert"}
          PROVE  code'[req[x].arg] = code[req[x].arg]
      <4>1. req[x].arg \in Code /\ code[req[x].arg] # None /\ LocksCode(x, req[x].arg)
        BY <3>2 DEF AInv, Has, RedeemPlace, LocksCode
      <4> QED BY <1>3, <1>9, <1>14, <4>1
    <3>3. \A c \in Code : ~(LocksCode(p, c) /\ LocksCode(q, c))'
      BY <3>1 DEF Apart, LocksCode
    <3>4. \A v \in Workspace : ~(LocksWorkspace(p, v) /\ LocksWorkspace(q, v))'
      BY <2>2, <3>1, <3>2 DEF Apart, LocksWorkspace
    <3> QED BY <3>3, <3>4 DEF Apart
  <2> QED BY <2>1, <2>2
<1>17. ASSUME NEW s \in Session PROVE SessionInOrder(s)'
  <2>1. SessionInOrder(s) /\ (session[s] # None => session[s].code \in Code)
    BY DEF AInv, TypeOK, SessionRecord
  <2> QED BY <1>1, <1>13, <2>1 DEF SessionInOrder
<1>18. OneUnusedCode'
  <2> SUFFICES ASSUME NEW v \in Workspace, NEW c \in Unused(v)', NEW d \in Unused(v)'
               PROVE  c = d
    BY DEF OneUnusedCode
  <2>1. CASE v = w
    BY <1>7, <1>8, <1>9, <2>1 DEF Unused
  <2>2. CASE v # w
    BY <1>7, <1>8, <1>9, <2>2 DEF AInv, OneUnusedCode, Unused
  <2> QED BY <2>1, <2>2
<1>19. OneActiveSession' /\ CodeUsedOnce'
  BY <1>1 DEF AInv, OneActiveSession, CodeUsedOnce, Active
<1>20. Given'
  BY <1>1, <1>13 DEF AInv, Given
<1> QED BY <1>12, <1>13, <1>15, <1>16, <1>17, <1>18, <1>19, <1>20 DEF AInv

(* A new session supersedes the active one of its Workspace and consumes the  *)
(* code it was exchanged for, which no other transaction is about.            *)
LEMMA InsertSessionStep ==
  ASSUME AInv, NEW r \in Request, InsertSession(r)
  PROVE  AInv'
<1> DEFINE o == req[r].arg
           w == code[o].workspace
<1>1. /\ req \in [Request -> RequestRecord] /\ req[r] \in RequestRecord
      /\ code \in [Code -> {None} \cup CodeRecord]
      /\ session \in [Session -> {None} \cup SessionRecord]
      /\ Has(r) /\ Holds(r) /\ req[r].at = "redeem_insert"
      /\ UNCHANGED <<epoch, maintenance, row, migration, sent, now>>
  BY DEF AInv, TypeOK, InsertSession
<1>2. /\ o \in Code /\ code[o] \in CodeRecord /\ code[o].state = "UNUSED" /\ CodeInOrder(o)
      /\ code[o] # None /\ req[r].rows = Active(w) /\ epoch \in Nat /\ migration # "locked"
      /\ w \in Workspace /\ code[o].epoch = epoch /\ code[o].version <= row[w].version
  <2>1. o \in Code /\ code[o] # None /\ code[o].state = "UNUSED" /\ req[r].rows = Active(w)
    BY <1>1 DEF Has, Holds, RedeemPlace
  <2>2. code[o] \in CodeRecord /\ CodeInOrder(o) /\ epoch \in Nat /\ migration # "locked"
    BY <1>1, <2>1 DEF Holds, SharesMetadata, AInv, TypeOK
  <2> QED BY <2>1, <2>2 DEF CodeInOrder, CodeRecord
<1> DEFINE fresh == [state |-> "ACTIVE", workspace |-> w,
                     epoch |-> code[o].epoch, version |-> code[o].version,
                     expires |-> Earlier(req[r].time + SessionTtl, WorkspaceExpiry),
                     code |-> o]
           answer(new) == At("redeem_audit", new, 0, FALSE)
<1>3. PICK new \in Session :
        /\ session[new] = None
        /\ session' = [s \in Session |->
             CASE s = new -> fresh
               [] s \in req[r].rows -> [session[s] EXCEPT !.state = "REVOKED"]
               [] OTHER -> session[s]]
        /\ req' = [req EXCEPT ![r] = answer(new)]
  BY DEF InsertSession
<1>4. fresh \in SessionRecord /\ fresh # None
  <2>1. Earlier(req[r].time + SessionTtl, WorkspaceExpiry) \in Nat
    BY <1>1, IdeAccessAssumption DEF RequestRecord, Earlier
  <2> QED BY <1>2, <2>1 DEF SessionRecord, CodeRecord, None
<1>5. /\ answer(new) \in RequestRecord
      /\ answer(new).at = "redeem_audit" /\ answer(new).arg = new
  <2>1. 0 \in 0..MaxTime /\ 0 \in 0..MaxEpoch /\ "redeem_audit" \in Place
    BY IdeAccessAssumption DEF Place, AuditPlace
  <2> QED BY <2>1 DEF At, RequestRecord
<1>6. /\ req' \in [Request -> RequestRecord] /\ \A q \in Request \ {r} : req'[q] = req[q]
      /\ req'[r].at = "redeem_audit" /\ req'[r].arg = new
  <2> HIDE DEF answer
  <2> QED BY <1>1, <1>3, <1>5
<1>7. new \notin Active(w) /\ session'[new] = fresh
  <2>1. new \notin Active(w)
    BY <1>3 DEF Active, None
  <2>2. session'[new] = fresh
    <3> HIDE DEF fresh, answer
    <3> QED BY <1>2, <1>3, <2>1
  <2> QED BY <2>1, <2>2
<1>8. ASSUME NEW s \in Active(w)
      PROVE  /\ s \in Session /\ session[s] \in SessionRecord /\ session'[s] \in SessionRecord
             /\ session'[s].state = "REVOKED" /\ session'[s].workspace = w
             /\ session'[s].version = session[s].version /\ session'[s].epoch = session[s].epoch
             /\ session'[s].expires = session[s].expires /\ session'[s].code = session[s].code
             /\ session[s].workspace = w
  <2>1. s \in Session /\ session[s] \in SessionRecord /\ s # new /\ session[s].workspace = w
    BY <1>1, <1>7 DEF Active, None
  <2>2. session'[s] = [session[s] EXCEPT !.state = "REVOKED"]
    BY <1>2, <1>3, <2>1
  <2> QED BY <2>1, <2>2 DEF SessionRecord
<1>9. \A s \in Session : s # new /\ s \notin Active(w) => session'[s] = session[s]
  BY <1>2, <1>3
<1>10. ASSUME NEW s \in Session PROVE session'[s] \in {None} \cup SessionRecord
  <2> HIDE DEF fresh
  <2> QED BY <1>1, <1>4, <1>7, <1>8, <1>9
<1>11. session' \in [Session -> {None} \cup SessionRecord]
  <2>1. session' = [s \in Session |-> session'[s]]
    BY <1>3
  <2> QED BY <1>10, <2>1
<1>12. /\ code' = [code EXCEPT ![o].state = "CONSUMED"]
       /\ code' \in [Code -> {None} \cup CodeRecord]
       /\ code'[o] \in CodeRecord /\ code'[o].state = "CONSUMED"
       /\ code'[o].workspace = w /\ code'[o].version = code[o].version
       /\ \A c \in Code \ {o} : code'[c] = code[c]
  <2>1. code' = [code EXCEPT ![o].state = "CONSUMED"]
    BY DEF InsertSession, Consume
  <2>2. [code[o] EXCEPT !.state = "CONSUMED"] \in CodeRecord
    BY <1>2 DEF CodeRecord
  <2> QED BY <1>1, <1>2, <2>1, <2>2 DEF CodeRecord
<1>13. TypeOK'
  BY <1>1, <1>6, <1>11, <1>12 DEF AInv, TypeOK
<1>14. \A d \in CodeRecord : d # None
  BY DEF None, CodeRecord
<1>15. \A d \in SessionRecord : d # None
  BY DEF None, SessionRecord
<1>16. ASSUME NEW c \in Code PROVE CodeInOrder(c)'
  <2>1. CASE c = o
    BY <1>1, <1>2, <1>12, <2>1 DEF CodeInOrder
  <2>2. CASE c # o
    BY <1>1, <1>12, <2>2 DEF AInv, CodeInOrder
  <2> QED BY <2>1, <2>2
<1>17. ASSUME NEW s \in Session PROVE SessionInOrder(s)'
  <2>1. SessionInOrder(s) /\ (session[s] # None => session[s].code \in Code)
    BY DEF AInv, TypeOK, SessionRecord
  <2>2. CASE s = new
    <3>1. /\ fresh.version = code[o].version /\ fresh.workspace = w /\ fresh.epoch = epoch
          /\ fresh.code = o
      BY <1>2
    <3> HIDE DEF fresh
    <3>2. epoch <= epoch
      BY <1>2
    <3> QED BY <1>1, <1>2, <1>7, <1>12, <2>2, <3>1, <3>2 DEF SessionInOrder
  <2>3. CASE s \in Active(w)
    BY <1>1, <1>8, <1>12, <1>15, <2>1, <2>3 DEF SessionInOrder
  <2>4. CASE s # new /\ s \notin Active(w)
    BY <1>1, <1>9, <1>12, <2>1, <2>4 DEF SessionInOrder
  <2> QED BY <2>2, <2>3, <2>4
<1>18. ASSUME NEW q \in Request \ {r}, NEW c \in Code, LocksCode(q, c)
       PROVE  c # o /\ code'[c] = code[c]
  BY <1>1, <1>2, <1>12, <1>18 DEF AInv, Apart, LocksCode
<1>19. ASSUME NEW q \in Request \ {r},
              req[q].at \in {"redeem_workspace", "redeem_session", "redeem_insert"}
       PROVE  code'[req[q].arg] = code[req[q].arg]
  <2>1. req[q].arg \in Code /\ LocksCode(q, req[q].arg)
    BY <1>19 DEF AInv, Has, RedeemPlace, LocksCode
  <2> QED BY <1>18, <2>1
<1>20. ASSUME NEW q \in Request PROVE (Has(q) /\ Holds(q) /\ StillToSee(q))'
  <2>1. CASE q = r
    <3>1. session'[new] # None
      BY <1>4, <1>7
    <3> QED BY <1>6, <2>1, <3>1 DEF Has, Holds, StillToSee, SharesMetadata, IssuePlace,
                  RedeemPlace, ResolvePlace
  <2>2. CASE q # r
    <3>1. Has(q) /\ Holds(q) /\ StillToSee(q) /\ req'[q] = req[q] /\ Apart(q, r)
      BY <1>6, <2>2 DEF AInv
    <3>2. \A c \in Code : code[c] # None => code'[c] # None
      BY <1>12, <1>14
    <3>3. \A s \in Session : session[s] # None => session'[s] # None
      <4> HIDE DEF fresh
      <4> QED BY <1>4, <1>7, <1>8, <1>9, <1>15
    <3>4. Has(q)'
      BY <1>1, <3>1, <3>2, <3>3 DEF Has, IssuePlace, RedeemPlace, ResolvePlace
    <3>5. StillToSee(q)'
      <4>1. CASE req[q].at \notin ResolvePlace
        BY <3>1, <4>1 DEF StillToSee
      <4>2. CASE req[q].at \in ResolvePlace
        <5>1. req[q].arg \in Session /\ req[q].arg # new
          BY <1>3, <3>1, <4>2 DEF Has
        <5>2. \/ session'[req[q].arg] = session[req[q].arg]
              \/ /\ session'[req[q].arg].state = "REVOKED"
                 /\ session'[req[q].arg].workspace = session[req[q].arg].workspace
                 /\ session'[req[q].arg].version = session[req[q].arg].version
                 /\ session'[req[q].arg].epoch = session[req[q].arg].epoch
                 /\ session'[req[q].arg].expires = session[req[q].arg].expires
          BY <1>8, <1>9, <5>1
        <5> QED BY <1>1, <3>1, <5>2 DEF StillToSee, Expired, Blocked, Moved, Ready
      <4> QED BY <4>1, <4>2
    <3>6. ASSUME req[q].at = "issue_insert" PROVE Unused(req[q].arg)' = Unused(req[q].arg)
      <4>1. req[q].rows = Unused(req[q].arg)
        BY <3>1, <3>6 DEF Holds
      <4>2. o \notin Unused(req[q].arg)
        BY <1>1, <1>2, <3>1, <3>6, <4>1 DEF Apart, LocksCode
      <4> QED BY <1>12, <3>1, <4>2 DEF Unused
    <3>7. ASSUME req[q].at = "redeem_insert"
          PROVE  Active(code[req[q].arg].workspace)' = Active(code[req[q].arg].workspace)
      <4> DEFINE v == code[req[q].arg].workspace
      <4>1. req[q].arg \in Code /\ v \in Workspace /\ code'[req[q].arg] = code[req[q].arg]
        BY <1>1, <1>19, <2>2, <3>1, <3>7 DEF Has, RedeemPlace, CodeRecord
      <4>2. v # w
        BY <1>1, <1>2, <3>1, <3>7, <4>1 DEF Apart, LocksWorkspace
      <4>3. session[new].state # "ACTIVE" /\ session'[new].workspace = w
        BY <1>3, <1>7 DEF None
      <4>4. \A s \in Session : (session'[s].state = "ACTIVE" /\ session'[s].workspace = v)
                                 <=> (session[s].state = "ACTIVE" /\ session[s].workspace = v)
        <5> HIDE DEF v, w
        <5> QED BY <1>8, <1>9, <4>2, <4>3
      <4> QED BY <3>1, <4>1, <4>4 DEF Active
    <3>8. Holds(q)'
      <4>1. SharesMetadata(q)' => migration' # "locked"
        BY <1>1, <1>2
      <4>2. req[q].at \in {"redeem_workspace", "redeem_session", "redeem_insert"}
              => code'[req[q].arg] = code[req[q].arg]
        BY <1>19, <2>2
      <4> QED BY <1>1, <3>1, <3>6, <3>7, <4>1, <4>2 DEF Holds
    <3> QED BY <3>4, <3>5, <3>8
  <2> QED BY <2>1, <2>2
<1>21. ASSUME NEW p \in Request, NEW q \in Request, p # q PROVE Apart(p, q)'
  <2>1. CASE p = r \/ q = r
    BY <1>6, <2>1 DEF Apart, LocksCode, LocksWorkspace
  <2>2. CASE p # r /\ q # r
    <3>1. Apart(p, q) /\ req'[p] = req[p] /\ req'[q] = req[q]
      BY <1>6, <1>21, <2>2 DEF AInv
    <3>2. \A c \in Code : ~(LocksCode(p, c) /\ LocksCode(q, c))'
      BY <3>1 DEF Apart, LocksCode
    <3>3. \A v \in Workspace : ~(LocksWorkspace(p, v) /\ LocksWorkspace(q, v))'
      BY <1>19, <2>2, <3>1 DEF Apart, LocksWorkspace
    <3> QED BY <3>2, <3>3 DEF Apart
  <2> QED BY <2>1, <2>2
<1>22. OneUnusedCode'
  <2>1. \A v \in Workspace : Unused(v)' \subseteq Unused(v)
    BY <1>12 DEF Unused
  <2> QED BY <2>1 DEF AInv, OneUnusedCode
<1>23. OneActiveSession'
  <2> SUFFICES ASSUME NEW v \in Workspace, NEW s \in Active(v)', NEW t \in Active(v)'
               PROVE  s = t
    BY DEF OneActiveSession
  <2>1. fresh.workspace = w
    OBVIOUS
  <2> HIDE DEF fresh
  <2>2. CASE v = w
    BY <1>7, <1>8, <1>9, <2>2 DEF Active
  <2>3. CASE v # w
    BY <1>7, <1>8, <1>9, <2>1, <2>3 DEF AInv, OneActiveSession, Active
  <2> QED BY <2>2, <2>3
<1>24. CodeUsedOnce'
  <2>1. \A s \in Session : session[s] # None => session[s].code # o
    BY <1>2 DEF AInv, SessionInOrder
  <2>2. fresh.code = o
    OBVIOUS
  <2> HIDE DEF fresh
  <2>3. \A s \in Session \ {new} : session'[s] # None =>
          session[s] # None /\ session'[s].code = session[s].code
    BY <1>8, <1>9, <1>15
  <2> QED BY <1>7, <2>1, <2>2, <2>3 DEF AInv, CodeUsedOnce
<1>25. Given'
  <2>1. \A c \in Code : code[c] # None => code'[c] # None
    BY <1>12, <1>14
  <2>2. \A s \in Session : session[s] # None => session'[s] # None
    <3> HIDE DEF fresh
    <3> QED BY <1>4, <1>7, <1>8, <1>9, <1>15
  <2> QED BY <1>1, <2>1, <2>2 DEF AInv, Given
<1> QED BY <1>13, <1>16, <1>17, <1>20, <1>21, <1>22, <1>23, <1>24, <1>25 DEF AInv

(* A Workspace row that changes has a later version, and so does not agree    *)
(* with a session it did not agree with.                                      *)
LEMMA UpdateStep ==
  ASSUME AInv, NEW w \in Workspace, NEW d \in {"RUNNING", "STOPPED"}, NEW o \in {"READY", "OTHER"},
         UpdateWorkspace(w, d, o)
  PROVE  AInv'
<1>1. /\ row \in [Workspace -> WorkspaceRow] /\ row[w] \in WorkspaceRow
      /\ row[w].version < MaxVersion /\ MaxVersion \in Nat
      /\ row' = [row EXCEPT ![w] = [desired |-> d, observed |-> o, version |-> row[w].version + 1]]
      /\ UNCHANGED <<epoch, maintenance, code, session, migration, sent, now, req>>
  BY IdeAccessAssumption DEF AInv, TypeOK, UpdateWorkspace, Updated
<1> DEFINE next == [desired |-> d, observed |-> o, version |-> row[w].version + 1]
<1>2. next \in WorkspaceRow /\ next.version = row[w].version + 1
  BY <1>1 DEF WorkspaceRow
<1>3. /\ row' \in [Workspace -> WorkspaceRow] /\ row'[w].version = row[w].version + 1
      /\ \A v \in Workspace \ {w} : row'[v] = row[v]
  <2> HIDE DEF next
  <2>1. row' = [row EXCEPT ![w] = next]
    BY <1>1 DEF next
  <2> QED BY <1>1, <1>2, <2>1
<1>4. \A v \in Workspace : row[v].version \in Nat
  BY <1>1 DEF WorkspaceRow
<1>5. TypeOK'
  BY <1>1, <1>3 DEF AInv, TypeOK
<1>6. ASSUME NEW r \in Request PROVE (Has(r) /\ Holds(r) /\ StillToSee(r))'
  <2>1. Has(r) /\ Holds(r) /\ StillToSee(r) /\ req' = req
    BY <1>1 DEF AInv
  <2>2. Has(r)' /\ Holds(r)'
    BY <1>1, <2>1 DEF Has, Holds, SharesMetadata, Unused, Active
  <2>3. ASSUME req[r].at \in ResolvePlace, Moved(req[r].arg, req[r].time)
        PROVE  Moved(req[r].arg, req[r].time)'
    <3> DEFINE s == req[r].arg
    <3>1. s \in Session /\ session[s] # None /\ SessionInOrder(s) /\ session[s] \in SessionRecord
      BY <2>1, <2>3 DEF Has, AInv, TypeOK
    <3>2. /\ session[s].workspace \in Workspace /\ session[s].version \in Nat
          /\ session[s].version <= row[session[s].workspace].version
      BY <3>1 DEF SessionInOrder, SessionRecord
    <3>3. CASE session[s].workspace = w
      <4>1. row'[session[s].workspace].version # session[s].version
        BY <1>3, <1>4, <3>2, <3>3
      <4> QED BY <1>1, <4>1 DEF Moved
    <3>4. CASE session[s].workspace # w
      <4>1. row'[session[s].workspace] = row[session[s].workspace]
        BY <1>3, <3>2, <3>4
      <4> QED BY <1>1, <2>3, <4>1 DEF Moved, Ready
    <3> QED BY <3>3, <3>4
  <2>4. StillToSee(r)'
    BY <1>1, <2>1, <2>3 DEF StillToSee, Expired, Blocked
  <2> QED BY <2>2, <2>4
<1>7. ASSUME NEW p \in Request, NEW q \in Request, p # q PROVE Apart(p, q)'
  BY <1>1, <1>7 DEF AInv, Apart, LocksCode, LocksWorkspace
<1>8. ASSUME NEW c \in Code PROVE CodeInOrder(c)'
  <2>1. CodeInOrder(c) /\ (code[c] # None => code[c].workspace \in Workspace /\ code[c].version \in Nat)
    BY DEF AInv, TypeOK, CodeRecord
  <2> QED BY <1>1, <1>3, <1>4, <2>1 DEF CodeInOrder
<1>9. ASSUME NEW s \in Session PROVE SessionInOrder(s)'
  <2>1. /\ SessionInOrder(s)
        /\ session[s] # None => session[s].workspace \in Workspace /\ session[s].version \in Nat
    BY DEF AInv, TypeOK, SessionRecord
  <2> QED BY <1>1, <1>3, <1>4, <2>1 DEF SessionInOrder
<1>10. OneUnusedCode' /\ OneActiveSession' /\ CodeUsedOnce' /\ Given'
  BY <1>1 DEF AInv, OneUnusedCode, OneActiveSession, CodeUsedOnce, Given, Unused, Active
<1> QED BY <1>5, <1>6, <1>7, <1>8, <1>9, <1>10 DEF AInv

(* Maintenance begins, the migration locks the metadata row that no request   *)
(* shares, or it gives up; the clock goes on.                                 *)
LEMMA MaintenanceStep ==
  ASSUME AInv, EnterMaintenance \/ LockMetadata \/ AbortMigration \/ Tick
  PROVE  AInv'
<1>1. /\ UNCHANGED <<epoch, row, code, session, sent, req>>
      /\ maintenance => maintenance'
      /\ migration' = "locked" => migration = "locked" \/ \A r \in Request : ~SharesMetadata(r)
  BY DEF EnterMaintenance, LockMetadata, AbortMigration, Tick, database, MetadataUnlocked
<1>2. TypeOK'
  <2>1. maintenance' \in BOOLEAN /\ migration' \in {"idle", "maintenance", "locked"}
    BY DEF AInv, TypeOK, EnterMaintenance, LockMetadata, AbortMigration, Tick, database
  <2>2. now' \in 0..MaxTime
    BY IdeAccessAssumption
       DEF AInv, TypeOK, EnterMaintenance, LockMetadata, AbortMigration, Tick
  <2> QED BY <1>1, <2>1, <2>2 DEF AInv, TypeOK
<1>3. ASSUME NEW r \in Request PROVE (Has(r) /\ Holds(r) /\ StillToSee(r))'
  <2>1. Has(r) /\ Holds(r) /\ StillToSee(r)
    BY DEF AInv
  <2>2. Has(r)' /\ Holds(r)'
    BY <1>1, <2>1 DEF Has, Holds, SharesMetadata, Unused, Active
  <2>3. StillToSee(r)'
    BY <1>1, <2>1 DEF StillToSee, Expired, Blocked, Moved, Ready
  <2> QED BY <2>2, <2>3
<1>4. ASSUME NEW p \in Request, NEW q \in Request, p # q PROVE Apart(p, q)'
  BY <1>1, <1>4 DEF AInv, Apart, LocksCode, LocksWorkspace
<1>5. (\A c \in Code : CodeInOrder(c))' /\ (\A s \in Session : SessionInOrder(s))'
  BY <1>1 DEF AInv, CodeInOrder, SessionInOrder
<1>6. OneUnusedCode' /\ OneActiveSession' /\ CodeUsedOnce' /\ Given'
  BY <1>1 DEF AInv, OneUnusedCode, OneActiveSession, CodeUsedOnce, Given, Unused, Active
<1> QED BY <1>2, <1>3, <1>4, <1>5, <1>6 DEF AInv

(* A migration commits when no request shares the metadata row; what it       *)
(* leaves is of an older epoch or version than any resolution will find.      *)
LEMMA CommitStep ==
  ASSUME AInv, CommitMigration
  PROVE  AInv'
<1>1. /\ row \in [Workspace -> WorkspaceRow]
      /\ code \in [Code -> {None} \cup CodeRecord]
      /\ session \in [Session -> {None} \cup SessionRecord]
      /\ epoch \in 1..MaxEpoch /\ epoch < MaxEpoch /\ epoch' = epoch + 1 /\ MaxEpoch \in Nat
      /\ MaxVersion \in Nat /\ maintenance' = FALSE /\ migration = "locked" /\ migration' = "idle"
      /\ \A w \in Workspace : row[w].version < MaxVersion
      /\ UNCHANGED <<sent, now, req>>
  BY IdeAccessAssumption DEF AInv, TypeOK, CommitMigration, EpochCanGrow
<1>2. \A r \in Request : ~SharesMetadata(r) /\ Has(r) /\ StillToSee(r)
  BY <1>1 DEF AInv, Holds
<1>3. ASSUME NEW c \in Code
      PROVE  /\ code'[c] \in {None} \cup CodeRecord
             /\ code[c] # None <=> code'[c] # None
             /\ code[c] # None => /\ code'[c].state # "UNUSED"
                                  /\ code'[c].version = code[c].version
                                  /\ code'[c].workspace = code[c].workspace
             /\ code[c].state = "CONSUMED" => code'[c] = code[c]
  <2>1. code'[c] = IF code[c].state = "UNUSED" THEN [code[c] EXCEPT !.state = "INVALIDATED"]
                   ELSE code[c]
    BY DEF CommitMigration
  <2>2. CASE code[c] = None
    BY <2>1, <2>2 DEF None
  <2>3. CASE code[c] \in CodeRecord
    BY <2>1, <2>3 DEF None, CodeRecord
  <2> QED BY <1>1, <2>2, <2>3
<1>4. ASSUME NEW s \in Session
      PROVE  /\ session'[s] \in {None} \cup SessionRecord
             /\ session[s] # None <=> session'[s] # None
             /\ session[s] # None => /\ session'[s].state = "REVOKED"
                                     /\ session'[s].version = session[s].version
                                     /\ session'[s].epoch = session[s].epoch
                                     /\ session'[s].expires = session[s].expires
                                     /\ session'[s].code = session[s].code
                                     /\ session'[s].workspace = session[s].workspace
  <2>1. session'[s] = IF session[s].state = "ACTIVE" THEN [session[s] EXCEPT !.state = "REVOKED"]
                      ELSE session[s]
    BY DEF CommitMigration
  <2>2. CASE session[s] = None
    BY <2>1, <2>2 DEF None
  <2>3. CASE session[s] \in SessionRecord
    BY <2>1, <2>3 DEF None, SessionRecord
  <2> QED BY <1>1, <2>2, <2>3
<1>5. ASSUME NEW w \in Workspace
      PROVE  /\ row'[w] \in WorkspaceRow
             /\ row[w].version \in Nat /\ row'[w].version \in Nat
             /\ row[w].version <= row'[w].version
             /\ row'[w] = row[w] \/ row'[w].version = row[w].version + 1
  <2>1. row'[w] = row[w]
        \/ row'[w] = [row[w] EXCEPT !.desired = "STOPPED", !.version = row[w].version + 1]
    BY DEF CommitMigration
  <2>2. row[w] \in WorkspaceRow /\ row[w].version < MaxVersion
    BY <1>1
  <2>3. row[w].version \in Nat /\ row[w].version + 1 \in 0..MaxVersion
    BY <1>1, <2>2 DEF WorkspaceRow
  <2> DEFINE next == [row[w] EXCEPT !.desired = "STOPPED", !.version = row[w].version + 1]
  <2>4. next \in WorkspaceRow /\ next.version = row[w].version + 1
    BY <2>2, <2>3 DEF WorkspaceRow
  <2>5. row'[w] = row[w] \/ row'[w] = next
    BY <2>1
  <2> HIDE DEF next
  <2> QED BY <2>2, <2>3, <2>4, <2>5
<1>6. TypeOK'
  <2>1. /\ code' = [c \in Code |-> code'[c]] /\ session' = [s \in Session |-> session'[s]]
        /\ row' = [w \in Workspace |-> row'[w]]
    BY DEF CommitMigration
  <2>2. /\ code' \in [Code -> {None} \cup CodeRecord]
        /\ session' \in [Session -> {None} \cup SessionRecord]
        /\ row' \in [Workspace -> WorkspaceRow]
    BY <1>3, <1>4, <1>5, <2>1
  <2>3. epoch' \in 1..MaxEpoch
    BY <1>1
  <2> QED BY <1>1, <2>2, <2>3 DEF AInv, TypeOK
<1>7. ASSUME NEW r \in Request PROVE (Has(r) /\ Holds(r) /\ StillToSee(r))'
  <2>1. Has(r)'
    BY <1>1, <1>2, <1>3, <1>4 DEF Has, IssuePlace, RedeemPlace, ResolvePlace
  <2>2. Holds(r)'
    BY <1>1, <1>2 DEF Holds, SharesMetadata
  <2>3. StillToSee(r)'
    <3>1. CASE req[r].at \notin ResolvePlace \/ req[r].valid
      BY <1>1, <3>1 DEF StillToSee
    <3>2. CASE req[r].at \in ResolvePlace /\ ~req[r].valid
      <4> DEFINE s == req[r].arg
      <4>1. /\ s \in Session /\ session[s] # None /\ session[s] \in SessionRecord
            /\ SessionInOrder(s)
        BY <1>2, <3>2 DEF Has, AInv, TypeOK
      <4>2. /\ session[s].workspace \in Workspace /\ session[s].version \in Nat
            /\ session[s].epoch \in Nat /\ session[s].epoch <= epoch
            /\ session[s].version <= row[session[s].workspace].version
        BY <4>1 DEF SessionInOrder, SessionRecord
      <4>3. Blocked(s)'
        <5>1. epoch' # session'[s].epoch
          BY <1>1, <1>4, <4>1, <4>2
        <5> QED BY <1>1, <5>1 DEF Blocked
      <4>4. Expired(s, req[r].time) => Expired(s, req[r].time)'
        BY <1>1, <1>4, <4>1 DEF Expired
      <4>5. Moved(s, req[r].time) => Moved(s, req[r].time)'
        <5>1. CASE row'[session[s].workspace] = row[session[s].workspace]
          BY <1>1, <1>4, <4>1, <5>1 DEF Moved, Ready
        <5>2. CASE row'[session[s].workspace].version = row[session[s].workspace].version + 1
          <6>1. row'[session[s].workspace].version # session[s].version
            BY <1>5, <4>2, <5>2
          <6> QED BY <1>1, <1>4, <4>1, <6>1 DEF Moved
        <5> QED BY <1>5, <4>2, <5>1, <5>2
      <4>6. session'[s].state = "REVOKED"
        BY <1>4, <4>1
      <4> QED BY <1>1, <1>2, <3>2, <4>3, <4>4, <4>5, <4>6 DEF StillToSee
    <3> QED BY <3>1, <3>2
  <2> QED BY <2>1, <2>2, <2>3
<1>8. ASSUME NEW p \in Request, NEW q \in Request, p # q PROVE Apart(p, q)'
  <2>1. Apart(p, q) /\ ~SharesMetadata(p) /\ ~SharesMetadata(q)
    BY <1>2, <1>8 DEF AInv
  <2> QED BY <1>1, <2>1 DEF Apart, LocksCode, LocksWorkspace, SharesMetadata
<1>9. ASSUME NEW c \in Code PROVE CodeInOrder(c)'
  <2>1. /\ CodeInOrder(c)
        /\ code[c] # None => code[c].workspace \in Workspace /\ code[c].version \in Nat
    BY <1>1 DEF AInv, CodeRecord
  <2>2. code'[c] # None =>
          code'[c].version <= row'[code'[c].workspace].version /\ code'[c].state # "UNUSED"
    BY <1>3, <1>5, <2>1 DEF CodeInOrder
  <2> QED BY <2>2 DEF CodeInOrder
<1>10. ASSUME NEW s \in Session PROVE SessionInOrder(s)'
  <2>1. /\ SessionInOrder(s)
        /\ session[s] # None => /\ session[s].workspace \in Workspace
                                /\ session[s].version \in Nat /\ session[s].epoch \in Nat
                                /\ session[s].code \in Code
    BY <1>1 DEF AInv, SessionRecord
  <2>2. session'[s] # None =>
          /\ session'[s].version <= row'[session'[s].workspace].version
          /\ session'[s].epoch <= epoch'
          /\ session'[s].state # "ACTIVE"
          /\ code'[session'[s].code].state = "CONSUMED"
    BY <1>1, <1>3, <1>4, <1>5, <2>1 DEF SessionInOrder
  <2> QED BY <2>2 DEF SessionInOrder
<1>11. OneUnusedCode' /\ OneActiveSession'
  <2>1. \A c \in Code : code'[c].state # "UNUSED"
    BY <1>3 DEF None
  <2>2. \A s \in Session : session'[s].state # "ACTIVE"
    BY <1>4 DEF None
  <2> QED BY <2>1, <2>2 DEF OneUnusedCode, OneActiveSession, Unused, Active
<1>12. CodeUsedOnce' /\ Given'
  BY <1>1, <1>3, <1>4 DEF AInv, CodeUsedOnce, Given
<1> QED BY <1>6, <1>7, <1>8, <1>9, <1>10, <1>11, <1>12 DEF AInv

LEMMA IdeNext == AInv /\ [Next]_vars => AInv'
<1> SUFFICES ASSUME AInv, [Next]_vars PROVE AInv'
  OBVIOUS
<1>1. ASSUME NEW r \in Request,
             \/ \E w \in Workspace : BeginIssue(r, w)
             \/ \E c \in Code : BeginRedeem(r, c)
             \/ \E s \in Session : BeginResolve(r, s)
      PROVE  AInv'
  BY <1>1, BeginStep
<1>2. ASSUME NEW r \in Request, RequestStep(r) PROVE AInv'
  <2>1. CASE IssueMetadata(r) \/ IssueWorkspace(r) \/ InvalidateCodes(r)
    BY <2>1, IssueStep
  <2>2. CASE InsertCode(r)
    BY <2>2, InsertCodeStep
  <2>3. CASE RedeemCode(r) \/ RedeemMetadata(r) \/ RedeemWorkspace(r) \/ RevokeSessions(r)
    BY <2>3, RedeemStep
  <2>4. CASE InsertSession(r)
    BY <2>4, InsertSessionStep
  <2>5. CASE ResolveSession(r) \/ ResolveMetadata(r) \/ ResolveWorkspace(r) \/ Forward(r)
    BY <2>5, ResolveStep
  <2>6. CASE Answer(r)
    BY <2>6, EndStep
  <2> QED BY <1>2, <2>1, <2>2, <2>3, <2>4, <2>5, <2>6 DEF RequestStep
<1>3. ASSUME NEW r \in Request, Fail(r) PROVE AInv'
  BY <1>3, EndStep
<1>4. ASSUME NEW w \in Workspace, NEW d \in {"RUNNING", "STOPPED"}, NEW o \in {"READY", "OTHER"},
             UpdateWorkspace(w, d, o)
      PROVE  AInv'
  BY <1>4, UpdateStep
<1>5. CASE EnterMaintenance \/ LockMetadata \/ AbortMigration \/ Tick
  BY <1>5, MaintenanceStep
<1>6. CASE CommitMigration
  BY <1>6, CommitStep
<1>7. CASE UNCHANGED vars
  BY <1>7 DEF vars, database, AInv, TypeOK, Has, Holds, StillToSee, Apart, SharesMetadata,
     LocksCode, LocksWorkspace, CodeInOrder, SessionInOrder, OneUnusedCode, OneActiveSession,
     CodeUsedOnce, Given, Unused, Active, Expired, Blocked, Moved, Ready
<1> QED BY <1>1, <1>2, <1>3, <1>4, <1>5, <1>6, <1>7 DEF Next

-----------------------------------------------------------------------------
(* AInv is an invariant of every number of requests that race.                *)
THEOREM IdeInvariance == Spec => []AInv
BY IdeInit, IdeNext, PTL DEF Spec

(* Every reachable state is well typed.                                       *)
THEOREM IdeTypes == Spec => []TypeOK
<1>1. AInv => TypeOK
  BY DEF AInv
<1> QED BY <1>1, IdeInvariance, PTL

(* A Workspace has at most one code that can be used (issueCode).             *)
THEOREM UnusedCodeUnique == Spec => []OneUnusedCode
<1>1. AInv => OneUnusedCode
  BY DEF AInv
<1> QED BY <1>1, IdeInvariance, PTL

(* A Workspace has at most one active session (redeemCode).                   *)
THEOREM ActiveSessionUnique == Spec => []OneActiveSession
<1>1. AInv => OneActiveSession
  BY DEF AInv
<1> QED BY <1>1, IdeInvariance, PTL

(* A code is exchanged for at most one session (redeemCode).                  *)
THEOREM CodeExchangedOnce == Spec => []CodeUsedOnce
<1>1. AInv => CodeUsedOnce
  BY DEF AInv
<1> QED BY <1>1, IdeInvariance, PTL

(* What can be used is of the current epoch (issueCode, redeemCode and the    *)
(* commit of a migration).                                                    *)
THEOREM EpochGone == Spec => []OldEpochIsGone
<1>1. AInv => OldEpochIsGone
  BY DEF AInv, CodeInOrder, SessionInOrder, OldEpochIsGone, None
<1> QED BY <1>1, IdeInvariance, PTL

(* A resolution that succeeds found a session that was valid when it began,   *)
(* although its three reads are of three moments (resolveSession).            *)
THEOREM ResolutionSound == Spec => []AcceptedWasValid
<1>1. AInv => AcceptedWasValid
  BY DEF AInv, StillToSee, AcceptedWasValid, ResolvePlace
<1> QED BY <1>1, IdeInvariance, PTL

-----------------------------------------------------------------------------
(* Who waits, and for whom: an issue that holds the Workspace waits for       *)
(* nothing but a redemption of one of its codes that does not hold it.        *)
LEMMA IssueWaits ==
  ASSUME AInv, NEW i \in Request, NEW q \in Request, req[i].at = "issue_code", WaitsFor(i, q)
  PROVE  /\ req[q].at \in {"redeem_metadata", "redeem_workspace"}
         /\ req[q].at = "redeem_workspace" => WaitForEachOther(q, i)
<1>1. PICK c \in Unused(req[i].arg) : LocksCode(q, c)
  BY DEF WaitsFor
<1>2. /\ i # q /\ req[i].arg \in Workspace /\ LocksWorkspace(i, req[i].arg)
      /\ c \in Code /\ code[c].workspace = req[i].arg /\ code[c].state = "UNUSED"
  BY <1>1 DEF LocksCode, Unused, AInv, Has, IssuePlace, LocksWorkspace
<1>3. ~LocksWorkspace(q, req[i].arg)
  BY <1>2 DEF AInv, Apart
<1>4. CASE req[q].at = "issue_insert"
  <2>1. code[c].workspace = req[q].arg
    BY <1>1, <1>4 DEF LocksCode, AInv, Holds, Unused
  <2> QED BY <1>2, <1>3, <1>4, <2>1 DEF LocksWorkspace
<1>5. CASE req[q].at # "issue_insert"
  <2>1. /\ req[q].arg = c
        /\ req[q].at \in {"redeem_metadata", "redeem_workspace", "redeem_session",
                           "redeem_insert"}
    BY <1>1, <1>5 DEF LocksCode
  <2>2. req[q].at \notin {"redeem_session", "redeem_insert"}
    BY <1>2, <1>3, <2>1 DEF LocksWorkspace
  <2>3. req[q].at = "redeem_workspace" => WaitForEachOther(q, i)
    BY <1>2, <2>1 DEF WaitForEachOther
  <2> QED BY <2>1, <2>2, <2>3
<1> QED BY <1>4, <1>5

(* Who waits for a Workspace waits for an issue at its codes, or for one that *)
(* waits for nothing.                                                         *)
LEMMA WorkspaceWaits ==
  ASSUME NEW r \in Request, NEW q \in Request,
         req[r].at \in {"issue_workspace", "redeem_workspace"}, WaitsFor(r, q)
  PROVE  req[q].at \in {"issue_code", "issue_insert", "redeem_session", "redeem_insert"}
BY DEF WaitsFor, LocksWorkspace

LEMMA CodeWaits ==
  ASSUME NEW r \in Request, NEW q \in Request, req[r].at = "redeem_code", WaitsFor(r, q)
  PROVE  req[q].at \in {"redeem_metadata", "redeem_workspace", "redeem_session",
                         "redeem_insert", "issue_insert"}
BY DEF WaitsFor, LocksCode

(* Every deadlock of requests and migration has in it an issue that waits for *)
(* a redemption that waits for it, or a redemption that waits for the         *)
(* migration: the order in which redeemCode locks its rows is at the bottom   *)
(* of each.                                                                   *)
THEOREM NoOtherDeadlock == Spec => []DeadlocksAreKnown
<1>1. AInv => DeadlocksAreKnown
  <2> SUFFICES ASSUME AInv, NEW S \in SUBSET Request, NEW m \in BOOLEAN, Stuck(S, m),
                      ~\E r, i \in S : WaitForEachOther(r, i),
                      ~(m /\ migration = "locked"
                          /\ \E r \in S : req[r].at = "redeem_metadata")
               PROVE  FALSE
    BY DEF DeadlocksAreKnown
  <2>1. ASSUME NEW r \in S
        PROVE  (\E q \in S : WaitsFor(r, q)) \/ (m /\ WaitsForMigration(r))
    BY DEF Stuck
  <2>2. ASSUME NEW r \in S
        PROVE  /\ req[r].at \notin {"issue_insert", "redeem_session", "redeem_insert"}
               /\ req[r].at # "redeem_metadata"
    BY <2>1 DEF WaitsFor, WaitsForMigration
  <2>3. ASSUME NEW i \in S PROVE req[i].at # "issue_code"
    <3> SUFFICES ASSUME req[i].at = "issue_code" PROVE FALSE
      OBVIOUS
    <3>1. PICK q \in S : WaitsFor(i, q)
      BY <2>1 DEF WaitsForMigration
    <3> QED BY <2>2, <3>1, IssueWaits
  <2>4. ASSUME NEW r \in S PROVE req[r].at \notin {"issue_workspace", "redeem_workspace"}
    <3> SUFFICES ASSUME req[r].at \in {"issue_workspace", "redeem_workspace"} PROVE FALSE
      OBVIOUS
    <3>1. PICK q \in S : WaitsFor(r, q)
      BY <2>1 DEF WaitsForMigration
    <3> QED BY <2>2, <2>3, <3>1, WorkspaceWaits
  <2>5. ASSUME NEW r \in S PROVE req[r].at # "redeem_code"
    <3> SUFFICES ASSUME req[r].at = "redeem_code" PROVE FALSE
      OBVIOUS
    <3>1. PICK q \in S : WaitsFor(r, q)
      BY <2>1 DEF WaitsForMigration
    <3> QED BY <2>2, <2>4, <3>1, CodeWaits
  <2>6. ASSUME NEW r \in S PROVE m /\ migration = "locked" /\ req[r].at = "issue_metadata"
    BY <2>1, <2>2, <2>3, <2>4, <2>5 DEF WaitsFor, WaitsForMigration
  <2>7. PICK q \in S : m /\ MigrationWaitsFor(q)
    BY <2>6 DEF Stuck
  <2> QED BY <2>6, <2>7 DEF MigrationWaitsFor, LocksCode, LocksWorkspace
<1> QED BY <1>1, IdeInvariance, PTL

-----------------------------------------------------------------------------
(* The ledger begins empty.                                                   *)
LEMMA LedgerInit == Init => Ledger!Init
<1> SUFFICES ASSUME Init PROVE Ledger!Init
  OBVIOUS
<1>1. epoch = 1 /\ (\A c \in Code : code[c] = None) /\ \A s \in Session : session[s] = None
  BY DEF Init
<1>2. (\A w \in Workspace : Unused(w) = {} /\ Active(w) = {}) /\ Known = {} /\ Exchanges = {}
  BY <1>1 DEF Unused, Active, None, Known, Exchanges
<1>3. Offered = [w \in Workspace |-> {}] /\ Opened = [w \in Workspace |-> {}]
  BY <1>2 DEF Offered, Opened
<1> QED BY <1>1, <1>2, <1>3 DEF Ledger!Init

(* A step that leaves codes, sessions and the epoch alone is none of the      *)
(* ledger.                                                                    *)
LEMMA LedgerRests ==
  ASSUME UNCHANGED <<epoch, code, session>>
  PROVE  UNCHANGED <<epoch, Offered, Opened, Known, Exchanges>>
BY DEF Offered, Opened, Known, Exchanges, Unused, Active

(* InsertCode issues a code that no one has seen.                             *)
LEMMA LedgerIssue ==
  ASSUME AInv, NEW r \in Request, InsertCode(r)
  PROVE  Ledger!Next
<1>a. PICK w \in Workspace : w = req[r].arg
  BY DEF AInv, InsertCode, Has, IssuePlace
<1>1. /\ w \in Workspace /\ req[r].rows = Unused(w) /\ req[r].context = epoch
      /\ code \in [Code -> {None} \cup CodeRecord] /\ UNCHANGED <<epoch, session>>
  BY <1>a DEF AInv, TypeOK, InsertCode, Holds
<1> DEFINE fresh == [state |-> "UNUSED", workspace |-> w, epoch |-> epoch,
                     version |-> row[w].version, expires |-> req[r].time + CodeTtl]
<1>2. PICK new \in Code :
        /\ code[new] = None
        /\ code' = [c \in Code |->
             CASE c = new -> fresh
               [] c \in Unused(w) -> [code[c] EXCEPT !.state = "INVALIDATED"]
               [] OTHER -> code[c]]
  BY <1>a, <1>1 DEF InsertCode
<1>3. code'[new] = fresh /\ new \notin Unused(w)
  BY <1>2 DEF Unused, None
<1>4. fresh.state = "UNUSED" /\ fresh.workspace = w /\ fresh.epoch = epoch /\ fresh # None
  BY DEF None
<1> HIDE DEF fresh
<1>5. ASSUME NEW c \in Unused(w)
      PROVE  /\ code[c] # None /\ code'[c] # None /\ code'[c].state = "INVALIDATED" /\ c \in Code
  <2>1. c \in Code /\ code[c].state = "UNUSED" /\ c # new
    BY <1>3, <1>5 DEF Unused
  <2>2. code[c] # None /\ code[c] \in CodeRecord
    BY <1>1, <2>1 DEF None
  <2>3. code'[c] = [code[c] EXCEPT !.state = "INVALIDATED"]
    BY <1>2, <1>5, <2>1
  <2>4. code'[c].state = "INVALIDATED"
    BY <2>2, <2>3 DEF CodeRecord
  <2> QED BY <2>1, <2>2, <2>4 DEF None
<1>6. \A c \in Code : c # new /\ c \notin Unused(w) => code'[c] = code[c]
  BY <1>2
<1>7. Known' = Known \cup {new} /\ new \notin Known
  BY <1>2, <1>3, <1>4, <1>5, <1>6 DEF Known
<1>8. Unused(w)' = {new}
  <2>1. ASSUME NEW c \in Code PROVE (code'[c].state = "UNUSED" /\ code'[c].workspace = w) <=> c = new
    <3>1. CASE c = new
      BY <1>3, <1>4, <3>1
    <3>2. CASE c \in Unused(w)
      BY <1>3, <1>5, <3>2
    <3>3. CASE c # new /\ c \notin Unused(w)
      BY <1>6, <3>3 DEF Unused
    <3> QED BY <3>1, <3>2, <3>3
  <2>2. {c \in Code : code'[c].state = "UNUSED" /\ code'[c].workspace = w} = {new}
    BY <2>1
  <2> QED BY <2>2 DEF Unused
<1>9. ASSUME NEW v \in Workspace, v # w
      PROVE  {<<c, code'[c].epoch>> : c \in Unused(v)'} = {<<c, code[c].epoch>> : c \in Unused(v)}
  <2>1. ASSUME NEW c \in Code
        PROVE  /\ (code'[c].state = "UNUSED" /\ code'[c].workspace = v)
                    <=> (code[c].state = "UNUSED" /\ code[c].workspace = v)
               /\ code[c].state = "UNUSED" /\ code[c].workspace = v => code'[c] = code[c]
    <3>1. CASE c = new
      BY <1>2, <1>3, <1>4, <1>9, <3>1 DEF None
    <3>2. CASE c \in Unused(w)
      BY <1>5, <1>9, <3>2 DEF Unused
    <3>3. CASE c # new /\ c \notin Unused(w)
      BY <1>6, <3>3
    <3> QED BY <3>1, <3>2, <3>3
  <2> QED BY <2>1 DEF Unused
<1>10. Offered' = [Offered EXCEPT ![w] = {<<new, epoch>>}]
  <2>1. {<<c, code'[c].epoch>> : c \in {new}} = {<<new, epoch>>}
    BY <1>3, <1>4
  <2> QED BY <1>1, <1>8, <1>9, <2>1 DEF Offered
<1>11. Opened' = Opened /\ Exchanges' = Exchanges
  BY <1>1 DEF Opened, Exchanges, Active
<1>12. Ledger!Issue(w, new)
  BY <1>1, <1>7, <1>10, <1>11 DEF Ledger!Issue
<1> QED BY <1>1, <1>12 DEF Ledger!Next

(* InsertSession exchanges the code the Workspace was offered.                *)
LEMMA LedgerRedeem ==
  ASSUME AInv, NEW r \in Request, InsertSession(r)
  PROVE  Ledger!Next
<1>1. PICK o \in Code :
        /\ o = req[r].arg /\ code[o] # None /\ code[o].state = "UNUSED"
        /\ req[r].rows = Active(code[o].workspace)
  BY DEF AInv, InsertSession, Has, Holds, RedeemPlace
<1>2. PICK w \in Workspace : w = code[o].workspace
  BY <1>1 DEF AInv, TypeOK, CodeRecord
<1>3. /\ code \in [Code -> {None} \cup CodeRecord] /\ code[o] \in CodeRecord
      /\ session \in [Session -> {None} \cup SessionRecord]
      /\ code[o].epoch = epoch /\ epoch' = epoch
      /\ \A s \in Session : SessionInOrder(s)
  BY <1>1 DEF AInv, TypeOK, CodeInOrder, InsertSession
<1>4. Unused(w) = {o}
  BY <1>1, <1>2 DEF AInv, OneUnusedCode, Unused
<1> DEFINE fresh == [state |-> "ACTIVE", workspace |-> w,
                     epoch |-> epoch, version |-> code[o].version,
                     expires |-> Earlier(req[r].time + SessionTtl, WorkspaceExpiry),
                     code |-> o]
<1>5. PICK new \in Session :
        /\ session[new] = None
        /\ session' = [s \in Session |->
             CASE s = new -> fresh
               [] s \in Active(w) -> [session[s] EXCEPT !.state = "REVOKED"]
               [] OTHER -> session[s]]
  BY <1>1, <1>2, <1>3 DEF InsertSession
<1>6. session'[new] = fresh /\ new \notin Active(w)
  BY <1>5 DEF Active, None
<1>7. /\ fresh.state = "ACTIVE" /\ fresh.workspace = w /\ fresh.epoch = epoch
      /\ fresh.code = o /\ fresh # None
  BY DEF None
<1> HIDE DEF fresh
<1>8. ASSUME NEW s \in Active(w)
      PROVE  /\ s \in Session /\ session[s] # None /\ session'[s] # None
             /\ session'[s].state = "REVOKED" /\ session'[s].code = session[s].code
  <2>1. s \in Session /\ session[s].state = "ACTIVE" /\ s # new
    BY <1>6, <1>8 DEF Active
  <2>2. session[s] # None /\ session[s] \in SessionRecord
    BY <1>3, <2>1 DEF None
  <2>3. session'[s] = [session[s] EXCEPT !.state = "REVOKED"]
    BY <1>5, <1>8, <2>1
  <2>4. session'[s].state = "REVOKED" /\ session'[s].code = session[s].code
    BY <2>2, <2>3 DEF SessionRecord
  <2> QED BY <2>1, <2>2, <2>4 DEF None
<1>9. \A s \in Session : s # new /\ s \notin Active(w) => session'[s] = session[s]
  BY <1>5
<1>10. ASSUME NEW s \in Session, s # new
       PROVE  /\ session[s] = None <=> session'[s] = None
              /\ session[s] # None => session'[s].code = session[s].code
  <2>1. CASE s \in Active(w)
    BY <1>8, <2>1
  <2>2. CASE s \notin Active(w)
    BY <1>9, <1>10, <2>2
  <2> QED BY <2>1, <2>2
<1>11. Exchanges' = Exchanges \cup {<<new, o>>}
  BY <1>5, <1>6, <1>7, <1>10 DEF Exchanges
<1>12. \A x \in Exchanges : x[1] # new
  BY <1>5 DEF Exchanges
<1>13. Active(w)' = {new}
  <2>1. ASSUME NEW s \in Session
        PROVE  (session'[s].state = "ACTIVE" /\ session'[s].workspace = w) <=> s = new
    <3>1. CASE s = new
      BY <1>6, <1>7, <3>1
    <3>2. CASE s \in Active(w)
      BY <1>6, <1>8, <3>2
    <3>3. CASE s # new /\ s \notin Active(w)
      BY <1>9, <3>3 DEF Active
    <3> QED BY <3>1, <3>2, <3>3
  <2> QED BY <1>5, <2>1 DEF Active
<1>14. ASSUME NEW v \in Workspace, v # w
       PROVE  {<<s, session'[s].epoch>> : s \in Active(v)'} = {<<s, session[s].epoch>> : s \in Active(v)}
  <2>1. ASSUME NEW s \in Session
        PROVE  /\ (session'[s].state = "ACTIVE" /\ session'[s].workspace = v)
                    <=> (session[s].state = "ACTIVE" /\ session[s].workspace = v)
               /\ session[s].state = "ACTIVE" /\ session[s].workspace = v
                    => session'[s] = session[s]
    <3>1. CASE s = new
      BY <1>5, <1>6, <1>7, <1>14, <3>1 DEF None
    <3>2. CASE s \in Active(w)
      BY <1>8, <1>14, <3>2 DEF Active
    <3>3. CASE s # new /\ s \notin Active(w)
      BY <1>9, <3>3
    <3> QED BY <3>1, <3>2, <3>3
  <2> QED BY <2>1 DEF Active
<1>15. Opened' = [Opened EXCEPT ![w] = {<<new, epoch>>}]
  <2>1. {<<s, session'[s].epoch>> : s \in {new}} = {<<new, epoch>>}
    BY <1>6, <1>7
  <2> QED BY <1>13, <1>14, <2>1 DEF Opened
<1>16. /\ code'[o] # None /\ code'[o].state # "UNUSED"
       /\ \A c \in Code : c # o => code'[c] = code[c]
  <2>1. code' = [code EXCEPT ![o].state = "CONSUMED"]
    BY <1>1 DEF InsertSession, Consume
  <2>2. code'[o] = [code[o] EXCEPT !.state = "CONSUMED"]
    BY <1>3, <2>1
  <2>3. code'[o].state = "CONSUMED"
    BY <1>3, <2>2 DEF CodeRecord
  <2> QED BY <1>3, <2>1, <2>3 DEF None
<1>17. Known' = Known
  BY <1>1, <1>16 DEF Known
<1>18. Unused(w)' = {}
  BY <1>4, <1>16 DEF Unused
<1>19. ASSUME NEW v \in Workspace, v # w
       PROVE  {<<c, code'[c].epoch>> : c \in Unused(v)'} = {<<c, code[c].epoch>> : c \in Unused(v)}
  <2>1. \A c \in Code : code'[c].state = "UNUSED" /\ code'[c].workspace = v
                    <=> code[c].state = "UNUSED" /\ code[c].workspace = v
    BY <1>2, <1>16, <1>19
  <2>2. \A c \in Unused(v) : code'[c] = code[c]
    BY <1>2, <1>16, <1>19 DEF Unused
  <2> QED BY <2>1, <2>2 DEF Unused
<1>20. Offered' = [Offered EXCEPT ![w] = {}]
  BY <1>18, <1>19 DEF Offered
<1>21. Offered[w] = {<<o, epoch>>}
  BY <1>3, <1>4 DEF Offered
<1>22. Ledger!Redeem(w, o, new)
  BY <1>3, <1>11, <1>12, <1>15, <1>17, <1>20, <1>21 DEF Ledger!Redeem
<1> QED BY <1>22 DEF Ledger!Next

(* The commit of a migration opens the next epoch with nothing in it.         *)
LEMMA LedgerMigration ==
  ASSUME AInv, CommitMigration
  PROVE  Ledger!Next
<1>1. /\ code \in [Code -> {None} \cup CodeRecord]
      /\ session \in [Session -> {None} \cup SessionRecord]
      /\ epoch' = epoch + 1
  BY DEF AInv, TypeOK, CommitMigration
<1>2. ASSUME NEW c \in Code
      PROVE  /\ code'[c].state # "UNUSED"
             /\ code[c] # None <=> code'[c] # None
  <2>1. code'[c] = IF code[c].state = "UNUSED" THEN [code[c] EXCEPT !.state = "INVALIDATED"]
                   ELSE code[c]
    BY DEF CommitMigration
  <2>2. CASE code[c] = None
    BY <2>1, <2>2 DEF None
  <2>3. CASE code[c] \in CodeRecord
    BY <2>1, <2>3 DEF None, CodeRecord
  <2> QED BY <1>1, <2>2, <2>3
<1>3. ASSUME NEW s \in Session
      PROVE  /\ session'[s].state # "ACTIVE"
             /\ session[s] # None <=> session'[s] # None
             /\ session[s] # None => session'[s].code = session[s].code
  <2>1. session'[s] = IF session[s].state = "ACTIVE" THEN [session[s] EXCEPT !.state = "REVOKED"]
                      ELSE session[s]
    BY DEF CommitMigration
  <2>2. CASE session[s] = None
    BY <2>1, <2>2 DEF None
  <2>3. CASE session[s] \in SessionRecord
    BY <2>1, <2>3 DEF None, SessionRecord
  <2> QED BY <1>1, <2>2, <2>3
<1>4. Known' = Known
  BY <1>2 DEF Known
<1>5. Exchanges' = Exchanges
  BY <1>3 DEF Exchanges
<1>6. Offered' = [w \in Workspace |-> {}] /\ Opened' = [w \in Workspace |-> {}]
  BY <1>2, <1>3 DEF Offered, Opened, Unused, Active
<1>7. Ledger!OpenEpoch
  BY <1>1, <1>4, <1>5, <1>6 DEF Ledger!OpenEpoch
<1> QED BY <1>7 DEF Ledger!Next

LEMMA LedgerStep ==
  ASSUME AInv, [Next]_vars
  PROVE  Ledger!Next \/ UNCHANGED <<epoch, Offered, Opened, Known, Exchanges>>
<1>1. CASE \E r \in Request : InsertCode(r)
  BY <1>1, LedgerIssue
<1>2. CASE \E r \in Request : InsertSession(r)
  BY <1>2, LedgerRedeem
<1>3. CASE CommitMigration
  BY <1>3, LedgerMigration
<1>4. ASSUME ~CommitMigration, \A r \in Request : ~InsertCode(r) /\ ~InsertSession(r)
      PROVE  UNCHANGED <<epoch, code, session>>
  <2>1. CASE \E r \in Request : RequestStep(r)
    BY <1>4, <2>1 DEF RequestStep, database, Reads, IssueMetadata, IssueWorkspace, InvalidateCodes,
       RedeemCode, RedeemMetadata, RedeemWorkspace, RevokeSessions, ResolveSession,
       ResolveMetadata, ResolveWorkspace, Answer, Forward
  <2>2. CASE \/ \E r \in Request, w \in Workspace : BeginIssue(r, w)
             \/ \E r \in Request, c \in Code : BeginRedeem(r, c)
             \/ \E r \in Request, s \in Session : BeginResolve(r, s)
             \/ \E r \in Request : Fail(r)
    BY <2>2 DEF BeginIssue, BeginRedeem, BeginResolve, Begins, Fail, database
  <2>3. CASE \/ \E w \in Workspace, d \in {"RUNNING", "STOPPED"}, o \in {"READY", "OTHER"} :
                  UpdateWorkspace(w, d, o)
             \/ EnterMaintenance \/ LockMetadata \/ AbortMigration \/ Tick \/ UNCHANGED vars
    BY <2>3 DEF UpdateWorkspace, EnterMaintenance, LockMetadata, AbortMigration, Tick, vars, database
  <2> QED BY <1>4, <2>1, <2>2, <2>3 DEF Next
<1> QED BY <1>1, <1>2, <1>3, <1>4, LedgerRests

(* IdeAccess implements AccessLedger for every number of requests, codes and  *)
(* sessions (issueCode, redeemCode and the commit of a migration).            *)
THEOREM AccessImplementsLedger == Spec => AccessKept
<1>1. AInv /\ [Next]_vars => [Ledger!Next]_(<<epoch, Offered, Opened, Known, Exchanges>>)
  BY LedgerStep
<1> QED BY <1>1, LedgerInit, IdeInvariance, PTL DEF Spec, AccessKept, Ledger!Spec, Ledger!vars

(* What becomes of a session in a step: it keeps all but its state.           *)
LEMMA SessionStays ==
  ASSUME TypeOK, [Next]_vars, NEW s \in Session, session[s].state = "ACTIVE"
  PROVE  \/ session'[s] = session[s]
         \/ session'[s].state = "REVOKED"
<1> USE DEF TypeOK, SessionRecord, None
<1>1. CASE UNCHANGED session
  BY <1>1
<1>2. ASSUME NEW r \in Request, InsertSession(r)
      PROVE  session'[s] = session[s] \/ session'[s].state = "REVOKED"
  BY <1>2 DEF InsertSession
<1>3. CASE CommitMigration
  BY <1>3 DEF CommitMigration
<1>4. [Next]_vars => \/ UNCHANGED session
                     \/ \E r \in Request : InsertSession(r)
                     \/ CommitMigration
  BY DEF Next, vars, database, RequestStep, BeginIssue, BeginRedeem, BeginResolve, Begins, Reads,
         IssueMetadata, IssueWorkspace, InvalidateCodes, InsertCode, RedeemCode, RedeemMetadata,
         RedeemWorkspace, RevokeSessions, ResolveSession, ResolveMetadata, ResolveWorkspace,
         Answer, Forward, Fail, UpdateWorkspace, EnterMaintenance, LockMetadata, AbortMigration,
         Tick
<1> QED BY <1>1, <1>2, <1>3, <1>4

(* What ends a session by the documentation, and what SessionsLast is         *)
(* violated by: the session ends, and by nothing of that.                     *)
EndsByRight(s) ==
  \/ session'[s].state = "REVOKED"
  \/ maintenance' \/ epoch' # epoch
  \/ now' # now
  \/ row'[session[s].workspace].desired # "RUNNING"
  \/ row'[session[s].workspace].observed # "READY"
EndsEarly(s) == Resolves(s, now) /\ ~Resolves(s, now)' /\ ~EndsByRight(s)

(* A write of the row of w that changes neither intent nor observation, and   *)
(* counts all the same (updateState writes the READY of each reconciliation). *)
CountsOnly(w) ==
  /\ row'[w].version # row[w].version
  /\ row'[w].desired = row[w].desired /\ row'[w].observed = row[w].observed

(* A step that only counts the version of a Workspace that may be entered is  *)
(* an update of a row, and does nothing else; what the migration counts, it   *)
(* stops.                                                                     *)
LEMMA CountingIsAlone ==
  ASSUME TypeOK, [Next]_vars, NEW w \in Workspace, CountsOnly(w),
         row[w].desired = "RUNNING", row[w].observed = "READY"
  PROVE  UNCHANGED <<session, maintenance, epoch, now>>
<1>1. row' # row
  BY DEF CountsOnly
<1>2. ASSUME NEW r \in Request,
             \/ \E x \in Workspace : BeginIssue(r, x)
             \/ \E c \in Code : BeginRedeem(r, c)
             \/ \E s \in Session : BeginResolve(r, s)
             \/ Fail(r)
      PROVE  FALSE
  BY <1>1, <1>2 DEF BeginIssue, BeginRedeem, BeginResolve, Begins, Fail, database
<1>3. ASSUME NEW r \in Request, RequestStep(r)
      PROVE  FALSE
  BY <1>1, <1>3 DEF RequestStep, Reads, IssueMetadata, IssueWorkspace, InvalidateCodes,
       InsertCode, RedeemCode, RedeemMetadata, RedeemWorkspace, RevokeSessions, InsertSession,
       ResolveSession, ResolveMetadata, ResolveWorkspace, Answer, Forward, database
<1>4. ~CommitMigration
  <2> SUFFICES ASSUME CommitMigration PROVE FALSE
    OBVIOUS
  <2>1. PICK stopped \in SUBSET Workspace :
          /\ {x \in Workspace : row[x].desired = "RUNNING" /\ row[x].observed = "READY"}
               \subseteq stopped
          /\ row' = [x \in Workspace |->
               IF x \in stopped
               THEN [row[x] EXCEPT !.desired = "STOPPED", !.version = @ + 1]
               ELSE row[x]]
    BY DEF CommitMigration
  <2>2. row'[w] = [row[w] EXCEPT !.desired = "STOPPED", !.version = @ + 1]
    BY <2>1
  <2>3. row'[w].desired = "STOPPED"
    BY <2>2 DEF TypeOK, WorkspaceRow
  <2> QED BY <2>3 DEF CountsOnly
<1>5. PICK x \in Workspace, d \in {"RUNNING", "STOPPED"}, o \in {"READY", "OTHER"} :
        UpdateWorkspace(x, d, o)
  BY <1>1, <1>2, <1>3, <1>4
     DEF Next, vars, database, EnterMaintenance, LockMetadata, AbortMigration, Tick
<1> QED BY <1>5 DEF UpdateWorkspace

(* SessionsLast is violated by one kind of step, and by every step of it: a   *)
(* session that resolves ends without a reason the documentation knows        *)
(* exactly when its Workspace is written and only the version changes, as     *)
(* each reconciliation of a READY Workspace does (lifecycle.ts:70).  No race  *)
(* of requests, migrations and failures ends one early in another way.        *)
THEOREM SessionsEndEarlyByCount ==
  Spec => [][\A s \in Session :
               Resolves(s, now) => (EndsEarly(s) <=> CountsOnly(session[s].workspace))]_vars
<1>1. ASSUME TypeOK, [Next]_vars, NEW s \in Session, Resolves(s, now),
             EndsEarly(s), ~CountsOnly(session[s].workspace)
      PROVE  UNCHANGED vars
  <2>1. session'[s] = session[s]
    BY <1>1, SessionStays DEF Resolves, EndsEarly, EndsByRight
  <2>2. session[s].workspace \in Workspace
    BY <1>1 DEF TypeOK, Resolves, SessionRecord, None
  <2>3. row'[session[s].workspace].version = row[session[s].workspace].version
    BY <1>1, <2>2 DEF Resolves, Moved, Ready, EndsEarly, EndsByRight, CountsOnly
  <2> QED
    BY <1>1, <2>1, <2>2, <2>3 DEF Resolves, Expired, Blocked, Moved, Ready, EndsEarly, EndsByRight
<1>2. ASSUME TypeOK, [Next]_vars, NEW s \in Session, Resolves(s, now),
             CountsOnly(session[s].workspace)
      PROVE  EndsEarly(s)
  <2>1. session[s] \in SessionRecord /\ session[s].workspace \in Workspace
    BY <1>2 DEF TypeOK, Resolves, SessionRecord, None
  <2>2. UNCHANGED <<session, maintenance, epoch, now>>
    BY <1>2, <2>1, CountingIsAlone DEF Resolves, Moved, Ready
  <2>3. ~EndsByRight(s)
    BY <1>2, <2>1, <2>2 DEF Resolves, Blocked, Moved, Ready, EndsByRight, CountsOnly
  <2>4. ~Resolves(s, now)'
    BY <1>2, <2>1, <2>2 DEF Resolves, Moved, Ready, CountsOnly
  <2> QED BY <1>2, <2>3, <2>4 DEF EndsEarly
<1>3. TypeOK /\ [Next]_vars
        => [\A s \in Session :
              Resolves(s, now) => (EndsEarly(s) <=> CountsOnly(session[s].workspace))]_vars
  BY <1>1, <1>2
<1> QED BY <1>3, IdeTypes, PTL DEF Spec
=============================================================================
