--------------------------- MODULE ReviewPipeline ---------------------------
(* From a Workspace to an immutable review: rad-control exports a Git bundle, *)
(* stores it under its digest, records the artifact, has a pinned validator   *)
(* container parse the stored bytes, and records the review.                  *)
(*                                                                            *)
(* A bundle stands for its digest too: SHA-256 and the canonical digests tell *)
(* any two contents apart.  A call takes one step per statement, file or      *)
(* Docker call that others can observe, and keeps what it read before.        *)
EXTENDS Naturals

CONSTANTS
  Capture,      (* capture calls; each draws the UUID of its artifact         *)
  Validation,   (* validate calls in flight at a time                         *)
  Bundle,       (* what a Workspace may export                                *)
  Image,        (* validator images                                           *)
  None,         (* no row, no file                                            *)
  Damaged,      (* stored bytes that are no bundle of Bundle any more         *)
  MaxEpoch      (* bound: security epochs                                     *)

ASSUME PipelineAssumption ==
  /\ None \notin Bundle \cup Image \cup Capture
  /\ Damaged \notin Bundle \cup {None}
  /\ MaxEpoch \in Nat \ {0}

Content == Bundle \cup {Damaged}
ArtifactStatus == {"STAGED", "VALIDATED"}   (* nothing calls markRejected     *)
ArtifactRow == [digest : Bundle, status : ArtifactStatus]

(* What a validator container saw: the bytes, its own image, the epoch.       *)
Run == [bytes : Content, image : Image, epoch : 1..MaxEpoch]
ReviewRow == [digest : Bundle, profile : Image, epoch : 1..MaxEpoch, run : Run]

CaptureRecord ==
  [at : {"idle", "export", "digest", "link", "insert", "done"},
   staged : Bundle \cup {None}, digest : Bundle \cup {None}]
ASSUME NoneAssumption ==
  None \notin ArtifactRow /\ None \notin ReviewRow /\ None \notin Run

NewCapture == [at |-> "idle", staged |-> None, digest |-> None]

ValidationRecord ==
  [at : {"idle", "find", "get", "sample", "inspect", "run", "recheck", "create",
         "failed"},
   artifact : Capture \cup {None}, digest : Bundle \cup {None},
   epoch : 0..MaxEpoch, profile : Image \cup {None}, run : Run \cup {None}]
NewValidation ==
  [at |-> "idle", artifact |-> None, digest |-> None, epoch |-> 0,
   profile |-> None, run |-> None]

VARIABLES
  epoch,       (* instance_metadata: epoch, tier and posture change together  *)
  tag,         (* the image RAD_VALIDATOR_IMAGE names at the Docker daemon    *)
  pinned,      (* RAD_VALIDATOR_IMAGE_DIGEST of the running rad-control       *)
  stored,      (* the artifact volume: what lies under each digest            *)
  artifact,    (* git_artifacts                                               *)
  review,      (* review_snapshots, unique in artifact_id                     *)
  capture,
  validation

world == <<epoch, tag, pinned>>
tables == <<artifact, review>>
vars == <<world, stored, tables, capture, validation>>

Init ==
  /\ epoch = 1
  /\ tag \in Image
  /\ pinned \in Image
  /\ stored = [d \in Bundle |-> None]
  /\ artifact = [a \in Capture |-> None]
  /\ review = [a \in Capture |-> None]
  /\ capture = [c \in Capture |-> NewCapture]
  /\ validation = [v \in Validation |-> NewValidation]

-----------------------------------------------------------------------------
(* ArtifactService.capture                                                    *)

OnlyCapture == UNCHANGED <<world, tables, validation>>

(* The Workspace, a machine of its own, is RUNNING and READY right now.       *)
BeginCapture(c) ==
  /\ capture[c].at = "idle"
  /\ capture' = [capture EXCEPT ![c].at = "export"]
  /\ OnlyCapture /\ UNCHANGED stored

(* The container runs, its branch and worktree were clean when looked at;     *)
(* what is copied out then is whatever the Workspace made of it.              *)
ExportGitBundle(c) ==
  /\ capture[c].at = "export"
  /\ \E b \in Bundle :
       capture' = [capture EXCEPT ![c].at = "digest", ![c].staged = b]
  /\ OnlyCapture /\ UNCHANGED stored

(* Mutant: the artifact is recorded before its bytes are stored.              *)
DigestAndInsert(c) ==
  /\ capture[c].at = "digest"
  /\ capture' = [capture EXCEPT ![c].at = "insert", ![c].digest = capture[c].staged]
  /\ OnlyCapture /\ UNCHANGED stored

DigestStaged(c) ==
  /\ capture[c].at = "digest"
  /\ capture' = [capture EXCEPT ![c].at = "link", ![c].digest = capture[c].staged]
  /\ OnlyCapture /\ UNCHANGED stored

(* Mutant: the staged file is renamed over what is stored.                    *)
RenameIntoStore(c) ==
  /\ stored' = [stored EXCEPT ![capture[c].digest] = capture[c].staged]
  /\ capture' = [capture EXCEPT ![c].at = "insert", ![c].staged = None]

(* link does not replace a file: one that exists must have this very digest,  *)
(* or the capture fails.  The staged file is removed either way.              *)
LinkIntoStore(c) ==
  LET d == capture[c].digest IN
  /\ IF stored[d] = None
     THEN stored' = [stored EXCEPT ![d] = capture[c].staged]
     ELSE UNCHANGED stored
  /\ capture' = [capture EXCEPT
       ![c].at = IF stored[d] \in {None, d} THEN "insert" ELSE "done",
       ![c].staged = None]

Commit(c) ==
  /\ capture[c].at = "link"
  /\ LinkIntoStore(c)
  /\ OnlyCapture

InsertArtifact(c) ==
  artifact' = [artifact EXCEPT ![c] =
    [digest |-> capture[c].digest, status |-> "STAGED"]]

CreateArtifact(c) ==
  /\ capture[c].at = "insert"
  /\ InsertArtifact(c)
  /\ capture' = [capture EXCEPT ![c].at = "done"]
  /\ UNCHANGED <<world, stored, review, validation>>

(* A Docker, file or database call rejects and the staged file is discarded;  *)
(* the link and the insert may have happened all the same.                    *)
CaptureFails(c) ==
  /\ capture[c].at \notin {"idle", "done"}
  /\ \/ UNCHANGED <<stored, artifact>>
     \/ /\ capture[c].at = "link"
        /\ stored[capture[c].digest] = None
        /\ stored' = [stored EXCEPT ![capture[c].digest] = capture[c].staged]
        /\ UNCHANGED artifact
     \/ capture[c].at = "insert" /\ InsertArtifact(c) /\ UNCHANGED stored
  /\ capture' = [capture EXCEPT ![c].at = "done", ![c].staged = None]
  /\ UNCHANGED <<world, review, validation>>

-----------------------------------------------------------------------------
(* ReviewService.validateArtifact and DockerValidatorLauncher.validate        *)

OnlyValidation == UNCHANGED <<world, stored, tables, capture>>
Goto(v, at) == validation' = [validation EXCEPT ![v].at = at]
Return(v) == validation' = [validation EXCEPT ![v] = NewValidation]
FailedValidation == [NewValidation EXCEPT !.at = "failed"]

ValidateArtifact(v, a) ==
  /\ validation[v].at = "idle"
  /\ validation' = [validation EXCEPT ![v].at = "find", ![v].artifact = a]
  /\ OnlyValidation

FindByArtifact(v) ==
  /\ validation[v].at = "find"
  /\ IF review[validation[v].artifact] # None THEN Return(v) ELSE Goto(v, "get")
  /\ OnlyValidation

GetArtifact(v) ==
  /\ validation[v].at = "get"
  /\ LET row == artifact[validation[v].artifact] IN
     IF row = None THEN Return(v)
     ELSE IF row.status # "STAGED" THEN Return(v)
     ELSE validation' = [validation EXCEPT ![v].at = "sample", ![v].digest = row.digest]
  /\ OnlyValidation

SampleContext(v) ==
  /\ validation[v].at = "sample"
  /\ validation' = [validation EXCEPT ![v].at = "inspect", ![v].epoch = epoch]
  /\ OnlyValidation

(* The name must resolve to the pinned image; the profile is of the pinned    *)
(* one, whose Git binary is digested next.                                    *)
InspectImage(v) ==
  /\ validation[v].at = "inspect"
  /\ IF tag # pinned THEN Return(v)
     ELSE validation' = [validation EXCEPT ![v].at = "run", ![v].profile = pinned]
  /\ OnlyValidation

(* Mutant: the container is started by the name of the image.                 *)
LaunchedByTag(v) == tag
Launched(v) == validation[v].profile

Accepts(content, digest) == content = digest

(* The validator digests the mounted file before Git reads it, and the        *)
(* launcher compares the digest that it reports.                              *)
RunValidator(v) ==
  /\ validation[v].at = "run"
  /\ LET content == stored[validation[v].digest] IN
     IF Accepts(content, validation[v].digest)
     THEN validation' = [validation EXCEPT ![v].at = "recheck",
            ![v].run = [bytes |-> content, image |-> Launched(v), epoch |-> epoch]]
     ELSE Return(v)
  /\ OnlyValidation

SameSecurityContext(v) == epoch = validation[v].epoch

RecheckContext(v) ==
  /\ validation[v].at = "recheck"
  /\ IF SameSecurityContext(v) THEN Goto(v, "create") ELSE Return(v)
  /\ OnlyValidation

(* The transaction of createForStagedArtifact: the insert, unique in the      *)
(* artifact, and the move of the artifact from STAGED; neither without the    *)
(* other.                                                                     *)
StoreReview(v) ==
  LET a == validation[v].artifact IN
  /\ review' = [review EXCEPT ![a] =
       [digest |-> validation[v].digest, profile |-> validation[v].profile,
        epoch |-> validation[v].epoch, run |-> validation[v].run]]
  /\ artifact' = [artifact EXCEPT ![a].status = "VALIDATED"]

(* Mutants: an upsert, and two statements in two transactions.                *)
UpsertsReview(v) == StoreReview(v)
InTwoTransactions(v) ==
  /\ review[validation[v].artifact] = None
  /\ artifact[validation[v].artifact].status = "STAGED"
  /\ \/ StoreReview(v)
     \/ /\ artifact' = [artifact EXCEPT ![validation[v].artifact].status = "VALIDATED"]
        /\ UNCHANGED review

InsertsReview(v) ==
  /\ review[validation[v].artifact] = None
  /\ artifact[validation[v].artifact].status = "STAGED"
  /\ StoreReview(v)

CreateForStagedArtifact(v) ==
  /\ validation[v].at = "create"
  /\ InsertsReview(v)
  /\ Return(v)
  /\ UNCHANGED <<world, stored, capture>>

CreateConflicts(v) ==
  /\ validation[v].at = "create"
  /\ \/ review[validation[v].artifact] # None
     \/ artifact[validation[v].artifact].status # "STAGED"
  /\ Return(v)
  /\ OnlyValidation

(* A query, Docker or the validator fails, or runs into its timeout; the      *)
(* transaction may have committed all the same.                               *)
ValidationFails(v) ==
  /\ validation[v].at \notin {"idle", "failed"}
  /\ \/ UNCHANGED tables
     \/ validation[v].at = "create" /\ InsertsReview(v)
  /\ validation' = [validation EXCEPT ![v] = FailedValidation]
  /\ UNCHANGED <<world, stored, capture>>

ReturnError(v) ==
  /\ validation[v].at = "failed"
  /\ Return(v)
  /\ OnlyValidation

-----------------------------------------------------------------------------
(* Around the pipeline                                                        *)

OnlyWorld == UNCHANGED <<stored, tables, capture, validation>>

(* Mutant: the epoch grows without end.                                       *)
EpochUnbounded == TRUE
EpochCanGrow == epoch < MaxEpoch

(* A security migration commits.                                              *)
Migrate ==
  /\ EpochCanGrow
  /\ epoch' = epoch + 1
  /\ UNCHANGED <<tag, pinned>> /\ OnlyWorld

(* The operator builds or pulls an image under the same name.                 *)
BuildImage ==
  /\ tag' \in Image
  /\ UNCHANGED <<epoch, pinned>> /\ OnlyWorld

(* A disk, or a restore from a backup, changes stored bytes.                  *)
Damage(d) ==
  /\ stored[d] \notin {None, Damaged}
  /\ stored' = [stored EXCEPT ![d] = Damaged]
  /\ UNCHANGED <<world, tables, capture, validation>>

(* rad-control stops and starts, maybe with another image pinned.  Staged     *)
(* files stay behind, but nothing will ever look at them; clients see their   *)
(* calls fail.                                                                *)
Restart ==
  /\ pinned' \in Image
  /\ capture' = [c \in Capture |->
       IF capture[c].at = "idle" THEN capture[c]
       ELSE [capture[c] EXCEPT !.at = "done", !.staged = None]]
  /\ validation' = [v \in Validation |->
       IF validation[v].at = "idle" THEN validation[v] ELSE FailedValidation]
  /\ UNCHANGED <<epoch, tag, stored, tables>>

CaptureStep(c) ==
  BeginCapture(c) \/ ExportGitBundle(c) \/ DigestStaged(c) \/ Commit(c)
  \/ CreateArtifact(c)

ValidationStep(v) ==
  \/ FindByArtifact(v) \/ GetArtifact(v) \/ SampleContext(v) \/ InspectImage(v)
  \/ RunValidator(v) \/ RecheckContext(v)
  \/ CreateForStagedArtifact(v) \/ CreateConflicts(v) \/ ReturnError(v)

Next ==
  \/ \E c \in Capture : CaptureStep(c) \/ CaptureFails(c)
  \/ \E v \in Validation :
       \/ \E a \in Capture : ValidateArtifact(v, a)
       \/ ValidationStep(v) \/ ValidationFails(v)
  \/ Migrate \/ BuildImage \/ Restart
  \/ \E d \in Bundle : Damage(d)

Spec == Init /\ [][Next]_vars

(* Every call of a validation returns or is cut off by its timeout.           *)
FairSpec == Spec /\ \A v \in Validation : WF_vars(ValidationStep(v))

-----------------------------------------------------------------------------
(* Properties *)

TypeOK ==
  /\ epoch \in 1..MaxEpoch
  /\ tag \in Image /\ pinned \in Image
  /\ stored \in [Bundle -> Content \cup {None}]
  /\ artifact \in [Capture -> ArtifactRow \cup {None}]
  /\ review \in [Capture -> ReviewRow \cup {None}]
  /\ capture \in [Capture -> CaptureRecord]
  /\ validation \in [Validation -> ValidationRecord]

(* "The Workspace supplies bytes, not identity": whatever fails or is         *)
(* interrupted on the way, a recorded artifact has a file under its digest.   *)
RowHasBytes == \A a \in Capture : artifact[a] # None => stored[artifact[a].digest] # None

(* "Existing content-addressed bytes are never replaced": two captures of the *)
(* same bytes, or one that follows a damage, leave the stored file alone.     *)
BytesNeverReplaced ==
  [][\A d \in Bundle : stored[d] # None => stored'[d] \in {stored[d], Damaged}]_vars

(* A review says what it seems to say: the image of its profile made it, of   *)
(* the bytes the artifact is identified by, while the security context was    *)
(* the one that it names ("a posture or epoch change discards the result").   *)
ReviewIsGenuine ==
  \A a \in Capture : review[a] # None =>
    /\ artifact[a] # None
    /\ review[a].run = [bytes |-> artifact[a].digest, image |-> review[a].profile,
                        epoch |-> review[a].epoch]

(* What approvals and Git operations are built on.                            *)
Ledger == INSTANCE ReviewLedger WITH
  Artifact <- Capture,
  identity <- [a \in Capture |->
    IF artifact[a] = None THEN <<>> ELSE <<artifact[a].digest>>],
  review <- [a \in Capture |->
    IF review[a] = None THEN <<>>
    ELSE <<review[a].run.bytes, review[a].profile, review[a].epoch>>]

(* Artifacts and reviews are recorded once, in that order, and never change,  *)
(* however many calls capture and validate at once.                           *)
LedgerKept == Ledger!Spec

(* A validation that failed can be asked for again: no race, failure or       *)
(* restart leaves an artifact that later validations, once nothing fails any  *)
(* more, do not review, as long as its bytes are there and the pinned image   *)
(* is the one in place.                                                       *)
Asked(a) == \E v \in Validation : validation[v].at = "find" /\ validation[v].artifact = a
Failing == \E v \in Validation : validation[v].at = "failed"
Reviewable(a) == artifact[a] # None /\ tag = pinned /\ stored[artifact[a].digest] # Damaged

Retried ==
  \A a \in Capture :
    <>[](Reviewable(a) /\ ~Failing) /\ []<>Asked(a) => <>(review[a] # None)
=============================================================================
