------------------------ MODULE ReviewPipelineProofs ------------------------
(* What holds of ReviewPipeline for every number of captures, validations,    *)
(* bundles, images and epochs, and that it implements ReviewLedger.           *)
EXTENDS ReviewPipeline, TLAPS

Loaded == {"sample", "inspect", "run", "recheck", "create"}
Sampled == {"inspect", "run", "recheck", "create"}
Profiled == {"run", "recheck", "create"}
HasRun == {"recheck", "create"}

(* A capture links the file it digested, and inserts what it linked.          *)
Captures(c) ==
  /\ capture[c].at = "digest" => capture[c].staged \in Bundle
  /\ capture[c].at = "link" =>
       capture[c].digest \in Bundle /\ capture[c].staged = capture[c].digest
  /\ capture[c].at = "insert" =>
       capture[c].digest \in Bundle /\ stored[capture[c].digest] # None
  /\ capture[c].at # "done" => artifact[c] = None

(* What a validation remembers of the artifact, the context and its run.      *)
Validates(v) ==
  LET call == validation[v] IN
  /\ call.at \notin {"idle", "failed"} => call.artifact \in Capture
  /\ call.at \in Loaded =>
       artifact[call.artifact] # None /\ call.digest = artifact[call.artifact].digest
  /\ call.at \in Sampled => call.epoch \in 1..epoch
  /\ call.at \in Profiled => call.profile \in Image
  /\ call.at \in HasRun =>
       /\ call.run \in Run
       /\ call.run.bytes = call.digest /\ call.run.image = call.profile
       /\ call.epoch <= call.run.epoch /\ call.run.epoch <= epoch
  /\ call.at = "create" => call.run.epoch = call.epoch

Genuine(a) ==
  review[a] # None =>
    /\ artifact[a] # None
    /\ review[a].digest = artifact[a].digest
    /\ review[a].run = [bytes |-> artifact[a].digest, image |-> review[a].profile,
                        epoch |-> review[a].epoch]
    /\ review[a].epoch <= epoch

PInv ==
  /\ TypeOK
  /\ \A c \in Capture : Captures(c)
  /\ \A v \in Validation : Validates(v)
  /\ \A a \in Capture : Genuine(a)
  /\ RowHasBytes

-----------------------------------------------------------------------------
LEMMA PipelineInit == Init => PInv
<1> SUFFICES ASSUME Init PROVE PInv
  OBVIOUS
<1>1. NewCapture \in CaptureRecord /\ NewValidation \in ValidationRecord
  BY PipelineAssumption DEF NewCapture, CaptureRecord, NewValidation, ValidationRecord
<1>2. TypeOK
  BY <1>1, PipelineAssumption DEF Init, TypeOK
<1>3. ASSUME NEW c \in Capture PROVE Captures(c)
  BY DEF Init, Captures, NewCapture
<1>4. ASSUME NEW v \in Validation PROVE Validates(v)
  BY DEF Init, Validates, NewValidation, Loaded, Sampled, Profiled, HasRun
<1>5. (\A a \in Capture : Genuine(a)) /\ RowHasBytes
  BY DEF Init, Genuine, RowHasBytes
<1> QED BY <1>2, <1>3, <1>4, <1>5 DEF PInv

-----------------------------------------------------------------------------
(* What every step leaves: artifacts keep their identity, files stay, and the *)
(* epoch does not fall.                                                       *)
RowsStay ==
  \A a \in Capture : artifact[a] # None =>
    artifact'[a] # None /\ artifact'[a].digest = artifact[a].digest
FilesStay == \A d \in Bundle : stored[d] # None => stored'[d] # None
EpochStays == epoch <= epoch' /\ epoch' \in Nat

LEMMA CaptureFrame ==
  ASSUME PInv, FilesStay, NEW c \in Capture,
         capture'[c] = capture[c], artifact'[c] = artifact[c]
  PROVE  Captures(c)'
BY DEF PInv, Captures, FilesStay

LEMMA ValidationFrame ==
  ASSUME PInv, RowsStay, EpochStays, NEW v \in Validation,
         validation'[v] = validation[v]
  PROVE  Validates(v)'
<1>1. epoch \in Nat /\ Validates(v)
  BY PipelineAssumption DEF PInv, TypeOK
<1>2. validation[v].at \in Loaded =>
        artifact'[validation[v].artifact] # None
          /\ validation[v].digest = artifact'[validation[v].artifact].digest
  BY <1>1 DEF Validates, RowsStay, Loaded
<1>3. validation[v].at \in Sampled => validation[v].epoch \in 1..epoch'
  BY <1>1 DEF Validates, EpochStays
<1>4. validation[v].at \in HasRun => validation[v].run.epoch <= epoch'
  BY <1>1 DEF Validates, EpochStays, Run
<1> QED BY <1>1, <1>2, <1>3, <1>4 DEF Validates

LEMMA ReviewFrame ==
  ASSUME PInv, RowsStay, EpochStays, NEW a \in Capture, review'[a] = review[a]
  PROVE  Genuine(a)'
<1>1. Genuine(a) /\ epoch \in Nat
  BY PipelineAssumption DEF PInv, TypeOK
<1>2. review[a] # None => review[a].epoch \in Nat
  BY PipelineAssumption DEF PInv, TypeOK, ReviewRow
<1> QED BY <1>1, <1>2 DEF Genuine, RowsStay, EpochStays

(* A validation that returns or fails remembers nothing.                      *)
LEMMA FreshValidation ==
  /\ NewValidation \in ValidationRecord /\ FailedValidation \in ValidationRecord
  /\ NewValidation.at = "idle" /\ FailedValidation.at = "failed"
BY PipelineAssumption DEF NewValidation, FailedValidation, ValidationRecord

(* A call that ends, or any step that moves one call without touching the     *)
(* database, keeps the invariant if what the call remembers is in order.      *)
LEMMA CallStep ==
  ASSUME PInv, NEW v \in Validation, NEW new \in ValidationRecord,
         UNCHANGED <<world, stored, tables, capture>>,
         validation' = [validation EXCEPT ![v] = new],
         Validates(v)'
  PROVE  PInv'
<1>1. TypeOK'
  BY DEF PInv, TypeOK, world, tables
<1>2. RowsStay /\ FilesStay /\ EpochStays
  BY PipelineAssumption DEF PInv, TypeOK, RowsStay, FilesStay, EpochStays, world, tables
<1>3. ASSUME NEW c \in Capture PROVE Captures(c)'
  BY <1>2, CaptureFrame DEF tables
<1>4. ASSUME NEW w \in Validation PROVE Validates(w)'
  <2>1. CASE w = v
    BY <2>1
  <2>2. CASE w # v
    <3>1. validation'[w] = validation[w]
      BY <2>2 DEF PInv, TypeOK
    <3> QED BY <3>1, <1>2, ValidationFrame
  <2> QED BY <2>1, <2>2
<1>5. ASSUME NEW a \in Capture PROVE Genuine(a)'
  BY <1>2, ReviewFrame DEF tables
<1>6. RowHasBytes'
  BY DEF PInv, RowHasBytes, tables
<1> QED BY <1>1, <1>3, <1>4, <1>5, <1>6 DEF PInv

LEMMA CallEnds ==
  ASSUME PInv, NEW v \in Validation, NEW new \in {NewValidation, FailedValidation},
         validation' = [validation EXCEPT ![v] = new]
  PROVE  Validates(v)'
<1>1. validation'[v] = new /\ new.at \in {"idle", "failed"}
  BY FreshValidation DEF PInv, TypeOK
<1> QED BY <1>1 DEF Validates, Loaded, Sampled, Profiled, HasRun

(* The steps of a validation up to its transaction.                           *)
ReadingStep(v) ==
  \/ \E a \in Capture : ValidateArtifact(v, a)
  \/ FindByArtifact(v) \/ GetArtifact(v) \/ SampleContext(v) \/ InspectImage(v)
  \/ RunValidator(v) \/ RecheckContext(v) \/ CreateConflicts(v) \/ ReturnError(v)

LEMMA ReadingKeeps ==
  ASSUME PInv, NEW v \in Validation, ReadingStep(v)
  PROVE  PInv'
<1> DEFINE call == validation[v]
<1>0. call \in ValidationRecord /\ Validates(v) /\ epoch \in 1..MaxEpoch /\ MaxEpoch \in Nat
  BY PipelineAssumption DEF PInv, TypeOK
<1>1. UNCHANGED <<world, stored, tables, capture>>
  BY DEF ReadingStep, ValidateArtifact, FindByArtifact, GetArtifact, SampleContext,
    InspectImage, RunValidator, RecheckContext, CreateConflicts, ReturnError, OnlyValidation
<1>2. CASE Return(v)
  <2>1. validation' = [validation EXCEPT ![v] = NewValidation]
    BY <1>2 DEF Return
  <2>2. Validates(v)'
    BY <2>1, CallEnds
  <2> QED BY <1>1, <2>1, <2>2, FreshValidation, CallStep
<1>3. ASSUME NEW a \in Capture, ValidateArtifact(v, a) PROVE PInv'
  <2> DEFINE new == [call EXCEPT !.at = "find", !.artifact = a]
  <2>1. validation' = [validation EXCEPT ![v] = new] /\ new \in ValidationRecord
    BY <1>0, <1>3 DEF ValidateArtifact, ValidationRecord
  <2>2. validation'[v] = new
    BY <2>1 DEF PInv, TypeOK
  <2>3. Validates(v)'
    BY <1>0, <2>2 DEF Validates, Loaded, Sampled, Profiled, HasRun, ValidationRecord
  <2> HIDE DEF new
  <2> QED BY <1>1, <2>1, <2>3, CallStep
<1>4. CASE FindByArtifact(v) /\ ~Return(v)
  <2> DEFINE new == [call EXCEPT !.at = "get"]
  <2>1. validation' = [validation EXCEPT ![v] = new] /\ new \in ValidationRecord /\ call.at = "find"
    BY <1>0, <1>4 DEF FindByArtifact, Goto, ValidationRecord
  <2>2. validation'[v] = new
    BY <2>1 DEF PInv, TypeOK
  <2>3. Validates(v)'
    BY <1>0, <2>1, <2>2 DEF Validates, Loaded, Sampled, Profiled, HasRun, ValidationRecord
  <2> HIDE DEF new
  <2> QED BY <1>1, <2>1, <2>3, CallStep
<1>5. CASE GetArtifact(v) /\ ~Return(v)
  <2> DEFINE row == artifact[call.artifact]
             new == [call EXCEPT !.at = "sample", !.digest = row.digest]
  <2>1. call.at = "get" /\ call.artifact \in Capture /\ row # None
    BY <1>0, <1>5 DEF GetArtifact, Validates
  <2>2. row \in ArtifactRow
    BY <2>1 DEF PInv, TypeOK
  <2>3. validation' = [validation EXCEPT ![v] = new] /\ new \in ValidationRecord
    BY <1>0, <1>5, <2>1, <2>2 DEF GetArtifact, ValidationRecord, ArtifactRow
  <2>4. validation'[v] = new
    BY <2>3 DEF PInv, TypeOK
  <2>5. Validates(v)'
    BY <1>0, <1>1, <2>1, <2>4 DEF Validates, Loaded, Sampled, Profiled, HasRun, ValidationRecord, tables
  <2> HIDE DEF new
  <2> QED BY <1>1, <2>3, <2>5, CallStep
<1>6. CASE SampleContext(v)
  <2> DEFINE new == [call EXCEPT !.at = "inspect", !.epoch = epoch]
  <2>0. epoch \in 0..MaxEpoch
    BY <1>0
  <2>1. validation' = [validation EXCEPT ![v] = new] /\ new \in ValidationRecord /\ call.at = "sample"
    BY <1>0, <1>6, <2>0 DEF SampleContext, ValidationRecord
  <2>2. validation'[v] = new
    BY <2>1 DEF PInv, TypeOK
  <2>3. Validates(v)'
    BY <1>0, <1>1, <2>1, <2>2 DEF Validates, Loaded, Sampled, Profiled, HasRun, ValidationRecord,
      tables, world
  <2> HIDE DEF new
  <2> QED BY <1>1, <2>1, <2>3, CallStep
<1>7. CASE InspectImage(v) /\ ~Return(v)
  <2> DEFINE new == [call EXCEPT !.at = "run", !.profile = pinned]
  <2>1. pinned \in Image
    BY DEF PInv, TypeOK
  <2>2. validation' = [validation EXCEPT ![v] = new] /\ new \in ValidationRecord /\ call.at = "inspect"
    BY <1>0, <1>7, <2>1 DEF InspectImage, ValidationRecord
  <2>3. validation'[v] = new
    BY <2>2 DEF PInv, TypeOK
  <2>4. Validates(v)'
    BY <1>0, <1>1, <2>1, <2>2, <2>3 DEF Validates, Loaded, Sampled, Profiled, HasRun,
      ValidationRecord, tables, world
  <2> HIDE DEF new
  <2> QED BY <1>1, <2>2, <2>4, CallStep
<1>8. CASE RunValidator(v) /\ ~Return(v)
  <2> DEFINE run == [bytes |-> stored[call.digest], image |-> call.profile, epoch |-> epoch]
             new == [call EXCEPT !.at = "recheck", !.run = run]
  <2>1. /\ call.at = "run" /\ stored[call.digest] = call.digest
        /\ validation' = [validation EXCEPT ![v] = new]
    BY <1>8 DEF RunValidator, Accepts, Launched
  <2>2. call.artifact \in Capture /\ artifact[call.artifact] # None
          /\ call.digest = artifact[call.artifact].digest /\ call.profile \in Image
          /\ call.epoch \in 1..epoch
    BY <1>0, <2>1 DEF Validates, Loaded, Sampled, Profiled
  <2>3. call.digest \in Bundle
    BY <2>2 DEF PInv, TypeOK, ArtifactRow
  <2>4. run \in Run
    BY <1>0, <2>1, <2>2, <2>3 DEF Run, Content
  <2>5. run.bytes = call.digest /\ run.image = call.profile /\ run.epoch = epoch
    BY <2>1
  <2> HIDE DEF run
  <2>6. new \in ValidationRecord
    BY <1>0, <2>4 DEF ValidationRecord
  <2>7. validation'[v] = new
    BY <2>1 DEF PInv, TypeOK
  <2>8. /\ new.at = "recheck" /\ new.artifact = call.artifact /\ new.digest = call.digest
        /\ new.epoch = call.epoch /\ new.profile = call.profile /\ new.run = run
    BY <1>0 DEF ValidationRecord
  <2> HIDE DEF new
  <2>9. Validates(v)'
    BY <1>0, <1>1, <2>2, <2>4, <2>5, <2>7, <2>8 DEF Validates, Loaded, Sampled, Profiled, HasRun,
      tables, world
  <2> QED BY <1>1, <2>1, <2>6, <2>9, CallStep
<1>9. CASE RecheckContext(v) /\ ~Return(v)
  <2> DEFINE new == [call EXCEPT !.at = "create"]
  <2>1. /\ validation' = [validation EXCEPT ![v] = new] /\ new \in ValidationRecord
        /\ call.at = "recheck" /\ epoch = call.epoch
    BY <1>0, <1>9 DEF RecheckContext, Goto, SameSecurityContext, ValidationRecord
  <2>2. validation'[v] = new
    BY <2>1 DEF PInv, TypeOK
  <2>3. call.run \in Run /\ call.run.epoch \in Nat /\ call.run.epoch = epoch
    BY <1>0, <2>1 DEF Validates, HasRun, Run
  <2>4. /\ new.at = "create" /\ new.artifact = call.artifact /\ new.digest = call.digest
        /\ new.epoch = call.epoch /\ new.profile = call.profile /\ new.run = call.run
    BY <1>0 DEF ValidationRecord
  <2> HIDE DEF new
  <2>5. Validates(v)'
    BY <1>0, <1>1, <2>1, <2>2, <2>3, <2>4 DEF Validates, Loaded, Sampled, Profiled, HasRun, tables, world
  <2> QED BY <1>1, <2>1, <2>5, CallStep
<1> QED
  BY <1>2, <1>3, <1>4, <1>5, <1>6, <1>7, <1>8, <1>9
  DEF ReadingStep, CreateConflicts, ReturnError

-----------------------------------------------------------------------------
(* The transaction that stores a review.                                      *)
LEMMA StoreKeeps ==
  ASSUME PInv, NEW v \in Validation, NEW new \in {NewValidation, FailedValidation},
         validation[v].at = "create", InsertsReview(v),
         validation' = [validation EXCEPT ![v] = new],
         UNCHANGED <<world, stored, capture>>
  PROVE  PInv'
<1> DEFINE call == validation[v]
           a == call.artifact
           row == [digest |-> call.digest, profile |-> call.profile,
                   epoch |-> call.epoch, run |-> call.run]
<1>0. call \in ValidationRecord /\ epoch \in 1..MaxEpoch /\ MaxEpoch \in Nat
  BY PipelineAssumption DEF PInv, TypeOK
<1>1. /\ a \in Capture /\ artifact[a] # None /\ call.digest = artifact[a].digest
      /\ call.epoch \in 1..epoch /\ call.profile \in Image
      /\ call.run \in Run /\ call.run.bytes = call.digest /\ call.run.image = call.profile
      /\ call.run.epoch = call.epoch
  BY DEF PInv, Validates, Loaded, Sampled, Profiled, HasRun
<1>2. artifact[a] \in ArtifactRow /\ call.digest \in Bundle
  BY <1>1 DEF PInv, TypeOK, ArtifactRow
<1>3. row \in ReviewRow
  BY <1>0, <1>1, <1>2 DEF ReviewRow
<1>4. review' = [review EXCEPT ![a] = row]
  BY DEF InsertsReview, StoreReview
<1> DEFINE changed == [artifact[a] EXCEPT !.status = "VALIDATED"]
<1>5. /\ artifact' = [artifact EXCEPT ![a] = changed]
      /\ changed \in ArtifactRow /\ changed.digest = artifact[a].digest
  <2>1. artifact' = [artifact EXCEPT ![a] = changed]
    BY DEF InsertsReview, StoreReview
  <2>2. changed \in ArtifactRow /\ changed.digest = artifact[a].digest
    BY <1>2 DEF ArtifactRow, ArtifactStatus
  <2> QED BY <2>1, <2>2
<1> HIDE DEF changed
<1>6. TypeOK'
  <2>1. artifact' \in [Capture -> ArtifactRow \cup {None}]
    BY <1>5 DEF PInv, TypeOK
  <2>2. review' \in [Capture -> ReviewRow \cup {None}]
    BY <1>3, <1>4 DEF PInv, TypeOK
  <2>3. validation' \in [Validation -> ValidationRecord]
    BY FreshValidation DEF PInv, TypeOK
  <2> QED BY <2>1, <2>2, <2>3 DEF PInv, TypeOK, world
<1>7. RowsStay
  BY <1>1, <1>5, NoneAssumption DEF RowsStay, PInv, TypeOK
<1>8. EpochStays /\ FilesStay
  BY <1>0 DEF EpochStays, FilesStay, world
<1>9. ASSUME NEW c \in Capture PROVE Captures(c)'
  <2>1. artifact'[c] = None \/ artifact[c] # None
    BY <1>1, <1>5 DEF PInv, TypeOK
  <2> QED BY <2>1 DEF PInv, Captures
<1>10. ASSUME NEW w \in Validation PROVE Validates(w)'
  <2>1. CASE w = v
    BY <2>1, CallEnds
  <2>2. CASE w # v
    <3>1. validation'[w] = validation[w]
      BY <2>2 DEF PInv, TypeOK
    <3> QED BY <3>1, <1>7, <1>8, ValidationFrame
  <2> QED BY <2>1, <2>2
<1>11. ASSUME NEW b \in Capture PROVE Genuine(b)'
  <2>1. CASE b = a
    <3>1. review'[b] = row /\ artifact'[b] = changed /\ changed # None
      BY <1>1, <1>4, <1>5, <2>1, NoneAssumption DEF PInv, TypeOK
    <3>2. call.run = [bytes |-> call.digest, image |-> call.profile, epoch |-> call.epoch]
      BY <1>1 DEF Run
    <3>3. call.epoch <= epoch' /\ epoch' = epoch
      BY <1>0, <1>1 DEF world
    <3> QED BY <1>1, <1>5, <3>1, <3>2, <3>3 DEF Genuine
  <2>2. CASE b # a
    <3>1. review'[b] = review[b]
      BY <1>4, <2>2 DEF PInv, TypeOK
    <3> QED BY <3>1, <1>7, <1>8, ReviewFrame
  <2> QED BY <2>1, <2>2
<1>12. RowHasBytes'
  BY <1>1, <1>5 DEF PInv, TypeOK, RowHasBytes
<1> QED BY <1>6, <1>9, <1>10, <1>11, <1>12 DEF PInv

LEMMA ValidationKeeps ==
  ASSUME PInv, NEW v \in Validation,
         CreateForStagedArtifact(v) \/ ValidationFails(v)
  PROVE  PInv'
<1>1. CASE CreateForStagedArtifact(v)
  BY <1>1, StoreKeeps DEF CreateForStagedArtifact, Return
<1>2. CASE ValidationFails(v) /\ UNCHANGED tables
  BY <1>2, CallEnds, CallStep, FreshValidation DEF ValidationFails
<1>3. CASE ValidationFails(v) /\ ~UNCHANGED tables
  BY <1>3, StoreKeeps DEF ValidationFails
<1> QED BY <1>1, <1>2, <1>3

-----------------------------------------------------------------------------
(* A step of a capture that leaves the tables alone.                          *)
LEMMA CaptureMoves ==
  ASSUME PInv, NEW c \in Capture, NEW new \in CaptureRecord,
         capture' = [capture EXCEPT ![c] = new],
         UNCHANGED <<world, tables, validation>>,
         FilesStay, stored' \in [Bundle -> Content \cup {None}],
         Captures(c)'
  PROVE  PInv'
<1>1. TypeOK'
  BY DEF PInv, TypeOK, world, tables
<1>2. RowsStay /\ EpochStays
  BY PipelineAssumption DEF PInv, TypeOK, RowsStay, EpochStays, world, tables
<1>3. ASSUME NEW d \in Capture PROVE Captures(d)'
  <2>1. CASE d = c
    BY <2>1
  <2>2. CASE d # c
    <3>1. capture'[d] = capture[d] /\ artifact'[d] = artifact[d]
      BY <2>2 DEF PInv, TypeOK, tables
    <3> QED BY <3>1, CaptureFrame
  <2> QED BY <2>1, <2>2
<1>4. ASSUME NEW v \in Validation PROVE Validates(v)'
  BY <1>2, ValidationFrame
<1>5. ASSUME NEW a \in Capture PROVE Genuine(a)'
  BY <1>2, ReviewFrame DEF tables
<1>6. RowHasBytes'
  BY DEF PInv, TypeOK, RowHasBytes, ArtifactRow, FilesStay, tables
<1> QED BY <1>1, <1>3, <1>4, <1>5, <1>6 DEF PInv

(* The insert of an artifact whose bytes are stored.                          *)
LEMMA InsertKeeps ==
  ASSUME PInv, NEW c \in Capture, capture[c].at = "insert", InsertArtifact(c),
         NEW new \in CaptureRecord, new.at = "done",
         capture' = [capture EXCEPT ![c] = new],
         UNCHANGED <<world, stored, review, validation>>
  PROVE  PInv'
<1> DEFINE row == [digest |-> capture[c].digest, status |-> "STAGED"]
<1>1. /\ capture[c].digest \in Bundle /\ stored[capture[c].digest] # None
      /\ artifact[c] = None
  BY DEF PInv, Captures
<1>2. artifact' = [artifact EXCEPT ![c] = row] /\ row \in ArtifactRow /\ row # None
  BY <1>1, NoneAssumption DEF InsertArtifact, ArtifactRow, ArtifactStatus
<1>3. TypeOK'
  BY <1>2 DEF PInv, TypeOK, world
<1>4. RowsStay /\ EpochStays /\ FilesStay
  <2>1. RowsStay
    BY <1>1, <1>2 DEF PInv, TypeOK, RowsStay
  <2> QED BY <2>1, PipelineAssumption DEF PInv, TypeOK, EpochStays, FilesStay, world
<1>5. ASSUME NEW d \in Capture PROVE Captures(d)'
  <2>1. CASE d = c
    BY <2>1 DEF PInv, TypeOK, Captures
  <2>2. CASE d # c
    <3>1. capture'[d] = capture[d] /\ artifact'[d] = artifact[d]
      BY <1>2, <2>2 DEF PInv, TypeOK
    <3> QED BY <3>1, <1>4, CaptureFrame
  <2> QED BY <2>1, <2>2
<1>6. ASSUME NEW v \in Validation PROVE Validates(v)'
  BY <1>4, ValidationFrame
<1>7. ASSUME NEW a \in Capture PROVE Genuine(a)'
  BY <1>4, ReviewFrame
<1>8. RowHasBytes'
  BY <1>1, <1>2 DEF PInv, TypeOK, RowHasBytes
<1> QED BY <1>3, <1>5, <1>6, <1>7, <1>8 DEF PInv

LEMMA CaptureKeeps ==
  ASSUME PInv, NEW c \in Capture, CaptureStep(c) \/ CaptureFails(c)
  PROVE  PInv'
<1> DEFINE call == capture[c]
<1>0. call \in CaptureRecord /\ Captures(c) /\ stored \in [Bundle -> Content \cup {None}]
  BY DEF PInv, TypeOK
<1>1. CASE BeginCapture(c)
  <2> DEFINE new == [call EXCEPT !.at = "export"]
  <2>1. capture' = [capture EXCEPT ![c] = new] /\ new \in CaptureRecord /\ new.at = "export"
    BY <1>0, <1>1 DEF BeginCapture, CaptureRecord
  <2>2. capture'[c] = new /\ artifact[c] = None /\ FilesStay
    BY <1>0, <1>1, <2>1 DEF BeginCapture, Captures, PInv, TypeOK, FilesStay
  <2> HIDE DEF new
  <2>3. Captures(c)'
    BY <1>1, <2>1, <2>2 DEF Captures, BeginCapture, OnlyCapture, tables
  <2> QED BY <1>0, <1>1, <2>1, <2>2, <2>3, CaptureMoves DEF BeginCapture, OnlyCapture
<1>2. CASE ExportGitBundle(c)
  <2>1. PICK b \in Bundle :
          capture' = [capture EXCEPT ![c].at = "digest", ![c].staged = b]
    BY <1>2 DEF ExportGitBundle
  <2> DEFINE new == [call EXCEPT !.at = "digest", !.staged = b]
  <2>2. /\ capture' = [capture EXCEPT ![c] = new] /\ new \in CaptureRecord
        /\ new.at = "digest" /\ new.staged = b
    BY <1>0, <2>1 DEF CaptureRecord
  <2>3. capture'[c] = new /\ artifact[c] = None /\ FilesStay
    BY <1>0, <1>2, <2>2 DEF ExportGitBundle, Captures, PInv, TypeOK, FilesStay
  <2> HIDE DEF new
  <2>4. Captures(c)'
    BY <1>2, <2>2, <2>3 DEF Captures, ExportGitBundle, OnlyCapture, tables
  <2> QED BY <1>0, <1>2, <2>2, <2>3, <2>4, CaptureMoves DEF ExportGitBundle, OnlyCapture
<1>3. CASE DigestStaged(c)
  <2> DEFINE new == [call EXCEPT !.at = "link", !.digest = call.staged]
  <2>1. /\ capture' = [capture EXCEPT ![c] = new] /\ new \in CaptureRecord
        /\ new.at = "link" /\ new.staged = call.staged /\ new.digest = call.staged
        /\ call.staged \in Bundle
    BY <1>0, <1>3 DEF DigestStaged, CaptureRecord, Captures
  <2>2. capture'[c] = new /\ artifact[c] = None /\ FilesStay
    BY <1>0, <1>3, <2>1 DEF DigestStaged, Captures, PInv, TypeOK, FilesStay
  <2> HIDE DEF new
  <2>3. Captures(c)'
    BY <1>3, <2>1, <2>2 DEF Captures, DigestStaged, OnlyCapture, tables
  <2> QED BY <1>0, <1>3, <2>1, <2>2, <2>3, CaptureMoves DEF DigestStaged, OnlyCapture
<1>4. CASE Commit(c)
  <2> DEFINE d == call.digest
             next == IF stored[d] \in {None, d} THEN "insert" ELSE "done"
             new == [call EXCEPT !.at = next, !.staged = None]
  <2>1. d \in Bundle /\ call.staged = d /\ call.at = "link" /\ artifact[c] = None /\ d # None
    BY <1>0, <1>4, PipelineAssumption DEF Commit, Captures
  <2>2. /\ capture' = [capture EXCEPT ![c] = new] /\ new \in CaptureRecord
        /\ new.at = next /\ new.digest = d
    BY <1>0, <1>4 DEF Commit, LinkIntoStore, CaptureRecord
  <2>3. /\ stored' \in [Bundle -> Content \cup {None}] /\ FilesStay
        /\ stored'[d] # None
    BY <1>0, <1>4, <2>1 DEF Commit, LinkIntoStore, FilesStay, Content
  <2>4. capture'[c] = new /\ new.at \in {"insert", "done"}
    BY <2>2 DEF PInv, TypeOK
  <2> HIDE DEF new, next
  <2>5. Captures(c)'
    BY <1>4, <2>1, <2>2, <2>3, <2>4 DEF Captures, Commit, OnlyCapture, tables
  <2> QED BY <1>4, <2>2, <2>3, <2>5, CaptureMoves DEF Commit, OnlyCapture
<1>5. CASE CreateArtifact(c)
  <2> DEFINE new == [call EXCEPT !.at = "done"]
  <2>1. capture' = [capture EXCEPT ![c] = new] /\ new \in CaptureRecord /\ new.at = "done"
    BY <1>0, <1>5 DEF CreateArtifact, CaptureRecord
  <2> HIDE DEF new
  <2> QED BY <1>5, <2>1, InsertKeeps DEF CreateArtifact
<1>6. CASE CaptureFails(c)
  <2> DEFINE new == [call EXCEPT !.at = "done", !.staged = None]
  <2>1. capture' = [capture EXCEPT ![c] = new] /\ new \in CaptureRecord /\ new.at = "done"
    BY <1>0, <1>6 DEF CaptureFails, CaptureRecord
  <2>2. capture'[c] = new
    BY <2>1 DEF PInv, TypeOK
  <2> HIDE DEF new
  <2>3. Captures(c)'
    BY <2>1, <2>2 DEF Captures
  <2>4. CASE UNCHANGED <<stored, artifact>>
    BY <1>0, <1>6, <2>1, <2>3, <2>4, CaptureMoves DEF CaptureFails, FilesStay, tables
  <2>5. CASE /\ call.at = "link" /\ stored[call.digest] = None
             /\ stored' = [stored EXCEPT ![call.digest] = call.staged]
             /\ UNCHANGED artifact
    <3>1. call.staged \in Bundle /\ call.staged # None
      BY <1>0, <2>5, PipelineAssumption DEF Captures
    <3>2. stored' \in [Bundle -> Content \cup {None}] /\ FilesStay
      BY <1>0, <2>5, <3>1 DEF FilesStay, Content
    <3> QED BY <1>6, <2>1, <2>3, <2>5, <3>2, CaptureMoves DEF CaptureFails, tables
  <2>6. CASE call.at = "insert" /\ InsertArtifact(c) /\ UNCHANGED stored
    BY <1>6, <2>1, <2>6, InsertKeeps DEF CaptureFails
  <2> QED BY <1>6, <2>4, <2>5, <2>6 DEF CaptureFails
<1> QED BY <1>1, <1>2, <1>3, <1>4, <1>5, <1>6 DEF CaptureStep

-----------------------------------------------------------------------------
(* Migrations, new images, damage and restarts.                               *)
WorldStep == Migrate \/ BuildImage \/ Restart \/ \E d \in Bundle : Damage(d)

LEMMA WorldKeeps ==
  ASSUME PInv, WorldStep
  PROVE  PInv'
<1>0. epoch \in 1..MaxEpoch /\ MaxEpoch \in Nat
  BY PipelineAssumption DEF PInv, TypeOK
<1>1. UNCHANGED tables /\ RowsStay
  BY DEF WorldStep, Migrate, BuildImage, Restart, Damage, OnlyWorld, tables, RowsStay
<1>2. EpochStays /\ epoch' \in 1..MaxEpoch
  <2>1. epoch' = epoch \/ (epoch < MaxEpoch /\ epoch' = epoch + 1)
    BY DEF WorldStep, Migrate, EpochCanGrow, BuildImage, Restart, Damage, world
  <2> QED BY <1>0, <2>1 DEF EpochStays
<1>3. FilesStay /\ stored' \in [Bundle -> Content \cup {None}]
  <2>1. CASE \E d \in Bundle : Damage(d)
    BY <2>1, PipelineAssumption DEF Damage, FilesStay, PInv, TypeOK, Content
  <2>2. CASE UNCHANGED stored
    BY <2>2 DEF FilesStay, PInv, TypeOK
  <2> QED BY <2>1, <2>2 DEF WorldStep, Migrate, BuildImage, Restart, OnlyWorld
<1>4. tag' \in Image /\ pinned' \in Image
  BY DEF WorldStep, Migrate, BuildImage, Restart, Damage, world, PInv, TypeOK
<1>5. \/ UNCHANGED <<capture, validation>>
      \/ Restart
  BY DEF WorldStep, Migrate, BuildImage, Damage, OnlyWorld
<1>6. CASE UNCHANGED <<capture, validation>>
  <2>1. TypeOK'
    BY <1>1, <1>2, <1>3, <1>4, <1>6 DEF PInv, TypeOK, tables
  <2>2. ASSUME NEW c \in Capture PROVE Captures(c)'
    BY <1>1, <1>3, <1>6, CaptureFrame DEF tables
  <2>3. ASSUME NEW v \in Validation PROVE Validates(v)'
    BY <1>1, <1>2, <1>6, ValidationFrame
  <2>4. ASSUME NEW a \in Capture PROVE Genuine(a)'
    BY <1>1, <1>2, ReviewFrame DEF tables
  <2>5. RowHasBytes'
    BY <1>1, <1>3 DEF PInv, TypeOK, RowHasBytes, ArtifactRow, FilesStay, tables
  <2> QED BY <2>1, <2>2, <2>3, <2>4, <2>5 DEF PInv
<1>7. CASE Restart
  <2>1. ASSUME NEW c \in Capture
        PROVE  /\ capture'[c] \in CaptureRecord
               /\ capture'[c] = capture[c] \/ capture'[c].at = "done"
    BY <1>7 DEF Restart, PInv, TypeOK, CaptureRecord
  <2>2. capture' \in [Capture -> CaptureRecord]
    <3>1. capture' = [c \in Capture |-> capture'[c]]
      BY <1>7 DEF Restart
    <3> QED BY <2>1, <3>1
  <2>3. ASSUME NEW v \in Validation
        PROVE  /\ validation'[v] \in ValidationRecord
               /\ validation'[v].at \in {"idle", "failed"}
    BY <1>7, FreshValidation DEF Restart, PInv, TypeOK
  <2>4. validation' \in [Validation -> ValidationRecord]
    <3>1. validation' = [v \in Validation |-> validation'[v]]
      BY <1>7 DEF Restart
    <3> QED BY <2>3, <3>1
  <2>5. TypeOK'
    BY <1>1, <1>2, <1>3, <1>4, <2>2, <2>4 DEF PInv, TypeOK, tables
  <2>6. ASSUME NEW c \in Capture PROVE Captures(c)'
    BY <1>1, <1>3, <2>1, CaptureFrame DEF Captures, tables
  <2>7. ASSUME NEW v \in Validation PROVE Validates(v)'
    BY <2>3 DEF Validates, Loaded, Sampled, Profiled, HasRun
  <2>8. ASSUME NEW a \in Capture PROVE Genuine(a)'
    BY <1>1, <1>2, ReviewFrame DEF tables
  <2>9. RowHasBytes'
    BY <1>1, <1>3 DEF PInv, TypeOK, RowHasBytes, ArtifactRow, FilesStay, tables
  <2> QED BY <2>5, <2>6, <2>7, <2>8, <2>9 DEF PInv
<1> QED BY <1>5, <1>6, <1>7

LEMMA PipelineStep == PInv /\ [Next]_vars => PInv'
<1> SUFFICES ASSUME PInv, [Next]_vars PROVE PInv'
  OBVIOUS
<1>1. ASSUME NEW c \in Capture, CaptureStep(c) \/ CaptureFails(c) PROVE PInv'
  BY <1>1, CaptureKeeps
<1>2. ASSUME NEW v \in Validation,
             (\E a \in Capture : ValidateArtifact(v, a)) \/ ValidationStep(v)
               \/ ValidationFails(v)
      PROVE  PInv'
  BY <1>2, ReadingKeeps, ValidationKeeps DEF ReadingStep, ValidationStep
<1>3. CASE Migrate \/ BuildImage \/ Restart \/ \E d \in Bundle : Damage(d)
  BY <1>3, WorldKeeps DEF WorldStep
<1>4. CASE UNCHANGED vars
  BY <1>4 DEF vars, world, tables, PInv, TypeOK, Captures, Validates, Genuine, RowHasBytes
<1> QED BY <1>1, <1>2, <1>3, <1>4 DEF Next

(* The invariant: what each call remembers agrees with the tables and files   *)
(* that other calls, migrations and restarts change in the meantime.          *)
THEOREM PipelineInvariance == Spec => []PInv
BY PipelineInit, PipelineStep, PTL DEF Spec

(* Variables keep their types, for every number of calls.                     *)
THEOREM PipelineTypes == Spec => []TypeOK
<1>1. PInv => TypeOK
  BY DEF PInv
<1> QED BY <1>1, PipelineInvariance, PTL

(* A recorded artifact has bytes under its digest, wherever a capture failed. *)
THEOREM ArtifactStored == Spec => []RowHasBytes
<1>1. PInv => RowHasBytes
  BY DEF PInv
<1> QED BY <1>1, PipelineInvariance, PTL

(* A review is what the image of its profile made of the identified bytes in  *)
(* the security context that the review names.                                *)
THEOREM ReviewGenuine == Spec => []ReviewIsGenuine
<1>1. PInv => ReviewIsGenuine
  BY DEF PInv, Genuine, ReviewIsGenuine
<1> QED BY <1>1, PipelineInvariance, PTL

-----------------------------------------------------------------------------
(* Stored bytes are never replaced: a capture that finds a file under its     *)
(* digest leaves it alone, damaged or not.                                    *)
THEOREM StoreKept == Spec => BytesNeverReplaced
<1>1. ASSUME PInv, [Next]_vars, NEW d \in Bundle, stored[d] # None
      PROVE  stored'[d] \in {stored[d], Damaged}
  <2>1. stored \in [Bundle -> Content \cup {None}]
    BY <1>1 DEF PInv, TypeOK
  <2>2. CASE UNCHANGED stored
    BY <2>2
  <2>3. ASSUME NEW e \in Bundle, Damage(e) PROVE stored'[d] \in {stored[d], Damaged}
    BY <2>1, <2>3 DEF Damage
  <2>4. ASSUME NEW c \in Capture, Commit(c) \/ CaptureFails(c)
        PROVE  stored'[d] \in {stored[d], Damaged}
    BY <1>1, <2>1, <2>4 DEF Commit, LinkIntoStore, CaptureFails
  <2> QED
    BY <1>1, <2>2, <2>3, <2>4
    DEF Next, vars, CaptureStep, ValidationStep, BeginCapture, ExportGitBundle, DigestStaged,
      CreateArtifact, ValidateArtifact, FindByArtifact, GetArtifact, SampleContext, InspectImage,
      RunValidator, RecheckContext, CreateForStagedArtifact, CreateConflicts, ValidationFails,
      ReturnError, Migrate, BuildImage, Restart, OnlyCapture, OnlyValidation, OnlyWorld
<1>2. PInv /\ [Next]_vars => [\A d \in Bundle : stored[d] # None => stored'[d] \in {stored[d], Damaged}]_vars
  BY <1>1
<1> QED BY <1>2, PipelineInvariance, PTL DEF Spec, BytesNeverReplaced

-----------------------------------------------------------------------------
(* The pipeline implements the ledger.                                        *)
Identity == [a \in Capture |->
  IF artifact[a] = None THEN <<>> ELSE <<artifact[a].digest>>]
Reviewed == [a \in Capture |->
  IF review[a] = None THEN <<>>
  ELSE <<review[a].run.bytes, review[a].profile, review[a].epoch>>]

LEMMA LedgerInit == Init => Ledger!Init
BY DEF Init, Ledger!Init

LEMMA LedgerRecord ==
  ASSUME PInv, NEW c \in Capture, capture[c].at = "insert", InsertArtifact(c),
         UNCHANGED <<world, review>>
  PROVE  Ledger!Record(c)
<1>1. capture[c].digest \in Bundle /\ artifact[c] = None
  BY DEF PInv, Captures
<1> DEFINE row == [digest |-> capture[c].digest, status |-> "STAGED"]
<1>2. artifact' = [artifact EXCEPT ![c] = row] /\ row # None /\ artifact \in [Capture -> ArtifactRow \cup {None}]
  BY <1>1, NoneAssumption DEF InsertArtifact, ArtifactRow, ArtifactStatus, PInv, TypeOK
<1>3. row.digest = capture[c].digest
  OBVIOUS
<1> HIDE DEF row
<1>4. Identity' = [Identity EXCEPT ![c] = <<capture[c].digest>>]
  BY <1>2, <1>3 DEF Identity
<1>5. Identity[c] = <<>> /\ Reviewed' = Reviewed /\ epoch' = epoch
  BY <1>1 DEF Identity, Reviewed, world
<1> QED BY <1>1, <1>4, <1>5 DEF Ledger!Record, Identity, Reviewed

LEMMA LedgerReview ==
  ASSUME PInv, NEW v \in Validation, validation[v].at = "create", InsertsReview(v),
         UNCHANGED world, NEW a \in Capture, a = validation[v].artifact
  PROVE  Ledger!Review(a)
<1> DEFINE call == validation[v]
           row == [digest |-> call.digest, profile |-> call.profile,
                   epoch |-> call.epoch, run |-> call.run]
           changed == [artifact[a] EXCEPT !.status = "VALIDATED"]
<1>1. /\ a \in Capture /\ artifact[a] # None /\ call.digest = artifact[a].digest
      /\ call.epoch \in 1..epoch /\ call.profile \in Image /\ call.run.bytes = call.digest
      /\ call.run \in Run
  BY DEF PInv, Validates, Loaded, Sampled, Profiled, HasRun
<1>2. /\ artifact[a] \in ArtifactRow
      /\ artifact \in [Capture -> ArtifactRow \cup {None}]
      /\ review \in [Capture -> ReviewRow \cup {None}]
      /\ call \in ValidationRecord /\ epoch \in 1..MaxEpoch
  BY <1>1 DEF PInv, TypeOK
<1>3. row \in ReviewRow
  BY <1>1, <1>2, PipelineAssumption DEF ReviewRow, ArtifactRow
<1>4. /\ review[a] = None /\ review' = [review EXCEPT ![a] = row]
      /\ artifact' = [artifact EXCEPT ![a] = changed]
  BY DEF InsertsReview, StoreReview
<1>5. changed \in ArtifactRow /\ changed.digest = artifact[a].digest
  BY <1>2 DEF ArtifactRow, ArtifactStatus
<1>6. row # None /\ changed # None
  BY <1>3, <1>5, NoneAssumption
<1>7. row.run.bytes = artifact[a].digest /\ row.profile = call.profile /\ row.epoch = call.epoch
  BY <1>1
<1> HIDE DEF row, changed
<1>8. Identity' = Identity /\ Identity[a] = <<artifact[a].digest>>
  BY <1>1, <1>2, <1>4, <1>5, <1>6 DEF Identity
<1>9. /\ Reviewed[a] = <<>>
      /\ Reviewed' = [Reviewed EXCEPT ![a] = <<artifact[a].digest, call.profile, call.epoch>>]
  BY <1>1, <1>2, <1>4, <1>6, <1>7 DEF Reviewed
<1>10. Identity[a] # <<>> /\ Identity[a][1] = artifact[a].digest
  BY <1>8
<1>11. epoch' = epoch
  BY DEF world
<1> QED BY <1>1, <1>8, <1>9, <1>10, <1>11 DEF Ledger!Review, Identity, Reviewed

LEMMA LedgerStep ==
  PInv /\ [Next]_vars => [Ledger!Next]_<<epoch, Identity, Reviewed>>
<1> SUFFICES ASSUME PInv, [Next]_vars
             PROVE  Ledger!Next \/ UNCHANGED <<epoch, Identity, Reviewed>>
  OBVIOUS
<1>1. CASE UNCHANGED <<epoch, artifact, review>>
  BY <1>1 DEF Identity, Reviewed
<1>2. CASE Migrate
  BY <1>2 DEF Migrate, OnlyWorld, tables, Ledger!Next, Ledger!OpenEpoch
<1>3. ASSUME NEW c \in Capture, CreateArtifact(c) \/ CaptureFails(c)
      PROVE  Ledger!Next \/ UNCHANGED <<epoch, artifact, review>>
  BY <1>3, LedgerRecord DEF CreateArtifact, CaptureFails, Ledger!Next, world
<1>4. ASSUME NEW v \in Validation, CreateForStagedArtifact(v) \/ ValidationFails(v)
      PROVE  Ledger!Next \/ UNCHANGED <<epoch, artifact, review>>
  <2>1. validation[v].at = "create" => validation[v].artifact \in Capture
    BY DEF PInv, Validates
  <2>2. CASE validation[v].at = "create" /\ InsertsReview(v) /\ UNCHANGED world
    <3>1. PICK a \in Capture : a = validation[v].artifact
      BY <2>1, <2>2
    <3>2. Ledger!Review(a)
      BY <2>2, <3>1, LedgerReview
    <3> QED BY <3>2 DEF Ledger!Next
  <2>3. CASE UNCHANGED tables /\ UNCHANGED world
    BY <2>3 DEF tables, world
  <2> QED BY <1>4, <2>2, <2>3 DEF CreateForStagedArtifact, ValidationFails
<1> QED
  BY <1>1, <1>2, <1>3, <1>4
  DEF Next, vars, world, tables, CaptureStep, ValidationStep, BeginCapture, ExportGitBundle,
    DigestStaged, Commit, ValidateArtifact, FindByArtifact, GetArtifact, SampleContext,
    InspectImage, RunValidator, RecheckContext, CreateConflicts, ReturnError, BuildImage, Restart,
    Damage, OnlyCapture, OnlyValidation, OnlyWorld

(* ReviewPipeline implements ReviewLedger: whatever calls, failures, restarts *)
(* and migrations interleave, an artifact is recorded once and reviewed once. *)
THEOREM PipelineImplementsLedger == Spec => LedgerKept
BY LedgerInit, LedgerStep, PipelineInvariance, PTL
DEF Spec, LedgerKept, Ledger!Spec, Identity, Reviewed

=============================================================================
