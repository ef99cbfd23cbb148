------------------------ MODULE BackupProofs ------------------------
(***************************************************************************)
(* Proofs, for every set of job names and any limits, of the safety of the *)
(* service, of the command around it, and of the system that they form     *)
(* with the log family: what each promises, and that each whole implements *)
(* its parts.                                                              *)
(***************************************************************************)
EXTENDS BackupSystem, TLAPS

-----------------------------------------------------------------------------
(* Sequences of stages *)

\* A list of one or two stages is a sequence of stages.
LEMMA StageLists ==
    /\ <<>> \in Seq(Stages)
    /\ \A s \in Stages : <<s>> \in Seq(Stages) /\ <<s>> # <<>>
    /\ \A s, t \in Stages : <<s, t>> \in Seq(Stages) /\ <<s, t>> # <<>>
  OBVIOUS

\* Joining errors gives a list of stages again, and an empty one only from
\* empty ones.
LEMMA Joined ==
    ASSUME NEW s \in Seq(Stages), NEW t \in Seq(Stages)
    PROVE  /\ s \o t \in Seq(Stages)
           /\ s \o t = <<>> <=> s = <<>> /\ t = <<>>
  OBVIOUS

\* The first stage of an error is a stage.
LEMMA FirstStage ==
    ASSUME NEW s \in Seq(Stages), s # <<>>
    PROVE  Head(s) \in Stages
  OBVIOUS
-----------------------------------------------------------------------------
(* The inductive invariant.  SuccessIsDurable and LoggedBeforeDone speak of  *)
(* finished jobs and of effects; what makes them inductive is how far the    *)
(* current Run has got at each of its points.                                *)

BeforeStaging == {"resolve_dump", "log_dump_options", "stage", "staging", "log_staged"}
BeforeUpload == {"resolve_storage", "log_storage_options", "new_store", "open",
                 "log_upload"}
Uploading == {"upload", "uploading"}
BodyPoints == {"log_started"} \cup BeforeStaging \cup BeforeUpload \cup Uploading
RunPoints == BodyPoints \cup {"cleanup", "finish"}

Running(n) == pc \in RunPoints /\ n = job

\* A Run is for a job without a result.
OneRun == pc \in RunPoints => job \in Names /\ job \notin results

\* A job whose turn has not come has left no trace.
Untouched ==
    \A n \in Names : n \notin results /\ ~Running(n) =>
        errs[n] = <<>> /\ artifact[n] = "none" /\ progress[n] = {}

\* Nothing is decided before the selection is.
NoResults == pc = "select" => results = {}

\* The body of Run goes on only without an error and with a healthy log.
BodyIsClean == pc \in BodyPoints => errs[job] = <<>> /\ logHealthy

\* The transitions the current Run has behind it are in the log, and from the
\* staged artifact to the deferred Remove the artifact is there.
Recorded ==
    /\ pc \in {"log_staged", "cleanup"} \cup BeforeUpload \cup Uploading =>
          artifact[job] = "staged"
    /\ pc \in RunPoints \ {"log_started", "finish"} => "started" \in journal[job]
    /\ pc \in BeforeUpload \cup Uploading => "staged" \in journal[job]
    /\ pc \in Uploading => "upload_started" \in journal[job]

\* A Run that reaches its deferred functions without an error has an object;
\* one that reaches the last of them so has no artifact any more.
EndingIsGood ==
    pc \in {"cleanup", "finish"} /\ errs[job] = <<>> =>
        /\ job \in object /\ logHealthy
        /\ {"started", "staged", "upload_started"} \subseteq journal[job]
        /\ pc = "finish" => artifact[job] = "none"

\* No failure is shown before the last deferred function.
NotShownFailed == pc \in RunPoints => \A event \in progress[job] : event[1] # "failed"

IInv ==
    /\ TypeOK
    /\ NoResults /\ OneRun /\ Untouched
    /\ BodyIsClean /\ Recorded /\ EndingIsGood /\ NotShownFailed
    /\ SuccessIsDurable /\ LoggedBeforeDone
-----------------------------------------------------------------------------
(* Types.  The helpers that several actions share come first.                *)

ShownEvents == ProgressKinds \X (Stages \cup {"start", "complete"})
ErrorsTyped == errs \in [Names -> Seq(Stages)] /\ faults \in [Names -> Seq(Stages)]
RecordsTyped ==
    /\ journal \in [Names -> SUBSET Messages]
    /\ progress \in [Names -> SUBSET ShownEvents]
    /\ logHealthy \in BOOLEAN

\* The stages that Run names itself.
LEMMA StageNames ==
    /\ {"logging", "configuration", "s3_upload", "temporary_storage", "cleanup"}
          \subseteq Stages
    /\ StageFailures \subseteq Stages
  BY DEF Stages, StageFailures

\* Returning an error keeps the errors well typed.
LEMMA ReturnErrorTypes ==
  ASSUME TypeOK, NEW stages \in Seq(Stages), NEW point \in Points,
         ReturnError(stages, point)
  PROVE  pc' \in Points /\ ErrorsTyped'
  BY Joined DEF TypeOK, ErrorsTyped, ReturnError, Goto, Faulted

\* Going on changes no error.
LEMMA ProceedTypes ==
  ASSUME TypeOK, NEW point \in Points, Proceed(point)
  PROVE  pc' \in Points /\ ErrorsTyped'
  BY DEF TypeOK, ErrorsTyped, Proceed, Goto

\* Joining an error keeps the errors well typed.
LEMMA JoinErrorTypes ==
  ASSUME TypeOK, NEW stages \in Seq(Stages), JoinError(stages)
  PROVE  ErrorsTyped'
  BY Joined DEF TypeOK, ErrorsTyped, JoinError, Faulted

\* Adding to one value of a function to sets.
LEMMA Grows ==
  ASSUME NEW S, NEW T, NEW f \in [S -> SUBSET T], NEW k, NEW e \in SUBSET T
  PROVE  [f EXCEPT ![k] = @ \cup e] \in [S -> SUBSET T]
  OBVIOUS

\* A log event keeps the journal well typed.
LEMMA LogTypes ==
  ASSUME TypeOK, NEW message \in Messages, Logged(message) \/ LogFails(message)
  PROVE  journal' \in [Names -> SUBSET Messages] /\ logHealthy' \in BOOLEAN
  <1>1. [journal EXCEPT ![job] = @ \cup {message}] \in [Names -> SUBSET Messages]
    <2>1. {message} \in SUBSET Messages
      OBVIOUS
    <2>. QED
      BY <2>1, Grows DEF TypeOK
  <1>2. QED
    BY <1>1 DEF TypeOK, Logged, LogFails

\* A progress event keeps the progress well typed.
LEMMA ShowTypes ==
  ASSUME TypeOK, NEW shown \in SUBSET ShownEvents, Show(shown)
  PROVE  progress' \in [Names -> SUBSET ShownEvents]
  BY Grows DEF TypeOK, Show, ShownEvents

\* What Run shows besides failures.
LEMMA RunShows ==
    {<<"started", "start">>, <<"staged", "temporary_storage">>,
     <<"upload_started", "s3_upload">>, <<"completed", "complete">>,
     <<"failed", "logging">>} \subseteq ShownEvents
  BY DEF ShownEvents, ProgressKinds, Stages

\* An event of the body keeps everything well typed.
LEMMA LogStepTypes ==
  ASSUME TypeOK, NEW message \in Messages,
         NEW shown \in SUBSET ShownEvents,
         NEW point \in Points, NEW onError \in Points,
         LogStep(message, shown, point, onError)
  PROVE  pc' \in Points /\ ErrorsTyped' /\ RecordsTyped'
  <1>1. CASE Logged(message) /\ Show(shown) /\ Proceed(point)
    BY <1>1, ProceedTypes, LogTypes, ShowTypes DEF RecordsTyped
  <1>2. CASE /\ LogFails(message)
             /\ ReturnError(<<"logging">>, onError)
             /\ UNCHANGED progress
    BY <1>2, ReturnErrorTypes, LogTypes, StageLists, StageNames
    DEF TypeOK, RecordsTyped, ShownEvents
  <1>3. QED
    BY <1>1, <1>2 DEF LogStep

\* The initial states are well typed.
LEMMA TypeInit == Init => TypeOK
  BY StageLists DEF Init, TypeOK, Points

\* Every step keeps the types; the set of objects stays one of job names
\* because a Run is for a job (OneRun).
LEMMA TypeStep ==
  ASSUME TypeOK, OneRun, [Next]_vars
  PROVE  TypeOK'
  <1>1. CASE RejectSelection
    BY <1>1, StageLists, StageNames
    DEF TypeOK, RejectSelection, Points, Goto, request, effects, records
  <1>2. CASE AcceptSelection
    BY <1>2 DEF TypeOK, AcceptSelection, Points, Goto, request, effects, records
  <1>3. CASE NextJob
    <2>1. job' \in Names
      BY <1>3 DEF NextJob, Selected, EnabledJobNames, TypeOK
    <2>. QED
      BY <1>3, <2>1 DEF TypeOK, NextJob, Points, Goto, request, effects
  <1>4. CASE ReturnSummary
    BY <1>4 DEF TypeOK, ReturnSummary, Points, Goto, request, effects, records
  <1>5. CASE LogStarted
    <2>1. pc' \in Points /\ ErrorsTyped' /\ RecordsTyped'
      BY <1>5, LogStepTypes, RunShows DEF LogStarted, Points, Messages
    <2>. QED
      BY <1>5, <2>1
      DEF TypeOK, ErrorsTyped, RecordsTyped, ShownEvents, LogStarted, request,
          effects
  <1>6. CASE ResolveDump
    <2>1. pc' \in Points /\ ErrorsTyped'
      BY <1>6, ReturnErrorTypes, ProceedTypes, StageLists, StageNames
      DEF ResolveDump, Points
    <2>. QED
      BY <1>6, <2>1 DEF TypeOK, ErrorsTyped, ResolveDump, request, effects, records
  <1>7. CASE LogDumpOptions
    <2>1. pc' \in Points /\ ErrorsTyped' /\ RecordsTyped'
      BY <1>7, LogStepTypes, RunShows DEF LogDumpOptions, Points, Messages
    <2>. QED
      BY <1>7, <2>1
      DEF TypeOK, ErrorsTyped, RecordsTyped, ShownEvents, LogDumpOptions, request,
          effects
  <1>8. CASE StageCall
    <2>1. pc' \in Points /\ ErrorsTyped'
      BY <1>8, ReturnErrorTypes, ProceedTypes, StageLists, StageNames
      DEF StageCall, Points
    <2>. QED
      BY <1>8, <2>1 DEF TypeOK, ErrorsTyped, StageCall, request, effects, records
  <1>9. CASE StageReturn
    <2>1. pc' \in Points /\ ErrorsTyped'
      BY <1>9, ReturnErrorTypes, ProceedTypes, StageLists, StageNames
      DEF StageReturn, Points
    <2>. QED
      BY <1>9, <2>1 DEF TypeOK, ErrorsTyped, StageReturn, request, effects, records
  <1>10. CASE LogStaged
    <2>1. pc' \in Points /\ ErrorsTyped' /\ RecordsTyped'
      BY <1>10, LogStepTypes, RunShows DEF LogStaged, Points, Messages
    <2>. QED
      BY <1>10, <2>1
      DEF TypeOK, ErrorsTyped, RecordsTyped, ShownEvents, LogStaged, request,
          effects
  <1>11. CASE ResolveStorage
    <2>1. pc' \in Points /\ ErrorsTyped'
      BY <1>11, ReturnErrorTypes, ProceedTypes, StageLists, StageNames
      DEF ResolveStorage, Points
    <2>. QED
      BY <1>11, <2>1
      DEF TypeOK, ErrorsTyped, ResolveStorage, request, effects, records
  <1>12. CASE LogStorageOptions
    <2>1. pc' \in Points /\ ErrorsTyped' /\ RecordsTyped'
      BY <1>12, LogStepTypes, RunShows DEF LogStorageOptions, Points, Messages
    <2>. QED
      BY <1>12, <2>1
      DEF TypeOK, ErrorsTyped, RecordsTyped, ShownEvents, LogStorageOptions,
          request, effects
  <1>13. CASE NewStore
    <2>1. pc' \in Points /\ ErrorsTyped'
      BY <1>13, ReturnErrorTypes, ProceedTypes, StageLists, StageNames
      DEF NewStore, Points
    <2>. QED
      BY <1>13, <2>1 DEF TypeOK, ErrorsTyped, NewStore, request, effects, records
  <1>14. CASE OpenArtifact
    <2>1. pc' \in Points /\ ErrorsTyped'
      BY <1>14, ReturnErrorTypes, ProceedTypes, StageLists, StageNames
      DEF OpenArtifact, Points
    <2>. QED
      BY <1>14, <2>1
      DEF TypeOK, ErrorsTyped, OpenArtifact, request, effects, records
  <1>15. CASE LogUploadStarted
    <2>1. \A close \in {<<>>, <<"temporary_storage">>} :
            <<"logging">> \o close \in Seq(Stages)
      BY Joined, StageLists, StageNames
    <2>2. pc' \in Points /\ ErrorsTyped'
      BY <1>15, <2>1, ReturnErrorTypes, ProceedTypes DEF LogUploadStarted, Points
    <2>3. RecordsTyped'
      BY <1>15, LogTypes, ShowTypes, RunShows
      DEF LogUploadStarted, TypeOK, RecordsTyped, ShownEvents, Messages
    <2>. QED
      BY <1>15, <2>2, <2>3
      DEF TypeOK, ErrorsTyped, RecordsTyped, ShownEvents, LogUploadStarted, request
  <1>16. CASE UploadCall
    <2>1. \A close \in {<<>>, <<"temporary_storage">>} :
            <<"s3_upload">> \o close \in Seq(Stages)
      BY Joined, StageLists, StageNames
    <2>2. pc' \in Points /\ ErrorsTyped'
      BY <1>16, <2>1, ReturnErrorTypes, ProceedTypes DEF UploadCall, Points
    <2>. QED
      BY <1>16, <2>2 DEF TypeOK, ErrorsTyped, UploadCall, request, records
  <1>17. CASE UploadReturn
    <2>1. \A uploaded, closed \in BOOLEAN :
            (IF uploaded THEN <<>> ELSE <<"s3_upload">>)
              \o (IF closed THEN <<>> ELSE <<"temporary_storage">>) \in Seq(Stages)
      BY Joined, StageLists, StageNames
    <2>2. pc' \in Points /\ ErrorsTyped'
      BY <1>17, <2>1, ReturnErrorTypes, ProceedTypes DEF UploadReturn, Points
    <2>3. object' \in SUBSET Names
      BY <1>17
      DEF UploadReturn, TypeOK, At, OneRun, RunPoints, BodyPoints, Uploading
    <2>. QED
      BY <1>17, <2>2, <2>3 DEF TypeOK, ErrorsTyped, UploadReturn, request, records
  <1>18. CASE Cleanup
    <2>1. ErrorsTyped'
      BY <1>18, JoinErrorTypes, StageLists, StageNames
      DEF Cleanup, TypeOK, ErrorsTyped
    <2>2. journal' \in [Names -> SUBSET Messages] /\ logHealthy' \in BOOLEAN
      BY <1>18, LogTypes DEF Cleanup, TypeOK, Messages
    <2>. QED
      BY <1>18, <2>1, <2>2 DEF TypeOK, ErrorsTyped, Cleanup, request, Points, Goto
  <1>19. CASE FinishFailed
    <2>1. ErrorsTyped'
      BY <1>19, JoinErrorTypes, StageLists, StageNames
      DEF FinishFailed, TypeOK, ErrorsTyped
    <2>2. journal' \in [Names -> SUBSET Messages] /\ logHealthy' \in BOOLEAN
      BY <1>19, LogTypes DEF FinishFailed, Messages
    <2>3. Head(errs[job]) \in Stages
      BY <1>19, FirstStage DEF FinishFailed, At, OneRun, RunPoints, TypeOK
    <2>4. {<<"failed", Head(errs[job])>>} \subseteq ShownEvents
      BY <2>3 DEF ShownEvents, ProgressKinds
    <2>5. progress' \in [Names -> SUBSET ShownEvents]
      BY <1>19, <2>4, ShowTypes DEF FinishFailed
    <2>6. results' \in SUBSET Names
      BY <1>19 DEF FinishFailed, Finished, At, OneRun, RunPoints, TypeOK
    <2>. QED
      BY <1>19, <2>1, <2>2, <2>5, <2>6
      DEF TypeOK, ErrorsTyped, ShownEvents, FinishFailed, request, effects, Points,
          Goto, Finished
  <1>20. CASE FinishCompleted
    <2>1. ErrorsTyped'
      BY <1>20, JoinErrorTypes, StageLists, StageNames
      DEF FinishCompleted, TypeOK, ErrorsTyped
    <2>2. RecordsTyped'
      BY <1>20, LogTypes, ShowTypes, RunShows
      DEF FinishCompleted, RecordsTyped, Messages
    <2>3. results' \in SUBSET Names
      BY <1>20 DEF FinishCompleted, Finished, At, OneRun, RunPoints, TypeOK
    <2>. QED
      BY <1>20, <2>1, <2>2, <2>3
      DEF TypeOK, ErrorsTyped, RecordsTyped, ShownEvents, FinishCompleted, request,
          effects, Points, Goto, Finished
  <1>21. CASE Cancel
    BY <1>21 DEF TypeOK, Cancel, request, effects, records
  <1>22. CASE Kill
    BY <1>22
    DEF TypeOK, Kill, OneRun, RunPoints, BodyPoints, Uploading, BeforeStaging,
        request, records
  <1>23. CASE UNCHANGED vars
    BY <1>23 DEF TypeOK, vars, request, effects, records
  <1>24. QED
    BY <1>1, <1>2, <1>3, <1>4, <1>5, <1>6, <1>7, <1>8, <1>9, <1>10, <1>11, <1>12,
       <1>13, <1>14, <1>15, <1>16, <1>17, <1>18, <1>19, <1>20, <1>21, <1>22, <1>23
    DEF Next, ServiceStep, RunStep, Terminated

\* Every step keeps OneRun.
LEMMA OneRunStep ==
  ASSUME TypeOK, OneRun, [Next]_vars
  PROVE  OneRun'
  <1>. USE DEF OneRun, RunPoints, BodyPoints, BeforeStaging, BeforeUpload, Uploading
  <1>1. CASE RunStep \/ Cancel \/ Kill \/ UNCHANGED vars
    <2>1. CASE FinishFailed \/ FinishCompleted
      BY <2>1 DEF FinishFailed, FinishCompleted, Finished, Goto
    <2>2. CASE Cancel \/ Kill \/ UNCHANGED vars
      BY <2>2 DEF Cancel, Kill, vars
    <2>3. CASE RunStep /\ ~FinishFailed /\ ~FinishCompleted
      <3>1. pc \in RunPoints /\ job' = job /\ results' = results
        BY <2>3
        DEF RunStep, At, LogStarted, ResolveDump, LogDumpOptions, StageCall,
            StageReturn, LogStaged, ResolveStorage, LogStorageOptions, NewStore,
            OpenArtifact, LogUploadStarted, UploadCall, UploadReturn, Cleanup
      <3>. QED
        BY <3>1
    <2>. QED
      BY <1>1, <2>1, <2>2, <2>3
  <1>2. CASE NextJob
    BY <1>2 DEF NextJob, Selected, EnabledJobNames, TypeOK
  <1>3. CASE RejectSelection \/ AcceptSelection \/ ReturnSummary
    BY <1>3 DEF RejectSelection, AcceptSelection, ReturnSummary, Goto
  <1>. QED
    BY <1>1, <1>2, <1>3 DEF Next, ServiceStep, Terminated

\* Every reachable state of RunMany and Run is well typed, for every set of names.
THEOREM TypeCorrect == Spec => []TypeOK
  <1>1. Init => TypeOK /\ OneRun
    BY TypeInit
    DEF Init, OneRun, RunPoints, BodyPoints, BeforeStaging, BeforeUpload,
                    Uploading
  <1>2. TypeOK /\ OneRun /\ [Next]_vars => (TypeOK /\ OneRun)'
    BY TypeStep, OneRunStep
  <1>3. QED
    BY <1>1, <1>2, PTL DEF Spec

-----------------------------------------------------------------------------
(* Preservation of IInv.  A step of one Run leaves the other jobs alone      *)
(* (RunFrame); what is left to show of each action is about the current job. *)

RunFrame ==
    /\ pc \in RunPoints /\ pc' \in RunPoints
    /\ job' = job /\ results' = results
    /\ \A n \in Names \ {job} :
          /\ errs'[n] = errs[n] /\ artifact'[n] = artifact[n]
          /\ journal'[n] = journal[n] /\ progress'[n] = progress[n]
    /\ \A n \in Names : journal[n] \subseteq journal'[n]
    /\ object \subseteq object' /\ object' \subseteq object \cup {job}
    /\ \A event \in progress'[job] : event \in progress[job] \/ event[1] # "failed"

JobLogged ==
    /\ artifact[job] # "none" => "started" \in journal[job]
    /\ job \in object =>
          {"started", "staged", "upload_started"} \subseteq journal[job]

\* What a step within one Run has to show.
LEMMA FrameKeeps ==
  ASSUME IInv, TypeOK', OneRun', RunFrame,
         BodyIsClean', Recorded', EndingIsGood', JobLogged'
  PROVE  IInv'
  <1>1. Untouched'
    BY DEF IInv, Untouched, Running, RunFrame, OneRun
  <1>2. NotShownFailed'
    BY DEF IInv, NotShownFailed, RunFrame
  <1>3. SuccessIsDurable'
    BY DEF IInv, SuccessIsDurable, Succeeded, RunFrame, OneRun, TypeOK
  <1>4. LoggedBeforeDone'
    BY DEF IInv, LoggedBeforeDone, JobLogged, RunFrame, OneRun, TypeOK
  <1>5. NoResults'
    BY
    DEF RunFrame, NoResults, RunPoints, BodyPoints, BeforeStaging, BeforeUpload,
        Uploading
  <1>. QED
    BY <1>1, <1>2, <1>3, <1>4, <1>5 DEF IInv

\* The step of a body that goes on.
LEMMA ProceedErrs ==
  ASSUME NEW point, Proceed(point)
  PROVE  pc' = point /\ errs' = errs
  BY DEF Proceed, Goto

\* The step of a body that returns an error.
LEMMA ReturnErrorErrs ==
  ASSUME TypeOK, job \in Names, NEW stages \in Seq(Stages), stages # <<>>,
  NEW point,
         ReturnError(stages, point)
  PROVE  /\ pc' = point /\ errs'[job] # <<>>
         /\ \A n \in Names \ {job} : errs'[n] = errs[n]
  BY DEF TypeOK, ReturnError, Goto

\* A deferred function that joins an error.
LEMMA JoinErrorErrs ==
  ASSUME TypeOK, job \in Names, NEW stages \in Seq(Stages), stages # <<>>,
         JoinError(stages)
  PROVE  /\ errs'[job] # <<>>
         /\ \A n \in Names \ {job} : errs'[n] = errs[n]
  BY Joined DEF TypeOK, JoinError

\* One log event touches the journal of the current job only.
LEMMA LogEffect ==
  ASSUME TypeOK, job \in Names, NEW message, Logged(message) \/ LogFails(message)
  PROVE  /\ \A n \in Names \ {job} : journal'[n] = journal[n]
         /\ \A n \in Names : journal[n] \subseteq journal'[n]
         /\ Logged(message) => logHealthy' = logHealthy
         /\ Logged(message) /\ logHealthy => message \in journal'[job]
  <1>1. /\ journal \in [Names -> SUBSET Messages]
        /\ \/ journal' = journal
           \/ journal' = [journal EXCEPT ![job] = @ \cup {message}]
    BY DEF TypeOK, Logged, LogFails
  <1>2. journal'[job] \in {journal[job], journal[job] \cup {message}}
    BY <1>1
  <1>3. \A n \in Names \ {job} : journal'[n] = journal[n]
    BY <1>1
  <1>4. \A n \in Names : journal[n] \subseteq journal'[n]
    BY <1>2, <1>3
  <1>5. Logged(message) => logHealthy' = logHealthy
    BY DEF Logged
  <1>6. Logged(message) /\ logHealthy => message \in journal'[job]
    BY <1>1 DEF Logged
  <1>. QED
    BY <1>3, <1>4, <1>5, <1>6

\* One progress event touches the progress of the current job only.
LEMMA ShowEffect ==
  ASSUME TypeOK, job \in Names, NEW shown, Show(shown)
  PROVE  /\ \A n \in Names \ {job} : progress'[n] = progress[n]
         /\ progress'[job] = progress[job] \cup shown
  BY DEF TypeOK, Show

\* What one event in the body does.
LEMMA LogStepEffect ==
  ASSUME IInv, job \in Names, NEW message, NEW shown, NEW point, NEW onError,
         \A event \in shown : event[1] # "failed",
         LogStep(message, shown, point, onError)
  PROVE  /\ \A n \in Names \ {job} :
               /\ errs'[n] = errs[n] /\ journal'[n] = journal[n]
               /\ progress'[n] = progress[n]
         /\ \A n \in Names : journal[n] \subseteq journal'[n]
         /\ \A event \in progress'[job] : event \in progress[job] \/ event[1] # "failed"
         /\ \/ /\ pc' = point /\ errs' = errs /\ logHealthy' = logHealthy
               /\ logHealthy => message \in journal'[job]
            \/ pc' = onError /\ errs'[job] # <<>>
  <1>1. CASE Logged(message) /\ Show(shown) /\ Proceed(point)
    BY <1>1, LogEffect, ShowEffect, ProceedErrs DEF IInv
  <1>2. CASE /\ LogFails(message)
             /\ ReturnError(<<"logging">>, onError)
             /\ UNCHANGED progress
    BY <1>2, LogEffect, ReturnErrorErrs, StageLists, StageNames DEF IInv
  <1>. QED
    BY <1>1, <1>2 DEF LogStep

\* A step of the body that goes on to the next point of it.
LEMMA Advances ==
  ASSUME IInv, TypeOK', OneRun', RunFrame, pc \in BodyPoints, pc' \in BodyPoints,
         errs'[job] = errs[job], logHealthy' = logHealthy, Recorded', JobLogged'
  PROVE  IInv'
  <1>1. BodyIsClean'
    BY DEF IInv, BodyIsClean, RunFrame
  <1>2. EndingIsGood'
    BY DEF EndingIsGood, BodyPoints, BeforeStaging, BeforeUpload, Uploading
  <1>. QED
    BY <1>1, <1>2, FrameKeeps

\* A step of a Run that leaves it with an error, on its way out.
LEMMA Fails ==
  ASSUME IInv, TypeOK', OneRun', RunFrame, pc \in BodyPoints,
         pc' \in {"cleanup", "finish"}, pc = "log_started" => pc' = "finish",
         pc' = "cleanup" => artifact'[job] = "staged",
         errs'[job] # <<>>, JobLogged'
  PROVE  IInv'
  <1>1. BodyIsClean' /\ Recorded'
    BY
    DEF IInv, RunFrame, OneRun, BodyIsClean, Recorded, RunPoints, BodyPoints,
        BeforeStaging, BeforeUpload, Uploading
  <1>2. EndingIsGood'
    BY DEF EndingIsGood, RunFrame
  <1>. QED
    BY <1>1, <1>2, FrameKeeps

\* The actions of the body, in their order.
LEMMA LogStartedKeeps ==
  ASSUME IInv, TypeOK', OneRun', LogStarted
  PROVE  IInv'
  <1>. USE DEF At, RunPoints, BodyPoints, BeforeStaging, BeforeUpload, Uploading
  <1>1. job \in Names
    BY DEF IInv, OneRun, LogStarted
  <1>2. /\ pc \in BodyPoints
        /\ UNCHANGED <<job, results, artifact, object>>
    BY DEF LogStarted, effects
  <1>3. \/ /\ pc' = "resolve_dump" /\ errs' = errs /\ logHealthy' = logHealthy
           /\ logHealthy => "started" \in journal'[job]
        \/ pc' = "finish" /\ errs'[job] # <<>>
    BY <1>1, LogStepEffect DEF LogStarted
  <1>4. RunFrame
    BY <1>1, <1>2, <1>3, LogStepEffect DEF LogStarted, RunFrame
  <1>5. JobLogged'
    BY <1>1, <1>2, <1>4 DEF RunFrame, IInv, JobLogged, LoggedBeforeDone
  <1>6. CASE pc' = "resolve_dump"
    <2>1. Recorded'
      BY <1>1, <1>2, <1>3, <1>4, <1>6
      DEF LogStarted, Recorded, RunFrame, IInv, BodyIsClean
    <2>. QED
      BY <1>2, <1>3, <1>4, <1>5, <1>6, <2>1, Advances
  <1>. QED
    BY <1>2, <1>3, <1>4, <1>5, <1>6, Fails DEF LogStarted

\* LogDumpOptions keeps the invariant.
LEMMA LogDumpOptionsKeeps ==
  ASSUME IInv, TypeOK', OneRun', LogDumpOptions
  PROVE  IInv'
  <1>. USE DEF At, RunPoints, BodyPoints, BeforeStaging, BeforeUpload, Uploading
  <1>1. job \in Names
    BY DEF IInv, OneRun, LogDumpOptions
  <1>2. /\ pc \in BodyPoints
        /\ UNCHANGED <<job, results, artifact, object>>
    BY DEF LogDumpOptions, effects
  <1>3. \/ /\ pc' = "stage" /\ errs' = errs /\ logHealthy' = logHealthy
           /\ logHealthy => "dump_options" \in journal'[job]
        \/ pc' = "finish" /\ errs'[job] # <<>>
    BY <1>1, LogStepEffect DEF LogDumpOptions
  <1>4. RunFrame
    BY <1>1, <1>2, <1>3, LogStepEffect DEF LogDumpOptions, RunFrame
  <1>5. JobLogged'
    BY <1>1, <1>2, <1>4 DEF RunFrame, IInv, JobLogged, LoggedBeforeDone
  <1>6. CASE pc' = "stage"
    <2>1. Recorded'
      BY <1>1, <1>2, <1>3, <1>4, <1>6
      DEF LogDumpOptions, Recorded, RunFrame, IInv, BodyIsClean
    <2>. QED
      BY <1>2, <1>3, <1>4, <1>5, <1>6, <2>1, Advances
  <1>. QED
    BY <1>2, <1>3, <1>4, <1>5, <1>6, Fails DEF LogDumpOptions

\* LogStaged keeps the invariant.
LEMMA LogStagedKeeps ==
  ASSUME IInv, TypeOK', OneRun', LogStaged
  PROVE  IInv'
  <1>. USE DEF At, RunPoints, BodyPoints, BeforeStaging, BeforeUpload, Uploading
  <1>1. job \in Names
    BY DEF IInv, OneRun, LogStaged
  <1>2. /\ pc \in BodyPoints
        /\ UNCHANGED <<job, results, artifact, object>>
    BY DEF LogStaged, effects
  <1>3. \/ /\ pc' = "resolve_storage" /\ errs' = errs /\ logHealthy' = logHealthy
           /\ logHealthy => "staged" \in journal'[job]
        \/ pc' = "cleanup" /\ errs'[job] # <<>>
    BY <1>1, LogStepEffect DEF LogStaged
  <1>4. RunFrame
    BY <1>1, <1>2, <1>3, LogStepEffect DEF LogStaged, RunFrame
  <1>5. JobLogged'
    BY <1>1, <1>2, <1>4 DEF RunFrame, IInv, JobLogged, LoggedBeforeDone
  <1>6. CASE pc' = "resolve_storage"
    <2>1. Recorded'
      BY <1>1, <1>2, <1>3, <1>4, <1>6
      DEF LogStaged, Recorded, RunFrame, IInv, BodyIsClean
    <2>. QED
      BY <1>2, <1>3, <1>4, <1>5, <1>6, <2>1, Advances
  <1>7. pc' = "cleanup" => artifact'[job] = "staged"
    BY <1>1, <1>2 DEF LogStaged, IInv, Recorded, effects
  <1>. QED
    BY <1>2, <1>3, <1>4, <1>5, <1>6, <1>7, Fails DEF LogStaged

\* LogStorageOptions keeps the invariant.
LEMMA LogStorageOptionsKeeps ==
  ASSUME IInv, TypeOK', OneRun', LogStorageOptions
  PROVE  IInv'
  <1>. USE DEF At, RunPoints, BodyPoints, BeforeStaging, BeforeUpload, Uploading
  <1>1. job \in Names
    BY DEF IInv, OneRun, LogStorageOptions
  <1>2. /\ pc \in BodyPoints
        /\ UNCHANGED <<job, results, artifact, object>>
    BY DEF LogStorageOptions, effects
  <1>3. \/ /\ pc' = "new_store" /\ errs' = errs /\ logHealthy' = logHealthy
           /\ logHealthy => "storage_options" \in journal'[job]
        \/ pc' = "cleanup" /\ errs'[job] # <<>>
    BY <1>1, LogStepEffect DEF LogStorageOptions
  <1>4. RunFrame
    BY <1>1, <1>2, <1>3, LogStepEffect DEF LogStorageOptions, RunFrame
  <1>5. JobLogged'
    BY <1>1, <1>2, <1>4 DEF RunFrame, IInv, JobLogged, LoggedBeforeDone
  <1>6. CASE pc' = "new_store"
    <2>1. Recorded'
      BY <1>1, <1>2, <1>3, <1>4, <1>6
      DEF LogStorageOptions, Recorded, RunFrame, IInv, BodyIsClean
    <2>. QED
      BY <1>2, <1>3, <1>4, <1>5, <1>6, <2>1, Advances
  <1>7. pc' = "cleanup" => artifact'[job] = "staged"
    BY <1>1, <1>2 DEF LogStorageOptions, IInv, Recorded, effects
  <1>. QED
    BY <1>2, <1>3, <1>4, <1>5, <1>6, <1>7, Fails DEF LogStorageOptions

\* ResolveDump keeps the invariant.
LEMMA ResolveDumpKeeps ==
  ASSUME IInv, TypeOK', OneRun', ResolveDump
  PROVE  IInv'
  <1>. USE DEF At, RunPoints, BodyPoints, BeforeStaging, BeforeUpload, Uploading
  <1>1. job \in Names
    BY DEF IInv, OneRun, ResolveDump
  <1>2. /\ pc \in BodyPoints
        /\ UNCHANGED <<job, results, journal, progress, object, logHealthy>>
    BY DEF ResolveDump, effects, records
  <1>3. \/ pc' \in {"log_dump_options", "stage"} /\ errs' = errs
        \/ pc' = "finish" /\ errs'[job] # <<>>
    BY <1>1, ProceedErrs, ReturnErrorErrs, StageLists, StageNames
    DEF ResolveDump, IInv
  <1>4. RunFrame
    BY <1>1, <1>2, <1>3, ProceedErrs, ReturnErrorErrs, StageLists, StageNames
    DEF ResolveDump, RunFrame, IInv, TypeOK, effects
  <1>5. JobLogged'
    BY <1>1, <1>2, <1>4
    DEF ResolveDump, RunFrame, IInv, JobLogged, LoggedBeforeDone, Recorded, effects
  <1>6. CASE pc' \in {"log_dump_options", "stage"}
    <2>1. Recorded'
      BY <1>1, <1>2, <1>3, <1>4, <1>6 DEF ResolveDump, Recorded, RunFrame, IInv
    <2>. QED
      BY <1>2, <1>3, <1>4, <1>5, <1>6, <2>1, Advances
  <1>. QED
    BY <1>2, <1>3, <1>4, <1>5, <1>6, Fails DEF ResolveDump

\* StageCall keeps the invariant.
LEMMA StageCallKeeps ==
  ASSUME IInv, TypeOK', OneRun', StageCall
  PROVE  IInv'
  <1>. USE DEF At, RunPoints, BodyPoints, BeforeStaging, BeforeUpload, Uploading
  <1>1. job \in Names
    BY DEF IInv, OneRun, StageCall
  <1>2. /\ pc \in BodyPoints
        /\ UNCHANGED <<job, results, journal, progress, object, logHealthy>>
    BY DEF StageCall, effects, records
  <1>3. \/ pc' \in {"staging"} /\ errs' = errs
        \/ pc' = "finish" /\ errs'[job] # <<>>
    BY <1>1, ProceedErrs, ReturnErrorErrs, StageLists, StageNames
    DEF StageCall, IInv
  <1>4. RunFrame
    BY <1>1, <1>2, <1>3, ProceedErrs, ReturnErrorErrs, StageLists, StageNames
    DEF StageCall, RunFrame, IInv, TypeOK, effects
  <1>5. JobLogged'
    BY <1>1, <1>2, <1>4
    DEF StageCall, RunFrame, IInv, JobLogged, LoggedBeforeDone, Recorded, effects
  <1>6. CASE pc' \in {"staging"}
    <2>1. Recorded'
      BY <1>1, <1>2, <1>3, <1>4, <1>6 DEF StageCall, Recorded, RunFrame, IInv
    <2>. QED
      BY <1>2, <1>3, <1>4, <1>5, <1>6, <2>1, Advances
  <1>. QED
    BY <1>2, <1>3, <1>4, <1>5, <1>6, Fails DEF StageCall

\* StageReturn keeps the invariant.
LEMMA StageReturnKeeps ==
  ASSUME IInv, TypeOK', OneRun', StageReturn
  PROVE  IInv'
  <1>. USE DEF At, RunPoints, BodyPoints, BeforeStaging, BeforeUpload, Uploading
  <1>1. job \in Names
    BY DEF IInv, OneRun, StageReturn
  <1>2. /\ pc \in BodyPoints
        /\ UNCHANGED <<job, results, journal, progress, object, logHealthy>>
    BY DEF StageReturn, effects, records
  <1>3. \/ pc' \in {"log_staged"} /\ errs' = errs
        \/ pc' = "finish" /\ errs'[job] # <<>>
    BY <1>1, ProceedErrs, ReturnErrorErrs, StageLists, StageNames
    DEF StageReturn, IInv
  <1>4. RunFrame
    BY <1>1, <1>2, <1>3, ProceedErrs, ReturnErrorErrs, StageLists, StageNames
    DEF StageReturn, RunFrame, IInv, TypeOK, effects
  <1>5. JobLogged'
    BY <1>1, <1>2, <1>4
    DEF StageReturn, RunFrame, IInv, JobLogged, LoggedBeforeDone, Recorded, effects
  <1>6. CASE pc' \in {"log_staged"}
    <2>1. artifact'[job] = "staged"
      BY <1>1, <1>6 DEF StageReturn, ReturnError, Goto, IInv, TypeOK
    <2>2. Recorded'
      BY <1>1, <1>2, <1>4, <1>6, <2>1 DEF StageReturn, Recorded, RunFrame, IInv
    <2>. QED
      BY <1>2, <1>3, <1>4, <1>5, <1>6, <2>2, Advances
  <1>. QED
    BY <1>2, <1>3, <1>4, <1>5, <1>6, Fails DEF StageReturn

\* ResolveStorage keeps the invariant.
LEMMA ResolveStorageKeeps ==
  ASSUME IInv, TypeOK', OneRun', ResolveStorage
  PROVE  IInv'
  <1>. USE DEF At, RunPoints, BodyPoints, BeforeStaging, BeforeUpload, Uploading
  <1>1. job \in Names
    BY DEF IInv, OneRun, ResolveStorage
  <1>2. /\ pc \in BodyPoints
        /\ UNCHANGED <<job, results, journal, progress, object, logHealthy>>
    BY DEF ResolveStorage, effects, records
  <1>3. \/ pc' \in {"log_storage_options", "new_store"} /\ errs' = errs
        \/ pc' = "cleanup" /\ errs'[job] # <<>>
    BY <1>1, ProceedErrs, ReturnErrorErrs, StageLists, StageNames
    DEF ResolveStorage, IInv
  <1>4. RunFrame
    BY <1>1, <1>2, <1>3, ProceedErrs, ReturnErrorErrs, StageLists, StageNames
    DEF ResolveStorage, RunFrame, IInv, TypeOK, effects
  <1>5. JobLogged'
    BY <1>1, <1>2, <1>4
    DEF ResolveStorage, RunFrame, IInv, JobLogged, LoggedBeforeDone, Recorded,
        effects
  <1>6. CASE pc' \in {"log_storage_options", "new_store"}
    <2>1. Recorded'
      BY <1>1, <1>2, <1>3, <1>4, <1>6
      DEF ResolveStorage, Recorded, RunFrame, IInv, TypeOK, effects
    <2>. QED
      BY <1>2, <1>3, <1>4, <1>5, <1>6, <2>1, Advances
  <1>7. pc' = "cleanup" => artifact'[job] = "staged"
    BY <1>1, <1>2 DEF ResolveStorage, IInv, Recorded, effects
  <1>. QED
    BY <1>2, <1>3, <1>4, <1>5, <1>6, <1>7, Fails DEF ResolveStorage

\* NewStore keeps the invariant.
LEMMA NewStoreKeeps ==
  ASSUME IInv, TypeOK', OneRun', NewStore
  PROVE  IInv'
  <1>. USE DEF At, RunPoints, BodyPoints, BeforeStaging, BeforeUpload, Uploading
  <1>1. job \in Names
    BY DEF IInv, OneRun, NewStore
  <1>2. /\ pc \in BodyPoints
        /\ UNCHANGED <<job, results, journal, progress, object, logHealthy>>
    BY DEF NewStore, effects, records
  <1>3. \/ pc' \in {"open"} /\ errs' = errs
        \/ pc' = "cleanup" /\ errs'[job] # <<>>
    BY <1>1, ProceedErrs, ReturnErrorErrs, StageLists, StageNames DEF NewStore, IInv
  <1>4. RunFrame
    BY <1>1, <1>2, <1>3, ProceedErrs, ReturnErrorErrs, StageLists, StageNames
    DEF NewStore, RunFrame, IInv, TypeOK, effects
  <1>5. JobLogged'
    BY <1>1, <1>2, <1>4
    DEF NewStore, RunFrame, IInv, JobLogged, LoggedBeforeDone, Recorded, effects
  <1>6. CASE pc' \in {"open"}
    <2>1. Recorded'
      BY <1>1, <1>2, <1>3, <1>4, <1>6
      DEF NewStore, Recorded, RunFrame, IInv, TypeOK, effects
    <2>. QED
      BY <1>2, <1>3, <1>4, <1>5, <1>6, <2>1, Advances
  <1>7. pc' = "cleanup" => artifact'[job] = "staged"
    BY <1>1, <1>2 DEF NewStore, IInv, Recorded, effects
  <1>. QED
    BY <1>2, <1>3, <1>4, <1>5, <1>6, <1>7, Fails DEF NewStore

\* OpenArtifact keeps the invariant.
LEMMA OpenArtifactKeeps ==
  ASSUME IInv, TypeOK', OneRun', OpenArtifact
  PROVE  IInv'
  <1>. USE DEF At, RunPoints, BodyPoints, BeforeStaging, BeforeUpload, Uploading
  <1>1. job \in Names
    BY DEF IInv, OneRun, OpenArtifact
  <1>2. /\ pc \in BodyPoints
        /\ UNCHANGED <<job, results, journal, progress, object, logHealthy>>
    BY DEF OpenArtifact, effects, records
  <1>3. \/ pc' \in {"log_upload"} /\ errs' = errs
        \/ pc' = "cleanup" /\ errs'[job] # <<>>
    BY <1>1, ProceedErrs, ReturnErrorErrs, StageLists, StageNames
    DEF OpenArtifact, IInv
  <1>4. RunFrame
    BY <1>1, <1>2, <1>3, ProceedErrs, ReturnErrorErrs, StageLists, StageNames
    DEF OpenArtifact, RunFrame, IInv, TypeOK, effects
  <1>5. JobLogged'
    BY <1>1, <1>2, <1>4
    DEF OpenArtifact, RunFrame, IInv, JobLogged, LoggedBeforeDone, Recorded, effects
  <1>6. CASE pc' \in {"log_upload"}
    <2>1. Recorded'
      BY <1>1, <1>2, <1>3, <1>4, <1>6 DEF OpenArtifact, Recorded, RunFrame, IInv
    <2>. QED
      BY <1>2, <1>3, <1>4, <1>5, <1>6, <2>1, Advances
  <1>7. pc' = "cleanup" => artifact'[job] = "staged"
    BY <1>1, <1>2 DEF OpenArtifact, IInv, Recorded, effects
  <1>. QED
    BY <1>2, <1>3, <1>4, <1>5, <1>6, <1>7, Fails DEF OpenArtifact

\* Two errors joined are an error.
LEMMA TwoErrors ==
  ASSUME NEW first \in Stages, NEW close \in {<<>>, <<"temporary_storage">>}
  PROVE  <<first>> \o close \in Seq(Stages) /\ <<first>> \o close # <<>>
  <1>1. <<first>> \in Seq(Stages) /\ <<first>> # <<>> /\ close \in Seq(Stages)
    BY StageLists, StageNames
  <1>. QED
    BY <1>1, Joined

\* LogUploadStarted keeps the invariant.
LEMMA LogUploadStartedKeeps ==
  ASSUME IInv, TypeOK', OneRun', LogUploadStarted
  PROVE  IInv'
  <1>. USE DEF At, RunPoints, BodyPoints, BeforeStaging, BeforeUpload, Uploading
  <1>1. job \in Names
    BY DEF IInv, OneRun, LogUploadStarted
  <1>2. /\ pc \in BodyPoints
        /\ UNCHANGED <<job, results, artifact, object>>
    BY DEF LogUploadStarted
  <1>3. \/ /\ pc' = "upload" /\ errs' = errs /\ logHealthy' = logHealthy
           /\ logHealthy => "upload_started" \in journal'[job]
        \/ pc' = "cleanup" /\ errs'[job] # <<>>
    BY <1>1, LogEffect, ProceedErrs, ReturnErrorErrs, TwoErrors, StageNames
    DEF LogUploadStarted, IInv
  <1>4. \A n \in Names \ {job} : errs'[n] = errs[n] /\ progress'[n] = progress[n]
    BY <1>1, ProceedErrs, ReturnErrorErrs, ShowEffect, TwoErrors, StageNames
    DEF LogUploadStarted, IInv
  <1>5. \A event \in progress'[job] : event \in progress[job] \/ event[1] # "failed"
    BY <1>1, ShowEffect DEF LogUploadStarted, IInv
  <1>6. RunFrame
    BY <1>1, <1>2, <1>3, <1>4, <1>5, LogEffect DEF LogUploadStarted, RunFrame, IInv
  <1>7. JobLogged'
    BY <1>1, <1>2, <1>6 DEF RunFrame, IInv, JobLogged, LoggedBeforeDone
  <1>8. CASE pc' = "upload"
    <2>1. Recorded'
      BY <1>1, <1>2, <1>3, <1>6, <1>8
      DEF LogUploadStarted, Recorded, RunFrame, IInv, BodyIsClean
    <2>. QED
      BY <1>2, <1>3, <1>6, <1>7, <1>8, <2>1, Advances
  <1>9. pc' = "cleanup" => artifact'[job] = "staged"
    BY <1>1, <1>2 DEF LogUploadStarted, IInv, Recorded
  <1>. QED
    BY <1>2, <1>3, <1>6, <1>7, <1>8, <1>9, Fails DEF LogUploadStarted

\* UploadCall keeps the invariant.
LEMMA UploadCallKeeps ==
  ASSUME IInv, TypeOK', OneRun', UploadCall
  PROVE  IInv'
  <1>. USE DEF At, RunPoints, BodyPoints, BeforeStaging, BeforeUpload, Uploading
  <1>1. job \in Names
    BY DEF IInv, OneRun, UploadCall
  <1>2. /\ pc = "upload"
        /\ UNCHANGED <<job, results, journal, progress, artifact, object>>
        /\ UNCHANGED logHealthy
    BY DEF UploadCall, records
  <1>3. \/ pc' = "uploading" /\ errs' = errs
        \/ pc' = "cleanup" /\ errs'[job] # <<>>
    BY <1>1, ProceedErrs, ReturnErrorErrs, TwoErrors, StageNames
    DEF UploadCall, IInv
  <1>4. RunFrame
    BY <1>1, <1>2, <1>3, ProceedErrs, ReturnErrorErrs, TwoErrors, StageNames
    DEF UploadCall, RunFrame, IInv
  <1>5. JobLogged'
    BY <1>1, <1>2, <1>4 DEF RunFrame, IInv, JobLogged, LoggedBeforeDone
  <1>6. CASE pc' = "uploading"
    <2>1. Recorded'
      BY <1>1, <1>2, <1>4, <1>6 DEF Recorded, RunFrame, IInv
    <2>. QED
      BY <1>2, <1>3, <1>4, <1>5, <1>6, <2>1, Advances
  <1>7. artifact'[job] = "staged"
    BY <1>1, <1>2 DEF IInv, Recorded
  <1>. QED
    BY <1>2, <1>3, <1>4, <1>5, <1>6, <1>7, Fails

\* UploadReturn keeps the invariant.
LEMMA UploadReturnKeeps ==
  ASSUME IInv, TypeOK', OneRun', UploadReturn
  PROVE  IInv'
  <1>. USE DEF At, RunPoints, BodyPoints, BeforeStaging, BeforeUpload, Uploading
  <1>1. job \in Names
    BY DEF IInv, OneRun, UploadReturn
  <1>2. PICK uploaded \in BOOLEAN, closed \in BOOLEAN :
          LET stages == (IF uploaded THEN <<>> ELSE <<"s3_upload">>)
                        \o (IF closed THEN <<>> ELSE <<"temporary_storage">>)
          IN  /\ object' = object \cup {job} \/ (~uploaded /\ UNCHANGED object)
              /\ IF stages = <<>> THEN Proceed("cleanup")
                                  ELSE ReturnError(stages, "cleanup")
    BY DEF UploadReturn
  <1>. DEFINE upload == IF uploaded THEN <<>> ELSE <<"s3_upload">>
              close == IF closed THEN <<>> ELSE <<"temporary_storage">>
  <1>3. /\ upload \in Seq(Stages) /\ close \in Seq(Stages)
        /\ upload = <<>> <=> uploaded
    BY StageLists, StageNames
  <1>4. /\ upload \o close \in Seq(Stages)
        /\ upload \o close = <<>> => uploaded
    BY <1>3, Joined
  <1>. HIDE DEF upload, close
  <1>5. /\ object' = object \cup {job} \/ (~uploaded /\ UNCHANGED object)
        /\ IF upload \o close = <<>> THEN Proceed("cleanup")
                                     ELSE ReturnError(upload \o close, "cleanup")
    BY <1>2 DEF upload, close
  <1>6. /\ pc = "uploading" /\ pc' = "cleanup"
        /\ UNCHANGED <<job, results, journal, progress, artifact, logHealthy>>
    BY <1>4, <1>5, ProceedErrs, ReturnErrorErrs
    DEF UploadReturn, records, Proceed, ReturnError, Goto
  <1>7. /\ \A n \in Names \ {job} : errs'[n] = errs[n]
        /\ \/ errs' = errs /\ object' = object \cup {job}
           \/ errs'[job] # <<>>
    BY <1>1, <1>4, <1>5, ProceedErrs, ReturnErrorErrs DEF IInv
  <1>8. RunFrame
    BY <1>1, <1>5, <1>6, <1>7 DEF RunFrame
  <1>9. JobLogged'
    BY <1>1, <1>6, <1>8 DEF RunFrame, IInv, JobLogged, LoggedBeforeDone, Recorded
  <1>10. BodyIsClean' /\ Recorded'
    BY <1>1, <1>6, <1>8 DEF BodyIsClean, Recorded, RunFrame, IInv
  <1>11. EndingIsGood'
    BY <1>1, <1>6, <1>7 DEF EndingIsGood, IInv, BodyIsClean, Recorded
  <1>. QED
    BY <1>8, <1>9, <1>10, <1>11, FrameKeeps

\* Cleanup keeps the invariant.
LEMMA CleanupKeeps ==
  ASSUME IInv, TypeOK', OneRun', Cleanup
  PROVE  IInv'
  <1>. USE DEF At, RunPoints, BodyPoints, BeforeStaging, BeforeUpload, Uploading
  <1>1. job \in Names
    BY DEF IInv, OneRun, Cleanup
  <1>2. /\ pc = "cleanup" /\ pc' = "finish"
        /\ UNCHANGED <<job, results, progress, object>>
    BY DEF Cleanup, Goto
  <1>3. /\ \A n \in Names \ {job} :
              /\ errs'[n] = errs[n] /\ journal'[n] = journal[n]
              /\ artifact'[n] = artifact[n]
        /\ \A n \in Names : journal[n] \subseteq journal'[n]
        /\ \/ errs' = errs /\ artifact'[job] = "none" /\ UNCHANGED logHealthy
           \/ errs'[job] # <<>> /\ artifact[job] # "none"
           \/ errs'[job] # <<>>
    BY <1>1, LogEffect, JoinErrorErrs, StageLists, StageNames
    DEF Cleanup, IInv, TypeOK
  <1>4. RunFrame
    BY <1>1, <1>2, <1>3 DEF RunFrame
  <1>5. JobLogged'
    BY <1>1, <1>2, <1>3, <1>4
    DEF RunFrame, IInv, JobLogged, LoggedBeforeDone, Recorded
  <1>6. BodyIsClean' /\ Recorded'
    BY <1>2 DEF BodyIsClean, Recorded
  <1>7. EndingIsGood'
    BY <1>1, <1>2, <1>3, <1>4 DEF EndingIsGood, IInv, RunFrame
  <1>. QED
    BY <1>4, <1>5, <1>6, <1>7, FrameKeeps

\* The end of a Run moves its job from the running one to the results.
LEMMA FinishKeeps ==
  ASSUME IInv, TypeOK', OneRun', FinishFailed \/ FinishCompleted
  PROVE  IInv'
  <1>. USE DEF At, RunPoints, BodyPoints, BeforeStaging, BeforeUpload, Uploading
  <1>1. pc = "finish" /\ job \in Names
    BY DEF IInv, OneRun, FinishFailed, FinishCompleted
  <1>2. /\ pc' = "next" /\ job' = job /\ results' = results \cup {job}
        /\ artifact' = artifact /\ object' = object
    BY DEF FinishFailed, FinishCompleted, Finished, Goto, effects
  <1>3. /\ \A n \in Names \ {job} :
              errs'[n] = errs[n] /\ journal'[n] = journal[n] /\ progress'[n] = progress[n]
        /\ \A n \in Names : journal[n] \subseteq journal'[n]
    BY <1>1, LogEffect, ShowEffect, JoinErrorErrs, StageLists, StageNames
    DEF FinishFailed, FinishCompleted, IInv
  <1>4. \/ errs'[job] # <<>>
        \/ /\ errs[job] = <<>>
           /\ logHealthy => "completed" \in journal'[job]
           /\ progress'[job] = progress[job] \cup {<<"completed", "complete">>}
    <2>1. CASE FinishFailed
      BY <1>1, <2>1, JoinErrorErrs, StageLists, StageNames DEF FinishFailed, IInv
    <2>2. CASE FinishCompleted
      BY <1>1, <2>2, JoinErrorErrs, LogEffect, ShowEffect, StageLists, StageNames
      DEF FinishCompleted, IInv
    <2>. QED
      BY <2>1, <2>2
  <1>5. Untouched'
    BY <1>1, <1>2, <1>3 DEF IInv, Untouched, Running
  <1>6. BodyIsClean' /\ Recorded' /\ EndingIsGood' /\ NotShownFailed'
    BY <1>2 DEF BodyIsClean, Recorded, EndingIsGood, NotShownFailed
  <1>7. SuccessIsDurable'
    <2>1. ASSUME NEW n \in Names \ {job}, Succeeded(n)'
          PROVE  /\ n \in object' /\ artifact'[n] = "none"
                 /\ {"started", "staged", "upload_started",
                     "completed"} \subseteq journal'[n]
                 /\ "failed" \notin {event[1] : event \in progress'[n]}
      BY <1>2, <1>3, <2>1 DEF IInv, SuccessIsDurable, Succeeded
    <2>2. ASSUME errs'[job] = <<>>
          PROVE  /\ job \in object' /\ artifact'[job] = "none"
                 /\ {"started", "staged", "upload_started",
                     "completed"} \subseteq journal'[job]
                 /\ "failed" \notin {event[1] : event \in progress'[job]}
      <3>1. errs[job] = <<>> /\ EndingIsGood /\ NotShownFailed
        BY <1>4, <2>2 DEF IInv
      <3>2. /\ job \in object' /\ artifact'[job] = "none"
            /\ {"started", "staged", "upload_started",
                "completed"} \subseteq journal'[job]
        BY <1>1, <1>2, <1>3, <1>4, <2>2, <3>1 DEF EndingIsGood
      <3>3. \A event \in progress'[job] : event[1] # "failed"
        BY <1>1, <1>4, <2>2, <3>1 DEF NotShownFailed
      <3>. QED
        BY <3>2, <3>3
    <2>. QED
      BY <1>2, <2>1, <2>2 DEF SuccessIsDurable, Succeeded
  <1>8. LoggedBeforeDone'
    BY <1>2, <1>3 DEF IInv, LoggedBeforeDone, TypeOK
  <1>. QED
    BY <1>2, <1>5, <1>6, <1>7, <1>8 DEF IInv, NoResults

\* RunMany rejects, accepts, calls the next Run, or returns.
LEMMA RunManyKeeps ==
  ASSUME IInv, TypeOK', OneRun',
         RejectSelection \/ AcceptSelection \/ NextJob \/ ReturnSummary
  PROVE  IInv'
  <1>. USE DEF At, RunPoints, BodyPoints, BeforeStaging, BeforeUpload, Uploading
  <1>1. CASE RejectSelection
    <2>1. /\ pc' = "returned" /\ results' = names
          /\ UNCHANGED <<job, effects, records>>
          /\ errs' = [n \in Names |-> IF n \in names THEN <<"configuration">> ELSE errs[n]]
      BY <1>1 DEF RejectSelection, Goto
    <2>2. pc = "select"
      BY <1>1 DEF RejectSelection
    <2>3. \A n \in Names : n \in names => errs'[n] # <<>>
      BY <2>1, StageLists, StageNames
    <2>4. SuccessIsDurable'
      BY <2>1, <2>3 DEF IInv, TypeOK, SuccessIsDurable, Succeeded
    <2>5. Untouched' /\ BodyIsClean' /\ Recorded' /\ EndingIsGood' /\ NotShownFailed'
      <3>1. NoResults
        BY <2>2 DEF IInv
      <3>. QED
        BY <2>1, <2>2, <3>1
        DEF IInv, Untouched, Running, BodyIsClean, Recorded, EndingIsGood,
            NotShownFailed,
            NoResults, effects, records
    <2>. QED
      BY <2>1, <2>4, <2>5 DEF IInv, NoResults, LoggedBeforeDone, effects, records
  <1>2. CASE AcceptSelection \/ ReturnSummary
    <2>1. /\ pc \notin RunPoints /\ pc' \in {"next", "returned"}
          /\ UNCHANGED <<job, results, errs, effects, records>>
      BY <1>2 DEF AcceptSelection, ReturnSummary, Goto
    <2>. QED
      BY <2>1
      DEF IInv, Untouched, Running, BodyIsClean, Recorded, EndingIsGood,
          NotShownFailed,
          SuccessIsDurable, Succeeded, LoggedBeforeDone, NoResults, effects, records
  <1>3. CASE NextJob
    <2>1. /\ pc = "next" /\ pc' = "log_started" /\ logHealthy' = TRUE
          /\ UNCHANGED <<results, errs, effects, journal, progress>>
      BY <1>3 DEF NextJob, Goto
    <2>2. job' \in Names /\ job' \notin results
      BY <1>3 DEF NextJob, Selected, EnabledJobNames, IInv, TypeOK
    <2>3. errs[job'] = <<>> /\ progress[job'] = {}
      BY <2>1, <2>2 DEF IInv, Untouched, Running
    <2>4. Untouched'
      BY <2>1, <2>2 DEF IInv, Untouched, Running, effects
    <2>5. BodyIsClean' /\ Recorded' /\ EndingIsGood' /\ NotShownFailed'
      BY <2>1, <2>3 DEF BodyIsClean, Recorded, EndingIsGood, NotShownFailed
    <2>6. SuccessIsDurable' /\ LoggedBeforeDone'
      BY <2>1 DEF IInv, SuccessIsDurable, Succeeded, LoggedBeforeDone, effects
    <2>. QED
      BY <2>1, <2>4, <2>5, <2>6 DEF IInv, NoResults
  <1>. QED
    BY <1>1, <1>2, <1>3

\* A signal, and a step in which nothing changes.
LEMMA CancelKeeps ==
  ASSUME IInv, TypeOK', OneRun', Cancel \/ UNCHANGED vars
  PROVE  IInv'
  BY
  DEF Cancel, vars, effects, records, IInv, Untouched, Running, BodyIsClean,
      Recorded,
         EndingIsGood, NotShownFailed, SuccessIsDurable, Succeeded,
         LoggedBeforeDone, NoResults

\* A kill can add an object, or what an attempt to stage leaves, of the current
\* Run only, and only where the events before it are in the log.
LEMMA KillKeeps ==
  ASSUME IInv, TypeOK', OneRun', Kill
  PROVE  IInv'
  <1>. USE DEF RunPoints, BodyPoints, BeforeStaging, BeforeUpload, Uploading
  <1>1. UNCHANGED <<pc, job, results, errs, journal, progress, logHealthy>>
    BY DEF Kill, records
  <1>2. CASE pc \in RunPoints
    <2>1. job \in Names
      BY <1>2 DEF IInv, OneRun
    <2>2. RunFrame
      BY <1>1, <1>2, <2>1 DEF Kill, RunFrame, IInv, TypeOK
    <2>3. BodyIsClean' /\ Recorded'
      BY <1>1 DEF Kill, IInv, BodyIsClean, Recorded
    <2>4. EndingIsGood'
      BY <1>1, <2>2 DEF Kill, IInv, EndingIsGood, RunFrame
    <2>5. JobLogged'
      BY <1>1, <2>1 DEF Kill, IInv, JobLogged, LoggedBeforeDone, Recorded, TypeOK
    <2>. QED
      BY <2>2, <2>3, <2>4, <2>5, FrameKeeps
  <1>3. CASE pc \notin RunPoints
    <2>1. UNCHANGED <<artifact, object>>
      BY <1>3 DEF Kill
    <2>. QED
      BY <1>1, <1>3, <2>1
      DEF IInv, Untouched, Running, BodyIsClean, Recorded, EndingIsGood,
          NotShownFailed,
          SuccessIsDurable, Succeeded, LoggedBeforeDone, NoResults
  <1>. QED
    BY <1>2, <1>3

-----------------------------------------------------------------------------
(* The theorems *)

\* The invariant holds at first.
LEMMA InvInit == Init => IInv
  BY TypeInit
  DEF Init, IInv, OneRun, Untouched, Running, BodyIsClean, Recorded, EndingIsGood,
      NotShownFailed, SuccessIsDurable, Succeeded, LoggedBeforeDone, NoResults,
      RunPoints, BodyPoints, BeforeStaging, BeforeUpload, Uploading

\* The invariant is inductive.
LEMMA InvStep ==
  ASSUME IInv, [Next]_vars
  PROVE  IInv'
  <1>1. TypeOK' /\ OneRun'
    BY TypeStep, OneRunStep DEF IInv
  <1>2. CASE RunStep
    BY <1>1, <1>2, LogStartedKeeps, ResolveDumpKeeps, LogDumpOptionsKeeps,
       StageCallKeeps, StageReturnKeeps, LogStagedKeeps, ResolveStorageKeeps,
       LogStorageOptionsKeeps, NewStoreKeeps, OpenArtifactKeeps,
       LogUploadStartedKeeps, UploadCallKeeps, UploadReturnKeeps, CleanupKeeps,
       FinishKeeps
    DEF RunStep
  <1>. QED
    BY <1>1, <1>2, RunManyKeeps, CancelKeeps, KillKeeps
    DEF Next, ServiceStep, Terminated

\* A job that the summary calls successful has its object in the store, nothing
\* left in the staging directory and its whole life in the log, for every set
\* of names, configuration, selection, and placing of failures, signals and kills.
THEOREM SuccessDurable == Spec => []SuccessIsDurable
  <1>1. IInv => SuccessIsDurable
    BY DEF IInv
  <1>. QED
    BY <1>1, InvInit, InvStep, PTL DEF Spec

\* Nothing is staged and no object exists without the log events before it.
THEOREM LogComesFirst == Spec => []LoggedBeforeDone
  <1>1. IInv => LoggedBeforeDone
    BY DEF IInv
  <1>. QED
    BY <1>1, InvInit, InvStep, PTL DEF Spec

\* Once an event of a job could not be written, that job stages nothing and
\* creates no object: its body has been left for the deferred functions.
THEOREM LogFailureStops == Spec => LogFailureStopsWork
  <1>. DEFINE A == ~logHealthy /\ job' = job /\ ~logHealthy' =>
                      /\ object' = object
                      /\ artifact'[job] # artifact[job] => artifact[job] = "staged"
  <1>1. ASSUME IInv, Next PROVE A
    <2>. USE DEF At, RunPoints, BodyPoints, BeforeStaging, BeforeUpload, Uploading
    <2>1. ~logHealthy => pc \notin BodyPoints
      BY <1>1 DEF IInv, BodyIsClean
    <2>2. CASE RunStep
      <3>1. CASE Cleanup
        BY <1>1, <3>1 DEF Cleanup, IInv, Recorded
      <3>2. CASE FinishFailed \/ FinishCompleted
        BY <3>2 DEF FinishFailed, FinishCompleted, effects
      <3>3. CASE pc \in BodyPoints
        BY <2>1, <3>3
      <3>. QED
        BY <2>2, <3>1, <3>2, <3>3
        DEF RunStep, LogStarted, ResolveDump, LogDumpOptions, StageCall,
            StageReturn,
            LogStaged, ResolveStorage, LogStorageOptions, NewStore, OpenArtifact,
            LogUploadStarted, UploadCall, UploadReturn
    <2>3. CASE Kill
      BY <2>1, <2>3 DEF Kill
    <2>4. CASE \/ RejectSelection \/ AcceptSelection \/ NextJob \/ ReturnSummary
               \/ Cancel \/ Terminated
      BY <2>4
      DEF RejectSelection, AcceptSelection, NextJob, ReturnSummary, Cancel,
          Terminated,
          vars, effects
    <2>. QED
      BY <1>1, <2>2, <2>3, <2>4 DEF Next, ServiceStep
  <1>2. IInv /\ [Next]_vars => [A]_vars
    BY <1>1
  <1>. QED
    BY <1>2, InvInit, InvStep, PTL DEF Spec, LogFailureStopsWork

\* After cancellation only an upload already under way can create an object, and
\* only a dump already running can leave something in the staging directory.
THEOREM CancelStops == Spec => CancelStopsWork
  <1>. DEFINE A == cancelled =>
                     /\ pc' \in {"staging", "uploading"} => pc' = pc
                     /\ object' # object => pc = "uploading"
                     /\ \A n \in Names : artifact[n] = "none" /\ artifact'[n] # "none" =>
                           pc = "staging" /\ artifact'[n] = "residue"
  <1>1. ASSUME IInv, Next, cancelled
        PROVE  pc' \in {"staging", "uploading"} => pc' = pc
    <2>. USE DEF At, Goto, Proceed, ReturnError, Finished
    <2>1. CASE StageCall \/ UploadCall
      BY <1>1, <2>1 DEF StageCall, UploadCall
    <2>2. CASE StageReturn \/ UploadReturn \/ Cleanup
      BY <2>2 DEF StageReturn, UploadReturn, Cleanup
    <2>3. CASE Cancel \/ Kill \/ Terminated
      BY <2>3 DEF Cancel, Kill, Terminated, vars
    <2>4. CASE LogStarted \/ LogDumpOptions \/ LogStaged \/ LogStorageOptions
      BY <2>4
      DEF LogStep, LogStarted, LogDumpOptions, LogStaged, LogStorageOptions
    <2>5. CASE \/ ResolveDump \/ ResolveStorage \/ NewStore \/ OpenArtifact
               \/ LogUploadStarted
      BY <2>5
      DEF ResolveDump, ResolveStorage, NewStore, OpenArtifact, LogUploadStarted
    <2>6. CASE \/ RejectSelection \/ AcceptSelection \/ NextJob
               \/ ReturnSummary \/ FinishFailed \/ FinishCompleted
      BY <2>6
      DEF RejectSelection, AcceptSelection, NextJob, ReturnSummary,
          FinishFailed, FinishCompleted
    <2>. QED
      BY <1>1, <2>1, <2>2, <2>3, <2>4, <2>5, <2>6
      DEF Next, ServiceStep, RunStep
  <1>2. ASSUME IInv, Next PROVE A
    <2>. USE DEF At
    <2>1. CASE StageReturn
      BY <1>1, <1>2, <2>1 DEF StageReturn, IInv, TypeOK
    <2>2. CASE Cleanup
      <3>1. artifact[job] = "staged" /\ UNCHANGED object
        BY <1>2, <2>2 DEF Cleanup, IInv, Recorded
      <3>2. \A n \in Names \ {job} : artifact'[n] = artifact[n]
        BY <1>2, <2>2 DEF Cleanup, IInv, TypeOK
      <3>. QED
        BY <1>1, <1>2, <3>1, <3>2
    <2>3. CASE UploadReturn
      BY <1>1, <1>2, <2>3 DEF UploadReturn
    <2>4. CASE Kill
      BY <1>1, <1>2, <2>4 DEF Kill, IInv, TypeOK
    <2>5. CASE ~(StageReturn \/ Cleanup \/ UploadReturn \/ Kill)
      <3>1. UNCHANGED <<artifact, object>>
        BY <1>2, <2>5
        DEF Next, ServiceStep, RunStep, RejectSelection, AcceptSelection,
            NextJob, ReturnSummary, Cancel, Terminated, LogStarted,
            ResolveDump, LogDumpOptions, StageCall, LogStaged, ResolveStorage,
            LogStorageOptions, NewStore, OpenArtifact, LogUploadStarted,
            UploadCall, FinishFailed, FinishCompleted, vars, effects
      <3>. QED
        BY <1>1, <1>2, <3>1
    <2>. QED
      BY <2>1, <2>2, <2>3, <2>4, <2>5
  <1>3. IInv /\ [Next]_vars => [A]_vars
    BY <1>2
  <1>. QED
    BY <1>3, InvInit, InvStep, PTL DEF Spec, CancelStopsWork

-----------------------------------------------------------------------------
(* The refinement of BackupPromise                                           *)

\* The current job is the first of the selected ones without a result, and all
\* of them may run.
OrderOK ==
    /\ pc = "select" => object = {}
    /\ pc \in {"next"} \cup RunPoints => names \subseteq EnabledJobNames
    /\ pc \in RunPoints => job \in Selected /\ \A m \in Selected \ results : job <= m

\* What the promise sees.
Outcome(n) == IF n \notin results THEN "pending"
              ELSE IF errs[n] = <<>> THEN "succeeded" ELSE "failed"
Outcomes == [n \in Names |-> Outcome(n)]
OnDisk == {n \in Names : artifact[n] # "none"}

\* A step of Run leaves the request, and the errors of the other jobs.
LEMMA RunLeaves ==
  ASSUME IInv, RunStep
  PROVE  /\ pc \in RunPoints /\ job \in Names /\ job' = job
         /\ UNCHANGED <<request, cancelled, killed>>
         /\ \A n \in Names \ {job} : errs'[n] = errs[n]
  <1>. USE DEF At, RunPoints, BodyPoints, BeforeStaging, BeforeUpload, Uploading
  <1>1. /\ pc \in RunPoints /\ job' = job /\ UNCHANGED <<request, cancelled, killed>>
    BY DEF RunStep, LogStarted, ResolveDump, LogDumpOptions, StageCall, StageReturn,
           LogStaged, ResolveStorage, LogStorageOptions, NewStore, OpenArtifact,
           LogUploadStarted, UploadCall, UploadReturn, Cleanup, FinishFailed,
           FinishCompleted
  <1>2. job \in Names
    BY <1>1 DEF IInv, OneRun
  <1>3. errs' = errs \/ \E s \in Seq(Stages) : errs' = [errs EXCEPT ![job] = s]
    <2>. USE <1>2, StageNames, StageLists, Joined
         DEF IInv, TypeOK, Proceed, ReturnError, JoinError, LogStep
    <2>1. CASE LogStarted \/ LogDumpOptions \/ LogStaged \/ LogStorageOptions
      BY <2>1 DEF LogStarted, LogDumpOptions, LogStaged, LogStorageOptions
    <2>2. CASE ResolveDump \/ StageCall \/ ResolveStorage \/ NewStore \/ OpenArtifact
      BY <2>2 DEF ResolveDump, StageCall, ResolveStorage, NewStore, OpenArtifact
    <2>3. CASE StageReturn
      BY <2>3 DEF StageReturn
    <2>4. CASE LogUploadStarted
      BY <2>4, TwoErrors DEF LogUploadStarted
    <2>5. CASE UploadCall
      BY <2>5, TwoErrors DEF UploadCall
    <2>6. CASE UploadReturn
      BY <2>6, TwoErrors DEF UploadReturn
    <2>7. CASE Cleanup
      BY <2>7 DEF Cleanup
    <2>8. CASE FinishFailed \/ FinishCompleted
      BY <2>8 DEF FinishFailed, FinishCompleted
    <2>. QED
      BY <2>1, <2>2, <2>3, <2>4, <2>5, <2>6, <2>7, <2>8 DEF RunStep
  <1>. QED
    BY <1>1, <1>2, <1>3 DEF IInv, TypeOK

\* The order of jobs is kept.
LEMMA OrderStep ==
  ASSUME IInv, OrderOK, [Next]_vars
  PROVE  OrderOK'
  <1>. USE DEF At, Goto, request, effects, records, vars
  <1>1. CASE RunStep
    <2>1. /\ UNCHANGED <<names, config, job>> /\ pc \in RunPoints
      BY <1>1, RunLeaves
    <2>2. (pc' \in RunPoints /\ results' = results) \/ pc' = "next"
      BY <1>1 DEF RunStep, LogStarted, ResolveDump, LogDumpOptions, StageCall,
             StageReturn, LogStaged, ResolveStorage, LogStorageOptions, NewStore,
             OpenArtifact, LogUploadStarted, UploadCall, UploadReturn, Cleanup,
             FinishFailed, FinishCompleted, Finished, Proceed, ReturnError, LogStep,
             RunPoints, BodyPoints, BeforeStaging, BeforeUpload, Uploading
    <2>3. "select" \notin RunPoints /\ "next" \notin RunPoints
      BY DEF RunPoints, BodyPoints, BeforeStaging, BeforeUpload, Uploading
    <2>. QED
      BY <2>1, <2>2, <2>3 DEF OrderOK, Selected, EnabledJobNames
  <1>. USE DEF RunPoints, BodyPoints, BeforeStaging, BeforeUpload, Uploading
  <1>2. CASE RejectSelection
    BY <1>2 DEF RejectSelection, OrderOK
  <1>3. CASE AcceptSelection
    <2>1. names \subseteq EnabledJobNames
      BY <1>3 DEF AcceptSelection, EnabledJobNames, IInv, TypeOK
    <2>. QED
      BY <1>3, <2>1 DEF AcceptSelection, OrderOK, EnabledJobNames
  <1>4. CASE NextJob
    <2>1. /\ pc = "next" /\ pc' = "log_started" /\ UNCHANGED <<names, config, results>>
          /\ job' \in Selected \ results
          /\ \A m \in Selected \ results : job' <= m
      BY <1>4 DEF NextJob
    <2>. QED
      BY <2>1 DEF OrderOK, Selected, EnabledJobNames
  <1>5. CASE ReturnSummary
    BY <1>5 DEF ReturnSummary, OrderOK
  <1>6. CASE Cancel \/ Kill \/ UNCHANGED vars
    <2>1. UNCHANGED <<names, config, job, pc, results>>
          /\ (pc = "select" => object' = object)
      BY <1>6 DEF Cancel, Kill
    <2>. QED
      BY <2>1 DEF OrderOK, Selected, EnabledJobNames
  <1>. QED
    BY <1>1, <1>2, <1>3, <1>4, <1>5, <1>6 DEF Next, ServiceStep, Terminated

\* It is the turn of the current job.
LEMMA JobsTurn ==
  ASSUME IInv, OrderOK, pc \in RunPoints
  PROVE  Promise!Turn(job)
  <1>1. /\ job \in Names /\ job \notin results
        /\ job \in Selected /\ \A m \in Selected \ results : job <= m
        /\ names \subseteq EnabledJobNames
    BY DEF IInv, OneRun, OrderOK
  <1>2. Selected \subseteq EnabledJobNames /\ Selected \subseteq Names
    BY <1>1 DEF Selected, EnabledJobNames
  <1>3. \A m \in Selected : m < job => m \in results
    BY <1>1, <1>2, NamesAssumption
  <1>. QED
    BY <1>1, <1>2, <1>3 DEF Promise!Turn

\* What the promise sees of a step in which the results stay.
LEMMA SameOutcomes ==
  ASSUME IInv, results' = results, \A n \in results : errs'[n] = errs[n]
  PROVE  Outcomes' = Outcomes
  BY DEF Outcomes, Outcome

\* Staging and removing is the promise's, whatever was there before.
LEMMA RunStages ==
  ASSUME IInv, OrderOK, pc \in RunPoints, UNCHANGED <<Selected, EnabledJobNames>>,
         Outcomes' = Outcomes, object' = object,
         NEW left \in {"none", "staged", "residue"},
         artifact' = [artifact EXCEPT ![job] = left]
  PROVE  Promise!Next \/ UNCHANGED Promise!promiseVars
  <1>1. PICK n \in Names : n = job /\ Promise!Turn(n)
    BY JobsTurn DEF IInv, OneRun
  <1>2. CASE left = "none"
    <2>1. OnDisk' = OnDisk \ {n}
      BY <1>1, <1>2 DEF OnDisk, IInv, TypeOK
    <2>2. Promise!Unstage(n)
      BY <1>1, <2>1
      DEF Promise!Unstage, Promise!request, OnDisk, Outcomes, Outcome
    <2>. QED
      BY <1>1, <2>2 DEF Promise!Next
  <1>3. CASE left # "none"
    <2>1. OnDisk' = OnDisk \cup {n}
      BY <1>1, <1>3 DEF OnDisk, IInv, TypeOK
    <2>2. Promise!Stage(n)
      BY <1>1, <2>1
      DEF Promise!Stage, Promise!request, OnDisk, Outcomes, Outcome
    <2>. QED
      BY <1>1, <2>2 DEF Promise!Next
  <1>. QED
    BY <1>2, <1>3

\* An object appears while the artifact is there.
LEMMA RunPublishes ==
  ASSUME IInv, OrderOK, pc \in RunPoints, UNCHANGED <<Selected, EnabledJobNames>>,
         Outcomes' = Outcomes, artifact[job] = "staged", artifact' = artifact,
         object' = object \cup {job}
  PROVE  Promise!Next \/ UNCHANGED Promise!promiseVars
  <1>1. job \in Names /\ Promise!Turn(job)
    BY JobsTurn DEF IInv, OneRun
  <1>2. job \in OnDisk /\ OnDisk' = OnDisk
    BY <1>1 DEF OnDisk
  <1>3. Promise!Publish(job)
    BY <1>1, <1>2
    DEF Promise!Publish, Promise!request, OnDisk, Outcomes, Outcome
  <1>. QED
    BY <1>1, <1>3 DEF Promise!Next

\* A step of the service is one of the promise, or changes nothing it sees.
LEMMA StepRefines ==
  ASSUME IInv, OrderOK, IInv', [Next]_vars
  PROVE  Promise!Next \/ UNCHANGED Promise!promiseVars
  <1>. USE DEF At, Goto, effects, records, request, vars
  <1>1. /\ UNCHANGED <<config, names>>
        /\ UNCHANGED <<Selected, EnabledJobNames>>
    <2>1. UNCHANGED <<config, names>>
      BY RunLeaves DEF Next, ServiceStep, RejectSelection, AcceptSelection, NextJob,
             ReturnSummary, Cancel, Kill, Terminated
    <2>. QED
      BY <2>1 DEF Selected, EnabledJobNames
  <1>. USE DEF Promise!promiseVars, Promise!request
  <1>2. ASSUME Outcomes' = Outcomes, object' = object, artifact' = artifact
        PROVE  UNCHANGED Promise!promiseVars
    BY <1>1, <1>2 DEF Outcomes, Outcome
  <1>3. CASE RejectSelection
    <2>1. results = {} /\ results' = names /\ names # {} /\ object = {}
          /\ UNCHANGED <<object, artifact>>
      BY <1>3 DEF RejectSelection, IInv, NoResults, OrderOK
    <2>2. \A n \in Names : artifact[n] = "none"
      BY <1>3, <2>1 DEF RejectSelection, IInv, Untouched, Running, RunPoints,
             BodyPoints, BeforeStaging, BeforeUpload, Uploading
    <2>3. Selected = names /\ names \subseteq Names
      BY <2>1 DEF Selected, IInv, TypeOK
    <2>4. \A n \in names : errs'[n] # <<>>
      BY <1>3, <2>3, StageLists, StageNames DEF RejectSelection
    <2>5. Outcomes' = [n \in Names |->
              IF n \in Selected THEN "failed" ELSE Outcomes[n]]
      BY <2>1, <2>3, <2>4 DEF Outcomes, Outcome
    <2>6. \A n \in Selected : Outcomes[n] = "pending"
      BY <2>1, <2>3 DEF Outcomes, Outcome
    <2>7. Promise!Refuse
      BY <1>1, <2>1, <2>2, <2>5, <2>6
      DEF Promise!Refuse, Promise!Decide, Outcomes, Outcome
    <2>. QED
      BY <2>7 DEF Promise!Next
  <1>4. CASE AcceptSelection \/ NextJob \/ ReturnSummary \/ Cancel \/ UNCHANGED vars
    <2>1. UNCHANGED <<results, errs, object, artifact>>
      BY <1>4 DEF AcceptSelection, NextJob, ReturnSummary, Cancel
    <2>. QED
      BY <1>2, <2>1, SameOutcomes
  <1>5. CASE Kill
    <2>1. Outcomes' = Outcomes
      BY <1>5, SameOutcomes DEF Kill
    <2>2. CASE UNCHANGED <<object, artifact>>
      BY <1>2, <2>1, <2>2
    <2>3. CASE pc = "uploading" /\ object' = object \cup {job} /\ UNCHANGED artifact
      <3>1. pc \in RunPoints /\ artifact[job] = "staged"
        BY <2>3 DEF IInv, Recorded, RunPoints, BodyPoints, Uploading
      <3>. QED
        BY <1>1, <2>1, <2>3, <3>1, RunPublishes
    <2>4. CASE /\ pc = "staging" /\ artifact' = [artifact EXCEPT ![job] = "residue"]
               /\ UNCHANGED object
      <3>1. pc \in RunPoints
        BY <2>4 DEF RunPoints, BodyPoints, BeforeStaging
      <3>. QED
        BY <1>1, <2>1, <2>4, <3>1, RunStages
    <2>. QED
      BY <1>5, <2>2, <2>3, <2>4 DEF Kill
  <1>6. CASE RunStep /\ ~(FinishFailed \/ FinishCompleted)
    <2>1. pc \in RunPoints /\ results' = results
      BY <1>6, RunLeaves
      DEF RunStep, LogStarted, ResolveDump, LogDumpOptions, StageCall, StageReturn,
          LogStaged, ResolveStorage, LogStorageOptions, NewStore, OpenArtifact,
          LogUploadStarted, UploadCall, UploadReturn, Cleanup
    <2>2. Outcomes' = Outcomes
      BY <1>6, <2>1, RunLeaves, SameOutcomes DEF IInv, OneRun, TypeOK
    <2>3. CASE StageReturn
      BY <1>1, <2>1, <2>2, <2>3, RunStages DEF StageReturn
    <2>4. CASE UploadReturn
      <3>1. artifact[job] = "staged" /\ artifact' = artifact
        BY <2>4 DEF UploadReturn, IInv, Recorded, Uploading
      <3>2. object' = object \/ object' = object \cup {job}
        BY <2>4 DEF UploadReturn
      <3>. QED
        BY <1>1, <1>2, <2>1, <2>2, <3>1, <3>2, RunPublishes
    <2>5. CASE Cleanup
      BY <1>1, <2>1, <2>2, <2>5, RunStages DEF Cleanup
    <2>6. CASE ~(StageReturn \/ UploadReturn \/ Cleanup)
      <3>1. UNCHANGED <<object, artifact>>
        BY <1>6, <2>6
        DEF RunStep, LogStarted, ResolveDump, LogDumpOptions, StageCall, LogStaged,
            ResolveStorage, LogStorageOptions, NewStore, OpenArtifact,
            LogUploadStarted, UploadCall
      <3>. QED
        BY <1>2, <2>2, <3>1
    <2>. QED
      BY <2>3, <2>4, <2>5, <2>6
  <1>7. CASE FinishFailed \/ FinishCompleted
    <2>1. /\ pc = "finish" /\ pc \in RunPoints
          /\ results' = results \cup {job} /\ UNCHANGED <<object, artifact>>
      BY <1>7 DEF FinishFailed, FinishCompleted, Finished, RunPoints
    <2>2. \A n \in Names \ {job} : errs'[n] = errs[n]
      BY <1>7, RunLeaves DEF RunStep
    <2>3. Outcomes' = [n \in Names |->
              IF n \in {job} THEN IF errs'[job] = <<>> THEN "succeeded" ELSE "failed"
                             ELSE Outcomes[n]]
      BY <2>1, <2>2 DEF Outcomes, Outcome
    <2>4. PICK n \in Names : n = job /\ Promise!Turn(n)
      BY <2>1, JobsTurn DEF IInv, OneRun
    <2>5. CASE errs'[job] # <<>>
      <3>1. Promise!Fail(n)
        BY <1>1, <2>1, <2>3, <2>4, <2>5
        DEF Promise!Fail, Promise!Decide, Outcomes, Outcome
      <3>. QED
        BY <2>4, <3>1 DEF Promise!Next
    <2>6. CASE errs'[job] = <<>>
      <3>1. job \in object /\ artifact[job] = "none"
        BY <2>1, <2>4, <2>6 DEF IInv, SuccessIsDurable, Succeeded
      <3>2. Promise!Succeed(n)
        BY <1>1, <2>1, <2>3, <2>4, <2>6, <3>1
        DEF Promise!Succeed, Promise!Decide, Outcomes, Outcome
      <3>. QED
        BY <2>4, <3>2 DEF Promise!Next
    <2>. QED
      BY <2>5, <2>6
  <1>. QED
    BY <1>3, <1>4, <1>5, <1>6, <1>7 DEF Next, ServiceStep, Terminated, RunStep

\* The service implements its promise: jobs are decided in name order, and what
\* each Run does to disk and store is what the promise allows for its job.
THEOREM ServiceKeepsPromise == Spec => KeepsPromise
  <1>1. Init => OrderOK
    BY DEF Init, OrderOK, RunPoints, BodyPoints, BeforeStaging, BeforeUpload, Uploading
  <1>2. Init => Promise!Init
    BY DEF Init, Promise!Init, Selected, EnabledJobNames
  <1>3. IInv /\ OrderOK /\ [Next]_vars => IInv' /\ OrderOK'
    BY InvStep, OrderStep
  <1>4. IInv /\ OrderOK /\ IInv' /\ [Next]_vars => [Promise!Next]_(Promise!promiseVars)
    BY StepRefines
  <1>. QED
    BY <1>1, <1>2, <1>3, <1>4, InvInit, PTL DEF Spec, KeepsPromise, Promise!Spec

-----------------------------------------------------------------------------
(* What is reported                                                          *)

Has(s, stage) == \E i \in DOMAIN s : s[i] = stage

\* A failure that is shown is the first of its job.
ShownFirst ==
    \A n \in Names : \A event \in progress[n] :
        event[1] = "failed" => faults[n] # <<>> /\ event[2] = Head(faults[n])

\* A job whose turn has not come has no log, and `staged' is logged only behind
\* the point at which the artifact is there.
NotLoggedYet ==
    /\ \A n \in Names : n \notin results /\ ~Running(n) => journal[n] = {}
    /\ pc \in {"log_started"} \cup BeforeStaging => "staged" \notin journal[job]

\* ResidueIsReported, already at the last deferred function.
ResidueNamed(n) ==
    artifact[n] # "none" =>
        errs[n] # <<>> /\ ("staged" \in journal[n] => Has(errs[n], "cleanup"))

ReportOK ==
    /\ errs = faults /\ ShownFirst /\ NotLoggedYet
    /\ \A n \in results : ResidueNamed(n)
    /\ pc = "finish" => ResidueNamed(job)

\* Joining keeps what is there, adds what is joined, and leaves the first.
LEMMA JoinedHas ==
  ASSUME NEW s \in Seq(Stages), NEW t \in Seq(Stages)
  PROVE  /\ \A stage : Has(s, stage) => Has(s \o t, stage)
         /\ t # <<>> => Has(s \o t, Head(t))
         /\ s # <<>> => s \o t # <<>> /\ Head(s \o t) = Head(s)
         /\ <<>> \o t = t
  <1>1. ASSUME NEW stage, Has(s, stage)
        PROVE  Has(s \o t, stage)
    <2>1. PICK i \in DOMAIN s : s[i] = stage
      BY <1>1 DEF Has
    <2>2. i \in DOMAIN (s \o t) /\ (s \o t)[i] = s[i]
      BY <2>1
    <2>. QED
      BY <2>1, <2>2 DEF Has
  <1>2. ASSUME t # <<>>
        PROVE  Has(s \o t, Head(t))
    <2>1. Len(s) + 1 \in DOMAIN (s \o t) /\ (s \o t)[Len(s) + 1] = Head(t)
      BY <1>2
    <2>. QED
      BY <2>1 DEF Has
  <1>. QED
    BY <1>1, <1>2

\* An error that Run returns from its body is its only one.
LEMMA ReturnErrorReports ==
  ASSUME TypeOK, job \in Names, errs = faults, errs[job] = <<>>,
         NEW stages \in Seq(Stages), NEW point, ReturnError(stages, point)
  PROVE  errs' = faults'
  <1>1. <<>> \o stages = stages
    BY JoinedHas, StageLists
  <1>. QED
    BY <1>1 DEF ReturnError, Faulted, TypeOK

\* What a step of Run returns or joins is what it met.
LEMMA RunReports ==
  ASSUME IInv, errs = faults, RunStep
  PROVE  errs' = faults'
  <1>. USE DEF At, RunPoints, BodyPoints, BeforeStaging, BeforeUpload, Uploading
  <1>1. job \in Names
    BY RunLeaves
  <1>2. ASSUME Cleanup \/ FinishFailed \/ FinishCompleted
        PROVE  errs' = faults'
    BY <1>2 DEF Cleanup, FinishFailed, FinishCompleted, JoinError, Faulted
  <1>3. ASSUME pc \in BodyPoints, RunStep
        PROVE  errs' = faults'
    <2>1. errs[job] = <<>> /\ TypeOK
      BY <1>3 DEF IInv, BodyIsClean
    <2>2. \A point : Proceed(point) => errs' = faults'
      BY DEF Proceed
    <2>3. \A stages \in Seq(Stages) : \A point :
              ReturnError(stages, point) => errs' = faults'
      BY <1>1, <2>1, ReturnErrorReports
    <2>. USE StageNames, StageLists DEF LogStep
    <2>4. CASE LogStarted \/ LogDumpOptions \/ LogStaged \/ LogStorageOptions
      BY <2>2, <2>3, <2>4 DEF LogStarted, LogDumpOptions, LogStaged, LogStorageOptions
    <2>5. CASE ResolveDump \/ StageCall \/ ResolveStorage \/ NewStore \/ OpenArtifact
      BY <2>2, <2>3, <2>5
      DEF ResolveDump, StageCall, ResolveStorage, NewStore, OpenArtifact
    <2>6. CASE StageReturn
      BY <2>2, <2>3, <2>6 DEF StageReturn
    <2>7. CASE LogUploadStarted \/ UploadCall
      BY <2>2, <2>3, <2>7, TwoErrors DEF LogUploadStarted, UploadCall
    <2>8. CASE UploadReturn
      <3>1. PICK upload \in {<<>>, <<"s3_upload">>},
                 close \in {<<>>, <<"temporary_storage">>} :
                IF upload \o close = <<>> THEN Proceed("cleanup")
                                         ELSE ReturnError(upload \o close, "cleanup")
        BY <2>8, Zenon DEF UploadReturn
      <3>2. upload \o close \in Seq(Stages)
        BY Joined
      <3>. QED
        BY <2>2, <2>3, <3>1, <3>2
    <2>9. CASE Cleanup \/ FinishFailed \/ FinishCompleted
      BY <1>2, <2>9
    <2>. QED
      BY <1>3, <2>4, <2>5, <2>6, <2>7, <2>8, <2>9 DEF RunStep
  <1>4. pc \in {"cleanup", "finish"} => Cleanup \/ FinishFailed \/ FinishCompleted
    BY DEF RunStep, LogStarted, ResolveDump, LogDumpOptions, StageCall, StageReturn,
           LogStaged, ResolveStorage, LogStorageOptions, NewStore, OpenArtifact,
           LogUploadStarted, UploadCall, UploadReturn
  <1>. QED
    BY <1>2, <1>3, <1>4, RunLeaves

\* A step of Run writes to the log and shows events of its own job only, and
\* writes `staged' only once the artifact is there.
LEMMA RunRecords ==
  ASSUME IInv, RunStep
  PROVE  /\ \A n \in Names \ {job} :
               journal'[n] = journal[n] /\ progress'[n] = progress[n]
         /\ pc # "log_staged" /\ "staged" \in journal'[job] => "staged" \in journal[job]
  <1>1. job \in Names /\ TypeOK
    BY RunLeaves DEF IInv
  <1>. USE DEF At, LogStep, records
  <1>2. \A message : Logged(message) \/ LogFails(message) =>
            /\ \A n \in Names \ {job} : journal'[n] = journal[n]
            /\ journal'[job] \subseteq journal[job] \cup {message}
    BY <1>1 DEF TypeOK, Logged, LogFails
  <1>3. \A shown : Show(shown) => \A n \in Names \ {job} : progress'[n] = progress[n]
    BY <1>1 DEF TypeOK, Show
  <1>4. CASE LogStarted \/ LogDumpOptions \/ LogStaged \/ LogStorageOptions
    BY <1>2, <1>3, <1>4 DEF LogStarted, LogDumpOptions, LogStaged, LogStorageOptions
  <1>5. CASE LogUploadStarted
    BY <1>2, <1>3, <1>5 DEF LogUploadStarted
  <1>6. CASE Cleanup
    BY <1>2, <1>6 DEF Cleanup
  <1>7. CASE FinishFailed \/ FinishCompleted
    BY <1>2, <1>3, <1>7 DEF FinishFailed, FinishCompleted
  <1>8. CASE \/ ResolveDump \/ StageCall \/ StageReturn \/ ResolveStorage \/ NewStore
             \/ OpenArtifact \/ UploadCall \/ UploadReturn
    BY <1>8 DEF ResolveDump, StageCall, StageReturn, ResolveStorage, NewStore,
           OpenArtifact, UploadCall, UploadReturn
  <1>. QED
    BY <1>4, <1>5, <1>6, <1>7, <1>8 DEF RunStep

\* From where a step of Run can come.
LEMMA RunPath ==
  ASSUME IInv, RunStep
  PROVE  /\ pc' \in {"log_started"} \cup BeforeStaging =>
                pc \in {"log_started"} \cup (BeforeStaging \ {"log_staged"})
         /\ pc' = "finish" /\ pc # "cleanup" =>
                /\ pc \in {"log_started"} \cup (BeforeStaging \ {"log_staged"})
                /\ errs'[job] # <<>>
         /\ pc = "finish" => FinishFailed \/ FinishCompleted
         /\ pc' # "next" => pc' \in RunPoints /\ results' = results
         /\ pc = "cleanup" => Cleanup
         /\ pc' = "next" => pc = "finish"
  <1>1. job \in Names /\ TypeOK /\ pc \in RunPoints
    BY RunLeaves DEF IInv
  <1>2. \A point : Proceed(point) => pc' = point
    BY DEF Proceed, Goto
  <1>3. \A stages \in Seq(Stages) : \A point : ReturnError(stages, point) => pc' = point
    BY DEF ReturnError, Goto
  <1>4. \A stage \in Stages : \A point : ReturnError(<<stage>>, point) =>
            pc' = point /\ errs'[job] # <<>>
    BY <1>1, StageLists, ReturnErrorErrs
  <1>. USE StageNames, StageLists
       DEF At, LogStep, RunPoints, BodyPoints, BeforeStaging, BeforeUpload, Uploading
  <1>5. CASE LogStarted \/ LogDumpOptions \/ LogStaged \/ LogStorageOptions
    BY <1>2, <1>4, <1>5 DEF LogStarted, LogDumpOptions, LogStaged, LogStorageOptions
  <1>6. CASE ResolveDump \/ StageCall \/ ResolveStorage \/ NewStore \/ OpenArtifact
    BY <1>2, <1>4, <1>6
    DEF ResolveDump, StageCall, ResolveStorage, NewStore, OpenArtifact
  <1>7. CASE StageReturn
    <2>1. \/ Proceed("log_staged")
          \/ \E stage \in Stages : ReturnError(<<stage>>, "finish")
      BY <1>7 DEF StageReturn
    <2>2. pc = "staging" /\ results' = results
      BY <1>7 DEF StageReturn
    <2>3. pc' = "log_staged" \/ (pc' = "finish" /\ errs'[job] # <<>>)
      <3>1. CASE Proceed("log_staged")
        BY <1>2, <3>1
      <3>2. ASSUME NEW stage \in Stages, ReturnError(<<stage>>, "finish")
            PROVE  pc' = "finish" /\ errs'[job] # <<>>
        BY <1>4, <3>2
      <3>. QED
        BY <2>1, <3>1, <3>2
    <2>. QED
      BY <2>2, <2>3
  <1>8. CASE LogUploadStarted \/ UploadCall
    BY <1>2, <1>8 DEF LogUploadStarted, UploadCall, ReturnError, Goto
  <1>9. CASE UploadReturn
    BY <1>2, <1>9 DEF UploadReturn, ReturnError, Goto
  <1>10. CASE Cleanup
    BY <1>10 DEF Cleanup, Goto
  <1>11. CASE FinishFailed \/ FinishCompleted
    BY <1>11 DEF FinishFailed, FinishCompleted, Finished, Goto
  <1>. QED
    BY <1>5, <1>6, <1>7, <1>8, <1>9, <1>10, <1>11 DEF RunStep

\* What is shown stays true.
LEMMA ShownStep ==
  ASSUME IInv, IInv', ReportOK, RunStep
  PROVE  ShownFirst'
  <1>1. job \in Names /\ errs' = faults' /\ job' = job
    BY RunLeaves, RunReports DEF ReportOK
  <1>2. ASSUME NEW n \in Names \ {job}
        PROVE  \A event \in progress'[n] :
                  event[1] = "failed" =>
                      faults'[n] # <<>> /\ event[2] = Head(faults'[n])
    BY <1>1, RunLeaves, RunRecords DEF ReportOK, ShownFirst
  <1>3. CASE pc' # "next"
    <2>1. \A event \in progress'[job] : event[1] # "failed"
      BY <1>1, <1>3, RunPath DEF IInv, NotShownFailed
    <2>. QED
      BY <1>2, <2>1 DEF ShownFirst
  <1>4. CASE pc' = "next"
    <2>1. \A event \in progress[job] : event[1] # "failed"
      BY <1>4, RunLeaves DEF IInv, NotShownFailed
    <2>2. errs[job] \in Seq(Stages)
      BY <1>1 DEF IInv, TypeOK
    <2>3. CASE FinishFailed
      <3>1. /\ errs[job] # <<>>
            /\ progress'[job] = progress[job] \cup {<<"failed", Head(errs[job])>>}
        BY <1>1, <2>3, ShowEffect DEF FinishFailed, IInv
      <3>2. errs'[job] # <<>> /\ Head(errs'[job]) = Head(errs[job])
        <4>1. errs' = errs \/ errs'[job] = errs[job] \o <<"logging">>
          BY <1>1, <2>3 DEF FinishFailed, JoinError, IInv, TypeOK
        <4>. QED
          BY <2>2, <3>1, <4>1, JoinedHas, StageLists, StageNames
      <3>. QED
        BY <1>1, <1>2, <2>1, <3>1, <3>2 DEF ShownFirst
    <2>4. CASE FinishCompleted
      <3>1. \/ progress'[job] = progress[job] \cup {<<"completed", "complete">>}
            \/ /\ progress'[job] = progress[job] \cup {<<"failed", "logging">>}
               /\ errs'[job] = <<>> \o <<"logging">>
        BY <1>1, <2>4, ShowEffect DEF FinishCompleted, JoinError, IInv, TypeOK
      <3>2. <<>> \o <<"logging">> = <<"logging">>
        BY JoinedHas, StageLists, StageNames
      <3>. QED
        BY <1>1, <1>2, <2>1, <3>1, <3>2 DEF ShownFirst
    <2>. QED
      BY <1>4, <2>3, <2>4, RunPath
  <1>. QED
    BY <1>3, <1>4

\* What a step of Run leaves on disk is named in the end.
LEMMA ResidueStep ==
  ASSUME IInv, IInv', ReportOK, RunStep
  PROVE  /\ \A n \in results' : ResidueNamed(n)'
         /\ pc' = "finish" => ResidueNamed(job)'
  <1>1. /\ job \in Names /\ job' = job /\ TypeOK
        /\ job \notin results /\ results \subseteq Names
    BY RunLeaves DEF IInv, OneRun, TypeOK
  <1>2. ASSUME NEW n \in results
        PROVE  ResidueNamed(n)'
    <2>1. n \in Names \ {job}
      BY <1>1
    <2>2. artifact'[n] = artifact[n]
      BY <1>1, <2>1 DEF RunStep, LogStarted, ResolveDump, LogDumpOptions, StageCall,
             StageReturn, LogStaged, ResolveStorage, LogStorageOptions, NewStore,
             OpenArtifact, LogUploadStarted, UploadCall, UploadReturn, Cleanup,
             FinishFailed, FinishCompleted, effects, TypeOK
    <2>. QED
      BY <1>2, <2>1, <2>2, RunLeaves, RunRecords DEF ReportOK, ResidueNamed
  <1>3. CASE pc' = "finish" /\ pc # "cleanup"
    <2>1. "staged" \notin journal'[job] /\ errs'[job] # <<>>
      BY <1>3, RunPath, RunRecords DEF ReportOK, NotLoggedYet
    <2>. QED
      BY <1>1, <1>2, <1>3, <2>1, RunPath DEF ResidueNamed
  <1>4. CASE pc = "cleanup"
    <2>1. /\ Cleanup /\ pc' = "finish" /\ results' = results
      BY <1>4, RunPath DEF Cleanup, Goto
    <2>2. \/ artifact'[job] = "none"
          \/ errs'[job] = errs[job] \o <<"cleanup">>
          \/ errs'[job] = errs[job] \o <<"cleanup", "logging">>
      BY <1>1, <2>1 DEF Cleanup, JoinError, TypeOK
    <2>3. /\ <<"cleanup">> \in Seq(Stages) /\ Head(<<"cleanup">>) = "cleanup"
          /\ <<"cleanup", "logging">> \in Seq(Stages)
          /\ Head(<<"cleanup", "logging">>) = "cleanup"
          /\ <<"cleanup">> # <<>> /\ <<"cleanup", "logging">> # <<>>
      BY StageLists, StageNames
    <2>4. artifact'[job] # "none" => errs'[job] # <<>> /\ Has(errs'[job], "cleanup")
      <3>1. errs[job] \in Seq(Stages)
        BY <1>1 DEF TypeOK
      <3>2. \A t \in Seq(Stages) : t # <<>> =>
                errs[job] \o t # <<>> /\ Has(errs[job] \o t, Head(t))
        BY <3>1, JoinedHas, Joined
      <3>3. CASE errs'[job] = errs[job] \o <<"cleanup">>
        BY <2>3, <3>2, <3>3
      <3>4. CASE errs'[job] = errs[job] \o <<"cleanup", "logging">>
        BY <2>3, <3>2, <3>4
      <3>. QED
        BY <2>2, <3>3, <3>4
    <2>. QED
      BY <1>1, <1>2, <2>1, <2>4 DEF ResidueNamed
  <1>5. CASE pc = "finish"
    <2>1. /\ FinishFailed \/ FinishCompleted
          /\ results' = results \cup {job} /\ artifact' = artifact /\ pc' = "next"
      BY <1>5, RunPath DEF FinishFailed, FinishCompleted, Finished, Goto, effects
    <2>2. ResidueNamed(job) /\ errs[job] \in Seq(Stages)
      BY <1>1, <1>5 DEF ReportOK, TypeOK
    <2>3. errs' = errs \/ errs'[job] = errs[job] \o <<"logging">>
      BY <1>1, <2>1 DEF FinishFailed, FinishCompleted, JoinError, TypeOK
    <2>4. errs[job] # <<>> => errs'[job] # <<>>
      BY <2>2, <2>3, JoinedHas, StageLists, StageNames
    <2>5. Has(errs[job], "cleanup") => Has(errs'[job], "cleanup")
      <3>1. <<"logging">> \in Seq(Stages)
        BY StageLists, StageNames
      <3>2. Has(errs[job], "cleanup") => Has(errs[job] \o <<"logging">>, "cleanup")
        BY <2>2, <3>1, JoinedHas
      <3>. QED
        BY <2>3, <3>2
    <2>6. "staged" \in journal'[job] => "staged" \in journal[job]
      BY <1>5, RunRecords
    <2>7. ResidueNamed(job)'
      BY <1>1, <2>1, <2>2, <2>4, <2>5, <2>6 DEF ResidueNamed
    <2>. QED
      BY <1>1, <1>2, <2>1, <2>7
  <1>6. CASE pc' # "finish" /\ pc # "finish"
    BY <1>2, <1>6, RunPath
  <1>. QED
    BY <1>3, <1>4, <1>5, <1>6

\* Every step keeps what is reported true.
LEMMA ReportStep ==
  ASSUME IInv, IInv', ReportOK, [Next]_vars
  PROVE  ReportOK'
  <1>. USE DEF At, Goto, effects, records, request, vars
  <1>1. CASE RunStep
    <2>1. NotLoggedYet'
      <3>1. ASSUME NEW n \in Names, n \notin results', ~Running(n)'
            PROVE  journal'[n] = {}
        <4>1. n # job
          BY <1>1, <3>1, RunPath, RunLeaves
          DEF Running, FinishFailed, FinishCompleted, Finished
        <4>2. n \notin results
          BY <1>1, <3>1, RunPath DEF FinishFailed, FinishCompleted, Finished
        <4>. QED
          BY <1>1, <4>1, <4>2, RunRecords DEF ReportOK, NotLoggedYet, Running
      <3>2. pc' \in {"log_started"} \cup BeforeStaging => "staged" \notin journal'[job]
        BY <1>1, RunPath, RunRecords DEF ReportOK, NotLoggedYet
      <3>. QED
        BY <1>1, <3>1, <3>2, RunLeaves DEF NotLoggedYet
    <2>. QED
      BY <1>1, <2>1, RunReports, ShownStep, ResidueStep DEF ReportOK
  <1>. USE DEF RunPoints, BodyPoints, BeforeStaging, BeforeUpload, Uploading
  <1>2. CASE RejectSelection
    <2>1. /\ pc = "select" /\ results = {} /\ results' = names /\ pc' = "returned"
          /\ UNCHANGED <<artifact, journal, progress>>
      BY <1>2 DEF RejectSelection, IInv, NoResults
    <2>2. \A n \in Names : artifact[n] = "none" /\ progress[n] = {} /\ journal[n] = {}
      BY <2>1 DEF IInv, Untouched, Running, ReportOK, NotLoggedYet
    <2>3. errs' = faults'
      BY <1>2 DEF RejectSelection, ReportOK
    <2>4. names \subseteq Names
      BY DEF IInv, TypeOK
    <2>. QED
      BY <2>1, <2>2, <2>3, <2>4
      DEF ReportOK, ShownFirst, NotLoggedYet, ResidueNamed
  <1>3. CASE AcceptSelection \/ ReturnSummary
    BY <1>3
    DEF AcceptSelection, ReturnSummary, ReportOK, ShownFirst, NotLoggedYet, Running,
        ResidueNamed
  <1>4. CASE NextJob
    <2>1. /\ pc = "next" /\ pc' = "log_started"
          /\ UNCHANGED <<results, errs, faults, artifact, journal, progress>>
      BY <1>4 DEF NextJob
    <2>2. job' \in Names /\ job' \notin results
      BY <1>4 DEF NextJob, Selected, EnabledJobNames, IInv, TypeOK
    <2>3. journal[job'] = {}
      BY <2>1, <2>2 DEF ReportOK, NotLoggedYet, Running
    <2>. QED
      BY <2>1, <2>3 DEF ReportOK, ShownFirst, NotLoggedYet, Running, ResidueNamed
  <1>5. CASE Cancel \/ UNCHANGED vars
    BY <1>5 DEF Cancel, ReportOK, ShownFirst, NotLoggedYet, Running, ResidueNamed
  <1>6. CASE Kill
    <2>1. UNCHANGED <<pc, job, results, errs, faults, journal, progress>>
      BY <1>6 DEF Kill
    <2>2. \A n \in results : artifact'[n] = artifact[n]
      BY <1>6 DEF Kill, IInv, OneRun, TypeOK
    <2>3. pc = "finish" => artifact' = artifact
      BY <1>6 DEF Kill
    <2>. QED
      BY <2>1, <2>2, <2>3 DEF ReportOK, ShownFirst, NotLoggedYet, Running, ResidueNamed
  <1>. QED
    BY <1>1, <1>2, <1>3, <1>4, <1>5, <1>6 DEF Next, ServiceStep, Terminated

\* Every failure of a job is in the error that its Run returns, the first one is
\* what the operator is shown, and what stays on disk is named.
THEOREM AllIsReported == Spec => []EverythingReported
  <1>1. Init => ReportOK
    BY DEF Init, ReportOK, ShownFirst, NotLoggedYet, ResidueNamed, Running, RunPoints,
           BodyPoints, BeforeStaging, BeforeUpload, Uploading
  <1>2. IInv /\ ReportOK /\ [Next]_vars => IInv' /\ ReportOK'
    BY InvStep, ReportStep
  <1>3. IInv /\ ReportOK => EverythingReported
    <2>1. ReportOK => FaultsReported
      BY DEF ReportOK, ShownFirst, FaultsReported
    <2>2. ReportOK => ResidueIsReported
      BY DEF ReportOK, ResidueNamed, Has, ResidueIsReported
    <2>. QED
      BY <2>1, <2>2 DEF EverythingReported
  <1>. QED
    BY <1>1, <1>2, <1>3, InvInit, PTL DEF Spec
-----------------------------------------------------------------------------
(* The command: BackupCommand only adds to the service what comes before and *)
(* after it.                                                                 *)

BeforeService == {"load", "select", "preflight", "recheck", "open_log"}

\* Nothing was logged, staged or stored.
NothingDone == object = {} /\ \A n \in Names : journal[n] = {} /\ artifact[n] = "none"

\* RunMany returns with a result for every selected job.
AllDecided == pc = "returned" => Selected \subseteq results

CommandInv ==
    /\ phase \in BeforeService => pc = "select" /\ NothingDone
    /\ exit # NoExit => phase = "done"
    /\ exit = 2 => NothingDone
    /\ exit = 0 => Selected = {} \/ (pc = "returned" /\ ~HasFailures)

\* The summary is returned when no selected job is left.
LEMMA DecidedStep ==
  ASSUME IInv, AllDecided, [Next]_vars
  PROVE  AllDecided'
  <1>. USE DEF At, Goto, Selected, EnabledJobNames
  <1>1. CASE RunStep
    <2>1. pc' # "returned"
      BY <1>1
      DEF RunStep, LogStarted, ResolveDump, LogDumpOptions, StageCall, StageReturn,
          LogStaged, ResolveStorage, LogStorageOptions, NewStore, OpenArtifact,
          LogUploadStarted, UploadCall, UploadReturn, Cleanup, FinishFailed,
          FinishCompleted, Finished, LogStep, Proceed, ReturnError
    <2>. QED
      BY <2>1 DEF AllDecided
  <1>2. CASE RejectSelection \/ ReturnSummary
    BY <1>2 DEF RejectSelection, ReturnSummary, AllDecided, request
  <1>3. CASE AcceptSelection \/ NextJob
    BY <1>3 DEF AcceptSelection, NextJob, AllDecided
  <1>4. CASE Cancel \/ Kill \/ Terminated \/ UNCHANGED vars
    BY <1>4 DEF Cancel, Kill, Terminated, AllDecided, request, vars
  <1>. QED
    BY <1>1, <1>2, <1>3, <1>4 DEF Next, ServiceStep

\* A step of the command is a step of the service, or leaves the service alone.
LEMMA CommandSteps ==
  ASSUME [CommandNext]_commandVars
  PROVE  [Next]_vars
  BY DEF CommandNext, CommandStep, LoadConfig, SelectJobs, Preflight, RecheckSource,
         OpenLog, RunService, ReportSummary, CliStep, CommandCancel, CommandKill,
         CommandTerminated, commandVars, Next

\* The command keeps its invariant.
LEMMA CommandInvStep ==
  ASSUME IInv, AllDecided, CommandInv, [CommandNext]_commandVars
  PROVE  CommandInv'
  <1>. USE DEF CommandInv, BeforeService, NothingDone, HasFailures, Selected,
           EnabledJobNames, Continue, Exit, CliStep, NoExit
  <1>1. CASE LoadConfig \/ SelectJobs \/ Preflight \/ RecheckSource \/ OpenLog
    BY <1>1
    DEF LoadConfig, SelectJobs, Preflight, RecheckSource, OpenLog, vars, request,
        effects, records
  <1>2. CASE RunService
    BY <1>2 DEF RunService, cliVars
  <1>3. CASE ReportSummary
    BY <1>3 DEF ReportSummary, vars, request, effects, records
  <1>4. CASE CommandCancel \/ CommandKill
    BY <1>4
    DEF CommandCancel, CommandKill, Cancel, Kill, cliVars, request, effects, records
  <1>5. CASE UNCHANGED commandVars
    BY <1>5 DEF commandVars, vars, request, effects, records
  <1>. QED
    BY <1>1, <1>2, <1>3, <1>4, <1>5 DEF CommandNext, CommandStep, CommandTerminated

\* What the exit code says follows from the invariants of service and command.
LEMMA ExitCodeFollows ==
  ASSUME IInv, AllDecided, CommandInv
  PROVE  ExitCodeTellsTruth
  <1>1. ASSUME exit = 0, NEW n \in Selected
        PROVE  n \in object /\ artifact[n] = "none" /\ "completed" \in journal[n]
    <2>1. n \in Names
      BY DEF Selected, EnabledJobNames, IInv, TypeOK
    <2>2. Succeeded(n)
      BY <1>1 DEF CommandInv, AllDecided, HasFailures, Succeeded
    <2>. QED
      BY <2>1, <2>2 DEF IInv, SuccessIsDurable
  <1>2. exit = 2 => NothingDone
    BY DEF CommandInv
  <1>. QED
    BY <1>1, <1>2 DEF ExitCodeTellsTruth, NothingDone

\* The command does to jobs, disk and store what the service does.
THEOREM CommandIsService == CommandSpec => Spec
  <1>1. CommandInit => Init
    BY DEF CommandInit
  <1>2. [CommandNext]_commandVars => [Next]_vars
    BY CommandSteps
  <1>. QED
    BY <1>1, <1>2, PTL DEF CommandSpec, Spec

\* Exit code 0 means that every selected job is stored, cleaned up and logged as
\* completed, and 2 that nothing was logged, staged or stored, wherever a step
\* fails and whenever a signal comes.
THEOREM ExitCodeTrue == CommandSpec => []ExitCodeTellsTruth
  <1>1. CommandInit => IInv /\ AllDecided /\ CommandInv
    BY InvInit
    DEF CommandInit, Init, AllDecided, CommandInv, BeforeService, NothingDone, NoExit
  <1>2. IInv /\ AllDecided /\ CommandInv /\ [CommandNext]_commandVars
           => (IInv /\ AllDecided /\ CommandInv)'
    BY CommandSteps, InvStep, DecidedStep, CommandInvStep
  <1>3. IInv /\ AllDecided /\ CommandInv => ExitCodeTellsTruth
    BY ExitCodeFollows
  <1>. QED
    BY <1>1, <1>2, <1>3, PTL DEF CommandSpec

-----------------------------------------------------------------------------
(* The system: the command on top of its log.  LogP is the log with what     *)
(* LogFamilyProofs shows of it.                                              *)

LogP == INSTANCE LogFamilyProofs WITH pc <- logPc

\* The log of the system is one that LogFamilyProofs speaks of.
LEMMA LogAssumed == LogP!LogAssumption
  BY MainAssumption DEF LogP!LogAssumption

\* Log and LogP are the same specification.
LEMMA SameLog ==
  /\ Log!Init <=> LogP!Init
  /\ [Log!Next]_logVars <=> [LogP!Next]_(LogP!vars)
  <1>. USE
       DEF Log!Then, LogP!Then, Log!Goto, LogP!Goto, Log!ReturnError,
           LogP!ReturnError, Log!CanFail, LogP!CanFail, Log!Remove, LogP!Remove,
           Log!Rename, LogP!Rename, Log!Expire, LogP!Expire, Log!CreateActive,
           LogP!CreateActive, Log!AppendLine, LogP!AppendLine, Log!LinesOf,
           LogP!LinesOf, Log!Torn, LogP!Torn, Log!Suffix, LogP!Suffix, Log!IsGz,
           LogP!IsGz, Log!Active, LogP!Active, Log!Raw, LogP!Raw, Log!Gz, LogP!Gz,
           Log!Rotations, LogP!Rotations, Log!SizeOf, LogP!SizeOf, Log!ActiveFull,
           LogP!ActiveFull, Log!ShiftsBefore, LogP!ShiftsBefore, Log!LastWrite,
           LogP!LastWrite, Log!NotNewer, LogP!NotNewer, Log!Stored, LogP!Stored,
           Log!TooOld, LogP!TooOld, Log!Retained, LogP!Retained,
           Log!dir, LogP!dir, Log!local, LogP!local, Log!counts, LogP!counts,
           Log!Inside, LogP!Inside
  <1>1. \A p \in Procs : Log!OpenActive(p) <=> LogP!OpenActive(p)
    BY DEF Log!OpenActive, LogP!OpenActive
  <1>2. \A p \in Procs : Log!ListRefused(p) <=> LogP!ListRefused(p)
    BY DEF Log!ListRefused, LogP!ListRefused, Log!Cardinality, LogP!Cardinality
  <1>3. \A p \in Procs : Log!List(p) <=> LogP!List(p)
    BY DEF Log!List, LogP!List, Log!Cardinality, LogP!Cardinality
  <1>4. \A p \in Procs : Log!Shift(p) <=> LogP!Shift(p)
    BY DEF Log!Shift, LogP!Shift
  <1>5. \A p \in Procs : Log!RotateActive(p) <=> LogP!RotateActive(p)
    BY DEF Log!RotateActive, LogP!RotateActive
  <1>6. \A p \in Procs : Log!WriteTemporary(p) <=> LogP!WriteTemporary(p)
    BY DEF Log!WriteTemporary, LogP!WriteTemporary
  <1>7. \A p \in Procs : Log!PublishGzip(p) <=> LogP!PublishGzip(p)
    BY DEF Log!PublishGzip, LogP!PublishGzip
  <1>8. \A p \in Procs : Log!UnlinkSource(p) <=> LogP!UnlinkSource(p)
    BY DEF Log!UnlinkSource, LogP!UnlinkSource
  <1>9. \A p \in Procs : Log!Retain(p) <=> LogP!Retain(p)
    BY DEF Log!Retain, LogP!Retain, Log!Cardinality, LogP!Cardinality
  <1>10. \A p \in Procs : Log!Drop(p) <=> LogP!Drop(p)
    BY DEF Log!Drop, LogP!Drop
  <1>11. \A p \in Procs : Log!ReopenActive(p) <=> LogP!ReopenActive(p)
    BY DEF Log!ReopenActive, LogP!ReopenActive
  <1>12. \A p \in Procs : Log!AppendEvent(p) <=> LogP!AppendEvent(p)
    BY DEF Log!AppendEvent, LogP!AppendEvent
  <1>13. \A p \in Procs : Log!Start(p) <=> LogP!Start(p)
    BY DEF Log!Start, LogP!Start
  <1>14. \A p \in Procs : Log!BeginWrite(p) <=> LogP!BeginWrite(p)
    BY DEF Log!BeginWrite, LogP!BeginWrite
  <1>15. \A p \in Procs : Log!Exit(p) <=> LogP!Exit(p)
    BY DEF Log!Exit, LogP!Exit
  <1>16. \A p \in Procs : Log!Acquire(p) <=> LogP!Acquire(p)
    BY DEF Log!Acquire, LogP!Acquire
  <1>17. \A p \in Procs : Log!Unlock(p) <=> LogP!Unlock(p)
    BY DEF Log!Unlock, LogP!Unlock
  <1>18. \A p \in Procs : Log!AppendTorn(p) <=> LogP!AppendTorn(p)
    BY DEF Log!AppendTorn, LogP!AppendTorn
  <1>19. \A p \in Procs : Log!CallFails(p) <=> LogP!CallFails(p)
    BY DEF Log!CallFails, LogP!CallFails
  <1>20. \A p \in Procs : Log!Kill(p) <=> LogP!Kill(p)
    BY DEF Log!Kill, LogP!Kill
  <1>21. (Log!Age <=> LogP!Age) /\ (Log!Done <=> LogP!Done)
    BY DEF Log!Age, LogP!Age, Log!Done, LogP!Done, Log!vars, LogP!vars
  <1>22. Log!Next <=> LogP!Next
    BY <1>1, <1>2, <1>3, <1>4, <1>5, <1>6, <1>7, <1>8, <1>9, <1>10, <1>11, <1>12, <1>13, <1>14, <1>15, <1>16, <1>17, <1>18, <1>19, <1>20, <1>21
    DEF Log!Next, LogP!Next, Log!Caller, LogP!Caller, Log!Operation, LogP!Operation,
        Log!Locked, LogP!Locked, Log!Failure, LogP!Failure
  <1>23. Log!Init <=> LogP!Init
    BY DEF Log!Init, LogP!Init
  <1>24. logVars' = logVars <=> UNCHANGED LogP!vars
    BY DEF logVars, LogP!vars
  <1>. QED
    BY <1>22, <1>23, <1>24

\* A step of the system is a step of the command, or leaves the command alone.
LEMMA CommandOfSystem ==
  ASSUME [SystemNext]_systemVars
  PROVE  [CommandNext]_commandVars
  <1>. USE DEF commandVars, cliVars
  <1>1. CASE LogRefused \/ CallNew \/ NewReturns \/ CallWrite
    BY <1>1 DEF LogRefused, CallNew, NewReturns, CallWrite, CliStep, CommandNext,
                CommandStep
  <1>2. CASE WriteReturns \/ ServiceProceeds \/ CommandProceeds
    BY <1>2 DEF WriteReturns, ServiceProceeds, CommandProceeds, CommandNext,
                CommandStep
  <1>3. CASE MainInLog \/ MainFails \/ \E p \in Procs \ {Main} : OtherProcess(p)
    BY <1>3 DEF MainInLog, MainFails, OtherProcess
  <1>4. CASE Cancelled \/ Killed
    BY <1>4 DEF Cancelled, Killed, CommandNext
  <1>5. CASE SystemTerminated \/ UNCHANGED systemVars
    BY <1>5 DEF SystemTerminated, systemVars
  <1>. QED
    BY <1>1, <1>2, <1>3, <1>4, <1>5 DEF SystemNext, SystemStep

\* A step of the system is a step of the log, or leaves the log alone.
LEMMA LogOfSystem ==
  ASSUME [SystemNext]_systemVars
  PROVE  [Log!Next]_logVars
  <1>. USE MainAssumption
       DEF Log!Next, Log!Caller, Log!Operation, Log!Failure
  <1>1. CASE LogRefused \/ ServiceProceeds \/ CommandProceeds \/ Cancelled
    BY <1>1 DEF LogRefused, ServiceProceeds, CommandProceeds, Cancelled
  <1>2. CASE CallNew \/ NewReturns \/ CallWrite \/ WriteReturns
    BY <1>2 DEF CallNew, NewReturns, CallWrite, WriteReturns
  <1>3. CASE MainInLog \/ MainFails \/ Killed
    BY <1>3 DEF MainInLog, MainFails, Killed
  <1>4. CASE \E p \in Procs \ {Main} : OtherProcess(p)
    BY <1>4 DEF OtherProcess
  <1>5. CASE SystemTerminated \/ UNCHANGED systemVars
    BY <1>5 DEF SystemTerminated, systemVars
  <1>. QED
    BY <1>1, <1>2, <1>3, <1>4, <1>5 DEF SystemNext, SystemStep

\* Composed with its log, the command does nothing that it may not do with a log
\* of one step: every theorem about CommandSpec and Spec holds of the system.
THEOREM SystemIsCommand == SystemSpec => CommandSpec
  <1>1. SystemInit => CommandInit
    BY DEF SystemInit
  <1>2. [SystemNext]_systemVars => [CommandNext]_commandVars
    BY CommandOfSystem
  <1>. QED
    BY <1>1, <1>2, PTL DEF SystemSpec, CommandSpec

\* The command, its signals and the other processes use the log as LogFamily
\* says that processes do: every theorem about LogFamily holds of the system.
THEOREM SystemIsLog == SystemSpec => LogP!Spec
  <1>1. SystemInit => LogP!Init
    BY SameLog DEF SystemInit
  <1>2. [SystemNext]_systemVars => [LogP!Next]_(LogP!vars)
    BY LogOfSystem, SameLog
  <1>. QED
    BY <1>1, <1>2, PTL DEF SystemSpec, LogP!Spec

-----------------------------------------------------------------------------
(* What the journal of the service says is in the files of the log           *)

InfoMessages == {"started", "staged", "upload_started", "completed"}

\* The events that Main has appended are in the log or were in a generation that
\* retention removed.
LinesOnRecord == \A n, m, e : <<n, m, e>> \in lines => e \in LogP!Recorded

\* An info message in the journal has been appended.
JournalInLines ==
    \A n \in Names, m \in InfoMessages :
        m \in journal[n] => \E e : <<n, m, e>> \in lines

\* The one info message that a step of Run can write is that of its point.
LEMMA InfoLogged ==
  ASSUME IInv, RunService, NEW n \in Names, NEW m \in InfoMessages,
         m \in journal'[n], m \notin journal[n]
  PROVE  n = job /\ InfoEvent = {m}
  <1>. USE DEF At, InfoMessages, InfoEvent
  <1>1. CASE RunStep
    <2>. USE RunLeaves, LogEffect DEF IInv
    <2>. DEFINE Writes(x) == Logged(x) \/ LogFails(x)
    <2>1. ASSUME NEW x, Writes(x)
          PROVE  n = job /\ m = x
      BY <1>1, <2>1 DEF Logged, LogFails, TypeOK
    <2>2. CASE LogStarted \/ LogDumpOptions \/ LogStaged \/ LogStorageOptions
      BY <2>1, <2>2 DEF LogStarted, LogDumpOptions, LogStaged, LogStorageOptions, LogStep
    <2>3. CASE LogUploadStarted
      BY <2>1, <2>3 DEF LogUploadStarted
    <2>4. CASE Cleanup
      BY <2>1, <2>4 DEF Cleanup
    <2>5. CASE FinishFailed \/ FinishCompleted
      BY <2>1, <2>5 DEF FinishFailed, FinishCompleted
    <2>6. CASE UNCHANGED journal
      BY <2>6
    <2>. QED
      BY <1>1, <2>2, <2>3, <2>4, <2>5, <2>6
      DEF RunStep, ResolveDump, StageCall, StageReturn, ResolveStorage, NewStore,
          OpenArtifact, UploadCall, UploadReturn, records
  <1>2. CASE RejectSelection \/ AcceptSelection \/ NextJob \/ ReturnSummary
    BY <1>2 DEF RejectSelection, AcceptSelection, NextJob, ReturnSummary, records
  <1>. QED
    BY <1>1, <1>2 DEF RunService, ServiceStep

\* Only steps of the service write to the journal.
LEMMA JournalSteps ==
  ASSUME [SystemNext]_systemVars
  PROVE  UNCHANGED <<journal, lines>> \/ WriteReturns \/ ServiceProceeds
  <1>. USE DEF commandVars, vars, records
  <1>1. CASE LogRefused \/ CallNew \/ NewReturns \/ CallWrite \/ CommandProceeds
    BY <1>1
    DEF LogRefused, CallNew, NewReturns, CallWrite, CommandProceeds, OpenLog,
        LoadConfig, SelectJobs, Preflight, RecheckSource, ReportSummary, CliStep
  <1>2. CASE MainInLog \/ MainFails \/ \E p \in Procs \ {Main} : OtherProcess(p)
    BY <1>2 DEF MainInLog, MainFails, OtherProcess
  <1>3. CASE Cancelled \/ Killed
    BY <1>3 DEF Cancelled, Killed, CommandCancel, CommandKill, Cancel, Kill
  <1>4. CASE SystemTerminated \/ UNCHANGED systemVars
    BY <1>4 DEF SystemTerminated, systemVars
  <1>. QED
    BY <1>1, <1>2, <1>3, <1>4 DEF SystemNext, SystemStep

\* Every step keeps the lines on record and the journal in the lines.
LEMMA RecordStep ==
  ASSUME IInv, LogP!IInv, LinesOnRecord, JournalInLines, [SystemNext]_systemVars
  PROVE  LogP!IInv' /\ LinesOnRecord' /\ JournalInLines'
  <1>1. LogP!IInv' /\ LogP!Recorded \subseteq LogP!Recorded'
    <2>1. [LogP!Next]_(LogP!vars)
      BY LogOfSystem, SameLog
    <2>. QED
      BY <2>1, LogAssumed, LogP!NextInvariant
  <1>2. CASE UNCHANGED <<journal, lines>>
    BY <1>1, <1>2 DEF LinesOnRecord, JournalInLines
  <1>3. CASE ServiceProceeds
    <2>1. \A n \in Names, m \in InfoMessages : m \in journal'[n] => m \in journal[n]
      BY <1>3, InfoLogged DEF ServiceProceeds
    <2>. QED
      BY <1>1, <1>3, <2>1 DEF LinesOnRecord, JournalInLines, ServiceProceeds
  <1>4. CASE WriteReturns
    <2>1. /\ RunService /\ (InfoEvent \subseteq journal'[job] <=> line[Main] # 0)
          /\ lines' = IF line[Main] = 0 THEN lines
                      ELSE lines \cup {<<job, m, line[Main]>> : m \in InfoEvent}
      BY <1>4 DEF WriteReturns
    <2>2. line[Main] \in LogP!Recorded \cup {0}
      BY MainAssumption DEF LogP!IInv, LogP!LinesRecorded
    <2>3. LinesOnRecord'
      BY <1>1, <2>1, <2>2 DEF LinesOnRecord
    <2>4. ASSUME NEW n \in Names, NEW m \in InfoMessages, m \in journal'[n]
          PROVE  \E e : <<n, m, e>> \in lines'
      <3>1. CASE m \in journal[n]
        BY <2>1, <3>1 DEF JournalInLines
      <3>2. CASE m \notin journal[n]
        <4>1. n = job /\ InfoEvent = {m}
          BY <2>1, <2>4, <3>2, InfoLogged
        <4>2. <<n, m, line[Main]>> \in lines'
          BY <2>1, <2>4, <4>1
        <4>. QED
          BY <4>2
      <3>. QED
        BY <3>1, <3>2
    <2>. QED
      BY <1>1, <2>3, <2>4 DEF JournalInLines
  <1>. QED
    BY <1>2, <1>3, <1>4, JournalSteps

\* What stands in the journal of a job is in the log, or was until retention.
LEMMA JournalInLog ==
  ASSUME LogP!IInv, LinesOnRecord, JournalInLines,
         NEW n \in Names, NEW m \in InfoMessages, m \in journal[n]
  PROVE  InLog(n, m)
  <1>1. LogP!Recorded = Log!Stored \cup expired
    <2>1. Log!Stored = LogP!Stored
      BY DEF Log!Stored, LogP!Stored, Log!LinesOf, LogP!LinesOf, Log!Torn, LogP!Torn
    <2>2. LogP!Stored = LogP!EventsOf(files)
      BY LogAssumed, LogP!InOtherWords DEF LogP!IInv, LogP!Types
    <2>. QED
      BY <2>1, <2>2 DEF LogP!Recorded
  <1>2. PICK e : <<n, m, e>> \in lines
    BY DEF JournalInLines
  <1>3. e \in Log!Stored \cup expired
    BY <1>1, <1>2 DEF LinesOnRecord
  <1>. QED
    BY <1>2, <1>3 DEF InLog

\* An object exists only with the lines of its job in the files of the log, and a
\* job is called successful only with that of its completion, for every number
\* of other processes that rotate the log, and wherever a call fails.
THEOREM ObjectsRecorded == SystemSpec => []ObjectsAreOnRecord
  <1>. DEFINE Inv == IInv /\ LogP!IInv /\ LinesOnRecord /\ JournalInLines
  <1>1. SystemInit => Inv
    <2>. SUFFICES ASSUME SystemInit
                  PROVE  Inv
      OBVIOUS
    <2>1. IInv
      BY InvInit DEF SystemInit, CommandInit
    <2>2. LogP!IInv
      BY SameLog, LogAssumed, LogP!InitInvariant DEF SystemInit
    <2>3. LinesOnRecord /\ JournalInLines
      BY DEF SystemInit, CommandInit, Init, LinesOnRecord, JournalInLines
    <2>. QED
      BY <2>1, <2>2, <2>3
  <1>2. Inv /\ [SystemNext]_systemVars => Inv'
    BY RecordStep, CommandOfSystem, CommandSteps, InvStep
  <1>3. Inv => ObjectsAreOnRecord
    BY JournalInLog
    DEF IInv, TypeOK, LoggedBeforeDone, SuccessIsDurable, ObjectsAreOnRecord,
        InfoMessages
  <1>. HIDE DEF Inv
  <1>. QED
    BY <1>1, <1>2, <1>3, PTL DEF SystemSpec

=============================================================================
