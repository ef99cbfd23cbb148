--------------------------- MODULE BackupService ---------------------------
(***************************************************************************)
(* backup.Service: RunMany drives the selected jobs one after another, and *)
(* Run takes one job through log, dump and staging, upload, cleanup and    *)
(* the final log event.  Each step that can fail in the code may fail      *)
(* here; the process may be cancelled (SIGINT, SIGTERM) or killed at any   *)
(* point.  Job names are numbers, so that `<' is the lexical order.        *)
(***************************************************************************)
EXTENDS Naturals, Sequences

CONSTANTS
    Names,    \* job names that a configuration or a command line may hold
    NoJob     \* no job is running

ASSUME NamesAssumption == Names \subseteq Nat /\ NoJob \notin Names

Stages == {"logging", "configuration", "dump_startup", "dump_execution",
           "compression", "temporary_storage", "s3_upload", "cleanup"}

StageFailures == {"dump_startup", "dump_execution", "compression",
                  "temporary_storage"}

Messages == {"started", "dump_options", "staged", "storage_options",
             "upload_started", "cleanup_failed", "failed", "completed"}

ProgressKinds == {"started", "staged", "upload_started", "completed", "failed"}

Points == {"select", "next", "log_started", "resolve_dump", "log_dump_options",
           "stage", "staging", "log_staged", "resolve_storage",
           "log_storage_options", "new_store", "open", "log_upload", "upload",
           "uploading", "cleanup", "finish", "returned"}

VARIABLES
    config,     \* what the configuration says of each name
    names,      \* names given to RunMany; empty means every enabled job
    debug,      \* Service.Debug
    pc,         \* the next step of RunMany or of the current Run
    job,        \* the job of the current Run
    results,    \* jobs whose JobResult is in the Summary
    errs,       \* error of each job: the stages of its joined StageErrors
    logHealthy, \* Run's logHealthy
    opened,     \* the staged artifact is open for the upload
    artifact,   \* what each job's Run has in the staging directory
    object,     \* jobs whose object the store holds
    journal,    \* messages of each job in the log files
    progress,   \* progress events shown for each job: <<kind, stage>>
    cancelled,  \* the context passed to RunMany is done
    killed,     \* the process was killed
    faults      \* history: the failures each job met, in the order they came

request == <<config, names, debug>>
effects == <<artifact, object, opened>>
records == <<journal, progress, logHealthy>>
vars == <<request, pc, job, results, errs, effects, records, cancelled,
          killed, faults>>

EnabledJobNames == {n \in Names : config[n] = "enabled"}
Selected == IF names = {} THEN EnabledJobNames ELSE names
Succeeded(n) == n \in results /\ errs[n] = <<>>
\* Mutant: the summary has failures only if nothing succeeded.
HasOnlyFailures == results # {} /\ \A n \in results : errs[n] # <<>>

HasFailures == \E n \in results : errs[n] # <<>>

Init ==
    /\ config \in [Names -> {"absent", "disabled", "enabled"}]
    /\ names \in SUBSET Names
    /\ debug \in BOOLEAN
    /\ pc = "select"
    /\ job = NoJob
    /\ results = {}
    /\ errs = [n \in Names |-> <<>>]
    /\ logHealthy = TRUE
    /\ opened = FALSE
    /\ artifact = [n \in Names |-> "none"]
    /\ object = {}
    /\ journal = [n \in Names |-> {}]
    /\ progress = [n \in Names |-> {}]
    /\ cancelled = FALSE
    /\ killed = FALSE
    /\ faults = [n \in Names |-> <<>>]

-----------------------------------------------------------------------------
(* Steps shared by the operations of one Run. *)

At(point) == pc = point /\ ~killed
Goto(point) == pc' = point

Faulted(stages) == faults' = [faults EXCEPT ![job] = @ \o stages]

\* return Result{}, err: the named result becomes the error of this step.
ReturnError(stages, point) ==
    /\ errs' = [errs EXCEPT ![job] = stages]
    /\ Faulted(stages)
    /\ Goto(point)

\* Mutant: a deferred failure is not returned.
JoinErrorDropped(stages) == UNCHANGED errs /\ Faulted(stages)

\* Mutant: only the first error is returned.
JoinErrorKeepsFirst(stages) ==
    /\ errs' = IF errs[job] = <<>> THEN [errs EXCEPT ![job] = stages] ELSE errs
    /\ Faulted(stages)

\* A deferred function joins its error behind the one already set.
JoinError(stages) ==
    /\ errs' = [errs EXCEPT ![job] = @ \o stages]
    /\ Faulted(stages)

Proceed(point) == Goto(point) /\ UNCHANGED <<errs, faults>>

\* writeLog: nothing is written after the first failure of this Run.
Logged(message) ==
    /\ journal' = IF logHealthy THEN [journal EXCEPT ![job] = @ \cup {message}]
                               ELSE journal
    /\ UNCHANGED logHealthy

\* The sink reports a failure; the line may or may not have reached the file.
LogFails(message) ==
    /\ logHealthy
    /\ logHealthy' = FALSE
    /\ \/ journal' = [journal EXCEPT ![job] = @ \cup {message}]
       \/ UNCHANGED journal

Show(events) == progress' = [progress EXCEPT ![job] = @ \cup events]

\* Mutant: logging is best effort.
LogStepBestEffort(message, shown, point, onError) ==
    (Logged(message) \/ LogFails(message)) /\ Show(shown) /\ Proceed(point)

\* An event in the body of Run: it is shown once it is logged, and a failure
\* to log it returns before anything else is done.
LogStep(message, shown, point, onError) ==
    \/ Logged(message) /\ Show(shown) /\ Proceed(point)
    \/ /\ LogFails(message)
       /\ ReturnError(<<"logging">>, onError)
       /\ UNCHANGED progress

-----------------------------------------------------------------------------
(* RunMany *)

\* An explicit selection with a missing or disabled name rejects every name.
RejectSelection ==
    /\ At("select")
    /\ \E n \in names : config[n] # "enabled"
    /\ results' = names
    /\ errs' = [n \in Names |-> IF n \in names THEN <<"configuration">>
                                               ELSE errs[n]]
    /\ faults' = [n \in Names |-> IF n \in names THEN <<"configuration">>
                                                 ELSE faults[n]]
    /\ Goto("returned")
    /\ UNCHANGED <<request, job, effects, records, cancelled, killed>>

\* Mutant: one enabled name is enough.
AcceptSelectionIfAny ==
    /\ At("select")
    /\ names = {} \/ \E n \in names : config[n] = "enabled"
    /\ Goto("next")
    /\ UNCHANGED <<request, job, results, errs, effects, records, cancelled,
                   killed, faults>>

AcceptSelection ==
    /\ At("select")
    /\ \A n \in names : config[n] = "enabled"
    /\ Goto("next")
    /\ UNCHANGED <<request, job, results, errs, effects, records, cancelled,
                   killed, faults>>

\* The loop calls Run for the first selected name that has no result yet.
NextJob ==
    /\ At("next")
    /\ \E n \in Selected \ results :
        /\ \A m \in Selected \ results : n <= m
        /\ job' = n
    /\ logHealthy' = TRUE
    /\ Goto("log_started")
    /\ UNCHANGED <<request, results, errs, effects, journal, progress,
                   cancelled, killed, faults>>

\* Mutant: the loop stops at a failed job.
ReturnSummaryEarly ==
    /\ At("next")
    /\ Selected \subseteq results \/ HasFailures
    /\ Goto("returned")
    /\ UNCHANGED <<request, job, results, errs, effects, records, cancelled,
                   killed, faults>>

ReturnSummary ==
    /\ At("next")
    /\ Selected \subseteq results
    /\ Goto("returned")
    /\ UNCHANGED <<request, job, results, errs, effects, records, cancelled,
                   killed, faults>>

-----------------------------------------------------------------------------
(* Run: from the first log event to the staged artifact *)

LogStarted ==
    /\ At("log_started")
    /\ LogStep("started", {<<"started", "start">>}, "resolve_dump", "finish")
    /\ UNCHANGED <<request, job, results, effects, cancelled, killed>>

ResolveDump ==
    /\ At("resolve_dump")
    /\ \/ Proceed(IF debug THEN "log_dump_options" ELSE "stage")
       \/ ReturnError(<<"configuration">>, "finish")
    /\ UNCHANGED <<request, job, results, effects, records, cancelled, killed>>

LogDumpOptions ==
    /\ At("log_dump_options")
    /\ LogStep("dump_options", {}, "stage", "finish")
    /\ UNCHANGED <<request, job, results, effects, cancelled, killed>>

\* Stager.Stage looks at the context before it creates anything.
StageCall ==
    /\ At("stage")
    /\ IF cancelled
         THEN ReturnError(<<"temporary_storage">>, "finish")
         ELSE Proceed("staging")
    /\ UNCHANGED <<request, job, results, effects, records, cancelled, killed>>

\* Mutant: it does not look at the context again.
StageReturnUnchecked ==
    /\ At("staging")
    /\ \/ artifact' = [artifact EXCEPT ![job] = "staged"] /\ Proceed("log_staged")
       \/ \E stage \in StageFailures, left \in {"none", "residue"} :
            /\ artifact' = [artifact EXCEPT ![job] = left]
            /\ ReturnError(<<stage>>, "finish")
    /\ UNCHANGED <<request, job, results, object, opened, records, cancelled,
                   killed>>

\* It looks again when the dump is written and closed: only an artifact whose
\* context is not done is kept.  A failed attempt removes its partial file, or
\* reports behind the primary error, in the same stage, that it could not.
StageReturn ==
    /\ At("staging")
    /\ \/ /\ ~cancelled
          /\ artifact' = [artifact EXCEPT ![job] = "staged"]
          /\ Proceed("log_staged")
       \/ \E stage \in StageFailures, left \in {"none", "residue"} :
            /\ artifact' = [artifact EXCEPT ![job] = left]
            /\ ReturnError(<<stage>>, "finish")
    /\ UNCHANGED <<request, job, results, object, opened, records, cancelled,
                   killed>>

-----------------------------------------------------------------------------
(* Run: from the staged artifact to the object.  From here on every return   *)
(* passes through the deferred Remove.                                       *)

LogStaged ==
    /\ At("log_staged")
    /\ LogStep("staged", {<<"staged", "temporary_storage">>},
               "resolve_storage", "cleanup")
    /\ UNCHANGED <<request, job, results, effects, cancelled, killed>>

ResolveStorage ==
    /\ At("resolve_storage")
    /\ \/ Proceed(IF debug THEN "log_storage_options" ELSE "new_store")
       \/ ReturnError(<<"configuration">>, "cleanup")
    /\ UNCHANGED <<request, job, results, effects, records, cancelled, killed>>

LogStorageOptions ==
    /\ At("log_storage_options")
    /\ LogStep("storage_options", {}, "new_store", "cleanup")
    /\ UNCHANGED <<request, job, results, effects, cancelled, killed>>

NewStore ==
    /\ At("new_store")
    /\ Proceed("open") \/ ReturnError(<<"s3_upload">>, "cleanup")
    /\ UNCHANGED <<request, job, results, effects, records, cancelled, killed>>

OpenArtifact ==
    /\ At("open")
    /\ \/ opened' = TRUE /\ Proceed("log_upload")
       \/ ReturnError(<<"temporary_storage">>, "cleanup") /\ UNCHANGED opened
    /\ UNCHANGED <<request, job, results, artifact, object, records, cancelled,
                   killed>>

\* If this event cannot be written the file is closed at once.
LogUploadStarted ==
    /\ At("log_upload")
    /\ \/ /\ Logged("upload_started")
          /\ Show({<<"upload_started", "s3_upload">>})
          /\ Proceed("upload")
          /\ UNCHANGED opened
       \/ /\ LogFails("upload_started")
          /\ opened' = FALSE
          /\ \E close \in {<<>>, <<"temporary_storage">>} :
                ReturnError(<<"logging">> \o close, "cleanup")
          /\ UNCHANGED progress
    /\ UNCHANGED <<request, job, results, artifact, object, cancelled, killed>>

\* The uploader refuses a context that is already done.
UploadCall ==
    /\ At("upload")
    /\ \/ ~cancelled /\ Proceed("uploading") /\ UNCHANGED opened
       \/ /\ cancelled
          /\ opened' = FALSE
          /\ \E close \in {<<>>, <<"temporary_storage">>} :
                ReturnError(<<"s3_upload">> \o close, "cleanup")
    /\ UNCHANGED <<request, job, results, artifact, object, records, cancelled,
                   killed>>

\* The store may have kept the object although the uploader reports an error;
\* the file is closed whatever the upload returned.
UploadReturn ==
    /\ At("uploading")
    /\ opened' = FALSE
    /\ \E uploaded \in BOOLEAN, closed \in BOOLEAN :
        LET stages == (IF uploaded THEN <<>> ELSE <<"s3_upload">>)
                      \o (IF closed THEN <<>> ELSE <<"temporary_storage">>)
        IN  /\ object' = object \cup {job} \/ (~uploaded /\ UNCHANGED object)
            /\ IF stages = <<>> THEN Proceed("cleanup")
                                ELSE ReturnError(stages, "cleanup")
    /\ UNCHANGED <<request, job, results, artifact, records, cancelled, killed>>

-----------------------------------------------------------------------------
(* Run: the two deferred functions *)

\* Remove the artifact.  A failure is joined behind the error of the body, and
\* is logged while the log is healthy.
Cleanup ==
    /\ At("cleanup")
    /\ Goto("finish")
    /\ \/ /\ artifact' = [artifact EXCEPT ![job] = "none"]
          /\ UNCHANGED <<errs, faults, journal, logHealthy>>
       \/ /\ artifact' = [artifact EXCEPT ![job] = "residue"]
          /\ \/ Logged("cleanup_failed") /\ JoinError(<<"cleanup">>)
             \/ LogFails("cleanup_failed") /\ JoinError(<<"cleanup", "logging">>)
    /\ UNCHANGED <<request, job, results, object, opened, progress, cancelled,
                   killed>>

\* Mutant: the Result of a failed Run keeps its empty job name.
FinishedUnnamed ==
    /\ results' = results \cup {IF errs[job] = <<>> THEN job ELSE NoJob}
    /\ Goto("next")

Finished == results' = results \cup {job} /\ Goto("next")

FinishFailed ==
    /\ At("finish")
    /\ errs[job] # <<>>
    /\ \/ Logged("failed") /\ UNCHANGED <<errs, faults>>
       \/ LogFails("failed") /\ JoinError(<<"logging">>)
    /\ Show({<<"failed", Head(errs[job])>>})
    /\ Finished
    /\ UNCHANGED <<request, job, effects, cancelled, killed>>

FinishCompleted ==
    /\ At("finish")
    /\ errs[job] = <<>>
    /\ \/ /\ Logged("completed")
          /\ Show({<<"completed", "complete">>})
          /\ UNCHANGED <<errs, faults>>
       \/ /\ LogFails("completed")
          /\ JoinError(<<"logging">>)
          /\ Show({<<"failed", "logging">>})
    /\ Finished
    /\ UNCHANGED <<request, job, effects, cancelled, killed>>

-----------------------------------------------------------------------------
(* The process *)

\* signal.NotifyContext cancels the context at SIGINT or SIGTERM.
Cancel ==
    /\ ~cancelled /\ ~killed /\ pc # "returned"
    /\ cancelled' = TRUE
    /\ UNCHANGED <<request, pc, job, results, errs, effects, records, killed,
                   faults>>

\* SIGKILL or a power failure: nothing deferred runs.  What a killed upload had
\* sent may still become an object.
Kill ==
    /\ ~killed
    /\ killed' = TRUE
    /\ opened' = FALSE
    /\ \/ pc = "uploading" /\ object' = object \cup {job} /\ UNCHANGED artifact
       \/ /\ pc = "staging"
          /\ artifact' = [artifact EXCEPT ![job] = "residue"]
          /\ UNCHANGED object
       \/ UNCHANGED <<object, artifact>>
    /\ UNCHANGED <<request, pc, job, results, errs, records, cancelled, faults>>

Terminated == (pc = "returned" \/ killed) /\ UNCHANGED vars

RunStep ==
    \/ LogStarted \/ ResolveDump \/ LogDumpOptions \/ StageCall \/ StageReturn
    \/ LogStaged \/ ResolveStorage \/ LogStorageOptions \/ NewStore
    \/ OpenArtifact \/ LogUploadStarted \/ UploadCall \/ UploadReturn
    \/ Cleanup \/ FinishFailed \/ FinishCompleted

ServiceStep ==
    RejectSelection \/ AcceptSelection \/ NextJob \/ ReturnSummary \/ RunStep

Next == ServiceStep \/ Cancel \/ Kill \/ Terminated

Spec == Init /\ [][Next]_vars

\* One goroutine runs RunMany to its return, unless the process is killed.  Its
\* fairness takes for granted that mysqldump, the file system and the S3
\* endpoint answer each call: the code has no deadline of its own for them.
FairSpec == Spec /\ WF_vars(ServiceStep)

-----------------------------------------------------------------------------
(* Properties *)

\* The variables hold what the Go types of Service, Run and Summary allow.
TypeOK ==
    /\ config \in [Names -> {"absent", "disabled", "enabled"}]
    /\ names \in SUBSET Names
    /\ debug \in BOOLEAN
    /\ pc \in Points
    /\ job \in Names \cup {NoJob}
    /\ results \in SUBSET Names
    /\ errs \in [Names -> Seq(Stages)]
    /\ logHealthy \in BOOLEAN
    /\ opened \in BOOLEAN
    /\ artifact \in [Names -> {"none", "staged", "residue"}]
    /\ object \in SUBSET Names
    /\ journal \in [Names -> SUBSET Messages]
    /\ progress \in
         [Names -> SUBSET (ProgressKinds \X (Stages \cup {"start", "complete"}))]
    /\ cancelled \in BOOLEAN
    /\ killed \in BOOLEAN
    /\ faults \in [Names -> Seq(Stages)]

\* A job the summary calls successful has its object in the store, left nothing
\* in the staging directory, and has its whole life in the log, the completion
\* event included; nobody was shown a failure.  (Run's two defers: the cleanup
\* one runs first, and either of them can still turn success into failure.)
SuccessIsDurable ==
    \A n \in Names : Succeeded(n) =>
        /\ n \in object
        /\ artifact[n] = "none"
        /\ {"started", "staged", "upload_started", "completed"} \subseteq journal[n]
        /\ "failed" \notin {event[1] : event \in progress[n]}

\* Side effects follow the log: whatever is in the staging directory, and
\* whatever object exists, belongs to a job whose earlier transitions were
\* written to the log before (service.go returns when an event is not written).
LoggedBeforeDone ==
    /\ \A n \in Names : artifact[n] # "none" => "started" \in journal[n]
    /\ \A n \in object :
          {"started", "staged", "upload_started"} \subseteq journal[n]

\* The error of a job holds every failure it met, in the order they came, so a
\* cleanup or log failure never masks the operational failure before it; and
\* the stage shown to the operator is the one that failed first.
FaultsReported ==
    /\ errs = faults
    /\ \A n \in Names, event \in UNION {progress[m] : m \in Names} :
          (event \in progress[n] /\ event[1] = "failed") =>
              event[2] = Head(faults[n])

\* What stays in the staging directory of a live process is reported: the job
\* failed, and if its artifact had been staged the failure names the cleanup.
ResidueIsReported ==
    \A n \in results : artifact[n] # "none" =>
        /\ errs[n] # <<>>
        /\ "staged" \in journal[n] =>
              \E i \in DOMAIN errs[n] : errs[n][i] = "cleanup"

\* What went wrong and what stays behind is in the errors that Run returns.
EverythingReported == FaultsReported /\ ResidueIsReported

\* Once an event of a job could not be written, that job neither stages a dump
\* nor creates an object; what it had staged can only go away or be left over.
LogFailureStopsWork ==
    [][~logHealthy /\ job' = job /\ ~logHealthy' =>
        /\ object' = object
        /\ artifact'[job] # artifact[job] => artifact[job] = "staged"]_vars

\* After cancellation no dump is started and no upload is started: only an
\* upload already under way can still create an object, and only a dump already
\* running can still leave something in the staging directory.
CancelStopsWork ==
    [][cancelled =>
        /\ pc' \in {"staging", "uploading"} => pc' = pc
        /\ object' # object => pc = "uploading"
        /\ \A n \in Names : artifact[n] = "none" /\ artifact'[n] # "none" =>
               pc = "staging" /\ artifact'[n] = "residue"]_vars

\* The service keeps the promise of BackupPromise: one job after another in
\* name order, nothing at all for a selection with a name that is not enabled,
\* objects only from staged artifacts, and success only with the object stored
\* and the artifact gone.
Promise == INSTANCE BackupPromise WITH
    chosen  <- Selected,
    allowed <- EnabledJobNames,
    outcome <- [n \in Names |-> IF n \notin results THEN "pending"
                                ELSE IF errs[n] = <<>> THEN "succeeded"
                                ELSE "failed"],
    onDisk  <- {n \in Names : artifact[n] # "none"}

KeepsPromise == Promise!Spec

\* A failed job does not prevent later jobs from running: every selected job
\* gets a result of its own unless the process is killed.
EveryJobDecided == <>(killed \/ (pc = "returned" /\ Selected \subseteq results))
=============================================================================
