# Verification of ezdbbackup

TLA+ modules, TLC runs and TLAPS proofs for ezdbbackup, the program that dumps MySQL databases, compresses
them on local disk, uploads them to S3-compatible storage, and writes a cron schedule for itself. Everything is
translated from the Go code; a line such as *service.go:198* is a line under `src/internal/`.
`PROJECT.json` maps each definition to the lines it stands for.

Contents: [1 the system](#1-the-system) · [2 modules and code](#2-modules-and-code) ·
[3 runs](#3-runs-what-each-checks-and-shows) · [4 bounds](#4-bounds-and-why-they-are-enough) ·
[5 fairness](#5-fairness) · [6 findings](#6-where-the-code-and-its-documents-disagree) ·
[7 proofs](#7-proofs) · [8 what is not modelled](#8-what-is-not-modelled) · [9 plan](#9-plan)

## 1 The system

`ezdbbackup backup` is one process that runs to its end; cron or an administrator starts it, perhaps several at a
time and under several accounts. Nothing is shared between two processes but files: the log family, the cron
file with its lock, and the staging directories. Inside a process the jobs run one after another; concurrency
inside it is that of `os/exec` (a copying and a watching goroutine) and of the S3 SDK's retries. Other programs
and people change the same directories without asking: a cleaner of temporary files, an administrator who replaces
the configuration.

```
 cli.runBackup -> config.Load/Validate -> validation.Validator -> logging.New -> backup.Service.RunMany
                       |                        |                                     |
                       +--- securepath ---------+                                     |
               +-------------------------+-----------------------------+--------------+----+
               v                         v                             v                   v
     logging.FileLogger.Write   stage.GzipStager.Stage -> dump.ExecRunner   storage.S3Uploader   summary/exit code
               |                         |                             |
       log directory (flock)     staging directory, mysqldump      S3 endpoint
 cli.cron -> cron.Manager -> /etc/cron.d file and its lock
```

| Component | State it keeps | Operations | What is hard | What makes it correct |
|---|---|---|---|---|
| Backup service (`backup`) | the summary, the joined error of each job, the artifact | `RunMany`, `Run` | two deferred functions that rewrite the result in reverse order; every step can fail; cancellation; kill | success means stored and cleaned up; the log is ahead of effects; no error is lost; a job's failure stops neither the others nor the report |
| Backup command (`cli/backup.go`) | exit code | `runBackup` | order of refusals; what 0, 1 and 2 mean to cron; a log that fails underneath | the exit code tells the truth; what was stored is on record |
| Dump and staging (`dump`, `stage`) | process group, pipe, partial file, first error, the artifact's identity | `Stage`, `run`, `Open`, `Remove` | cancellation, exit, end of copy and `WaitDelay` race; wrapper processes outlive the leader; removal fails too; no descriptor is held from `Stage` to `Open` and `Remove` | a returned artifact is the whole dump and so is what is opened; nothing is left in silence; nothing of anybody else's is removed; `Stage` returns |
| Stderr redaction (`dump/runner.go`) | kept bytes, length of the match held back | `Write`, `finish` | a password cut by the writes, overlapping itself, cut by the cap | the password is never kept; nothing else is changed |
| S3 uploader (`storage/uploader.go`) | upload ID, part number, completed parts | `Upload`, `multipart`, `abort` | repeated, late and lost answers; cancellation; sizes at the limits | the object is the file; nil means stored; a failure is aborted |
| Log family (`logging/logger.go`, `rotate.go`) | directory entries, the active log | `New`, `Write`, rotation, gzip, retention | several processes; kill or failure between any two system calls | acknowledged events survive, in order, until retention removes the oldest |
| Paths and accounts (`logging/secure_linux.go`, `stage/secure_linux.go`, `validation/environment.go`, `securepath`) | owners, groups, modes, links | validation, opening, creation | rules written twice or three times, applied by several accounts that leave files to each other; a kill before a file has its mode | what the validation accepts works for every account |
| Pinned files (`securepath`, `config/load.go`) | descriptor, metadata, canonical path | `OpenRegular`, `ReadAll`, `Recheck`, `RecheckPath` | files replaced and rewritten between two looks, links turned, inode numbers used again | what is read and executed is what the path named |
| Preflight (`validation/validator.go`) | findings, prerequisites per job | `Check` | checks that skip others; probes long after the checks they rest on | nothing configured runs before identities match; no probe on bad input; a clean report is complete |
| Cron manager (`cron/manager.go`) | the schedule, the lock file | `Install`, `Remove`, `Show` | flock on a file that may be replaced; unlocked fast path; an administrator without a lock | operations are atomic on one schedule; foreign files survive |
| Decoding and checking of the configuration, job resolution, log encoding, rendering, dump arguments, terminal output | none | pure functions | parsing and texts | reached well by unit tests; their outcomes are inputs of the models |

How they interact: calls, all synchronous, except the goroutines of `os/exec`; shared state is only in the file
system; there are no callbacks other than progress events, which `Run` sends from its own goroutine.

The hazards, each at its line and with the properties that cover it, are in `PROJECT.json`. One has no property and
says why: a fragment of a line that a short write or a kill leaves in the log (rotate.go:490).

## 2 Modules and code

| Module | Models | How |
|---|---|---|
| `BackupService` | `backup/service.go`, `backup/summary.go` | One action per step of `Run` at which it calls something. `ReturnError`, `JoinError` and `LogStep` are the code's three ways to leave a step. `errs` is the joined `StageError`s of a job, `faults` (history) what really failed. The stager, the log and the store are seen as outcomes here |
| `BackupPromise` | nothing: abstract | What the command promises: jobs decided in name order and only if the whole request is allowed, an object only from an artifact on disk, success only when the object is there and the disk is clean |
| `BackupCommand` | `cli/backup.go` | EXTENDS `BackupService` and puts `runBackup` around it: the refusals before `RunMany`, and the exit code behind it |
| `BackupSystem` | the command on its log | EXTENDS `BackupCommand`, INSTANCEs `LogFamily`: an info event of `Run` is a `Write` with all its system calls, while other commands write and rotate the same family. Only what that `Write` answers reaches `Run` |
| `DumpStage` | `stage/gzip.go`, `dump/runner.go` | `Stage` and the `run` inside it, with the goroutines of `exec.Cmd` as external actions: `Copier` (pipe to gzip to file), `Watcher` (context, `Cancel`, `WaitDelay`), and the process `Group` of leader and one helper |
| `Stager` | `stage/secure_linux.go`, `Open` and `Remove` | EXTENDS `DumpStage`: the same `Stage`, with the directory it works in, then `Open` and `Remove` look by look, while somebody else replaces, rewrites, links, renames and deletes |
| `StderrRedactor` | `dump/runner.go`, `redactingCappedBuffer` | The streaming matcher byte by byte, against a declarative replacement over the whole input |
| `MultipartPlan` | `multipartPlan` and the arithmetic of `multipart` | Pure operators |
| `MultipartUpload` | `storage/uploader.go` | EXTENDS `MultipartPlan`. The uploader as a client; the SDK and the service are external: a request stays in `network` and may be handled any number of times, an answer stays in `answers` |
| `LogFamily` | `logging/logger.go`, `logging/rotate.go` | Everything under the directory lock, one action per system call that changes the directory. A file is the sequence of its events, an event is its number, `Torn` a fragment; the size of a file counts its lines, those in `Long` twice |
| `PathAccess` | `logging/secure_linux.go`, `stage/secure_linux.go`, `securepath`, the rules of `validation/environment.go` | Owner, group, mode, setgid and sticky bit of a log directory, staging directory or secret file, of its parent, of the links to it and of the log files in it: the rules of the validation and the rules of the program, side by side, for the processes of two accounts in any order |
| `PinnedFile` | `securepath/regular_linux.go`, `config/load.go`, the version probe | Open, read, recheck and execute, step by step, while an administrator renames files into place, rewrites them, changes their mode and turns the link. A text is a sequence of chunks, each marked with the act that wrote it, so that two texts of one length differ; `MCPinnedFile` adds the symmetry for TLC |
| `ValidationPreflight` | `validation/validator.go` | What each check finds is chosen; which checks run, skip and clear flags is the code's |
| `CronManager` | `cron/manager.go` | Several processes, step by step, kills, and an administrator without a lock. A `Remove` that found no schedule opens the lock only if it exists (`..._existing`), and takes one that is gone when it has it for none |
| `CronSchedule` | nothing: abstract | Install, remove and show as atomic operations on one schedule |
| `BackupProofs` (service, command and system), `LogFamilyProofs`, `DumpStageProofs` (with the theorems about `Stager`), `MultipartProofs`, `PathAccessProofs`, `PinnedFileProofs`, `ValidationPreflightProofs`, `CronManagerProofs` | | The theorems of section 7 |

Refinements: `BackupService` implements `BackupPromise`; `CronManager` implements `CronSchedule`. `BackupSystem` and
`Stager` take over the actions of the modules they extend unchanged and only add what these find: a step of the
composition is a step of the component.

Each module holds its mutants, marked `Mutant:`, next to the definition that they change: the way in which a
plausible bug would break the property that names it. They are not part of any behaviour.

## 3 Runs: what each checks and shows

| Run | States | Question | Properties |
|---|---|---|---|
| `backup_service` | 0.5 M | Does `RunMany` keep its word for any selection over two names, configured, disabled or unknown? | `TypeOK`; `SuccessIsDurable`: success implies object, clean disk and a complete log. `LoggedBeforeDone`: no artifact and no object ahead of its event. `EverythingReported`: every failure of a decided job is in its error, none invented, and what stays on disk is named. `KeepsPromise`: refinement of `BackupPromise`. `LogFailureStopsWork`, `CancelStopsWork`: nothing is started after either. `EveryJobDecided`: all selected jobs get a result |
| `backup_system` | 4.0 M | The same command on its real log: what may cron conclude from the exit code, and does the log still tell what became of each object? | `ExitCodeTellsTruth`, `ObjectsAreOnRecord` |
| `system_wedge` | | Is a fault of one job's logging contained in that job? | `FailuresContained` is violated (section 6) |
| `stager` | 1.3 M | What does a `nil` error of `Stage` mean, whatever the dump program, its children, the disk and the context do? And what do `Open` and `Remove` do in a directory that changed meanwhile? | `ArtifactIsWholeDump`, `ErrorTellsTruth`: a local failure names its stage and what is left is reported. `NoGroupAfterFailure`, `StageReturns`; `OpenedIsStaged`: what is opened is the file that was staged. `RemovedIsGone`: no name of the dump after a `Remove` that succeeds. `RemoveSparesOthers`: only what was just looked at is unlinked |
| `stderr_redactor` | 0.1 M | Is the streaming matcher the replacement it is meant to be? | `MatchesGreedyReplacement` |
| `multipart_upload` | 28 k | Is the object the file, and the error the truth, against a service that answers late, twice, or never? | `ObjectIsWhole`, `OutcomeTellsTruth`: nil means stored, an error means aborted or says otherwise. `CancelledUploadReturns` |
| `log_family` | 3.5 M | Do two processes with two kills or failing calls anywhere lose or disorder events, or let the log outgrow its limits? | `AckedEventsKept`, `HistoryInOrder`, `SuccessLeavesGoodHistory`: but for its last line the log is below its size |
| `path_access` | 4.2 M | Do accounts of different users work together on what the validation accepted? | `AccountsInterwork` (log), `StagingServes`, `SecretServes` |
| `log_compatible` | | Is an accepted log directory compatible with every selected account? | `ValidatedMeansCompatible` is violated (section 6) |
| `pinned_file` | 4.1 M | Is what is read and executed what the path named? | `PinnedWasNamed`, `PinnedIsExecuted`; `ReadIsOneVersion`, `RecheckedIsCurrent`: unless a text of the same length came under the same inode number (`lookalike`) |
| `validation_preflight` | 1.2 M | Which programs run on unchecked input, and what is a clean report worth? | `NothingRunsBeforeIdentities`, `ProbesHaveTheirPrerequisites`, `CleanReportIsComplete` |
| `cron` | 0.4 M | Are the operations atomic while nobody edits by hand, and what can an administrator's edit break? | `RefusedOnlyForForeignFile`, `RemoveWaitsForInstall` and `KeepsPromise` (refinement of `CronSchedule`) for behaviours without an edit; `Exclusive`, `ForeignFileSurvives` with one: only within the window between the check and the rename or unlink. `CallsReturn` |

All pass but the two marked violations. The long ones (`backup_system`, `stager`, `path_access`, `cron`,
`log_family`, `pinned_file`) take one to four minutes each with two workers, the others seconds.

`stager`, `stderr_redactor`, `validation_preflight`, `path_access` and `log_compatible` turn deadlock detection off
because the model really stops: all calls returned, the redactor finished, the preflight done, nothing left to try on
a directory that the validation rejects. Elsewhere an explicit terminal action (`Terminated`, `Done`) makes any other
stop a deadlock.

## 4 Bounds and why they are enough

- `Names = {1, 2}`: each property speaks of one job or of a pair; a second name is needed for order, for partly
  invalid selections and for "the next job". The theorems of section 7 need no bound.
- `BackupSystem`: one failing step outside the log (`MaxFaults`), one kill or failing call of the log (`MaxMishaps`),
  one write of another process (`OtherWrites`) which may rotate at any point. `MaxSize = 2` makes the log rotate
  within one job, sooner when a long line (`Long`) takes it past its size; `MaxFiles = 1` lets two rotations drop a
  generation. `MaxWrites = 9` and `EntryBudget = 6` are never the reason that a write is refused: a command with two jobs writes eight events. No age limit: ageing is
  `log_family`'s.
- Staging: `Blocks = 2`: one block in the pipe while another is copied; a missing one can be the first or the last
  (for any number: section 7). `MaxEdits = 2`: something turned away and back, a second name made and one deleted, a
  file deleted and its inode number used again.
- Redaction: `MaxInput = 7`, `MaxSecret = 4` over two byte values: patterns with every border length up to 3, and
  inputs that hold one whole occurrence, an overlapping one and a cut one. `MaxLimit = 9` puts the cap before, in and
  behind the marker. Section 7 proves it without these bounds.
- Upload sizes 0 to 10 with parts of 2 to 3 bytes and at most 3 parts: the empty file, single put below the
  threshold, exact and short last parts, part size raised by the count limit, largest size (9) and one beyond.
  `MaxSessions = 2`: a repeated create leaves a session that nobody knows.
- Log: `MaxSize = 2`, `MaxFiles = 2`, so that shifting, dropping and two generations coexist; `MaxWrites = 3` per
  process gives up to six events, i.e. three rotations; `Long = {3, 5}` are two units long, so that a line appended
  below the limit takes the log past it; `MaxMishaps = 2` so that a second kill or failure strikes
  during the recovery from the first; `EntryBudget = 4` is reached by leftovers.
- Paths: three user IDs including root, two groups, at most two accounts, four permission triples per class.
  Interference is pairwise: each refusal relates one process to the directory or to one file of another. A secret
  belongs to one job and is opened by one account; root's process has any groups.
- Pinned file: two paths for the link to turn between, four inodes of which two are named at first, four acts of the
  administrator: replace, turn, turn back and use an inode number again. `Sizes = {1, 2}`: a rewrite keeps the length
  or changes it, and a text of two chunks can be cut in the middle. Paths and inode numbers are only compared, hence
  the symmetry; no property of this module is a liveness property.
- Preflight: two jobs and an unknown name; `MaxFaults = 2`, so that one fault can hide another.
- Cron: two processes; three inode numbers, so that one can be reused; `MaxEdits = 1`: every property that allows
  edits speaks of the window around one.

## 5 Fairness

Only liveness properties use fairness; the code has few deadlines and the models assume no more than it has.

- `BackupService`: weak fairness of the service's own steps. One goroutine runs to its end. It takes for granted
  that mysqldump, the file system and the endpoint answer; without that `RunMany` may wait for ever, since the
  code sets no deadline for a job. Neither cancellation nor kill is assumed.
- `DumpStage`, and `Stager` with it: the code's steps, the two goroutines of `os/exec` with the `WaitDelay` timer, and
  that a killed leader dies. Nothing makes the dump end by itself, so `StageReturns` has the premise that the context
  is done or that the leader has exited. A helper that holds the pipe for ever is allowed. Nobody is assumed to
  change the directory, nor to stop doing so.
- `MultipartUpload`: the client goes on when it can. A call is sure to end only after a cancellation, and the
  abort after its own timeout (uploader.go:159). The service need not answer.
- `CronManager`: each process's steps, and strong fairness of `Flock`: Linux queues the waiters of a flock, so one
  that stays in the queue while the lock keeps being released gets it. A killed process releases it.
- `BackupSystem`, `LogFamily`, `PathAccess`, `PinnedFile`, `StderrRedactor`, `ValidationPreflight`: safety only.

## 6 Where the code and its documents disagree

**A failed rotation stops later jobs** (`system_wedge`). `rotate` renames the active log away (rotate.go:108) before
it compresses, and nothing but `appendLineAt` or a new process creates it again. When a later step of the rotation
fails, `rotateIfNeeded` fails at its stat (rotate.go:45) in every later `Write` of the process, before the append.
Each later job then fails when it logs its start. The design
(`docs/superpowers/specs/2026-08-09-ezdbbackup-design.md:134`) says: "A failed job does not prevent later jobs from
running." In the service alone it does not (`EveryJobDecided`); on top of the log it writes, one failing call during
the first job makes every later one fail (`FailuresContained`). A new process recovers; so does cron's next run.

**The validation accepts log directories that the logger refuses** (`log_compatible`).
`validateLogTargetDirectory` makes no group check for root or where the group has no permission
(validation/environment.go:563), the logger makes it always (logging/secure_linux.go:449, and :610 for files);
for a missing directory only the first account name of a user is checked (environment.go:466); and the logger judges
the owner of every symbolic link on the path, the validation none. Cases: root with a 0750 directory of a group that
root is not in; a setgid 2700 directory of an unrelated group; two names of one user with a missing directory; a link
that belongs to a third user. The design, line 150, promises a directory "compatible with all selected `run_as`
identities". `AccountsInterwork` is what does hold, for accounts of different users.

Seen and not claimed by a run:

- A recheck does not prove that the file is the one that was parsed. `Recheck` compares `Metadata`
  (securepath/regular_linux.go:249), which holds device, inode, links, mode, owner, group and size, and no times
  (:35-43). A configuration rewritten in place to the same length after `Load`, say with another key or port, passes;
  so does a file of the same length that was given the inode number, which is free once `Load` has closed its
  descriptor. The comment on `RecheckSource` (config/types.go:188) says that it "proves that the trusted canonical path
  still names the exact file parsed by Load". The same comparison ends `ReadAll` (:193), so a rewrite to the same
  length during the read can leave a mixture of two texts. Only who may write the file can do this: an administrator,
  or a tool that edits in place, at the wrong moment. `ReadIsOneVersion` and `RecheckedIsCurrent` say what does hold:
  their premise `~lookalike` is that no text of the inspected length was written under the pinned inode number since
  the inspection, and every other rewrite or replacement is noticed. Without the premise TLC finds each violated by a
  single act.
- A short write whose truncation fails, or a kill inside the write, leaves a fragment to which the next event is
  appended (rotate.go:490), so that two events share a line; the documents speak of one JSON object per line.
- A missing `temp_dir` is made with mode 0700 by the first user that comes; a second user of the same `temp_dir`,
  whose validation also passed while it was missing, is refused from then on. `StagingServes` therefore promises a
  missing directory to one user only.
- The program opens each component of a log or staging path for reading, while the validation and `README.md:93`
  ask for no more than the permission to traverse. The properties have the premise that the parent can be read.
- `CheckRunIdentity` compares user and primary group but, for root, not the other groups.
- A second hard link made to the staged file while the dump runs does not make `Stage` fail, but `Open` and `Remove`
  refuse the artifact (they require one link); and a failing `Stage` removes only its own name.

## 7 Proofs

All theorems hold for every value of the constants that satisfies the named assumptions: any set of job names, any
number of processes, users, groups, blocks, inodes and edits, any bytes in any number.

| Module | Theorems | Assumptions |
|---|---|---|
| `BackupProofs` | about the service: `TypeCorrect`, `SuccessDurable`, `LogComesFirst`, `LogFailureStops`, `CancelStops`, `AllIsReported`, `ServiceKeepsPromise`; about the command: `CommandIsService`, `ExitCodeTrue`; about the system: `SystemIsCommand`, `SystemIsLog`, `ObjectsRecorded` | `NamesAssumption`: job names are natural numbers; for the system `MainAssumption`: that of `LogFamily`, and no age limit |
| `LogFamilyProofs` | `AckedKept`, `InOrder`, `GoodHistory` | `LogAssumption`: the limits and bounds are natural numbers, `Free` is no process |
| `MultipartProofs` | `PlanAlwaysValid`, `PartsTileFile` about the plan; `WholeObject`, `UploadTellsTruth` about the upload | `PlanAssumption`: limits are positive and in order; `UploadAssumption`: threshold, part size and bounds are natural numbers |
| `DumpStageProofs` | `WholeDump`, `GroupIsGone`, `ErrorTells` about `DumpStage`; `StagerKeepsStage`, `OpenedStaged`, `RemovedGone`, `RemoveSpares` about `Stager`; `FailureTable`, `RedactorRight` about `StderrRedactor` | numbers of blocks and edits are natural; `RedactorAssumption`: so are the bounds of the redactor |
| `PinnedFileProofs` | `PinnedWasNamedTheorem`, `PinnedIsExecutedTheorem`, `ReadIsOneVersionTheorem`, `RecheckedIsCurrentTheorem` | `PinnedAssumption`: lengths and the bound are natural numbers, `None` is no inode |
| `PathAccessProofs` | `Interwork`, `StagingWorks`, `SecretWorks` | `UidsAssumption`: 0 is a user |
| `ValidationPreflightProofs` | `IdentitiesFirst`, `PrerequisitesHold`, `CleanIsComplete` | that of the module |
| `CronManagerProofs` | `RefusedForForeign`, `MutationsExclude`, `RemoveWaits`, `ForeignSurvives`, `Refines` | `CronAssumption`: the special values differ from the processes |

Each module follows one argument: an inductive invariant `IInv` with the property or what implies it, one lemma per
action or group of actions that keeps it, and the theorem.

**BackupProofs.** `SuccessIsDurable` speaks of finished jobs only and is not inductive: a job becomes
successful in the last deferred function, by an error that is still empty after everything before it. `IInv` says
what an empty error means on the way: `OneRun`, `NoResults`, `Untouched` (the running job has no result yet, and a job
whose turn has not come has left no trace, so a step of one `Run` cannot spoil what is known of the others);
`BodyIsClean` (the body of `Run` goes on only without an error and with a working log); `Recorded` (at each point, which
events are in the log, and that the artifact exists from `Stage` to `Remove`); `EndingIsGood` (without an error at the
deferred functions, the object exists and the log is complete; at the last one, the artifact is gone as well);
`NotShownFailed` (a failure is shown only by the last deferred function). The two action properties follow from it
step by step.

`ServiceKeepsPromise` needs one part more, `OrderOK`: when the running job is decided no smaller selected one is
undecided. It has to be invariant because `Turn` asks for it, and it holds because `RunMany` takes the smallest
remaining name. `RunLeaves` (a step of `Run` touches neither the request nor another job), `RunStages` and
`RunPublishes` then say what each action is to `BackupPromise`: `Refuse` at `RejectSelection`, `Stage` and `Unstage`
at the return of `Stage`, at `Cleanup` and at a kill, `Publish` at the return of the upload or at a kill during it,
`Succeed` and `Fail` at the last deferred function or where a cancellation decides the jobs that have not begun.
`AllIsReported` adds `ReportOK`: a failure that was shown is in the error and the first one comes first, and a job that
still has something on disk at its end has the stage that left it in its error.

The command and the system are proved to implement their parts, so nothing is proved twice. `CommandIsService`: a step of
the command is a step of the service or leaves it alone. `ExitCodeTrue` then needs only what the command adds:
`AllDecided` (`RunMany` returns with a result for every selected job) and `CommandInv` (before `RunMany` nothing has been
done; what each exit code was given for). `SystemIsCommand` and `SystemIsLog`: a step of the system is a step of the
command and one of the log family, or of one of them while the other stutters. So every theorem about `BackupService`,
`BackupCommand` and `LogFamily` holds of the system, the exit code's among them. `ObjectsRecorded` combines the two
invariants by three facts: every number in `lines` is an event that is in the files or was removed by retention
(`LinesOnRecord`), every event that the service takes for logged has such a number (`JournalInLines`), and the service goes
on from an event only when its `Write` answered nil (`InfoLogged`).

**LogFamilyProofs.** The lemmas come in two layers. `RenameKeeps`, `RotateKeeps`, `PublishKeeps`, `RemoveKeeps`, `ActiveKeeps`
say of any directory, as a function from names to lines, what one system call does to its order and its events. The
invariant then says that each call is made where its lemma applies: `Shifting`, that during a rotation those
already shifted lie above all others and above the name the active log will take, so that a rename never puts two
generations out of order; `Compressing`, that the source is still there and that nothing older equals it, until the
gzip file holds the same; `AtWork`, that all this happens under the lock, and that an event about to be
acknowledged is on record. It holds at every call, so a kill or an error between two of them leaves it standing.

`GoodHistory` is about what a whole operation leaves behind, after any number of earlier ones that stopped half-way. Then a
generation may remain that is older than one that is gone: the shift removes one and fails, or retention removes its
victims in any order and is killed between two. `Stale` names such a generation, and the core of the second invariant,
`StaleDoomed`, says that it is always `Doomed`: its suffix is beyond `max_files`, or its own events are too old, or
`max_files` newer rotations crowd it out. Each of the three stays true until the next retention: a shift moves a doomed
rotation up or one of the crowd with it, never the one past the other (`RenameDoomed`, `ExpireDoomed`); between the rename
of the active log and the removal of its source the crowd is counted without either form of the newest generation
(`Fresh`), since both would count there and one will go. `RetainOK` is the count: had retention kept a stale rotation, it
would have kept the `max_files` newer ones with it. `DropOK` says what is true while it removes, `Settled` when it is
done, and `BelowSize` that the look at the size, or the rotation, came before the last line.
For the age limit, `AgesInOrder` shows that a rotation is never too old before an older one is.

**MultipartProofs.** `PlanAlwaysValid`: with a configured part size within the limits, every size from 0 to the
largest object has a valid plan, so that the two late error returns of `multipartPlan` are never taken; the core is
`RoundUpLeast`: the rounded quotient is the least number of parts that is enough. `PartsTileFile`: the parts follow one
another without gap or overlap, none is empty, and the last ends at the end of the file. For the upload, the invariant ties together what four parties hold: `Path` what the uploader
knows at each operation, `RequestOK` that every request still in the network, of whatever age, names the session and the
section it was sent for, `AnswerOK` that an answer is true and stays true, `StoreOK` that a session holds sections of
the file under their numbers and that an object is the file or all sections. A repeated or late request then only
writes what is there already, or finds its session closed.

**DumpStageProofs.** `ArtifactIsWholeDump` needs to know what a clean `Wait` means while the goroutines race: `Started`
and `Collected` say which processes exist and what `Wait` has learned at each step, `PipeOK` that copied, piped and
remaining blocks are the dump unless the copier failed or was cut off, `ErrorsOK` that a first error is kept and where
it came from, `EndOK` and `DiskOK` what the end of `run` and the state of the partial file say of them. Every step of `Stager`
is one of `DumpStage` or leaves it alone (`StagerKeepsStage`), so all this holds there; `SIInv` adds `Running` (which method is at which step, and that `Stage` is over when one runs) and `Seen`: what `Open` and
`Remove` learned by their last look still holds if nobody has changed anything since; after a change by somebody else
no look is the last word, and every later step looks again or spares what it finds.

For the redactor, the replacement is a recursion over the whole text and the matcher has seen a part of it. The
invariant `Matching` therefore speaks of every text that the input may still become: what the reference makes of it is
what was released so far, followed by what it makes of the text from the first byte held back (`Aligned`); once the buffer is
full, only the first half is kept. `FailureTable` shows by the classical argument that the table computed by
`prefixFailureTable` holds the longest borders (`NextRow`), `FallReaches` that falling back along it misses no border, so
`ReleasedIsRedacted`: no occurrence of the password begins in the bytes released, and the reference copies them too.
`PlainByte`, `WholeSecret` and `SecretCutOff` are the cases of a byte and of the end. The library's induction theorems take
an operator and cannot be used, so each of these inductions is a least counterexample: `Least` gives every set of naturals
its least element, and the set is the one where the claim fails.

**PinnedFileProofs.** `HistoryOK` relates what the path named during the open to the present; `OpenOK` says that from
the open on the descriptor's file is one of those, and keeps its number for as long as it is open, so a number that is
used again cannot be it; `ExecOK` that between a recheck and the execution only a counted change can intervene. For
what is read, `ReadOK` says that as long as the file has its inspected length, and was not given it anew, every chunk
read so far is the beginning of its text: a rewrite starts with a truncation, and what ends it at the inspected
length sets `lookalike`. `CurrentOK` carries that over the closing of the descriptor to whatever file has the inspected
number and length. An empty file is the exception in `ReadOK`, since a truncation does not change its length.

**PathAccessProofs.** A rule of the validation and a rule of the program are compared clause by clause:
`SharedDirectoryServes` and `OwnDirectoryServes` derive from the validation's finding that every process of these
accounts enters, `FilesOK` says what modes and groups any file left by any of them has, also one whose creator was
killed, and `LogOK`, `StagingOK`, `SecretOK` that who was refused had been promised nothing.

**ValidationPreflightProofs.** The flags of a job are what keeps probes from running: `FlagsOK` and `FlagsStand` say that
a flag that still stands had all its checks done without a finding, `ErrorsReported` and `Complete` that a check that
did not run leaves an error behind unless nothing depended on it.

**CronManagerProofs.** `LocksOK` says who can hold which lock file, `OwnedOK` that from `Verify` on the destination is
unchanged or was edited since, and `AloneOK` what is known while nobody edits: one lock file, and a file without the marker
only if there was one at the start. The refinement maps each process's operation, content and answer to one record:
`OneRecord` shows that a step changes the record of its own process only, the `Seen...` lemmas turn what the step does
to that record and to the file into an atomic operation of `CronSchedule`, and `StepRefines` goes through the actions:
`Install` takes effect at the rename, `Remove` at the unlink or where it finds nothing, `Show` at its read.

Only model-checked: all liveness (`EveryJobDecided`, `StageReturns`, `CancelledUploadReturns`, `CallsReturn`), which is out
of the prover's reach. Every safety property of a passing run is stated by a theorem.

## 8 What is not modelled

- Pure functions without state: decoding and checking the configuration and options, event encoding and text
  redaction, object keys, cron rendering, dump arguments, terminal escaping. Their outcomes are chosen.
- Texts, durations and byte counts of events and results.
- Backup service: an explicit selection with a name twice, which the command line cannot give; nil dependencies.
- System: debug.log and error.log are other families under the same lock; a write to them is one step.
- Dump: one helper process stands for all; a kill of an existing group succeeds; reuse of a process ID is left out.
- Staging: the look and the unlink of `Stage`'s own cleanup are one step, those of `Remove` are two; the inode numbers
  of directories are not used again; the repeated choice of a random name; errors of `newWorkspace` that the code
  ignores (an empty directory may stay).
- Redaction: the marker has two bytes for ten, and the run's bytes are none of them (the theorem has no such bound).
- Upload: what the SDK does inside a call, except that it may repeat and reorder it; integrity checksums.
- Log: one of the three families; `max_files` 0, which the configuration refuses; changed identities under the lock are
  one more failing call; generations age in the order of their events: a raw rotation was last written with its last
  line, and a gzip file, which compression renews, or a file that ends in a fragment, before the event after its last.
- Paths: one level of parent stands for all ancestors, and owners, modes and links do not change between the validation
  and the use; capabilities of the process; device and file system types.
- Pinned file: the ancestors do not change during a walk, which is one step.
- Preflight: nil configuration, environment or probes; the content of each check, except those of `PathAccess` and
  `PinnedFile`.
- Cron: temporary files left by kills, which cron ignores and no operation reads; the spelling of cron paths.

## 9 Plan

Done, in this order: service and command (the program's promise), its proofs, log family, uploader with its plan
and proofs, cron manager, dump and staging, redactor, preflight; then the command on its log, pinned files, access of
accounts to paths, opening and removing of artifacts, and the proofs about them, the preflight, cron, the log family, the
upload, the promise of the service, the command, the system of command and log, and the redactor.

Next, most important first:

1. `DirectoryBinding`: the ancestors walked one by one with their rechecks while another process swaps entries.
2. `CronExpression`: the parser of schedule fields against a reference definition of the times it names.
3. Filtering of error texts (`storage/s3.go`, `logging/redact.go`) against a definition of what may remain.
