----------------------------- MODULE DumpStage -----------------------------
(***************************************************************************)
(* GzipStager.Stage around ExecRunner.run: a dump process group writes to  *)
(* a pipe, a goroutine copies the pipe through gzip into the staging file, *)
(* a watcher of the context kills the group, and os/exec's Wait bounds how *)
(* long an inherited pipe can hold everyone up.  os/exec is external: its  *)
(* actions say what exec.Cmd does with the Cancel and WaitDelay that run   *)
(* gives it.                                                               *)
(***************************************************************************)
EXTENDS Naturals

CONSTANT Blocks  \* bound: blocks of output the dump may attempt to write

ASSUME BlocksAssumption == Blocks \in Nat \ {0}

LocalKinds == {"compression", "temporary_storage"}
Alive == {"running", "dying"}
Exited == {"ok", "failed", "killed"}

VARIABLES
    pc,          \* the next step of Stage and of the run inside it
    cancelled,   \* the context is done
    leader,      \* the dump process, leader of its process group
    reaped,      \* Process.Wait has collected the leader
    helper,      \* a process the leader forked
    holds,       \* the helper has the write end of the pipe
    attempted,   \* blocks the group tried to write
    pipe,        \* blocks in the pipe
    copied,      \* blocks written to the staging file
    readEnd,     \* the parent's end of the pipe
    copier,      \* the goroutine of exec.Cmd that copies the pipe
    copyErr,     \* its error
    local,       \* errorRecordingWriter.err
    watcher,     \* exec.Cmd's goroutine that watches the context
    watchErr,    \* the error it will hand to Wait
    waitErr,     \* the error of Cmd.Wait
    fail,        \* stage of the error that Stage returns; "none" so far
    staging,     \* what Stage has made, and not removed, in temp_dir
    cleanupErr,  \* Stage's error reports that something could not be removed
    cutShort     \* history: the context was done before the dump was copied

process == <<leader, helper, holds, attempted>>
channel == <<pipe, copied, readEnd, copier, copyErr, local>>
watch == <<watcher, watchErr>>
outcome == <<fail, staging, cleanupErr>>
vars == <<pc, cancelled, process, reaped, channel, watch, waitErr, outcome,
          cutShort>>

HelperAlive == helper \in {"grouped", "detached"}
WriteEndHeld == leader \in Alive \/ (HelperAlive /\ holds)

Init ==
    /\ pc = "stage" /\ cancelled = FALSE
    /\ leader = "none" /\ reaped = FALSE
    /\ helper = "none" /\ holds = FALSE
    /\ attempted = 0 /\ pipe = 0 /\ copied = 0
    /\ readEnd = "open" /\ copier = "idle" /\ copyErr = "none"
    /\ local = "none"
    /\ watcher = "off" /\ watchErr = "none" /\ waitErr = "none"
    /\ fail = "none" /\ staging = "none" /\ cleanupErr = FALSE
    /\ cutShort = FALSE

Cancel ==
    /\ ~cancelled /\ pc # "returned"
    /\ cancelled' = TRUE
    /\ cutShort' = (leader = "none" \/ copier = "copying")
    /\ UNCHANGED <<pc, process, reaped, channel, watch, waitErr, outcome>>

-----------------------------------------------------------------------------
(* The process group *)

\* A write into a pipe that nobody reads ends the writer (SIGPIPE).
Write(dies) ==
    /\ attempted < Blocks
    /\ attempted' = attempted + 1
    /\ \/ /\ readEnd = "open"
          /\ pipe' = pipe + 1
          /\ UNCHANGED <<leader, helper>>
       \/ /\ readEnd = "closed"
          /\ dies
          /\ UNCHANGED pipe
    /\ UNCHANGED <<pc, cancelled, reaped, holds, copied, readEnd, copier,
                   copyErr, local, watch, waitErr, outcome, cutShort>>

LeaderWrites ==
    leader = "running" /\ Write(leader' = "failed" /\ UNCHANGED helper)

HelperWrites ==
    HelperAlive /\ holds /\ Write(helper' = "dead" /\ UNCHANGED leader)

LeaderExits ==
    /\ \/ leader = "running" /\ leader' \in {"ok", "failed"}
       \/ leader = "dying" /\ leader' = "killed"
    /\ UNCHANGED <<pc, cancelled, reaped, helper, holds, attempted, channel,
                   watch, waitErr, outcome, cutShort>>

HelperChanges ==
    /\ \/ leader = "running" /\ helper = "none" /\ helper' = "grouped"
          /\ holds' = TRUE
       \/ helper = "grouped" /\ helper' = "detached" /\ UNCHANGED holds
       \/ HelperAlive /\ helper' = "dead" /\ UNCHANGED holds
       \/ HelperAlive /\ holds /\ holds' = FALSE /\ UNCHANGED helper
    /\ UNCHANGED <<pc, cancelled, leader, reaped, attempted, channel, watch,
                   waitErr, outcome, cutShort>>

\* A leader that is not reaped yet keeps the group in existence.
GroupExists == (leader # "none" /\ ~reaped) \/ helper = "grouped"

\* Mutant: only the leader is signalled.
KillLeaderOnly ==
    /\ leader' = IF leader = "running" THEN "dying" ELSE leader
    /\ UNCHANGED helper

killProcessGroup ==
    /\ leader' = IF leader = "running" THEN "dying" ELSE leader
    /\ helper' = IF helper = "grouped" THEN "killed" ELSE helper

-----------------------------------------------------------------------------
(* The copying goroutine *)

\* One block through errorRecordingWriter and gzip into the file.  The first
\* error is recorded and ends the copy, which closes the parent's end.
CopyBlock ==
    /\ copier = "copying" /\ readEnd = "open" /\ pipe > 0
    /\ pipe' = pipe - 1
    /\ \/ copied' = copied + 1
          /\ UNCHANGED <<readEnd, copier, copyErr, local>>
       \/ /\ local' \in LocalKinds
          /\ copier' = "done" /\ copyErr' = "local" /\ readEnd' = "closed"
          /\ UNCHANGED copied
    /\ UNCHANGED <<pc, cancelled, process, reaped, watch, waitErr, outcome,
                   cutShort>>

CopyEnds ==
    /\ copier = "copying"
    /\ copier' = "done"
    /\ \/ readEnd = "closed" /\ copyErr' = "closed"
       \/ readEnd = "open" /\ pipe = 0 /\ ~WriteEndHeld /\ copyErr' = "none"
    /\ UNCHANGED <<pc, cancelled, process, reaped, pipe, copied, readEnd,
                   local, watch, waitErr, outcome, cutShort>>

-----------------------------------------------------------------------------
(* exec.Cmd's watcher of the context *)

\* Cancel: a group that is gone is no error, so nothing is reported.
WatchCancel ==
    /\ watcher = "watching" /\ cancelled
    /\ watcher' = "timed"
    /\ IF GroupExists
         THEN killProcessGroup /\ watchErr' = "context"
         ELSE UNCHANGED <<leader, helper, watchErr>>
    /\ UNCHANGED <<pc, cancelled, reaped, holds, attempted, channel, waitErr,
                   outcome, cutShort>>

\* Mutant: WaitDelay is zero, no timer ever runs.
NoWaitDelay == FALSE

\* run sets WaitDelay: a timer that was started runs out.
WaitDelayPasses == TRUE

\* The timer ran out before Wait took it over: the copy is collected here, or
\* the parent's end of the pipe is closed under it.
WatchExpires ==
    /\ watcher = "timed" /\ WaitDelayPasses
    /\ IF copier = "done"
         THEN /\ watcher' = "handing"
              /\ watchErr' = IF watchErr = "none" /\ reaped THEN copyErr
                                                           ELSE watchErr
              /\ UNCHANGED readEnd
         ELSE watcher' = "closing" /\ readEnd' = "closed" /\ UNCHANGED watchErr
    /\ leader' = IF leader = "running" THEN "dying" ELSE leader
    /\ UNCHANGED <<pc, cancelled, reaped, helper, holds, attempted, pipe,
                   copied, copier, copyErr, local, waitErr, outcome, cutShort>>

\* Whether a WaitDelay that ran out here is itself an error is left open.
WatchClosed ==
    /\ watcher = "closing" /\ copier = "done"
    /\ watcher' = "handing"
    /\ watchErr' \in IF watchErr = "none" THEN {"none", "delay"} ELSE {watchErr}
    /\ UNCHANGED <<pc, cancelled, process, reaped, channel, waitErr, outcome,
                   cutShort>>

-----------------------------------------------------------------------------
(* Stage, up to the call of its write function *)

Fail(stage, point) == fail' = stage /\ pc' = point

CheckContext ==
    /\ pc = "stage"
    /\ IF cancelled THEN Fail("temporary_storage", "returned")
                    ELSE pc' = "workspace" /\ UNCHANGED fail
    /\ UNCHANGED <<cancelled, process, reaped, channel, watch, waitErr,
                   staging, cleanupErr, cutShort>>

\* newWorkspace: a directory that fails its checks is removed as well as it
\* can be; that it could not be removed is not reported.
NewWorkspace ==
    /\ pc = "workspace"
    /\ \/ pc' = "create" /\ staging' = "directory" /\ UNCHANGED fail
       \/ Fail("temporary_storage", "returned") /\ staging' \in {"none", "directory"}
    /\ UNCHANGED <<cancelled, process, reaped, channel, watch, waitErr,
                   cleanupErr, cutShort>>

\* createFile, and the removal of the directory when it fails.
CreateFile ==
    /\ pc = "create"
    /\ \/ pc' = "open_executable" /\ staging' = "partial"
          /\ UNCHANGED <<fail, cleanupErr>>
       \/ /\ Fail("temporary_storage", "returned")
          /\ staging' \in {"none", "directory", "partial"}
          /\ cleanupErr' = (staging' # "none")
    /\ UNCHANGED <<cancelled, process, reaped, channel, watch, waitErr,
                   cutShort>>

-----------------------------------------------------------------------------
(* ExecRunner.run *)

OpenExecutable ==
    /\ pc = "open_executable"
    /\ \/ pc' = "start" /\ UNCHANGED fail
       \/ Fail("dump_startup", "close")
    /\ UNCHANGED <<cancelled, process, reaped, channel, watch, waitErr,
                   staging, cleanupErr, cutShort>>

\* Start refuses a context that is done; otherwise the process, the copy and
\* the watcher begin.
Start ==
    /\ pc = "start"
    /\ \/ /\ ~cancelled
          /\ leader' = "running" /\ copier' = "copying" /\ watcher' = "watching"
          /\ pc' = "wait"
          /\ UNCHANGED fail
       \/ Fail("dump_startup", "close") /\ UNCHANGED <<leader, copier, watcher>>
    /\ UNCHANGED <<cancelled, reaped, helper, holds, attempted, pipe, copied,
                   readEnd, copyErr, local, watchErr, waitErr, staging,
                   cleanupErr, cutShort>>

\* Wait, first part: the leader is collected.
Reap ==
    /\ pc = "wait" /\ leader \in Exited
    /\ reaped' = TRUE
    /\ waitErr' = IF leader = "ok" THEN "none" ELSE "exit"
    /\ pc' = "watch"
    /\ UNCHANGED <<cancelled, process, channel, watch, outcome, cutShort>>

FirstError(err) == waitErr' = IF waitErr = "none" THEN err ELSE waitErr

\* Wait, second part: the watcher hands over its error, and the copy too if
\* it collected it.
Receive ==
    /\ pc = "watch" /\ watcher \in {"watching", "timed", "handing"}
    /\ watcher' = "off"
    /\ FirstError(watchErr)
    /\ pc' = IF watcher = "handing" THEN "join" ELSE "await"
    /\ UNCHANGED <<cancelled, process, reaped, channel, watchErr, outcome,
                   cutShort>>

\* Wait, third part: the copy ends, or the timer runs out first.
AwaitCopy ==
    /\ pc = "await"
    /\ \/ copier = "done" /\ FirstError(copyErr) /\ pc' = "join"
          /\ UNCHANGED readEnd
       \/ WaitDelayPasses /\ readEnd' = "closed" /\ pc' = "drain"
          /\ UNCHANGED waitErr
    /\ UNCHANGED <<cancelled, process, reaped, pipe, copied, copier, copyErr,
                   local, watch, outcome, cutShort>>

DrainCopy ==
    /\ pc = "drain" /\ copier = "done"
    /\ FirstError("delay")
    /\ pc' = "join"
    /\ UNCHANGED <<cancelled, process, reaped, channel, watch, outcome,
                   cutShort>>

\* Mutant: the recorded write error is not joined.
RunFailureWithoutCopyError ==
    IF waitErr # "none" THEN "dump_execution" ELSE "none"

\* Mutant: the recorded write error takes the place of Wait's.
RunFailureOnlyCopyError == local

\* The stage that failureStage finds in run's error: Wait's error joined with
\* the recorded write error, which names its own stage.
RunFailure ==
    IF local # "none" THEN local
    ELSE IF waitErr # "none" THEN "dump_execution" ELSE "none"

\* A failed run kills what is left of the group; the deferred Close of the
\* executable may add an error of its own.
JoinAndReturn ==
    /\ pc = "join"
    /\ IF RunFailure = "none" THEN UNCHANGED <<leader, helper>>
                              ELSE killProcessGroup
    /\ \E closeFails \in BOOLEAN :
         fail' = IF RunFailure = "none" /\ closeFails THEN "dump_execution"
                                                      ELSE RunFailure
    /\ pc' = "close"
    /\ UNCHANGED <<cancelled, reaped, holds, attempted, channel, watch,
                   waitErr, staging, cleanupErr, cutShort>>

-----------------------------------------------------------------------------
(* Stage, after its write function *)

\* gzip's Close, the last fstat and the file's Close; an error of the write
\* function comes before theirs.
CloseFile ==
    /\ pc = "close"
    /\ \E kind \in LocalKinds \cup {"none"} :
        fail' = IF fail = "none" THEN kind ELSE fail
    /\ pc' = IF fail' = "none" THEN "recheck" ELSE "cleanup"
    /\ UNCHANGED <<cancelled, process, reaped, channel, watch, waitErr,
                   staging, cleanupErr, cutShort>>

RecheckContext ==
    /\ pc = "recheck"
    /\ IF cancelled THEN Fail("temporary_storage", "cleanup")
                    ELSE pc' = "verify" /\ UNCHANGED fail
    /\ UNCHANGED <<cancelled, process, reaped, channel, watch, waitErr,
                   staging, cleanupErr, cutShort>>

VerifyFinal ==
    /\ pc = "verify"
    /\ \/ staging' = "artifact" /\ pc' = "returned" /\ UNCHANGED fail
       \/ Fail("temporary_storage", "cleanup") /\ UNCHANGED staging
    /\ UNCHANGED <<cancelled, process, reaped, channel, watch, waitErr,
                   cleanupErr, cutShort>>

\* Mutant: a removal that failed is not reported.
RemovePartialQuietly ==
    /\ pc = "cleanup"
    /\ staging' \in {"none", "directory", "partial"}
    /\ pc' = "returned"
    /\ UNCHANGED <<cancelled, process, reaped, channel, watch, waitErr, fail,
                   cleanupErr, cutShort>>

\* The deferred removal of the file and then of its directory.
RemovePartial ==
    /\ pc = "cleanup"
    /\ staging' \in {"none", "directory", "partial"}
    /\ cleanupErr' = (staging' # "none")
    /\ pc' = "returned"
    /\ UNCHANGED <<cancelled, process, reaped, channel, watch, waitErr, fail,
                   cutShort>>

-----------------------------------------------------------------------------

Stage == CheckContext \/ NewWorkspace \/ CreateFile \/ CloseFile
           \/ RecheckContext \/ VerifyFinal \/ RemovePartial
Run == OpenExecutable \/ Start \/ Reap \/ Receive \/ AwaitCopy \/ DrainCopy
         \/ JoinAndReturn
Copier == CopyBlock \/ CopyEnds
Watcher == WatchCancel \/ WatchExpires \/ WatchClosed
Group == LeaderWrites \/ HelperWrites \/ LeaderExits \/ HelperChanges

Next == Cancel \/ Stage \/ Run \/ Copier \/ Watcher \/ Group

\* The code's own goroutines run, and a killed leader dies.  Nothing makes
\* the dump finish by itself.
Spec ==
    /\ Init /\ [][Next]_vars
    /\ WF_vars(Stage) /\ WF_vars(Run) /\ WF_vars(Copier) /\ WF_vars(Watcher)
    /\ WF_vars(leader = "dying" /\ LeaderExits)

-----------------------------------------------------------------------------
(* Properties *)

\* An artifact that Stage returns holds the whole dump: the dump process
\* ended with success, and every block that it or a process it left behind
\* tried to write is in the file, with nobody left to write more; and the
\* context was not done before the dump was copied, whatever the watcher, the
\* reaped group and the timer made of it.
ArtifactIsWholeDump ==
    staging = "artifact" =>
        /\ leader = "ok" /\ helper # "killed"
        /\ copied = attempted /\ local = "none"
        /\ ~WriteEndHeld /\ ~cutShort

\* A write that failed here decides the stage that is reported, although the
\* dump process then dies of the closed pipe and Wait returns its exit error.
LocalFailureNamesStage ==
    pc = "returned" /\ local # "none" => fail = local

\* When a run that started has failed, no process of its group is left: a
\* helper in it is not left behind writing to nobody.
NoGroupAfterFailure ==
    pc \in {"cleanup", "returned"} /\ fail # "none" /\ RunFailure # "none" =>
        ~GroupExists

\* Dump data that a failed Stage leaves in the staging directory is reported.
LeftoverIsReported ==
    pc = "returned" /\ staging = "partial" => fail # "none" /\ cleanupErr

\* The error of a failed Stage tells what failed and what it left behind.
ErrorTellsTruth == LocalFailureNamesStage /\ LeftoverIsReported

\* Stage returns once the context is done or the dump process has ended,
\* even if a process it left behind keeps the pipe open for ever.
StageReturns == (cancelled \/ leader \in Exited) ~> pc = "returned"
=============================================================================
