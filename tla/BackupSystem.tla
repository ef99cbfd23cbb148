---------------------------- MODULE BackupSystem ----------------------------
(***************************************************************************)
(* `ezdbbackup backup' on top of the log it writes: BackupCommand composed *)
(* with LogFamily.  What is one step of BackupService, an event that is    *)
(* logged or not, is here a Write of the process Main on info.log: waiting *)
(* for the lock, rotation, retention, the append and the unlock, with the  *)
(* processes of other commands in between.  The result of the Write is     *)
(* what Run goes by.  debug.log and error.log are other families under the *)
(* same lock of the directory: a Write on them stays one step.             *)
(***************************************************************************)
EXTENDS BackupCommand, FiniteSets

CONSTANTS
    Procs, Free, MaxSize, Long, MaxFiles, AgeLimit, Compress, EntryBudget,
    MaxWrites, MaxMishaps,  \* of LogFamily
    Main,                   \* the process of this command
    OtherWrites,            \* bound: writes of every other process
    MaxFaults               \* bound: failures of Run's steps outside info.log

\* Bound: no max_age_days.  The rest is what LogFamily assumes of its limits.
ASSUME MainAssumption ==
    /\ Main \in Procs /\ Free \notin Procs
    /\ MaxSize \in Nat \ {0} /\ MaxFiles \in Nat \ {0} /\ Long \subseteq Nat
    /\ EntryBudget \in Nat /\ MaxWrites \in Nat /\ MaxMishaps \in Nat
    /\ AgeLimit = FALSE /\ Compress \in BOOLEAN
    /\ OtherWrites \in Nat /\ MaxFaults \in Nat

VARIABLES
    files, orphans, lock, logPc, mode, todo, kept, failed, line, writes, next,
    acked, horizon, expired, mishaps,  \* of LogFamily
    lines  \* history: the event number of each info event that Main appended

Log == INSTANCE LogFamily WITH pc <- logPc

logVars == <<files, orphans, lock, logPc, mode, todo, kept, failed, line, writes,
             next, acked, horizon, expired, mishaps>>
systemVars == <<commandVars, logVars, lines>>

\* Bound: a new log without max_age_days, no debug events, and for a job named
\* on the command line a configuration without the others, which Run never
\* looks at.
SystemInit ==
    /\ CommandInit /\ ~debug
    /\ names # {} => \A n \in Names \ names : config[n] = "absent"
    /\ Log!Init /\ next = 1
    /\ lines = {}

-----------------------------------------------------------------------------
(* The command and its log *)

\* The event of the current point of Run, if it goes to info.log.
InfoEvent ==
    CASE pc = "log_started" -> {"started"}
      [] pc = "log_staged" -> {"staged"}
      [] pc = "log_upload" -> {"upload_started"}
      [] pc = "finish" /\ errs[job] = <<>> -> {"completed"}
      [] OTHER -> {}

\* logOptions, the directory or error.log fails before info.log is opened.
LogRefused ==
    /\ OpenLog /\ phase' = "done"
    /\ logPc[Main] = "off"
    /\ UNCHANGED <<logVars, lines>>

CallNew ==
    /\ CliStep("open_log")
    /\ Log!Start(Main)
    /\ UNCHANGED <<cliVars, lines>>

NewReturns ==
    /\ mode[Main] = "new"
    /\ Log!Unlock(Main)
    /\ OpenLog /\ exit' = IF failed[Main] THEN 1 ELSE NoExit
    /\ UNCHANGED lines

CallWrite ==
    /\ phase = "service" /\ ~killed
    /\ InfoEvent # {}
    /\ Log!BeginWrite(Main)
    /\ UNCHANGED <<commandVars, lines>>

\* Mutant: a Write that reports an error is taken for a success.
WriteErrorIgnored ==
    /\ mode[Main] = "write"
    /\ Log!Unlock(Main)
    /\ RunService
    /\ logHealthy'
    /\ lines' = IF line[Main] = 0 THEN lines
                ELSE lines \cup {<<job, m, line[Main]>> : m \in InfoEvent}

\* Run goes on, or returns, by the error of the Write; an event can be in the
\* file although the Write reports an error.
WriteReturns ==
    /\ mode[Main] = "write"
    /\ Log!Unlock(Main)
    /\ RunService
    /\ logHealthy' = ~failed[Main]
    /\ InfoEvent \subseteq journal'[job] <=> line[Main] # 0
    /\ lines' = IF line[Main] = 0 THEN lines
                ELSE lines \cup {<<job, m, line[Main]>> : m \in InfoEvent}

FaultCount == Cardinality(UNION {{n} \X DOMAIN faults[n] : n \in Names})

\* Every other step of RunMany and Run; one that writes to another file of the
\* log needs the lock of the directory.  Once cancelled, steps have to fail.
ServiceProceeds ==
    /\ InfoEvent = {}
    /\ RunService
    /\ faults' = faults \/ FaultCount < MaxFaults \/ cancelled
    /\ records' = records \/ lock = Free
    /\ UNCHANGED <<logVars, lines>>

CommandProceeds ==
    /\ LoadConfig \/ SelectJobs \/ Preflight \/ RecheckSource \/ ReportSummary
    /\ UNCHANGED <<logVars, lines>>

-----------------------------------------------------------------------------
(* Signals, and the other processes *)

\* Bound: no signal once as many calls of the log have failed as may.
Untroubled == mishaps < MaxMishaps

Cancelled == CommandCancel /\ Untroubled /\ UNCHANGED <<logVars, lines>>

\* The kernel releases what the killed process has locked.
Killed ==
    /\ CommandKill /\ Untroubled
    /\ IF logPc[Main] \in {"off", "idle"} THEN UNCHANGED logVars
                                          ELSE Log!Kill(Main)
    /\ UNCHANGED lines

MainInLog ==
    /\ Log!Acquire(Main) \/ Log!Locked(Main)
    /\ UNCHANGED <<commandVars, lines>>

MainFails ==
    /\ Log!AppendTorn(Main) \/ Log!CallFails(Main)
    /\ UNCHANGED <<commandVars, lines>>

OtherProcess(p) ==
    /\ \/ (Log!Start(p) \/ Log!BeginWrite(p)) /\ writes[p] < OtherWrites
       \/ Log!Exit(p) \/ Log!Acquire(p) \/ Log!Operation(p) \/ Log!Failure(p)
    /\ UNCHANGED <<commandVars, lines>>

SystemTerminated ==
    /\ phase = "done" \/ killed
    /\ UNCHANGED systemVars

SystemStep ==
    \/ LogRefused \/ CallNew \/ NewReturns \/ CallWrite \/ WriteReturns
    \/ ServiceProceeds \/ CommandProceeds \/ MainInLog

SystemNext ==
    \/ SystemStep \/ Cancelled \/ Killed \/ MainFails
    \/ \E p \in Procs \ {Main} : OtherProcess(p)
    \/ SystemTerminated

SystemSpec == SystemInit /\ [][SystemNext]_systemVars

-----------------------------------------------------------------------------
(* Properties *)

InLog(n, m) == \E e \in Log!Stored \cup expired : <<n, m, e>> \in lines

\* The log files tell what was done: an object exists only if the lines that
\* say its job started, staged its dump and began the upload are in the files,
\* or were there until retention removed them, whatever other processes rotate
\* and whatever fails meanwhile; and a job is called successful only with the
\* line of its completion there too.
ObjectsAreOnRecord ==
    /\ \A n \in object :
          \A m \in {"started", "staged", "upload_started"} : InLog(n, m)
    /\ \A n \in Names : Succeeded(n) => InLog(n, "completed")

\* One failing call of the log fails at most one job, as in "A failed job does
\* not prevent later jobs from running".
FailuresContained ==
    Cardinality({n \in results : faults[n] # <<>> /\ Head(faults[n]) = "logging"})
        <= mishaps
=============================================================================
