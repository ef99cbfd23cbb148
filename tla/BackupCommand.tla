--------------------------- MODULE BackupCommand ---------------------------
(***************************************************************************)
(* `ezdbbackup backup': cli.runBackup checks the request, the              *)
(* configuration and the environment, opens the log, hands the selection   *)
(* to backup.Service, and turns the summary into an exit code.             *)
(***************************************************************************)
EXTENDS BackupService

VARIABLES
    phase,  \* where runBackup is
    exit    \* its exit code, or NoExit while it runs

NoExit == 99
cliVars == <<phase, exit>>
commandVars == <<vars, phase, exit>>

\* The command line names one job, or is --all.
CommandInit ==
    /\ Init
    /\ names = {} \/ \E n \in Names : names = {n}
    /\ phase = "load"
    /\ exit = NoExit

CliStep(from) == phase = from /\ ~killed /\ UNCHANGED vars
Exit(code) == phase' = "done" /\ exit' = code
Continue(to) == phase' = to /\ UNCHANGED exit

\* A configuration with error findings, or one that cannot be read.
LoadConfig ==
    /\ CliStep("load")
    /\ Continue("select") \/ Exit(2)

\* With --all and no enabled job only the global findings are looked at.
SelectJobs ==
    /\ CliStep("select")
    /\ IF names = {}
         THEN IF EnabledJobNames = {} THEN Exit(0) \/ Exit(2)
                                      ELSE Continue("preflight")
         ELSE IF names \subseteq EnabledJobNames THEN Continue("preflight")
                                                 ELSE Exit(2)

\* Validator.Check of every selected job before the first one runs.
Preflight ==
    /\ CliStep("preflight")
    /\ Continue("recheck") \/ Exit(2)

\* The configuration file is still the one that was loaded.
RecheckSource ==
    /\ CliStep("recheck")
    /\ Continue("open_log") \/ Exit(2)

\* logOptions refuses an overflowing size or age; opening the log can fail.
OpenLog ==
    /\ CliStep("open_log")
    /\ Continue("service") \/ Exit(1) \/ Exit(2)

RunService ==
    /\ phase = "service"
    /\ ServiceStep
    /\ UNCHANGED cliVars

ReportSummary ==
    /\ CliStep("service")
    /\ pc = "returned"
    /\ Exit(IF HasFailures THEN 1 ELSE 0)

CommandCancel == Cancel /\ phase # "done" /\ UNCHANGED cliVars
CommandKill == Kill /\ phase # "done" /\ UNCHANGED cliVars

CommandTerminated == (phase = "done" \/ killed) /\ UNCHANGED commandVars

CommandStep ==
    \/ LoadConfig \/ SelectJobs \/ Preflight \/ RecheckSource \/ OpenLog
    \/ RunService \/ ReportSummary

CommandNext == CommandStep \/ CommandCancel \/ CommandKill \/ CommandTerminated

CommandSpec == CommandInit /\ [][CommandNext]_commandVars

-----------------------------------------------------------------------------
(* Properties *)

\* Exit code 0 means that every selected job is stored and cleaned up; 2 means
\* that the request was refused before anything was logged, staged or stored.
ExitCodeTellsTruth ==
    /\ exit = 0 => \A n \in Selected :
          n \in object /\ artifact[n] = "none" /\ "completed" \in journal[n]
    /\ exit = 2 =>
          object = {} /\ \A n \in Names : journal[n] = {} /\ artifact[n] = "none"

=============================================================================
