------------------------ MODULE ValidationPreflight ------------------------
(***************************************************************************)
(* Validator.Check: the checks of one validate or backup invocation, in    *)
(* the order in which they run.  What each check finds is chosen here; the *)
(* control that decides which checks run, what they skip and what they     *)
(* report is the code's.  Job names are numbers, so that `<' is the        *)
(* lexical order.                                                          *)
(***************************************************************************)
EXTENDS Naturals, FiniteSets

CONSTANTS
    Jobs,        \* jobs of the loaded configuration
    Unknown,     \* a name that is not configured
    MaxFaults    \* bound: checks that find something wrong

Global == 0  \* in place of a job: a finding about none

ASSUME JobsAssumption ==
    Jobs \subseteq Nat \ {Global} /\ Unknown \in Nat \ (Jobs \cup {Global})

Names == Jobs \cup {Unknown}

\* Findings of config.Validate about a job, by the part of it they are about.
ConfigPaths == {"run_as", "dump_binary", "mysql", "s3", "temp_dir"}

\* The local checks of one job, after the identity check.
LocalChecks == {"run_as_user", "runtime_executable", "configuration_file",
                "dump_executable", "temp_directory", "mysql_password_file",
                "s3_secret_file"}

Services == {"mysql", "s3"}

VARIABLES
    requested,     \* names on the command line; empty means all
    options,       \* Options.Connectivity and Options.BackupExecution
    pc,
    todo,          \* jobs left in the loop that is running
    prerequisites, \* jobPrerequisites of each job
    report,        \* findings: <<severity, job, check>>
    executed,      \* history: configured programs and remote clients started
    broken         \* history: the checks that found something wrong

vars == <<requested, options, pc, todo, prerequisites, report, executed,
          broken>>

Faults == Cardinality(broken)

Init ==
    /\ requested \in SUBSET Names
    /\ options \in [connectivity : BOOLEAN, execution : BOOLEAN]
    /\ pc = "select" /\ todo = {} /\ report = {}
    /\ prerequisites = [j \in Jobs |-> [mysqlConfig |-> TRUE, s3Config |-> TRUE,
                                        mysqlLocal |-> TRUE, s3Local |-> TRUE]]
    /\ executed = {} /\ broken = {}

Selected == IF requested = {} THEN Jobs ELSE requested \cap Jobs

Find(severity, pairs) == {<<severity, p[1], p[2]>> : p \in pairs}

Break(pairs) ==
    /\ broken' = broken \cup pairs
    /\ Cardinality(broken') <= MaxFaults

\* Some pairs of jobs and checks, as many as the bound still allows.
SomeFaults(jobs, checks) ==
    {s \in SUBSET (jobs \X checks) : Cardinality(s) <= MaxFaults - Faults}

\* Mutant: a name that is not configured is only a warning.
SelectJobsLeniently ==
    /\ pc = "select"
    /\ report' = {<<"warning", n, "selection">> : n \in requested \ Jobs}
    /\ pc' = "configuration"
    /\ UNCHANGED <<requested, options, todo, prerequisites, executed, broken>>

SelectJobs ==
    /\ pc = "select"
    /\ report' = {<<"error", n, "selection">> : n \in requested \ Jobs}
    /\ pc' = "configuration"
    /\ UNCHANGED <<requested, options, todo, prerequisites, executed, broken>>

\* Mutant: a problem of run_as counts for MySQL only.
MarkRunAsForMySQL(flags, paths) ==
    [flags EXCEPT !.mysqlConfig = @ /\ paths \cap {"run_as", "dump_binary", "mysql"} = {},
                  !.s3Config = @ /\ "s3" \notin paths]

markConfigPrerequisite(flags, paths) ==
    [flags EXCEPT !.mysqlConfig = @ /\ paths \cap {"run_as", "dump_binary", "mysql"} = {},
                  !.s3Config = @ /\ paths \cap {"run_as", "s3"} = {}]

\* config.Validate looks at every job; only findings about selected ones, and
\* about none, are kept.  A warning is reported and marks nothing.
ValidateConfig ==
    /\ pc = "configuration"
    /\ \E errors \in SomeFaults(Selected, ConfigPaths), warn \in BOOLEAN :
        /\ Break(errors)
        /\ report' = report \cup Find("error", errors)
             \cup {<<"warning", j, "configuration">> : j \in {i \in Selected : warn}}
        /\ prerequisites' = [j \in Jobs |-> markConfigPrerequisite(
               prerequisites[j], {c \in ConfigPaths : <<j, c>> \in errors})]
    /\ pc' = "cron_paths"
    /\ UNCHANGED <<requested, options, todo, executed>>

\* Neither path is a matter of any job; checking goes on after an error.
CheckCronPaths ==
    /\ pc = "cron_paths"
    /\ \E errors \in SUBSET {"cron_binary_path", "cron_config_path"} :
        report' = report \cup {<<"error", Global, c>> : c \in errors}
    /\ pc' = "identities"
    /\ UNCHANGED <<requested, options, todo, prerequisites, executed, broken>>

ClearLocal(jobs) ==
    [j \in Jobs |-> IF j \in jobs
        THEN [prerequisites[j] EXCEPT !.mysqlLocal = FALSE, !.s3Local = FALSE]
        ELSE prerequisites[j]]

\* One mismatch takes the local prerequisites of every selected job away.
CheckIdentities ==
    /\ pc = "identities"
    /\ \E wrong \in SomeFaults(Selected, {"execution_identity"}) :
        /\ wrong # {} => options.connectivity \/ options.execution
        /\ Break(wrong)
        /\ report' = report \cup Find("error", wrong)
        /\ prerequisites' = IF wrong = {} THEN prerequisites
                                          ELSE ClearLocal(Selected)
    /\ pc' = "jobs" /\ todo' = Selected
    /\ UNCHANGED <<requested, options, executed>>

First(j) == \A i \in todo : j <= i

\* Mutant: a mismatch only costs the probes.
IdentitiesIgnored == TRUE

allExecutionIdentitiesOK == \A j \in Jobs : <<j, "execution_identity">> \notin broken

\* What a failed local check takes away; the staging directory takes nothing.
ClearFailed(flags, failed) ==
    [flags EXCEPT
        !.mysqlLocal = @ /\ failed \subseteq {"temp_directory", "s3_secret_file"},
        !.s3Local = @ /\ failed \subseteq {"temp_directory", "dump_executable",
                                         "mysql_password_file"}]

\* All local checks of one job.  Its programs are started, with their version
\* argument, only if every selected identity matched.
CheckJob(j) ==
    /\ pc = "jobs" /\ j \in todo /\ First(j)
    /\ LET run == IF allExecutionIdentitiesOK
                    THEN {"runtime_executable", "dump_executable"} ELSE {}
           skipped == {"runtime_executable", "dump_executable"} \ run
       IN  \E errors \in SomeFaults({j}, LocalChecks \ skipped) :
            LET failed == {p[2] : p \in errors}
            IN  /\ Break(errors)
                /\ report' = report \cup Find("error", errors)
                /\ executed' = executed \cup ({j} \X run)
                /\ prerequisites' = [prerequisites EXCEPT ![j] = ClearFailed(@, failed)]
    /\ todo' = todo \ {j}
    /\ UNCHANGED <<requested, options, pc>>

CheckLogging ==
    /\ pc = "jobs" /\ todo = {}
    /\ \/ report' = report
       \/ Selected # {} /\ report' = report \cup {<<"error", Global, "log_directory">>}
    /\ IF options.connectivity THEN pc' = "connect" /\ todo' = Selected
                               ELSE pc' = "done" /\ todo' = {}
    /\ UNCHANGED <<requested, options, prerequisites, executed, broken>>

Probe(service) == IF service = "mysql" THEN "mysql_connectivity" ELSE "s3_connectivity"

Ready(flags, service) ==
    IF service = "mysql" THEN flags.mysqlConfig /\ flags.mysqlLocal
                         ELSE flags.s3Config /\ flags.s3Local

\* The probe of one service: skipped with a warning; or its options are
\* resolved, the dump program or the S3 client is started, and either may fail.
ProbeOutcomes(j, service) ==
    IF ~Ready(prerequisites[j], service)
      THEN {[found |-> {<<"warning", j, Probe(service)>>}, ran |-> {}]}
      ELSE {[found |-> {}, ran |-> {<<j, Probe(service)>>}],
            [found |-> {<<"error", j, Probe(service)>>}, ran |-> {}],
            [found |-> {<<"error", j, Probe(service)>>}, ran |-> {<<j, Probe(service)>>}]}

\* Both services of one job, whatever the first one found.
CheckConnectivity(j) ==
    /\ pc = "connect" /\ j \in todo /\ First(j)
    /\ \E m \in ProbeOutcomes(j, "mysql"), s \in ProbeOutcomes(j, "s3") :
        /\ report' = report \cup m.found \cup s.found
        /\ executed' = executed \cup m.ran \cup s.ran
    /\ todo' = todo \ {j}
    /\ UNCHANGED <<requested, options, pc, prerequisites, broken>>

ReturnReport ==
    /\ pc = "connect" /\ todo = {}
    /\ pc' = "done"
    /\ UNCHANGED <<requested, options, todo, prerequisites, report, executed,
                   broken>>

Next ==
    \/ SelectJobs \/ ValidateConfig \/ CheckCronPaths \/ CheckIdentities
    \/ CheckLogging \/ ReturnReport
    \/ \E j \in Jobs : CheckJob(j) \/ CheckConnectivity(j)

Spec == Init /\ [][Next]_vars

-----------------------------------------------------------------------------
(* Properties *)

HasErrors == \E f \in report : f[1] = "error"

\* What the probe of a service depends on, from what the checks are about.
ForBoth == {"run_as", "execution_identity", "run_as_user",
            "runtime_executable", "configuration_file"}
Needs == [mysql |-> ForBoth \cup {"dump_binary", "mysql", "dump_executable",
                                  "mysql_password_file"},
          s3 |-> ForBoth \cup {"s3", "s3_secret_file"}]

\* Before a backup or a connectivity check starts any configured program or
\* remote client, of any job, every selected job's identity matched: a job
\* that comes first in the order is not run before a later one is refused.
NothingRunsBeforeIdentities ==
    (options.connectivity \/ options.execution) /\ executed # {} =>
        \A j \in Jobs : <<j, "execution_identity">> \notin broken

\* No probe uses what another check of the same job found to be wrong.
ProbesHaveTheirPrerequisites ==
    \A j \in Jobs, service \in Services :
        <<j, Probe(service)>> \in executed =>
            \A check \in Needs[service] : <<j, check>> \notin broken

\* A report without errors means that every check of every selected job ran
\* and found nothing: nothing was skipped on the way to exit status 0.
CleanReportIsComplete ==
    pc = "done" /\ ~HasErrors =>
        /\ broken = {} /\ requested \subseteq Jobs
        /\ \A j \in Selected :
            /\ {<<j, "runtime_executable">>, <<j, "dump_executable">>} \subseteq executed
            /\ options.connectivity =>
                {<<j, Probe(service)>> : service \in Services} \subseteq executed

=============================================================================
