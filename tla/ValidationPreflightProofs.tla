---------------------- MODULE ValidationPreflightProofs ----------------------
(***************************************************************************)
(* The properties of Validator.Check for any set of jobs, any request and  *)
(* any number of checks that find something wrong.                         *)
(***************************************************************************)
EXTENDS ValidationPreflight, TLAPS

Phases == {"select", "configuration", "cron_paths", "identities", "jobs",
           "connect", "done"}
Flags == [mysqlConfig : BOOLEAN, s3Config : BOOLEAN,
          mysqlLocal : BOOLEAN, s3Local : BOOLEAN]
Checks == ConfigPaths \cup {"execution_identity"} \cup LocalChecks

TypesOK ==
    /\ pc \in Phases
    /\ requested \in SUBSET Names
    /\ options \in [connectivity : BOOLEAN, execution : BOOLEAN]
    /\ prerequisites \in [Jobs -> Flags]
    /\ todo \subseteq Selected
    /\ broken \in SUBSET (Jobs \X Checks)

\* A check that found something wrong has an error in the report, and so has a
\* name that is not configured.
ErrorsReported ==
    /\ pc = "select" => broken = {}
    /\ ~HasErrors => broken = {} /\ (pc # "select" => requested \subseteq Jobs)

\* A flag that still stands means that what it depends on was found in order.
FlagsOK ==
    \A j \in Jobs, service \in Services :
        Ready(prerequisites[j], service) =>
            \A check \in Needs[service] : <<j, check>> \notin broken

\* The flags fall for every selected job when one identity does not match.
IdentitiesOK ==
    \A i \in Jobs : <<i, "execution_identity">> \in broken =>
        /\ pc \in {"jobs", "connect", "done"}
        /\ \A j \in Selected, service \in Services :
            ~Ready(prerequisites[j], service)

\* Nothing else makes a flag fall.
FlagsStand ==
    broken = {} => \A j \in Jobs, service \in Services :
                       Ready(prerequisites[j], service)

\* What runs, and when.
ExecutedOK ==
    /\ pc \notin {"jobs", "connect", "done"} => executed = {}
    /\ \A j \in Jobs, service \in Services :
        <<j, Probe(service)>> \in executed => pc \in {"connect", "done"}

\* The jobs behind the loops have been checked completely.
Complete ==
    ~HasErrors =>
        /\ pc \in {"jobs", "connect", "done"} =>
            \A j \in Selected :
                \/ pc = "jobs" /\ j \in todo
                \/ {<<j, "runtime_executable">>, <<j, "dump_executable">>}
                        \subseteq executed
        /\ pc \in {"connect", "done"} /\ options.connectivity =>
            \A j \in Selected :
                \/ j \in todo
                \/ \A service \in Services : <<j, Probe(service)>> \in executed
        /\ pc = "done" => todo = {}

IInv == TypesOK /\ ErrorsReported /\ FlagsOK /\ IdentitiesOK /\ FlagsStand
          /\ ExecutedOK /\ Complete /\ NothingRunsBeforeIdentities
          /\ ProbesHaveTheirPrerequisites

-----------------------------------------------------------------------------
(* The flags and the report *)

\* The flags on which the probes of a job depend.
LEMMA NeedsValues ==
    /\ Needs["mysql"] = ForBoth \cup {"dump_binary", "mysql", "dump_executable",
                                      "mysql_password_file"}
    /\ Needs["s3"] = ForBoth \cup {"s3", "s3_secret_file"}
BY DEF Needs

\* A flag that is still set after the configuration was looked at depends on
\* no part of it that was wrong.
LEMMA MarkedFlags ==
    ASSUME NEW flags \in Flags, NEW paths \in SUBSET ConfigPaths
    PROVE  /\ markConfigPrerequisite(flags, paths) \in Flags
           /\ \A service \in Services :
                Ready(markConfigPrerequisite(flags, paths), service) =>
                    Ready(flags, service) /\ Needs[service] \cap paths = {}
           /\ paths = {} => markConfigPrerequisite(flags, paths) = flags
<1> DEFINE marked == markConfigPrerequisite(flags, paths)
<1>1. /\ marked \in Flags
      /\ marked.mysqlConfig =>
            flags.mysqlConfig /\ paths \cap {"run_as", "dump_binary", "mysql"} = {}
      /\ marked.s3Config => flags.s3Config /\ paths \cap {"run_as", "s3"} = {}
      /\ marked.mysqlLocal = flags.mysqlLocal /\ marked.s3Local = flags.s3Local
  BY DEF markConfigPrerequisite, Flags
<1>2. Ready(marked, "mysql") => Ready(flags, "mysql") /\ Needs["mysql"] \cap paths = {}
  BY <1>1, NeedsValues DEF Ready, ForBoth, ConfigPaths
<1>3. Ready(marked, "s3") => Ready(flags, "s3") /\ Needs["s3"] \cap paths = {}
  BY <1>1, NeedsValues DEF Ready, ForBoth, ConfigPaths
<1>4. paths = {} => marked = flags
  BY DEF markConfigPrerequisite, Flags
<1>5. QED
  BY <1>1, <1>2, <1>3, <1>4 DEF Services

\* The same after the local checks of a job.
LEMMA ClearedFlags ==
    ASSUME NEW flags \in Flags, NEW failed \in SUBSET LocalChecks
    PROVE  /\ ClearFailed(flags, failed) \in Flags
           /\ \A service \in Services :
                Ready(ClearFailed(flags, failed), service) =>
                    Ready(flags, service) /\ Needs[service] \cap failed = {}
           /\ failed = {} => ClearFailed(flags, failed) = flags
<1> DEFINE cleared == ClearFailed(flags, failed)
<1>1. /\ cleared \in Flags
      /\ cleared.mysqlLocal =>
            flags.mysqlLocal /\ failed \subseteq {"temp_directory", "s3_secret_file"}
      /\ cleared.s3Local => flags.s3Local /\ failed \subseteq
            {"temp_directory", "dump_executable", "mysql_password_file"}
      /\ cleared.mysqlConfig = flags.mysqlConfig /\ cleared.s3Config = flags.s3Config
  BY DEF ClearFailed, Flags
<1>2. Ready(cleared, "mysql") => Ready(flags, "mysql") /\ Needs["mysql"] \cap failed = {}
  BY <1>1, NeedsValues DEF Ready, ForBoth, LocalChecks
<1>3. Ready(cleared, "s3") => Ready(flags, "s3") /\ Needs["s3"] \cap failed = {}
  BY <1>1, NeedsValues DEF Ready, ForBoth, LocalChecks
<1>4. failed = {} => cleared = flags
  BY DEF ClearFailed, Flags
<1>5. QED
  BY <1>1, <1>2, <1>3, <1>4 DEF Services

\* What is found is in the report, and stays there.
LEMMA ErrorFound ==
    ASSUME NEW pairs, pairs # {}, Find("error", pairs) \subseteq report'
    PROVE  HasErrors'
<1>1. PICK p \in pairs : TRUE
  OBVIOUS
<1>2. <<"error", p[1], p[2]>> \in report'
  BY DEF Find
<1>3. QED
  BY <1>2 DEF HasErrors

\* A report only grows, so an error in it stays.
LEMMA ErrorsStay == report \subseteq report' /\ HasErrors => HasErrors'
BY DEF HasErrors

-----------------------------------------------------------------------------
(* The steps *)

\* Init: nothing was looked at.
LEMMA InitInvariant == Init => IInv
<1> SUFFICES ASSUME Init PROVE IInv
  OBVIOUS
<1> USE DEF Init
<1>1. TypesOK
  BY DEF TypesOK, Phases, Flags, Selected
<1>2. ErrorsReported /\ FlagsOK /\ IdentitiesOK /\ ExecutedOK /\ Complete
  BY DEF ErrorsReported, FlagsOK, IdentitiesOK, ExecutedOK, Complete
<1>3. FlagsStand
  BY DEF FlagsStand, Ready, Services
<1>4. NothingRunsBeforeIdentities /\ ProbesHaveTheirPrerequisites
  BY DEF NothingRunsBeforeIdentities, ProbesHaveTheirPrerequisites
<1>5. QED
  BY <1>1, <1>2, <1>3, <1>4 DEF IInv

\* The jobs are selected.
LEMMA SelectInvariant ==
    ASSUME IInv, SelectJobs
    PROVE  IInv'
<1> USE DEF IInv, SelectJobs
<1>1. TypesOK' /\ Selected' = Selected
  BY DEF TypesOK, Phases, Selected
<1>2. ErrorsReported'
  <2>1. ASSUME NEW n \in requested \ Jobs
        PROVE  HasErrors'
    <3>1. <<"error", n, "selection">> \in report'
      OBVIOUS
    <3>2. QED
      BY ONLY <3>1 DEF HasErrors
  <2>2. QED
    BY <2>1 DEF ErrorsReported
<1>3. FlagsOK' /\ IdentitiesOK' /\ FlagsStand' /\ ExecutedOK' /\ Complete'
  BY <1>1 DEF ErrorsReported, FlagsOK, IdentitiesOK, FlagsStand, ExecutedOK, Complete
<1>4. NothingRunsBeforeIdentities' /\ ProbesHaveTheirPrerequisites'
  BY DEF NothingRunsBeforeIdentities, ProbesHaveTheirPrerequisites
<1>5. QED
  BY <1>1, <1>2, <1>3, <1>4

\* The configuration is checked.
LEMMA ConfigInvariant ==
    ASSUME IInv, ValidateConfig
    PROVE  IInv'
<1> USE DEF IInv
<1>1. PICK errors \in SomeFaults(Selected, ConfigPaths) :
        /\ broken' = broken \cup errors
        /\ report \subseteq report' /\ Find("error", errors) \subseteq report'
        /\ prerequisites' = [j \in Jobs |-> markConfigPrerequisite(
               prerequisites[j], {c \in ConfigPaths : <<j, c>> \in errors})]
  BY DEF ValidateConfig, Break
<1> DEFINE wrong(j) == {c \in ConfigPaths : <<j, c>> \in errors}
<1>2. errors \in SUBSET (Jobs \X ConfigPaths)
  BY DEF SomeFaults, Selected
<1>3. /\ pc = "configuration" /\ pc' = "cron_paths"
      /\ UNCHANGED <<requested, options, todo, executed>>
  BY DEF ValidateConfig
<1>4. \A j \in Jobs :
        /\ prerequisites'[j] \in Flags
        /\ \A service \in Services :
             Ready(prerequisites'[j], service) =>
                 Ready(prerequisites[j], service) /\ Needs[service] \cap wrong(j) = {}
        /\ wrong(j) = {} => prerequisites'[j] = prerequisites[j]
  <2> SUFFICES ASSUME NEW j \in Jobs
               PROVE  /\ prerequisites'[j] \in Flags
                      /\ \A service \in Services :
                           Ready(prerequisites'[j], service) =>
                             /\ Ready(prerequisites[j], service)
                             /\ Needs[service] \cap wrong(j) = {}
                      /\ wrong(j) = {} => prerequisites'[j] = prerequisites[j]
    OBVIOUS
  <2>1. prerequisites[j] \in Flags /\ wrong(j) \in SUBSET ConfigPaths
    BY DEF TypesOK
  <2>2. prerequisites'[j] = markConfigPrerequisite(prerequisites[j], wrong(j))
    BY <1>1
  <2> HIDE DEF wrong
  <2>3. QED
    BY <2>1, <2>2, MarkedFlags
<1>5. TypesOK' /\ Selected' = Selected
  <2>1. prerequisites' \in [Jobs -> Flags]
    BY <1>1, <1>4
  <2>2. QED
    BY <1>1, <1>2, <1>3, <2>1 DEF TypesOK, Phases, Selected, Checks
<1>6. HasErrors \/ errors # {} => HasErrors'
  BY <1>1, ErrorFound, ErrorsStay
<1>7. ErrorsReported'
  BY <1>1, <1>3, <1>6 DEF ErrorsReported
<1>8. FlagsOK'
  <2> SUFFICES ASSUME NEW j \in Jobs, NEW service \in Services,
                      Ready(prerequisites'[j], service),
                      NEW check \in Needs[service], <<j, check>> \in broken'
               PROVE  FALSE
    BY DEF FlagsOK
  <2>1. <<j, check>> \notin broken
    BY <1>4 DEF FlagsOK
  <2>2. check \in wrong(j)
    BY <1>1, <1>2, <2>1
  <2>3. QED
    BY <1>4, <2>2
<1>9. IdentitiesOK'
  <2>1. \A i \in Jobs : <<i, "execution_identity">> \notin broken'
    BY <1>1, <1>2, <1>3 DEF IdentitiesOK, ConfigPaths
  <2>2. QED
    BY <2>1 DEF IdentitiesOK
<1>10. FlagsStand'
  BY <1>1, <1>4 DEF FlagsStand
<1>11. ExecutedOK' /\ Complete'
  BY <1>3, <1>5, <1>6 DEF ExecutedOK, Complete
<1>12. NothingRunsBeforeIdentities' /\ ProbesHaveTheirPrerequisites'
  BY <1>3 DEF ExecutedOK, NothingRunsBeforeIdentities, ProbesHaveTheirPrerequisites
<1>13. QED
  BY <1>5, <1>7, <1>8, <1>9, <1>10, <1>11, <1>12

\* The paths of cron are checked.
LEMMA CronPathsInvariant ==
    ASSUME IInv, CheckCronPaths
    PROVE  IInv'
<1> USE DEF IInv
<1>1. /\ pc = "cron_paths" /\ pc' = "identities" /\ report \subseteq report'
      /\ UNCHANGED <<requested, options, todo, prerequisites, executed, broken>>
  BY DEF CheckCronPaths
<1>2. TypesOK' /\ Selected' = Selected
  BY <1>1 DEF TypesOK, Phases, Selected
<1>3. HasErrors => HasErrors'
  BY <1>1, ErrorsStay
<1>4. ErrorsReported' /\ FlagsOK' /\ IdentitiesOK' /\ FlagsStand' /\ ExecutedOK'
        /\ Complete'
  BY <1>1, <1>2, <1>3
     DEF ErrorsReported, FlagsOK, IdentitiesOK, FlagsStand, ExecutedOK, Complete
<1>5. NothingRunsBeforeIdentities' /\ ProbesHaveTheirPrerequisites'
  BY <1>1 DEF NothingRunsBeforeIdentities, ProbesHaveTheirPrerequisites
<1>6. QED
  BY <1>2, <1>4, <1>5

\* The identities of the jobs are checked.
LEMMA IdentitiesInvariant ==
    ASSUME IInv, CheckIdentities
    PROVE  IInv'
<1> USE DEF IInv
<1>1. PICK wrong \in SomeFaults(Selected, {"execution_identity"}) :
        /\ broken' = broken \cup wrong
        /\ report \subseteq report' /\ Find("error", wrong) \subseteq report'
        /\ prerequisites' = IF wrong = {} THEN prerequisites
                                          ELSE ClearLocal(Selected)
  BY DEF CheckIdentities, Break
<1>2. wrong \in SUBSET (Jobs \X {"execution_identity"})
  BY DEF SomeFaults, Selected
<1>3. /\ pc = "identities" /\ pc' = "jobs" /\ todo' = Selected
      /\ UNCHANGED <<requested, options, executed>>
  BY DEF CheckIdentities
<1>4. Selected' = Selected /\ Selected \subseteq Jobs
  BY <1>3 DEF Selected
<1>5. \A j \in Jobs :
        /\ prerequisites'[j] \in Flags
        /\ \A service \in Services :
             Ready(prerequisites'[j], service) =>
                 Ready(prerequisites[j], service) /\ (wrong = {} \/ j \notin Selected)
  BY <1>1 DEF TypesOK, ClearLocal, Flags, Ready
<1>6. TypesOK'
  <2>1. prerequisites' \in [Jobs -> Flags]
    BY <1>1, <1>5 DEF ClearLocal, TypesOK
  <2>2. QED
    BY <1>1, <1>2, <1>3, <1>4, <2>1 DEF TypesOK, Phases, Checks
<1>7. HasErrors \/ wrong # {} => HasErrors'
  BY <1>1, ErrorFound, ErrorsStay
<1>8. ErrorsReported'
  BY <1>1, <1>3, <1>7 DEF ErrorsReported
<1>9. FlagsOK'
  <2> SUFFICES ASSUME NEW j \in Jobs, NEW service \in Services,
                      Ready(prerequisites'[j], service),
                      NEW check \in Needs[service], <<j, check>> \in broken'
               PROVE  FALSE
    BY DEF FlagsOK
  <2>1. <<j, check>> \in wrong
    BY <1>1, <1>5 DEF FlagsOK
  <2>2. j \in Selected
    BY <2>1 DEF SomeFaults
  <2>3. QED
    BY <1>5, <2>1, <2>2
<1>10. IdentitiesOK'
  <2>1. ASSUME NEW i \in Jobs, <<i, "execution_identity">> \in broken'
        PROVE  \A j \in Selected, service \in Services :
                   ~Ready(prerequisites'[j], service)
    <3>1. wrong # {}
      BY <1>1, <1>3, <2>1 DEF IdentitiesOK
    <3>2. QED
      BY <1>4, <1>5, <3>1
  <2>2. QED
    BY <1>3, <1>4, <2>1 DEF IdentitiesOK
<1>11. FlagsStand'
  BY <1>1 DEF FlagsStand
<1>12. ExecutedOK' /\ Complete'
  BY <1>3, <1>4, <1>7 DEF ExecutedOK, Complete
<1>13. NothingRunsBeforeIdentities' /\ ProbesHaveTheirPrerequisites'
  BY <1>3 DEF ExecutedOK, NothingRunsBeforeIdentities, ProbesHaveTheirPrerequisites
<1>14. QED
  BY <1>6, <1>8, <1>9, <1>10, <1>11, <1>12, <1>13

\* A probe of a service is not the run of a configured program.
LEMMA ProbeIsNoProgram ==
    \A service \in Services :
        Probe(service) \notin {"runtime_executable", "dump_executable"}
BY DEF Probe, Services

\* The environment of one job is checked.
LEMMA JobInvariant ==
    ASSUME IInv, NEW j \in Jobs, CheckJob(j)
    PROVE  IInv'
<1> USE DEF IInv
<1> DEFINE run == IF allExecutionIdentitiesOK
                    THEN {"runtime_executable", "dump_executable"} ELSE {}
<1>1. PICK errors \in SUBSET ({j} \X LocalChecks) :
        /\ broken' = broken \cup errors
        /\ report' = report \cup Find("error", errors)
        /\ executed' = executed \cup ({j} \X run)
        /\ prerequisites' = [prerequisites EXCEPT ![j] =
                               ClearFailed(@, {p[2] : p \in errors})]
  BY DEF CheckJob, Break, SomeFaults
<1> DEFINE failed == {p[2] : p \in errors}
<1>2. /\ pc = "jobs" /\ pc' = "jobs" /\ j \in todo /\ todo' = todo \ {j}
      /\ UNCHANGED <<requested, options>> /\ Selected' = Selected
      /\ todo \subseteq Selected /\ Selected \subseteq Jobs
  BY DEF CheckJob, Selected, TypesOK
<1>3. failed \in SUBSET LocalChecks
  OBVIOUS
<1>4. \A check : <<j, check>> \in errors => check \in failed
  OBVIOUS
<1> HIDE DEF failed
<1>5. /\ prerequisites'[j] \in Flags
      /\ \A service \in Services :
           Ready(prerequisites'[j], service) =>
               Ready(prerequisites[j], service) /\ Needs[service] \cap failed = {}
      /\ failed = {} => prerequisites'[j] = prerequisites[j]
  <2>1. prerequisites[j] \in Flags
    BY DEF TypesOK
  <2>2. prerequisites'[j] = ClearFailed(prerequisites[j], failed)
    BY <1>1 DEF TypesOK, failed
  <2>3. QED
    BY <1>3, <2>1, <2>2, ClearedFlags
<1>6. \A i \in Jobs \ {j} : prerequisites'[i] = prerequisites[i]
  BY <1>1 DEF TypesOK
<1>7. TypesOK'
  <2>1. prerequisites' \in [Jobs -> Flags]
    BY <1>1, <1>5 DEF TypesOK, failed
  <2>2. QED
    BY <1>1, <1>2, <2>1 DEF TypesOK, Checks
<1>8. HasErrors \/ errors # {} => HasErrors'
  <2>1. report \subseteq report' /\ Find("error", errors) \subseteq report'
    BY <1>1
  <2>2. QED
    BY <2>1, ErrorFound, ErrorsStay
<1>9. ErrorsReported'
  BY <1>1, <1>2, <1>8 DEF ErrorsReported
<1>10. FlagsOK'
  <2> SUFFICES ASSUME NEW i \in Jobs, NEW service \in Services,
                      Ready(prerequisites'[i], service),
                      NEW check \in Needs[service], <<i, check>> \in broken'
               PROVE  FALSE
    BY DEF FlagsOK
  <2>1. <<i, check>> \notin broken
    BY <1>5, <1>6 DEF FlagsOK
  <2>2. i = j /\ check \in failed
    BY <1>1, <1>4, <2>1
  <2>3. QED
    BY <1>5, <2>2
<1>11. \A i \in Jobs : <<i, "execution_identity">> \in broken' =>
          <<i, "execution_identity">> \in broken
  BY <1>1 DEF LocalChecks
<1>12. IdentitiesOK'
  BY <1>2, <1>5, <1>6, <1>11 DEF IdentitiesOK
<1>13. FlagsStand'
  <2> SUFFICES ASSUME broken' = {}
               PROVE  \A i \in Jobs, service \in Services :
                          Ready(prerequisites'[i], service)
    BY DEF FlagsStand
  <2>1. broken = {} /\ errors = {}
    BY <1>1
  <2>2. failed = {}
    BY <2>1 DEF failed
  <2>3. QED
    BY <1>5, <1>6, <2>1, <2>2 DEF FlagsStand
<1>14. \A i \in Jobs, service \in Services :
          <<i, Probe(service)>> \notin executed'
  BY <1>1, <1>2, ProbeIsNoProgram DEF ExecutedOK
<1>15. ExecutedOK' /\ ProbesHaveTheirPrerequisites'
  BY <1>2, <1>14 DEF ExecutedOK, ProbesHaveTheirPrerequisites
<1>16. Complete'
  <2>1. ASSUME ~HasErrors', NEW i \in Selected, i \notin todo'
        PROVE  {<<i, "runtime_executable">>, <<i, "dump_executable">>}
                   \subseteq executed'
    <3>1. CASE i = j
      <4>1. broken = {}
        BY <1>8, <2>1 DEF ErrorsReported
      <4>2. run = {"runtime_executable", "dump_executable"}
        BY <4>1 DEF allExecutionIdentitiesOK
      <4>3. QED
        BY <1>1, <3>1, <4>2
    <3>2. CASE i # j
      BY <1>1, <1>2, <1>8, <2>1, <3>2 DEF Complete
    <3>3. QED
      BY <3>1, <3>2
  <2>2. QED
    BY <1>2, <2>1 DEF Complete
<1>17. NothingRunsBeforeIdentities'
  BY <1>1, <1>2, <1>11
     DEF NothingRunsBeforeIdentities, allExecutionIdentitiesOK
<1>18. QED
  BY <1>7, <1>9, <1>10, <1>12, <1>13, <1>15, <1>16, <1>17

\* The log directory is checked.
LEMMA LoggingInvariant ==
    ASSUME IInv, CheckLogging
    PROVE  IInv'
<1> USE DEF IInv
<1>1. /\ pc = "jobs" /\ todo = {} /\ pc' \in {"connect", "done"}
      /\ pc' = "done" => todo' = {} /\ ~options.connectivity
      /\ pc' = "connect" => todo' = Selected
      /\ report \subseteq report'
      /\ UNCHANGED <<requested, options, prerequisites, executed, broken>>
      /\ Selected' = Selected
  BY DEF CheckLogging, Selected, TypesOK
<1>2. TypesOK'
  BY <1>1 DEF TypesOK, Phases
<1>3. HasErrors => HasErrors'
  BY <1>1, ErrorsStay
<1>4. ErrorsReported' /\ FlagsOK' /\ IdentitiesOK' /\ FlagsStand' /\ ExecutedOK'
  BY <1>1, <1>3
     DEF ErrorsReported, FlagsOK, IdentitiesOK, FlagsStand, ExecutedOK
<1>5. Complete'
  BY <1>1, <1>3 DEF Complete
<1>6. NothingRunsBeforeIdentities' /\ ProbesHaveTheirPrerequisites'
  BY <1>1 DEF NothingRunsBeforeIdentities, ProbesHaveTheirPrerequisites
<1>7. QED
  BY <1>2, <1>4, <1>5, <1>6

\* The report is returned.
LEMMA ReturnInvariant ==
    ASSUME IInv, ReturnReport
    PROVE  IInv'
<1> USE DEF IInv
<1>1. /\ pc = "connect" /\ todo = {} /\ pc' = "done"
      /\ UNCHANGED <<requested, options, todo, prerequisites, report, executed,
                     broken>>
      /\ Selected' = Selected /\ (HasErrors' <=> HasErrors)
  BY DEF ReturnReport, Selected, HasErrors
<1>2. TypesOK' /\ ErrorsReported' /\ FlagsOK' /\ IdentitiesOK' /\ FlagsStand'
        /\ ExecutedOK' /\ Complete'
  BY <1>1 DEF TypesOK, Phases, ErrorsReported, FlagsOK, IdentitiesOK, FlagsStand,
              ExecutedOK, Complete
<1>3. NothingRunsBeforeIdentities' /\ ProbesHaveTheirPrerequisites'
  BY <1>1 DEF NothingRunsBeforeIdentities, ProbesHaveTheirPrerequisites
<1>4. QED
  BY <1>2, <1>3

\* A probe that ran had its flags; one that did not leaves an error, or a
\* warning for a flag that had fallen.
LEMMA ProbeOutcome ==
    ASSUME NEW j, NEW service, NEW outcome \in ProbeOutcomes(j, service)
    PROVE  /\ outcome.ran \in SUBSET {<<j, Probe(service)>>}
           /\ outcome.ran # {} => Ready(prerequisites[j], service)
           /\ \/ outcome.ran = {<<j, Probe(service)>>}
              \/ ~Ready(prerequisites[j], service)
              \/ <<"error", j, Probe(service)>> \in outcome.found
BY DEF ProbeOutcomes

\* The services of one job are probed.
LEMMA ConnectivityInvariant ==
    ASSUME IInv, NEW j \in Jobs, CheckConnectivity(j)
    PROVE  IInv'
<1> USE DEF IInv
<1>1. PICK m \in ProbeOutcomes(j, "mysql"), s \in ProbeOutcomes(j, "s3") :
        /\ report' = report \cup m.found \cup s.found
        /\ executed' = executed \cup m.ran \cup s.ran
  BY DEF CheckConnectivity
<1>2. /\ pc = "connect" /\ pc' = "connect" /\ j \in todo /\ todo' = todo \ {j}
      /\ UNCHANGED <<requested, options, prerequisites, broken>>
      /\ Selected' = Selected /\ todo \subseteq Selected /\ Selected \subseteq Jobs
  BY DEF CheckConnectivity, Selected, TypesOK
<1>3. \A e \in executed' \ executed :
        \E service \in Services :
            e = <<j, Probe(service)>> /\ Ready(prerequisites[j], service)
  BY <1>1, ProbeOutcome DEF Services
<1>4. HasErrors => HasErrors'
  BY <1>1, ErrorsStay
<1>5. TypesOK' /\ ErrorsReported' /\ FlagsOK' /\ IdentitiesOK' /\ FlagsStand'
  BY <1>2, <1>4 DEF TypesOK, ErrorsReported, FlagsOK, IdentitiesOK, FlagsStand
<1>6. ExecutedOK'
  BY <1>2 DEF ExecutedOK
<1>7. Complete'
  <2>1. ASSUME ~HasErrors'
        PROVE  \A service \in Services : <<j, Probe(service)>> \in executed'
    <3>1. broken = {}
      BY <1>4, <2>1 DEF ErrorsReported
    <3>2. Ready(prerequisites[j], "mysql") /\ Ready(prerequisites[j], "s3")
      BY <3>1 DEF FlagsStand, Services
    <3>3. /\ <<"error", j, Probe("mysql")>> \notin m.found
          /\ <<"error", j, Probe("s3")>> \notin s.found
      BY <1>1, <2>1 DEF HasErrors
    <3>4. QED
      BY <1>1, <3>2, <3>3, ProbeOutcome DEF Services
  <2>2. executed \subseteq executed'
    BY <1>1
  <2>3. QED
    BY <1>2, <1>4, <2>1, <2>2 DEF Complete
<1>8. NothingRunsBeforeIdentities'
  <2>1. ASSUME NEW i \in Jobs, <<i, "execution_identity">> \in broken,
               options.connectivity \/ options.execution
        PROVE  executed' = {}
    <3>1. executed = {}
      BY <2>1 DEF NothingRunsBeforeIdentities
    <3>2. \A service \in Services : ~Ready(prerequisites[j], service)
      BY <1>2, <2>1 DEF IdentitiesOK
    <3>3. QED
      BY <1>3, <3>1, <3>2
  <2>2. QED
    BY <1>2, <2>1 DEF NothingRunsBeforeIdentities
<1>9. ProbesHaveTheirPrerequisites'
  <2> SUFFICES ASSUME NEW i \in Jobs, NEW service \in Services,
                      <<i, Probe(service)>> \in executed'
               PROVE  \A check \in Needs[service] : <<i, check>> \notin broken
    BY <1>2 DEF ProbesHaveTheirPrerequisites
  <2>1. CASE <<i, Probe(service)>> \in executed
    BY <2>1 DEF ProbesHaveTheirPrerequisites
  <2>2. CASE <<i, Probe(service)>> \notin executed
    <3>1. PICK other \in Services :
            /\ <<i, Probe(service)>> = <<j, Probe(other)>>
            /\ Ready(prerequisites[j], other)
      BY <1>3, <2>2
    <3>2. i = j /\ service = other
      BY <3>1 DEF Probe, Services
    <3>3. QED
      BY <3>1, <3>2 DEF FlagsOK
  <2>3. QED
    BY <2>1, <2>2
<1>10. QED
  BY <1>5, <1>6, <1>7, <1>8, <1>9

\* Nothing happens.
LEMMA StutterInvariant ==
    ASSUME IInv, UNCHANGED vars
    PROVE  IInv'
<1>1. Selected' = Selected /\ (HasErrors' <=> HasErrors)
  BY DEF vars, Selected, HasErrors
<1>2. QED
  BY <1>1 DEF vars, IInv, TypesOK, ErrorsReported, FlagsOK, IdentitiesOK, FlagsStand,
              ExecutedOK, Complete, NothingRunsBeforeIdentities,
              ProbesHaveTheirPrerequisites

-----------------------------------------------------------------------------
(* The theorems *)

\* The invariant holds in every state of Validator.Check.
THEOREM Invariant == Spec => []IInv
<1>1. IInv /\ [Next]_vars => IInv'
  BY SelectInvariant, ConfigInvariant, CronPathsInvariant, IdentitiesInvariant,
     JobInvariant, LoggingInvariant, ConnectivityInvariant, ReturnInvariant,
     StutterInvariant DEF Next
<1>2. QED
  BY InitInvariant, <1>1, PTL DEF Spec

\* No configured program and no remote client of any job is started before
\* every selected job's identity matched.
THEOREM IdentitiesFirst == Spec => []NothingRunsBeforeIdentities
BY Invariant, PTL DEF IInv

\* No probe uses what another check of the same job found to be wrong.
THEOREM PrerequisitesHold == Spec => []ProbesHaveTheirPrerequisites
BY Invariant, PTL DEF IInv

\* A report without errors means that every check of every selected job ran
\* and found nothing.
THEOREM CleanIsComplete == Spec => []CleanReportIsComplete
<1>1. IInv => CleanReportIsComplete
  <2> SUFFICES ASSUME IInv, pc = "done", ~HasErrors
               PROVE  CleanReportIsComplete
    BY DEF CleanReportIsComplete
  <2>1. broken = {} /\ requested \subseteq Jobs
    BY DEF IInv, ErrorsReported
  <2>2. todo = {}
    BY DEF IInv, Complete
  <2>3. \A j \in Selected :
          {<<j, "runtime_executable">>, <<j, "dump_executable">>} \subseteq executed
    BY DEF IInv, Complete
  <2>4. options.connectivity =>
          \A j \in Selected, service \in Services :
              <<j, Probe(service)>> \in executed
    BY <2>2 DEF IInv, Complete
  <2>5. QED
    BY <2>1, <2>3, <2>4 DEF CleanReportIsComplete
<1>2. QED
  BY Invariant, <1>1, PTL
==============================================================================
