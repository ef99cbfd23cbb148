----------------------------- MODULE PathAccess -----------------------------
(***************************************************************************)
(* Who can use a configured path: the log directory, the staging directory *)
(* of a job, or a file with one of its secrets.  The validation checks the *)
(* target, or the parent a directory would be created in; then processes   *)
(* with the credentials of the run_as accounts go to it, each walking the  *)
(* path and judging the target by rules of its own, and leave directories  *)
(* and log files that the others find.                                     *)
(***************************************************************************)
EXTENDS Naturals, FiniteSets

CONSTANTS
    Uids,     \* user IDs; 0 is root
    Gids,     \* group IDs
    Missing,  \* in place of a directory: there is none
    Triads    \* permission triples that a class of a directory mode may have

ASSUME UidsAssumption == 0 \in Uids

\* An account: all groups of its login session, with the primary one.
Account == {a \in [uid : Uids, gid : Gids, groups : SUBSET Gids] :
                a.gid \in a.groups}

\* Bound: at most two accounts, which may share a user ID.
Selections == {{a, b} : a, b \in Account}

Directory == [uid : Uids, gid : Gids, u : Triads, g : Triads, o : Triads,
              setgid : BOOLEAN, sticky : BOOLEAN]

VARIABLES
    use,       \* what the path is configured for: "log", "staging", "secret"
    accounts,  \* run_as accounts of the selected jobs
    parent,    \* the nearest directory above, which exists
    links,     \* owners of the symbolic links in the path
    target,    \* the directory or secret file, or Missing
    found,     \* what the validation that accepted it for an account found
    process,   \* credentials of the logging process of each account
    absent,    \* accounts whose process found no staging directory
    files,     \* owner, group and mode of the log files in it
    refused,   \* history: accounts whose process could not use the target
    torn       \* history: a process was killed before it set the mode of a file

vars == <<use, accounts, parent, links, target, found, process, absent, files,
          refused, torn>>
setting == <<use, accounts, parent, links>>

Accepted(a) == found[a] # "unchecked"

Triad(a, object) ==
    CASE a.uid = object.uid -> object.u
      [] a.uid # object.uid /\ object.gid \in a.groups -> object.g
      [] OTHER -> object.o

\* What the kernel, and allowsStat, grant an account on a directory or on a
\* file of which everybody has only reading and writing.
Allows(a, object, permissions) ==
    a.uid = 0 \/ permissions \subseteq Triad(a, object)

-----------------------------------------------------------------------------
(* The validation *)

MultipleUIDs == \E a, b \in accounts : a.uid # b.uid

OthersWrite(d) == "w" \in d.g \cup d.o

\* A directory where nobody unrelated can replace an entry.
SafeFor(a, d) == d.uid \in {0, a.uid} /\ (OthersWrite(d) => d.sticky)

\* The directory itself, or the one it would be created in, can be written.
CheckWritableTarget(a) ==
    IF target = Missing THEN Allows(a, parent, {"w", "x"})
    ELSE /\ Allows(a, target, {"w", "x"})
         /\ SafeFor(a, parent) /\ Allows(a, parent, {"x"})

checkMissingLogParent(a) == SafeFor(a, parent)

\* Only the first account is looked at.
MissingTargetOK ==
    /\ ~MultipleUIDs
    /\ \E a \in accounts : CheckWritableTarget(a) /\ checkMissingLogParent(a)

MembersOfGroup == \A a \in accounts : a.uid = 0 \/ target.gid \in a.groups

SharedMode == target.setgid /\ target.g = {"r", "w", "x"}

\* Mutant: a shared directory need not be setgid.
TargetDirectoryWithoutSetgid ==
    /\ "w" \notin target.o
    /\ target.sticky => ~MultipleUIDs /\ "w" \notin target.g
    /\ target.uid \in {0} \cup {a.uid : a \in accounts}
    /\ IF MultipleUIDs
         THEN target.uid = 0 /\ target.g = {"r", "w", "x"} /\ MembersOfGroup
         ELSE /\ \A a \in accounts : Allows(a, target, {"r", "w", "x"})
              /\ "w" \in target.g => target.g = {"r", "w", "x"}
              /\ target.g # {} => MembersOfGroup

validateLogTargetDirectory ==
    /\ "w" \notin target.o
    /\ target.sticky => ~MultipleUIDs /\ "w" \notin target.g
    /\ target.uid \in {0} \cup {a.uid : a \in accounts}
    /\ IF MultipleUIDs
         THEN target.uid = 0 /\ SharedMode /\ MembersOfGroup
         ELSE /\ \A a \in accounts : Allows(a, target, {"r", "w", "x"})
              /\ "w" \in target.g => SharedMode
              /\ target.g # {} => MembersOfGroup

CheckLoggingTarget ==
    IF target = Missing THEN MissingTargetOK
    ELSE /\ \A a \in accounts : SafeFor(a, parent) /\ Allows(a, parent, {"x"})
         /\ validateLogTargetDirectory

rejectSymlinkComponents == links = {}

\* Every directory down to the target has an owner and a mode that protect it.
CheckStagingTarget(a) ==
    /\ rejectSymlinkComponents
    /\ CheckWritableTarget(a)
    /\ SafeFor(a, parent) /\ (target # Missing => SafeFor(a, target))

\* Mutant: another user may own the file.
SensitiveFileOfAnyone(a) ==
    /\ target.o = {} /\ "w" \notin target.g /\ Allows(a, target, {"r"})
    /\ Allows(a, parent, {"x"}) /\ SafeFor(a, parent)

\* Bound: a file with one hard link, no larger than what the resolver reads.
checkSensitiveFile(a) ==
    /\ target.o = {} /\ "w" \notin target.g /\ Allows(a, target, {"r"})
    /\ Allows(a, parent, {"x"}) /\ SafeFor(a, parent)
    /\ target.uid \in {0, a.uid}

Seen == IF target = Missing THEN "missing" ELSE "existing"

\* The log directory is checked for all accounts together.
AcceptLog ==
    /\ use = "log" /\ \A a \in accounts : found[a] = "unchecked"
    /\ CheckLoggingTarget
    /\ found' = [a \in accounts |-> Seen]
    /\ UNCHANGED <<setting, target, process, absent, files, refused, torn>>

\* The others are checked job by job, before each process's work.
AcceptForJob(a) ==
    /\ found[a] = "unchecked"
    /\ \/ use = "staging" /\ CheckStagingTarget(a)
       \/ use = "secret" /\ checkSensitiveFile(a)
    /\ found' = [found EXCEPT ![a] = Seen]
    /\ UNCHANGED <<setting, target, process, absent, files, refused, torn>>

-----------------------------------------------------------------------------
(* The logger of one process; p are its credentials, in the form of an account *)

\* Of a process of root only the user ID is looked at.  Bound: its real, saved
\* and file system IDs are the effective ones, and it has no capabilities.
CheckRunIdentity(a, p) ==
    /\ p.uid = a.uid
    /\ a.uid = 0 \/ (p.gid = a.gid /\ p.groups = a.groups)

\* A backup goes on only with the credentials of its job's account.
StartProcess(a) ==
    /\ use = "log" /\ Accepted(a) /\ a \notin DOMAIN process
    /\ \E p \in Account :
        /\ CheckRunIdentity(a, p)
        /\ process' = [b \in DOMAIN process \cup {a} |->
                          IF b = a THEN p ELSE process[b]]
    /\ UNCHANGED <<setting, target, found, absent, files, refused, torn>>

InGroup(a, gid) == gid \in a.groups

IsShared(d) == "w" \in d.g

validateLogDirectory(p, d) ==
    /\ d.uid \in {0, p.uid} /\ "w" \notin d.o
    /\ IF IsShared(d)
         THEN /\ ~d.sticky /\ d.setgid /\ {"r", "x"} \subseteq d.g
              /\ p.uid = 0 \/ InGroup(p, d.gid)
         ELSE /\ d.uid = p.uid /\ p.uid # 0 => {"w", "x"} \subseteq d.u
              /\ d.g # {} => InGroup(p, d.gid)

\* A file that a process creates, with its mode set exactly after that.
Created(p, d) ==
    [uid |-> p.uid, gid |-> IF d.setgid THEN d.gid ELSE p.gid,
     mode |-> IF IsShared(d) THEN "0660" ELSE "0640"]

\* A shared file may belong to any member of the directory's group.
sharedLogOwnerAllowed(p, uid, gid) ==
    uid \in {0, p.uid} \/ \E b \in accounts : b.uid = uid /\ InGroup(b, gid)

validateFile(p, d, file) ==
    IF IsShared(d)
      THEN file.mode = "0660" /\ file.gid = d.gid
             /\ sharedLogOwnerAllowed(p, file.uid, d.gid)
      ELSE file.mode = "0640" /\ file.uid = p.uid /\ InGroup(p, file.gid)

\* createMissingLogDirectory: the new directory inherits its group, but its
\* mode is then set exactly.
NewDirectory(p) ==
    [uid |-> p.uid, gid |-> IF parent.setgid THEN parent.gid ELSE p.gid,
     u |-> {"r", "w", "x"}, g |-> {"r", "x"}, o |-> {},
     setgid |-> FALSE, sticky |-> FALSE]

\* Every component is opened for reading, which also needs search above it.
CanWalk(a) == SafeFor(a, parent) /\ Allows(a, parent, {"r", "x"})

validateLogSymlinkOwners(a) == links \subseteq {0, a.uid}

CanEnter(a, d) ==
    /\ CanWalk(a) /\ validateLogSymlinkOwners(a)
    /\ validateLogDirectory(a, d) /\ Allows(a, d, {"r", "w", "x"})

Refuse(a) == refused' = refused \cup {a}

\* The umask narrows the mode of a file that is created.
Narrowed(file) == [file EXCEPT !.mode = "narrowed"]

\* fchmod is skipped by a kill only: the process then neither works nor
\* refuses.
Modes(file, killed) == IF killed THEN {file, Narrowed(file)} ELSE {file}

\* createMissingLogDirectory: where none is, one is made, on a path without
\* any link.
MakeLog(a) ==
    /\ target = Missing
    /\ LET p == process[a]
       IN  IF CanWalk(p) /\ links = {} /\ Allows(p, parent, {"w", "x"})
             THEN target' = NewDirectory(p) /\ UNCHANGED refused
             ELSE Refuse(a) /\ UNCHANGED target
    /\ UNCHANGED <<setting, found, process, absent, files, torn>>

EntersLog(p) ==
    CanEnter(p, target) /\ \A f \in files : validateFile(p, target, f)

\* An open, write or rotation that creates no file.
UseLog(a) ==
    /\ target # Missing
    /\ files # {} \/ ~EntersLog(process[a])
    /\ IF EntersLog(process[a]) THEN UNCHANGED refused ELSE Refuse(a)
    /\ UNCHANGED <<setting, target, found, process, absent, files, torn>>

\* One that creates the active log, or a file for the next generation.  A
\* created file stays although its own check then fails.
CreateLogFile(a) ==
    /\ target # Missing /\ EntersLog(process[a])
    /\ \E killed \in BOOLEAN : \E f \in Modes(Created(process[a], target), killed) :
        /\ files' = files \cup {f} /\ torn' = (torn \/ killed)
        /\ IF killed \/ validateFile(process[a], target, f)
             THEN UNCHANGED refused ELSE Refuse(a)
    /\ UNCHANGED <<setting, target, found, process, absent>>

-----------------------------------------------------------------------------
(* The workspace of one process *)

\* openOrCreateSecureDirectory, the open of the last component.  Bound: nobody
\* puts a link into the path after the validation.
LookForStaging(a) ==
    /\ use = "staging" /\ Accepted(a) /\ target = Missing
    /\ IF CanWalk(a) THEN absent' = absent \cup {a} /\ UNCHANGED refused
                     ELSE Refuse(a) /\ UNCHANGED absent
    /\ UNCHANGED <<setting, target, found, process, files, torn>>

\* Mutant: a directory that another process made meanwhile is an error.
MakeStagingExclusively(a) ==
    /\ a \in absent
    /\ absent' = absent \ {a}
    /\ IF target = Missing /\ Allows(a, parent, {"w", "x"})
         THEN target' = [NewDirectory(a) EXCEPT !.g = {}] /\ UNCHANGED refused
         ELSE Refuse(a) /\ UNCHANGED target
    /\ UNCHANGED <<setting, found, process, files, torn>>

\* Mkdirat, which another process may have done meanwhile.
MakeStaging(a) ==
    /\ a \in absent
    /\ absent' = absent \ {a}
    /\ IF target # Missing THEN UNCHANGED <<target, refused>>
       ELSE IF Allows(a, parent, {"w", "x"})
         THEN target' = [NewDirectory(a) EXCEPT !.g = {}] /\ UNCHANGED refused
         ELSE Refuse(a) /\ UNCHANGED target
    /\ UNCHANGED <<setting, found, process, files, torn>>

\* validateRuntimeParent on the directory that was opened, and mkdirRandomAt
\* in it.
EnterStaging(a) ==
    /\ use = "staging" /\ Accepted(a) /\ target # Missing
    /\ a \notin absent
    /\ IF CanWalk(a) /\ SafeFor(a, target) /\ Allows(a, target, {"r", "w", "x"})
         THEN UNCHANGED refused ELSE Refuse(a)
    /\ UNCHANGED <<setting, target, found, process, absent, files, torn>>

-----------------------------------------------------------------------------
(* The resolver of one process *)

validateAncestor(a) == SafeFor(a, parent) /\ Allows(a, parent, {"x"})

validateTarget(a) ==
    /\ target.uid \in {0, a.uid}
    /\ "w" \notin target.g \cup target.o /\ target.o = {}
    /\ Allows(a, target, {"r"})

validateLexicalPath(a) == links \subseteq {0, a.uid} /\ validateAncestor(a)

openCanonical(a) == validateAncestor(a) /\ validateTarget(a)

\* resolveSecret opens the file anew, by OpenRegular.
OpenSecret(a) ==
    /\ use = "secret" /\ Accepted(a)
    /\ IF validateLexicalPath(a) /\ openCanonical(a)
         THEN UNCHANGED refused ELSE Refuse(a)
    /\ UNCHANGED <<setting, target, found, process, absent, files, torn>>

-----------------------------------------------------------------------------

\* Directories of root above: one that everybody may read, and one that others
\* may only pass.
RootParent(read) ==
    [uid |-> 0, gid |-> 0, u |-> {"r", "w", "x"}, g |-> read \cup {"x"},
     o |-> read \cup {"x"}, setgid |-> FALSE, sticky |-> FALSE]

\* Directories of anybody above a secret.
SecretParent ==
    {[RootParent({}) EXCEPT !.uid = uid, !.g = t, !.o = t, !.sticky = s] :
        uid \in Uids, t \in Triads, s \in BOOLEAN}

Links == {{}} \cup {{uid} : uid \in Uids}

\* Bounds: a link is above a log directory of a readable parent, or above a
\* secret; the parent of a missing directory is arbitrary, and a secret has one
\* account.
Init ==
    /\ \/ /\ use \in {"log", "staging"} /\ links = {}
          /\ \/ /\ target \in Directory
                /\ parent \in {RootParent({"r"}), RootParent({})}
             \/ target = Missing /\ parent \in Directory
       \/ /\ use = "log" /\ links \in Links \ {{}}
          /\ parent = RootParent({"r"}) /\ target \in Directory \cup {Missing}
       \/ /\ use = "secret" /\ links \in Links
          /\ parent \in SecretParent
          /\ target \in {f \in Directory : ~f.setgid /\ ~f.sticky}
    /\ accounts \in {s \in Selections : use = "secret" => Cardinality(s) = 1}
    /\ found = [a \in accounts |-> "unchecked"]
    /\ process = [a \in {} |-> a]
    /\ absent = {} /\ files = {} /\ refused = {} /\ torn = FALSE

Next ==
    \/ AcceptLog
    \/ \E a \in accounts :
        \/ AcceptForJob(a) \/ StartProcess(a)
        \/ LookForStaging(a) \/ MakeStaging(a) \/ EnterStaging(a)
        \/ OpenSecret(a)
    \/ \E a \in DOMAIN process : MakeLog(a) \/ UseLog(a) \/ CreateLogFile(a)

Spec == Init /\ [][Next]_vars

-----------------------------------------------------------------------------
(* Properties *)

\* A log directory that the validation accepted for accounts of different users
\* works for each of them, in whatever order they create, rotate and read the
\* files: neither the directory nor a file of another user is ever refused.
\* For one user it works too, provided that every group that the directory and
\* its files can have is a group of each process, and that the user has one
\* account name where the directory is missing (only the first name is checked
\* against the parent).  In both cases the accounts can read the parent, every
\* link is root's or the account's and none leads to a missing directory, and
\* no process was killed between the creation of a file and its fchmod.
AccountsInterwork ==
    /\ use = "log"
    /\ \A a \in accounts : Accepted(a) /\ Allows(a, parent, {"r"})
    /\ \A a \in accounts :
        IF found[a] = "missing" THEN links = {} ELSE links \subseteq {0, a.uid}
    /\ ~torn
    /\ MultipleUIDs \/
        /\ \/ Cardinality(accounts) = 1
           \/ \A a \in accounts : found[a] = "existing"
        /\ \A a, b \in DOMAIN process :
            {process[b].gid} \cup {d.gid : d \in {target} \ {Missing}}
                \subseteq process[a].groups
    => refused = {}

\* A staging directory that the validation accepted works for the account, also
\* when several processes create it at once, provided that the account can read
\* what is on its path and that, where the directory was missing, nobody of
\* another user creates it first.
StagingServes ==
    \A a \in accounts :
        /\ use = "staging" /\ Accepted(a) /\ Allows(a, parent, {"r"})
        /\ found[a] = "existing" => Allows(a, target, {"r"})
        /\ found[a] = "missing" => ~MultipleUIDs
        => a \notin refused

\* A secret file that the validation accepted is opened by the process, which
\* has another set of rules for it, if every link is root's or the account's.
SecretServes ==
    \A a \in accounts :
        use = "secret" /\ Accepted(a) /\ links \subseteq {0, a.uid}
        => a \notin refused

\* The design's "compatible with all selected run_as identities": what the
\* validation accepted, no selected account's process refuses to use, even
\* where every account can read the parent, the path has no link, each process
\* has the login groups of its account and none was killed.
ValidatedMeansCompatible ==
    /\ use = "log"
    /\ \A a \in accounts : Accepted(a) /\ Allows(a, parent, {"r"})
    /\ links = {}
    /\ \A a \in DOMAIN process : process[a] = a
    /\ ~torn
    => refused = {}
=============================================================================
