-------------------------- MODULE PathAccessProofs --------------------------
(***************************************************************************)
(* What the validation accepts, the processes of the accounts can use: the *)
(* properties of PathAccess for any users, groups and permissions.         *)
(***************************************************************************)
EXTENDS PathAccess, FiniteSetTheorems, TLAPS

\* Who can have done what.
ActorsOK ==
    /\ accounts \in Selections
    /\ DOMAIN found = accounts
    /\ DOMAIN process \subseteq accounts
    /\ absent \subseteq accounts
    /\ \A a \in accounts : found[a] \in {"unchecked", "missing", "existing"}
    /\ \A a \in DOMAIN process : Accepted(a) /\ CheckRunIdentity(a, process[a])
    /\ \A a \in absent : Accepted(a)
    /\ \A a \in refused : a \in accounts /\ Accepted(a)
    /\ DOMAIN process # {} \/ files # {} => use = "log"
    /\ absent # {} => use = "staging"

\* What was accepted for all, and what has become of it.
LogOK ==
    use = "log" /\ (\E a \in accounts : Accepted(a)) =>
        \/ /\ \A a \in accounts : found[a] = "existing"
           /\ target # Missing /\ CheckLoggingTarget
        \/ /\ \A a \in accounts : found[a] = "missing"
           /\ ~MultipleUIDs
           /\ \E a \in accounts : Allows(a, parent, {"w", "x"}) /\ SafeFor(a, parent)
           /\ \/ target = Missing
              \/ \E b \in DOMAIN process : target = NewDirectory(process[b])

\* Every log file is as its creator made it.
FilesOK ==
    ~torn => \A f \in files :
        target # Missing /\ \E b \in DOMAIN process : f = Created(process[b], target)

StagingOK ==
    use = "staging" =>
        \A a \in accounts : Accepted(a) =>
            /\ SafeFor(a, parent) /\ Allows(a, parent, {"x"})
            /\ found[a] = "existing" =>
                /\ target # Missing
                /\ SafeFor(a, target) /\ Allows(a, target, {"w", "x"})
            /\ found[a] = "missing" =>
                /\ Allows(a, parent, {"w", "x"})
                /\ \/ target = Missing
                   \/ \E b \in accounts : target = [NewDirectory(b) EXCEPT !.g = {}]

SecretOK ==
    use = "secret" => \A a \in accounts : Accepted(a) => checkSensitiveFile(a)

IInv == ActorsOK /\ LogOK /\ FilesOK /\ StagingOK /\ SecretOK
          /\ AccountsInterwork /\ StagingServes /\ SecretServes

-----------------------------------------------------------------------------
(* Secrets *)

\* The rules of the validation for a secret file imply those of the resolver.
LEMMA SecretIsOpened ==
    ASSUME NEW a \in accounts, checkSensitiveFile(a), links \subseteq {0, a.uid}
    PROVE  validateLexicalPath(a) /\ openCanonical(a)
BY DEF checkSensitiveFile, validateLexicalPath, openCanonical, validateAncestor,
       validateTarget

-----------------------------------------------------------------------------
(* Permissions *)

\* Permissions are granted one by one.
LEMMA AllowsEach ==
    ASSUME NEW a, NEW object, NEW P, NEW Q
    PROVE  Allows(a, object, P \cup Q) <=> Allows(a, object, P) /\ Allows(a, object, Q)
BY DEF Allows

\* Permissions that are checked together are those that are checked one by one.
LEMMA AllowsWhole ==
    ASSUME NEW a, NEW object
    PROVE  /\ Allows(a, object, {"w", "x"}) => Allows(a, object, {"x"})
           /\ Allows(a, object, {"r"}) /\ Allows(a, object, {"x"}) =>
                Allows(a, object, {"r", "x"})
           /\ Allows(a, object, {"r"}) /\ Allows(a, object, {"w", "x"}) =>
                Allows(a, object, {"r", "w", "x"})
BY DEF Allows

\* A process with the identity of an account can do what the account can.
LEMMA SameCredentials ==
    ASSUME NEW a, NEW p, CheckRunIdentity(a, p), NEW object, NEW P
    PROVE  /\ Allows(p, object, P) <=> Allows(a, object, P)
           /\ SafeFor(p, object) <=> SafeFor(a, object)
BY DEF CheckRunIdentity, Allows, Triad, SafeFor

-----------------------------------------------------------------------------
(* The staging directory *)

\* Where the directory can be read, what StagingOK says is all that the
\* process asks of it.
LEMMA StagingIsEntered ==
    ASSUME use = "staging", StagingOK, NEW a \in accounts, Accepted(a),
           ActorsOK, Allows(a, parent, {"r"}), target # Missing,
           found[a] = "existing" => Allows(a, target, {"r"}),
           found[a] = "missing" => ~MultipleUIDs
    PROVE  CanWalk(a) /\ SafeFor(a, target) /\ Allows(a, target, {"r", "w", "x"})
<1>1. CanWalk(a)
  BY AllowsWhole DEF StagingOK, CanWalk
<1>2. CASE found[a] = "existing"
  BY <1>1, <1>2, AllowsWhole DEF StagingOK
<1>3. CASE found[a] = "missing"
  <2>1. PICK b \in accounts : target = [NewDirectory(b) EXCEPT !.g = {}]
    BY <1>3 DEF StagingOK
  <2>2. target.uid = a.uid /\ target.u = {"r", "w", "x"} /\ target.g = {} /\ target.o = {}
    BY <1>3, <2>1 DEF NewDirectory, MultipleUIDs
  <2>3. QED
    BY <1>1, <2>2 DEF SafeFor, OthersWrite, Allows, Triad
<1>4. QED
  BY <1>2, <1>3 DEF ActorsOK, Accepted

-----------------------------------------------------------------------------
(* The log directory *)

\* The premise of AccountsInterwork.
Cooperating ==
    /\ use = "log"
    /\ \A a \in accounts : Accepted(a) /\ Allows(a, parent, {"r"})
    /\ \A a \in accounts :
        IF found[a] = "missing" THEN links = {} ELSE links \subseteq {0, a.uid}
    /\ ~torn
    /\ MultipleUIDs \/
        /\ \/ Cardinality(accounts) = 1
           \/ \A a \in accounts : found[a] = "existing"
        /\ \A a, b \in DOMAIN process :
            {process[b].gid} \cup {d.gid : d \in {target} \ {Missing}}
                \subseteq process[a].groups

\* The premises of AccountsInterwork have one name.
LEMMA Interworking == AccountsInterwork <=> (Cooperating => refused = {})
BY DEF AccountsInterwork, Cooperating

\* A directory that the validation found for several users is entered by each,
\* and each accepts the others' files.
LEMMA SharedDirectoryServes ==
    ASSUME NEW a, NEW p, NEW b, NEW q, MultipleUIDs, validateLogTargetDirectory,
           a \in accounts, CheckRunIdentity(a, p),
           b \in accounts, CheckRunIdentity(b, q)
    PROVE  /\ validateLogDirectory(p, target)
           /\ Allows(p, target, {"r", "w", "x"})
           /\ validateFile(p, target, Created(q, target))
<1>1. /\ target.uid = 0 /\ target.setgid /\ target.g = {"r", "w", "x"}
      /\ ~target.sticky /\ "w" \notin target.o /\ IsShared(target)
  BY DEF validateLogTargetDirectory, SharedMode, IsShared
<1>2. \A c \in accounts : c.uid = 0 \/ target.gid \in c.groups
  BY DEF validateLogTargetDirectory, MembersOfGroup
<1>3. p.uid = a.uid /\ q.uid = b.uid /\ (p.uid = 0 \/ InGroup(p, target.gid))
  BY <1>2 DEF CheckRunIdentity, InGroup
<1>4. validateLogDirectory(p, target)
  BY <1>1, <1>3 DEF validateLogDirectory
<1>5. Allows(p, target, {"r", "w", "x"})
  BY <1>1, <1>3 DEF Allows, Triad, InGroup
<1>6. validateFile(p, target, Created(q, target))
  <2>1. Created(q, target) = [uid |-> b.uid, gid |-> target.gid, mode |-> "0660"]
    BY <1>1, <1>3 DEF Created
  <2>2. sharedLogOwnerAllowed(p, b.uid, target.gid)
    BY <1>2 DEF sharedLogOwnerAllowed, InGroup
  <2>3. QED
    BY <1>1, <2>1, <2>2 DEF validateFile
<1>7. QED
  BY <1>4, <1>5, <1>6

\* One that it found for one user serves the processes of that user, which
\* have its group and each other's.
LEMMA OwnDirectoryServes ==
    ASSUME NEW a, NEW p, NEW b, NEW q, ~MultipleUIDs, validateLogTargetDirectory,
           a \in accounts, CheckRunIdentity(a, p),
           b \in accounts, CheckRunIdentity(b, q),
           {target.gid, q.gid} \subseteq p.groups
    PROVE  /\ validateLogDirectory(p, target)
           /\ Allows(p, target, {"r", "w", "x"})
           /\ validateFile(p, target, Created(q, target))
<1>1. p.uid = a.uid /\ q.uid = a.uid
  BY DEF MultipleUIDs, CheckRunIdentity
<1>2. /\ "w" \notin target.o /\ (target.sticky => ~IsShared(target))
      /\ target.uid \in {0, a.uid}
      /\ Allows(a, target, {"r", "w", "x"})
      /\ IsShared(target) => target.setgid /\ target.g = {"r", "w", "x"}
  BY DEF validateLogTargetDirectory, SharedMode, IsShared, MultipleUIDs
<1>3. Allows(p, target, {"r", "w", "x"})
  BY <1>2, SameCredentials
<1>4. validateLogDirectory(p, target)
  BY <1>1, <1>2 DEF validateLogDirectory, IsShared, InGroup, Allows, Triad
<1>5. validateFile(p, target, Created(q, target))
  BY <1>1, <1>2 DEF validateFile, Created, sharedLogOwnerAllowed, InGroup
<1>6. QED
  BY <1>3, <1>4, <1>5

\* So does one that a process of that user made.
LEMMA NewDirectoryServes ==
    ASSUME NEW p, NEW q, NEW r, p.uid = q.uid, q.uid = r.uid,
           target = NewDirectory(r), {target.gid, q.gid} \subseteq p.groups
    PROVE  /\ validateLogDirectory(p, target)
           /\ Allows(p, target, {"r", "w", "x"})
           /\ validateFile(p, target, Created(q, target))
<1>1. /\ target.uid = p.uid /\ target.u = {"r", "w", "x"} /\ target.g = {"r", "x"}
      /\ target.o = {} /\ ~target.setgid /\ ~IsShared(target)
  BY DEF NewDirectory, IsShared
<1>2. QED
  BY <1>1 DEF validateLogDirectory, Allows, Triad, validateFile, Created, InGroup

\* A selection of one.
LEMMA OneAccount ==
    ASSUME accounts \in Selections, Cardinality(accounts) = 1,
           NEW a \in accounts
    PROVE  accounts = {a}
<1>1. PICK x, y \in Account : accounts = {x, y}
  BY DEF Selections
<1>2. IsFiniteSet({x}) /\ IsFiniteSet({x} \cup {y})
  BY FS_Singleton, FS_AddElement
<1>3. {x} \cup {y} = {x, y}
  OBVIOUS
<1>4. PICK z : accounts = {z}
  BY <1>1, <1>2, <1>3, FS_Singleton
<1>5. QED
  BY <1>4

\* A process enters, as long as the accounts cooperate.
LEMMA LogIsEntered ==
    ASSUME Cooperating, ActorsOK, LogOK, target # Missing,
           NEW a \in DOMAIN process, NEW b \in DOMAIN process
    PROVE  /\ CanEnter(process[a], target)
           /\ validateFile(process[a], target, Created(process[b], target))
<1>1. /\ a \in accounts /\ CheckRunIdentity(a, process[a])
      /\ b \in accounts /\ CheckRunIdentity(b, process[b])
      /\ process[a].uid = a.uid
  BY DEF ActorsOK, CheckRunIdentity
<1>2. ~MultipleUIDs => {target.gid, process[b].gid} \subseteq process[a].groups
  BY DEF Cooperating
<1>3. SafeFor(a, parent) /\ Allows(a, parent, {"r", "x"})
      /\ validateLogDirectory(process[a], target)
      /\ Allows(process[a], target, {"r", "w", "x"})
      /\ validateFile(process[a], target, Created(process[b], target))
      /\ links \subseteq {0, a.uid}
  <2>1. CASE /\ \A c \in accounts : found[c] = "existing"
             /\ CheckLoggingTarget
    <3>1. SafeFor(a, parent) /\ Allows(a, parent, {"x"}) /\ validateLogTargetDirectory
      BY <1>1, <2>1 DEF CheckLoggingTarget
    <3>2. Allows(a, parent, {"r", "x"}) /\ links \subseteq {0, a.uid}
      BY <1>1, <2>1, <3>1, AllowsWhole DEF Cooperating
    <3>3. QED
      BY <1>1, <1>2, <3>1, <3>2, SharedDirectoryServes, OwnDirectoryServes
  <2>2. CASE /\ \A c \in accounts : found[c] = "missing"
             /\ ~MultipleUIDs
             /\ \E c \in accounts : Allows(c, parent, {"w", "x"}) /\ SafeFor(c, parent)
             /\ \E c \in DOMAIN process : target = NewDirectory(process[c])
    <3>1. accounts = {a} /\ b = a
      <4>1. Cardinality(accounts) = 1
        BY <1>1, <2>2 DEF Cooperating
      <4>2. QED
        BY <1>1, <4>1, OneAccount DEF ActorsOK
    <3>2. SafeFor(a, parent) /\ Allows(a, parent, {"r", "x"}) /\ links = {}
      BY <1>1, <2>2, <3>1, AllowsWhole DEF Cooperating
    <3>3. target = NewDirectory(process[a])
      BY <2>2, <3>1 DEF ActorsOK
    <3>4. QED
      BY <1>2, <2>2, <3>1, <3>2, <3>3, NewDirectoryServes
  <2>3. QED
    BY <1>1, <2>1, <2>2 DEF LogOK, ActorsOK, Cooperating
<1>4. CanWalk(process[a])
  BY <1>1, <1>3, SameCredentials DEF CanWalk
<1>5. QED
  BY <1>1, <1>3, <1>4 DEF CanEnter, validateLogSymlinkOwners

-----------------------------------------------------------------------------
(* The steps *)

\* Init: nothing was checked.
LEMMA InitInvariant == Init => IInv
<1> SUFFICES ASSUME Init PROVE IInv
  OBVIOUS
<1>1. ActorsOK
  BY DEF Init, ActorsOK
<1>2. LogOK /\ FilesOK /\ StagingOK /\ SecretOK
  BY DEF Init, LogOK, FilesOK, StagingOK, SecretOK, Accepted
<1>3. AccountsInterwork /\ StagingServes /\ SecretServes
  BY DEF Init, AccountsInterwork, StagingServes, SecretServes
<1>4. QED
  BY <1>1, <1>2, <1>3 DEF IInv

\* Which properties a use is about.
LEMMA OtherUses ==
    /\ use # "log" => LogOK /\ AccountsInterwork
    /\ use # "staging" => StagingOK /\ StagingServes
    /\ use # "secret" => SecretOK /\ SecretServes
BY DEF LogOK, AccountsInterwork, StagingOK, StagingServes, SecretOK, SecretServes

\* The parent of the directory a process would make does not change.
LEMMA SameNewDirectory ==
    ASSUME UNCHANGED parent
    PROVE  \A p : NewDirectory(p)' = NewDirectory(p)
BY DEF NewDirectory

\* The validation finds the same as long as the directory is there.
LEMMA SameTarget ==
    ASSUME UNCHANGED <<accounts, parent, target>>
    PROVE  /\ CheckLoggingTarget' <=> CheckLoggingTarget
           /\ MultipleUIDs' <=> MultipleUIDs
BY DEF CheckLoggingTarget, MissingTargetOK, CheckWritableTarget,
       checkMissingLogParent, validateLogTargetDirectory, MultipleUIDs,
       MembersOfGroup, SharedMode

\* The validation accepts the log directory.
LEMMA AcceptLogInvariant ==
    ASSUME IInv, AcceptLog
    PROVE  IInv'
<1> USE DEF IInv
<1>1. /\ use = "log" /\ CheckLoggingTarget
      /\ \A a \in accounts : found[a] = "unchecked"
      /\ found' = [a \in accounts |-> Seen]
      /\ UNCHANGED <<use, accounts, parent, links, target, process, absent, files,
                     refused, torn>>
  BY DEF AcceptLog, setting
<1>2. DOMAIN process = {} /\ refused = {}
  BY <1>1 DEF ActorsOK, Accepted
<1>3. ActorsOK'
  BY <1>1, <1>2 DEF ActorsOK, Accepted, Seen
<1>4. LogOK'
  BY <1>1 DEF LogOK, CheckLoggingTarget, MissingTargetOK, CheckWritableTarget,
              checkMissingLogParent, validateLogTargetDirectory, MultipleUIDs,
              MembersOfGroup, SharedMode, Seen
<1>5. FilesOK'
  BY <1>1 DEF FilesOK
<1>6. AccountsInterwork'
  BY <1>1, <1>2 DEF AccountsInterwork
<1>7. QED
  BY <1>1, <1>3, <1>4, <1>5, <1>6
     DEF StagingOK, StagingServes, SecretOK, SecretServes

\* It accepts a staging directory and a secret for one account.
LEMMA AcceptForJobInvariant ==
    ASSUME IInv, NEW a \in accounts, AcceptForJob(a)
    PROVE  IInv'
<1> USE DEF IInv
<1>1. /\ \/ use = "staging" /\ CheckStagingTarget(a)
         \/ use = "secret" /\ checkSensitiveFile(a)
      /\ found[a] = "unchecked" /\ found' = [found EXCEPT ![a] = Seen]
      /\ UNCHANGED <<use, accounts, parent, links, target, process, absent, files,
                     refused, torn>>
  BY DEF AcceptForJob, setting
<1>2. a \notin refused
  BY <1>1 DEF ActorsOK, Accepted
<1>3. \A b \in accounts \ {a} : found'[b] = found[b]
  BY <1>1
<1>4. found'[a] = Seen /\ DOMAIN found' = accounts
  BY <1>1 DEF ActorsOK
<1>5. ActorsOK'
  BY <1>1, <1>3, <1>4 DEF ActorsOK, Accepted, Seen
<1>6. FilesOK'
  BY <1>1 DEF FilesOK
<1>7. CASE use = "staging"
  <2>1. StagingOK'
    <3>1. CheckStagingTarget(a)
      BY <1>1, <1>7
    <3>2. /\ SafeFor(a, parent) /\ Allows(a, parent, {"x"})
          /\ IF target = Missing THEN Allows(a, parent, {"w", "x"})
             ELSE SafeFor(a, target) /\ Allows(a, target, {"w", "x"})
      BY <3>1, AllowsWhole DEF CheckStagingTarget, CheckWritableTarget
    <3>3. \A b : NewDirectory(b)' = NewDirectory(b)
      BY <1>1, SameNewDirectory
    <3>4. ASSUME NEW b \in accounts, Accepted(b)', b # a
          PROVE  Accepted(b) /\ found'[b] = found[b]
      BY <1>3, <3>4 DEF Accepted
    <3>5. QED
      BY <1>1, <1>4, <3>2, <3>3, <3>4 DEF StagingOK, Seen
  <2>2. StagingServes'
    BY <1>1, <1>2, <1>3 DEF StagingServes, Accepted, MultipleUIDs
  <2>3. QED
    BY <1>1, <1>5, <1>6, <1>7, <2>1, <2>2
       DEF LogOK, AccountsInterwork, SecretOK, SecretServes
<1>8. CASE use = "secret"
  <2>1. SecretOK'
    BY <1>1, <1>3, <1>8 DEF SecretOK, Accepted, checkSensitiveFile
  <2>2. SecretServes'
    BY <1>1, <1>2, <1>3 DEF SecretServes, Accepted
  <2>3. QED
    BY <1>1, <1>5, <1>6, <1>8, <2>1, <2>2
       DEF LogOK, AccountsInterwork, StagingOK, StagingServes
<1>9. QED
  BY <1>1, <1>7, <1>8

\* A process starts with the credentials of its job's account.
LEMMA StartProcessInvariant ==
    ASSUME IInv, NEW a \in accounts, StartProcess(a)
    PROVE  IInv'
<1> USE DEF IInv
<1>1. PICK p \in Account :
        /\ use = "log" /\ Accepted(a) /\ a \notin DOMAIN process
        /\ CheckRunIdentity(a, p)
        /\ process' = [b \in DOMAIN process \cup {a} |->
                          IF b = a THEN p ELSE process[b]]
        /\ UNCHANGED <<use, accounts, parent, links, target, found, absent, files,
                       refused, torn>>
  BY DEF StartProcess, setting
<1>2. /\ DOMAIN process' = DOMAIN process \cup {a} /\ process'[a] = p
      /\ \A b \in DOMAIN process : process'[b] = process[b]
  BY <1>1
<1>3. ActorsOK'
  BY <1>1, <1>2 DEF ActorsOK, Accepted, CheckRunIdentity
<1>4. FilesOK'
  BY <1>1, <1>2 DEF FilesOK, Created
<1>5. LogOK'
  <2>1. \A b \in DOMAIN process :
            NewDirectory(process[b])' = NewDirectory(process[b])
    BY <1>1, <1>2 DEF NewDirectory
  <2>2. (CheckLoggingTarget' <=> CheckLoggingTarget) /\ (MultipleUIDs' <=> MultipleUIDs)
    BY <1>1, SameTarget
  <2>3. QED
    BY <1>1, <1>2, <2>1, <2>2 DEF LogOK, Accepted
<1>6. AccountsInterwork'
  <2>1. Cooperating' => Cooperating
    BY <1>1, <1>2 DEF Cooperating, Accepted, MultipleUIDs
  <2>2. QED
    BY <1>1, <2>1 DEF AccountsInterwork, Cooperating
<1>7. QED
  BY <1>1, <1>3, <1>4, <1>5, <1>6
     DEF StagingOK, StagingServes, SecretOK, SecretServes

\* A cooperating process is not refused the making of the directory.
LEMMA MakeLogInvariant ==
    ASSUME IInv, NEW a \in DOMAIN process, MakeLog(a)
    PROVE  IInv'
<1> USE DEF IInv
<1>1. /\ target = Missing /\ use = "log" /\ a \in accounts /\ Accepted(a)
      /\ CheckRunIdentity(a, process[a])
      /\ UNCHANGED <<use, accounts, parent, links, found, process, absent, files,
                     torn>>
      /\ \/ /\ target' = NewDirectory(process[a]) /\ UNCHANGED refused
         \/ /\ ~(/\ CanWalk(process[a]) /\ links = {}
                 /\ Allows(process[a], parent, {"w", "x"}))
            /\ refused' = refused \cup {a} /\ UNCHANGED target
  BY DEF MakeLog, setting, Refuse, ActorsOK
<1>2. ActorsOK'
  BY <1>1 DEF ActorsOK, Accepted
<1>3. /\ \A c \in accounts : found[c] = "missing"
      /\ ~MultipleUIDs
      /\ \E c \in accounts : Allows(c, parent, {"w", "x"}) /\ SafeFor(c, parent)
  BY <1>1 DEF LogOK
<1>4. LogOK'
  <2>1. \A b \in DOMAIN process : NewDirectory(process[b])' = NewDirectory(process[b])
    BY <1>1 DEF NewDirectory
  <2>2. MultipleUIDs' <=> MultipleUIDs
    BY <1>1 DEF MultipleUIDs
  <2>3. target' = Missing \/ \E b \in DOMAIN process' :
                                 target' = NewDirectory(process[b])'
    BY <1>1, <2>1
  <2>4. QED
    BY <1>1, <1>3, <2>2, <2>3 DEF LogOK
<1>5. FilesOK'
  <2>1. ~torn => files = {}
    BY <1>1 DEF FilesOK
  <2>2. QED
    BY <1>1, <2>1 DEF FilesOK
<1>6. AccountsInterwork'
  <2> SUFFICES ASSUME Cooperating' PROVE refused' = {}
    BY DEF AccountsInterwork, Cooperating
  <2>1. Cooperating
    BY <1>1, <1>3 DEF Cooperating, Accepted, MultipleUIDs
  <2>2. refused = {}
    BY <2>1, Interworking
  <2>3. accounts = {a}
    <3>1. Cardinality(accounts) = 1
      BY <1>1, <1>3, <2>1 DEF Cooperating
    <3>2. QED
      BY <1>1, <3>1, OneAccount DEF ActorsOK
  <2>4. SafeFor(a, parent) /\ Allows(a, parent, {"w", "x"}) /\ links = {}
    BY <1>1, <1>3, <2>1, <2>3 DEF Cooperating
  <2>5. Allows(a, parent, {"r", "x"})
    BY <1>1, <2>1, <2>4, AllowsWhole DEF Cooperating
  <2>6. CanWalk(process[a]) /\ Allows(process[a], parent, {"w", "x"})
    BY <1>1, <2>4, <2>5, SameCredentials DEF CanWalk
  <2>7. QED
    BY <1>1, <2>2, <2>4, <2>6
<1>7. QED
  BY <1>1, <1>2, <1>4, <1>5, <1>6
     DEF StagingOK, StagingServes, SecretOK, SecretServes

\* A step in the log directory that leaves the directory itself alone, and
\* refuses nobody who cooperates, keeps the invariant.
LEMMA InDirectory ==
    ASSUME IInv, NEW a \in DOMAIN process, FilesOK',
           UNCHANGED <<setting, target, found, process, absent>>,
           torn => torn', files' = {} \/ use = "log",
           \/ UNCHANGED refused
           \/ refused' = refused \cup {a} /\ (Cooperating => torn')
    PROVE  IInv'
<1> USE DEF IInv, setting
<1>1. use = "log" /\ a \in accounts /\ Accepted(a)
  BY DEF ActorsOK
<1>2. ActorsOK'
  BY <1>1 DEF ActorsOK, Accepted
<1>3. LogOK'
  <2>1. \A b \in DOMAIN process : NewDirectory(process[b])' = NewDirectory(process[b])
    BY DEF NewDirectory
  <2>2. (CheckLoggingTarget' <=> CheckLoggingTarget) /\ (MultipleUIDs' <=> MultipleUIDs)
    BY SameTarget
  <2>3. QED
    BY <2>1, <2>2 DEF LogOK, Accepted
<1>4. AccountsInterwork'
  <2>1. Cooperating' => Cooperating /\ ~torn'
    BY DEF Cooperating, Accepted, MultipleUIDs
  <2>2. AccountsInterwork' <=> (Cooperating' => refused' = {})
    BY DEF AccountsInterwork, Cooperating
  <2>3. QED
    BY <2>1, <2>2, Interworking
<1>5. QED
  BY <1>1, <1>2, <1>3, <1>4 DEF StagingOK, StagingServes, SecretOK, SecretServes

\* A process enters the log directory.
LEMMA UseLogInvariant ==
    ASSUME IInv, NEW a \in DOMAIN process, UseLog(a)
    PROVE  IInv'
<1>1. /\ target # Missing
      /\ IF EntersLog(process[a]) THEN UNCHANGED refused
                                  ELSE refused' = refused \cup {a}
      /\ UNCHANGED <<setting, target, found, process, absent, files, torn>>
  BY DEF UseLog, Refuse
<1>2. FilesOK'
  BY <1>1 DEF IInv, FilesOK, Created
<1>3. Cooperating => EntersLog(process[a])
  <2>1. ASSUME Cooperating, NEW f \in files
        PROVE  validateFile(process[a], target, f)
    BY <1>1, <2>1, LogIsEntered DEF IInv, FilesOK, Cooperating
  <2>2. QED
    BY <1>1, <2>1, LogIsEntered DEF IInv, EntersLog
<1>4. files' = {} \/ use = "log"
  BY <1>1 DEF IInv, ActorsOK
<1>5. QED
  BY <1>1, <1>2, <1>3, <1>4, InDirectory

\* A process leaves a log file, complete or killed before its mode was set.
LEMMA CreateLogFileInvariant ==
    ASSUME IInv, NEW a \in DOMAIN process, CreateLogFile(a)
    PROVE  IInv'
<1>1. PICK killed \in BOOLEAN : \E f \in Modes(Created(process[a], target), killed) :
        /\ files' = files \cup {f} /\ torn' = (torn \/ killed)
        /\ IF killed \/ validateFile(process[a], target, f)
             THEN UNCHANGED refused ELSE refused' = refused \cup {a}
  BY DEF CreateLogFile, Refuse
<1>2. PICK f \in Modes(Created(process[a], target), killed) :
        /\ files' = files \cup {f} /\ torn' = (torn \/ killed)
        /\ IF killed \/ validateFile(process[a], target, f)
             THEN UNCHANGED refused ELSE refused' = refused \cup {a}
  BY <1>1
<1>3. target # Missing /\ UNCHANGED <<setting, target, found, process, absent>>
  BY DEF CreateLogFile
<1>4. ~killed => f = Created(process[a], target)
  BY DEF Modes
<1>5. FilesOK'
  BY <1>2, <1>3, <1>4 DEF IInv, FilesOK, Created
<1>6. Cooperating /\ ~killed => validateFile(process[a], target, f)
  BY <1>3, <1>4, LogIsEntered DEF IInv
<1>7. use = "log"
  BY DEF IInv, ActorsOK
<1>8. QED
  BY <1>2, <1>3, <1>5, <1>6, <1>7, InDirectory

\* The steps at the staging directory and at a secret: they make at most the
\* directory, and refuse only those for whom nothing is promised.
LEMMA LookInvariant ==
    ASSUME IInv, NEW a \in accounts, LookForStaging(a)
    PROVE  IInv'
<1> USE DEF IInv
<1>1. /\ use = "staging" /\ Accepted(a) /\ target = Missing
      /\ UNCHANGED <<use, accounts, parent, links, target, found, process, files,
                     torn>>
      /\ \/ absent' = absent \cup {a} /\ UNCHANGED refused
         \/ ~CanWalk(a) /\ refused' = refused \cup {a} /\ UNCHANGED absent
  BY DEF LookForStaging, setting, Refuse
<1>2. ActorsOK' /\ FilesOK'
  BY <1>1 DEF ActorsOK, Accepted, FilesOK
<1>3. StagingOK'
  <2>1. \A b : NewDirectory(b)' = NewDirectory(b)
    BY <1>1, SameNewDirectory
  <2>2. QED
    BY <1>1, <2>1 DEF StagingOK, Accepted
<1>4. StagingServes'
  <2>1. Allows(a, parent, {"r"}) => CanWalk(a)
    BY <1>1, AllowsWhole DEF StagingOK, CanWalk
  <2>2. QED
    BY <1>1, <2>1 DEF StagingServes, Accepted, MultipleUIDs
<1>5. QED
  BY <1>1, <1>2, <1>3, <1>4 DEF LogOK, AccountsInterwork, SecretOK, SecretServes

\* A process makes a missing staging directory.
LEMMA MakeStagingInvariant ==
    ASSUME IInv, NEW a \in accounts, MakeStaging(a)
    PROVE  IInv'
<1> USE DEF IInv
<1> DEFINE New(b) == [NewDirectory(b) EXCEPT !.g = {}]
<1>1. /\ use = "staging" /\ Accepted(a) /\ a \in absent /\ absent' = absent \ {a}
      /\ UNCHANGED <<use, accounts, parent, links, found, process, files, torn>>
      /\ \/ UNCHANGED <<target, refused>>
         \/ target = Missing /\ target' = New(a) /\ UNCHANGED refused
         \/ /\ target = Missing /\ ~Allows(a, parent, {"w", "x"})
            /\ refused' = refused \cup {a} /\ UNCHANGED target
  BY DEF MakeStaging, setting, Refuse, ActorsOK
<1>2. ActorsOK' /\ FilesOK'
  <2>1. files = {}
    BY <1>1 DEF ActorsOK
  <2>2. QED
    BY <1>1, <2>1 DEF ActorsOK, Accepted, FilesOK
<1>3. \A b : New(b)' = New(b)
  BY <1>1, SameNewDirectory
<1>4. StagingOK'
  <2> SUFFICES ASSUME NEW b \in accounts, Accepted(b)
               PROVE  /\ SafeFor(b, parent) /\ Allows(b, parent, {"x"})
                      /\ found[b] = "existing" =>
                          /\ target' # Missing /\ SafeFor(b, target')
                          /\ Allows(b, target', {"w", "x"})
                      /\ found[b] = "missing" =>
                          /\ Allows(b, parent, {"w", "x"})
                          /\ target' = Missing \/ \E c \in accounts : target' = New(c)
    BY <1>1, <1>3 DEF StagingOK, Accepted
  <2>1. QED
    BY <1>1 DEF StagingOK
<1>5. StagingServes'
  <2>1. target = Missing => Allows(a, parent, {"w", "x"})
    BY <1>1 DEF StagingOK, ActorsOK, Accepted
  <2>2. \A b \in accounts : Accepted(b) /\ found[b] = "existing" => target' = target
    BY <1>1 DEF StagingOK
  <2>3. UNCHANGED refused
    BY <1>1, <2>1
  <2>4. QED
    BY <1>1, <2>2, <2>3 DEF StagingServes, Accepted, MultipleUIDs
<1>6. QED
  BY <1>1, <1>2, <1>4, <1>5 DEF LogOK, AccountsInterwork, SecretOK, SecretServes

\* A process enters the staging directory.
LEMMA EnterStagingInvariant ==
    ASSUME IInv, NEW a \in accounts, EnterStaging(a)
    PROVE  IInv'
<1> USE DEF IInv
<1>1. /\ use = "staging" /\ Accepted(a) /\ target # Missing
      /\ UNCHANGED <<use, accounts, parent, links, target, found, process, absent,
                     files, torn>>
      /\ \/ UNCHANGED refused
         \/ /\ ~(CanWalk(a) /\ SafeFor(a, target)
                   /\ Allows(a, target, {"r", "w", "x"}))
            /\ refused' = refused \cup {a}
  BY DEF EnterStaging, setting, Refuse
<1>2. ActorsOK' /\ FilesOK'
  BY <1>1 DEF ActorsOK, Accepted, FilesOK, Created
<1>3. StagingOK'
  <2>1. \A b : NewDirectory(b)' = NewDirectory(b)
    BY <1>1, SameNewDirectory
  <2>2. QED
    BY <1>1, <2>1 DEF StagingOK, Accepted
<1>4. StagingServes'
  BY <1>1, StagingIsEntered DEF StagingServes, Accepted, MultipleUIDs
<1>5. QED
  BY <1>1, <1>2, <1>3, <1>4 DEF LogOK, AccountsInterwork, SecretOK, SecretServes

\* A process opens its secret.
LEMMA OpenSecretInvariant ==
    ASSUME IInv, NEW a \in accounts, OpenSecret(a)
    PROVE  IInv'
<1> USE DEF IInv
<1>1. /\ use = "secret" /\ Accepted(a)
      /\ UNCHANGED <<use, accounts, parent, links, target, found, process, absent,
                     files, torn>>
      /\ \/ UNCHANGED refused
         \/ /\ ~(validateLexicalPath(a) /\ openCanonical(a))
            /\ refused' = refused \cup {a}
  BY DEF OpenSecret, setting, Refuse
<1>2. ActorsOK' /\ FilesOK'
  BY <1>1 DEF ActorsOK, Accepted, FilesOK, Created
<1>3. SecretOK'
  BY <1>1 DEF SecretOK, Accepted, checkSensitiveFile
<1>4. SecretServes'
  <2>1. links \subseteq {0, a.uid} => UNCHANGED refused
    BY <1>1, SecretIsOpened DEF SecretOK
  <2>2. QED
    BY <1>1, <2>1 DEF SecretServes, Accepted
<1>5. QED
  BY <1>1, <1>2, <1>3, <1>4 DEF LogOK, AccountsInterwork, StagingOK, StagingServes

\* Nothing happens.
LEMMA StutterInvariant ==
    ASSUME IInv, UNCHANGED vars
    PROVE  IInv'
<1> USE DEF vars, setting, IInv
<1>1. \A b : NewDirectory(b)' = NewDirectory(b)
  BY SameNewDirectory
<1>2. (CheckLoggingTarget' <=> CheckLoggingTarget) /\ (MultipleUIDs' <=> MultipleUIDs)
  BY SameTarget
<1>3. LogOK' /\ ActorsOK' /\ FilesOK'
  BY <1>1, <1>2 DEF LogOK, ActorsOK, FilesOK, Accepted, Created, NewDirectory
<1>4. StagingOK' /\ SecretOK'
  BY <1>1 DEF StagingOK, SecretOK, Accepted, checkSensitiveFile
<1>5. AccountsInterwork' /\ StagingServes' /\ SecretServes'
  BY <1>2 DEF AccountsInterwork, StagingServes, SecretServes, Accepted, MultipleUIDs
<1>6. QED
  BY <1>3, <1>4, <1>5

-----------------------------------------------------------------------------
(* The theorems *)

\* The invariant holds for whatever accounts go to whatever path.
THEOREM Invariant == Spec => []IInv
<1>1. IInv /\ [Next]_vars => IInv'
  BY AcceptLogInvariant, AcceptForJobInvariant, StartProcessInvariant,
     LookInvariant, MakeStagingInvariant, EnterStagingInvariant,
     OpenSecretInvariant, MakeLogInvariant, UseLogInvariant,
     CreateLogFileInvariant, StutterInvariant DEF Next
<1>2. QED
  BY InitInvariant, <1>1, PTL DEF Spec

\* A log directory that the validation accepted for accounts of different
\* users works for each of them, in whatever order they create and use files.
THEOREM Interwork == Spec => []AccountsInterwork
BY Invariant, PTL DEF IInv

\* A staging directory that it accepted works for the account, also when
\* several processes create it at once.
THEOREM StagingWorks == Spec => []StagingServes
BY Invariant, PTL DEF IInv

\* A secret file that it accepted is opened by the resolver.
THEOREM SecretWorks == Spec => []SecretServes
BY Invariant, PTL DEF IInv
==============================================================================
