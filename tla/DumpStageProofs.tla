--------------------------- MODULE DumpStageProofs ---------------------------
(***************************************************************************)
(* What Stage returns and leaves behind, for dumps of any length, and what *)
(* Open and Remove make of it, for any number of changes by others: the    *)
(* safety properties of DumpStage and Stager, each from one invariant; and  *)
(* what run keeps of stderr, for any password, input and cap.               *)
(***************************************************************************)
EXTENDS Stager, StderrRedactor, Integers, SequenceTheorems,
        WellFoundedInduction, TLAPS

Before == {"stage", "workspace", "create", "open_executable", "start"}
Waiting == {"wait", "watch", "await", "drain", "join"}
Ending == {"close", "recheck", "verify", "cleanup", "returned"}

Types ==
    /\ attempted \in Nat /\ pipe \in Nat /\ copied \in Nat
    /\ leader \in {"none"} \cup Alive \cup Exited
    /\ cutShort \in BOOLEAN

\* The process and its goroutines begin together.
Started ==
    /\ pc \in Before \cup Waiting \cup Ending
    /\ pc \in Before => leader = "none"
    /\ pc \in Waiting => leader # "none"
    /\ leader = "none" <=> copier = "idle"
    /\ leader = "none" =>
        /\ helper = "none" /\ watcher = "off"
        /\ local = "none" /\ waitErr = "none"

\* What Wait has collected when it goes on, and when it returns.
Collected ==
    /\ reaped => leader \in Exited
    /\ pc \in Waiting \ {"wait"} => reaped
    /\ pc \in {"await", "drain", "join"} \cup Ending => watcher = "off"
    /\ pc = "join" => copier = "done"
    /\ pc \in Ending /\ leader # "none" => reaped /\ copier = "done"
    /\ watcher = "handing" => copier = "done"

\* No block is missing as long as the parent's end of the pipe is open, and
\* a copy without an error came to the end of a pipe that nobody can write to.
PipeOK ==
    /\ readEnd = "open" => attempted = pipe + copied
    /\ copier # "done" => copyErr = "none" /\ local = "none"
    /\ copier = "done" /\ copyErr = "none" =>
        /\ copied = attempted /\ local = "none"
        /\ leader \in Exited /\ ~WriteEndHeld

\* The errors that Wait and run's kill of the group leave.
ErrorsOK ==
    /\ reaped /\ waitErr = "none" => leader = "ok"
    /\ watcher \notin {"off", "watching"} => cancelled
    /\ helper = "killed" /\ pc \notin Ending => watchErr # "none"
    /\ watchErr # "none" /\ pc \in {"await", "drain", "join"} => waitErr # "none"
    /\ pc = "join" /\ waitErr = "none" => cancelled \/ copyErr = "none"

\* Without an error behind run, the dump was a good one, or the context is done.
EndOK ==
    /\ (pc = "close" /\ fail = "none") \/ pc \in {"recheck", "verify"} =>
        /\ leader # "none" /\ waitErr = "none" /\ helper # "killed"
        /\ fail = "none" /\ (cancelled \/ copyErr = "none")
    /\ pc = "verify" => copyErr = "none" /\ ~cutShort
    /\ cutShort => cancelled
    /\ pc \in Ending /\ local # "none" => fail = local
    /\ pc = "cleanup" => fail # "none"
    /\ pc \in Ending /\ RunFailure # "none" => helper # "grouped"

\* What is on disk.
DiskOK ==
    /\ pc \in {"stage", "workspace"} => staging = "none"
    /\ staging = "artifact" => pc = "returned"

IInv == Types /\ Started /\ Collected /\ PipeOK /\ ErrorsOK /\ EndOK /\ DiskOK
          /\ ArtifactIsWholeDump /\ LocalFailureNamesStage
          /\ NoGroupAfterFailure /\ LeftoverIsReported

\* Init: nothing has begun.
LEMMA InitInvariant == Init => IInv
<1> SUFFICES ASSUME Init PROVE IInv
  OBVIOUS
<1> USE DEF Init
<1>1. Types
  BY DEF Types, Alive, Exited
<1>2. Started /\ Collected /\ PipeOK
  BY DEF Started, Collected, PipeOK, Before, Waiting, Ending
<1>3. ErrorsOK /\ EndOK /\ DiskOK
  BY DEF ErrorsOK, EndOK, DiskOK, Ending
<1>4. ArtifactIsWholeDump /\ LocalFailureNamesStage /\ NoGroupAfterFailure
        /\ LeftoverIsReported
  BY DEF ArtifactIsWholeDump, LocalFailureNamesStage, NoGroupAfterFailure,
         LeftoverIsReported
<1>5. QED
  BY <1>1, <1>2, <1>3, <1>4 DEF IInv

\* The dump processes, and a cancellation.
LEMMA GroupInvariant ==
    ASSUME IInv, Cancel \/ LeaderWrites \/ HelperWrites \/ LeaderExits \/ HelperChanges
    PROVE  IInv'
<1> USE DEF IInv, Types, Started, Collected, PipeOK, ErrorsOK, EndOK, DiskOK,
            ArtifactIsWholeDump, LocalFailureNamesStage, NoGroupAfterFailure,
            LeftoverIsReported, Before, Waiting, Ending, RunFailure, GroupExists,
            WriteEndHeld, HelperAlive, Alive, Exited, LocalKinds, process,
            channel, watch, outcome
<1>1. CASE Cancel
  BY <1>1 DEF Cancel
<1>2. CASE LeaderWrites
  BY <1>2 DEF LeaderWrites, Write
<1>3. CASE HelperWrites
  BY <1>3 DEF HelperWrites, Write
<1>4. CASE LeaderExits
  BY <1>4 DEF LeaderExits
<1>5. CASE HelperChanges
  BY <1>5 DEF HelperChanges
<1>6. QED
  BY <1>1, <1>2, <1>3, <1>4, <1>5

\* The goroutines of os/exec.
LEMMA CopierInvariant ==
    ASSUME IInv, CopyBlock \/ CopyEnds
    PROVE  IInv'
<1> USE DEF IInv, Types, Started, Collected, PipeOK, ErrorsOK, EndOK, DiskOK,
            ArtifactIsWholeDump, LocalFailureNamesStage, NoGroupAfterFailure,
            LeftoverIsReported, Before, Waiting, Ending, RunFailure, GroupExists,
            WriteEndHeld, HelperAlive, Alive, Exited, LocalKinds, process,
            channel, watch, outcome
<1>1. CASE CopyBlock
  BY <1>1 DEF CopyBlock
<1>2. CASE CopyEnds
  BY <1>2 DEF CopyEnds
<1>3. QED
  BY <1>1, <1>2

\* The watcher of the context.
LEMMA WatcherInvariant ==
    ASSUME IInv, WatchCancel \/ WatchExpires \/ WatchClosed
    PROVE  IInv'
<1> USE DEF IInv, Types, Started, Collected, PipeOK, ErrorsOK, EndOK, DiskOK,
            ArtifactIsWholeDump, LocalFailureNamesStage, NoGroupAfterFailure,
            LeftoverIsReported, Before, Waiting, Ending, RunFailure, GroupExists,
            WriteEndHeld, HelperAlive, Alive, Exited, LocalKinds, process,
            channel, watch, outcome
<1>1. CASE WatchCancel
  BY <1>1 DEF WatchCancel, killProcessGroup
<1>2. CASE WatchExpires
  BY <1>2 DEF WatchExpires
<1>3. CASE WatchClosed
  BY <1>3 DEF WatchClosed
<1>4. QED
  BY <1>1, <1>2, <1>3

\* The steps of ExecRunner.run.
LEMMA RunInvariant ==
    ASSUME IInv,
           OpenExecutable \/ Start \/ Reap \/ Receive \/ AwaitCopy \/ DrainCopy
             \/ JoinAndReturn
    PROVE  IInv'
<1> USE DEF IInv, Types, Started, Collected, PipeOK, ErrorsOK, EndOK, DiskOK,
            ArtifactIsWholeDump, LocalFailureNamesStage, NoGroupAfterFailure,
            LeftoverIsReported, Before, Waiting, Ending, RunFailure, GroupExists,
            WriteEndHeld, HelperAlive, Alive, Exited, LocalKinds, process,
            channel, watch, outcome
<1>1. CASE OpenExecutable
  BY <1>1 DEF OpenExecutable, Fail
<1>2. CASE Start
  BY <1>2 DEF Start, Fail
<1>3. CASE Reap
  BY <1>3 DEF Reap
<1>4. CASE Receive
  BY <1>4 DEF Receive, FirstError
<1>5. CASE AwaitCopy
  BY <1>5 DEF AwaitCopy, FirstError
<1>6. CASE DrainCopy
  BY <1>6 DEF DrainCopy, FirstError
<1>7. CASE JoinAndReturn
  BY <1>7 DEF JoinAndReturn, killProcessGroup
<1>8. QED
  BY <1>1, <1>2, <1>3, <1>4, <1>5, <1>6, <1>7

\* The steps of Stage.
LEMMA StageInvariant ==
    ASSUME IInv,
           CheckContext \/ NewWorkspace \/ CreateFile \/ CloseFile \/ RecheckContext
             \/ VerifyFinal \/ RemovePartial
    PROVE  IInv'
<1> USE DEF IInv, Types, Started, Collected, PipeOK, ErrorsOK, EndOK, DiskOK,
            ArtifactIsWholeDump, LocalFailureNamesStage, NoGroupAfterFailure,
            LeftoverIsReported, Before, Waiting, Ending, RunFailure, GroupExists,
            WriteEndHeld, HelperAlive, Alive, Exited, LocalKinds, process,
            channel, watch, outcome
<1>1. CASE CheckContext
  BY <1>1 DEF CheckContext, Fail
<1>2. CASE NewWorkspace
  BY <1>2 DEF NewWorkspace, Fail
<1>3. CASE CreateFile
  BY <1>3 DEF CreateFile, Fail
<1>4. CASE CloseFile
  BY <1>4 DEF CloseFile
<1>5. CASE RecheckContext
  BY <1>5 DEF RecheckContext, Fail
<1>6. CASE VerifyFinal
  BY <1>6 DEF VerifyFinal, Fail
<1>7. CASE RemovePartial
  <2>1. Types' /\ Started' /\ Collected'
    BY <1>7 DEF RemovePartial
  <2>2. PipeOK' /\ ErrorsOK'
    BY <1>7 DEF RemovePartial
  <2>3. EndOK' /\ DiskOK'
    BY <1>7 DEF RemovePartial
  <2>4. /\ ArtifactIsWholeDump'
        /\ LocalFailureNamesStage'
        /\ NoGroupAfterFailure'
        /\ LeftoverIsReported'
    BY <1>7 DEF RemovePartial
  <2>5. QED
    BY <2>1, <2>2, <2>3, <2>4
<1>8. QED
  BY <1>1, <1>2, <1>3, <1>4, <1>5, <1>6, <1>7

\* A step of nobody.
LEMMA StutterInvariant ==
    ASSUME IInv, UNCHANGED vars
    PROVE  IInv'
BY DEF vars, process, channel, watch, outcome, IInv, Types, Started, Collected,
       PipeOK, ErrorsOK, EndOK, DiskOK, ArtifactIsWholeDump,
       LocalFailureNamesStage, NoGroupAfterFailure, LeftoverIsReported,
       RunFailure, GroupExists, WriteEndHeld, HelperAlive

\* Every step of Stage keeps the invariant.
LEMMA NextInvariant == IInv /\ [Next]_vars => IInv'
BY GroupInvariant, CopierInvariant, WatcherInvariant, RunInvariant,
   StageInvariant, StutterInvariant
   DEF Next, Stage, Run, Copier, Watcher, Group

\* The invariant holds in every state of Stage.
THEOREM Invariant == Spec => []IInv
BY InitInvariant, NextInvariant, PTL DEF Spec

\* An artifact that Stage returns holds the whole dump, of any length.
THEOREM WholeDump == Spec => []ArtifactIsWholeDump
BY Invariant, PTL DEF IInv

\* A failed run leaves no process of its group.
THEOREM GroupIsGone == Spec => []NoGroupAfterFailure
BY Invariant, PTL DEF IInv

\* A write that failed here decides the stage that is reported, and dump data
\* that a failed Stage leaves is reported.
THEOREM ErrorTells == Spec => []ErrorTellsTruth
<1>1. IInv => ErrorTellsTruth
  BY DEF IInv, ErrorTellsTruth
<1>2. QED
  BY Invariant, <1>1, PTL

-----------------------------------------------------------------------------
(* Stager: the invariant *)

Steps == {"idle", "parent", "work", "file", "recheck", "opened", "inspect",
          "unlink", "verify", "rmdir"}

StagerTypes ==
    /\ edits \in Nat
    /\ looked \in [file : 0 .. edits, directory : 0 .. edits]
    /\ file \in [links : Int, private : BOOLEAN, sized : BOOLEAN]
    /\ step \in Steps

\* Open and Remove run on an artifact, whose identity has one name.
Running ==
    /\ step # "idle" \/ removal = "ok" => staging = "artifact"
    /\ step \notin {"idle", "parent"} => recorded = 1
    /\ step \in {"inspect", "unlink", "verify", "rmdir"} => call = "remove"
    /\ step # "idle" => call \in {"open", "remove"}
    /\ removal = "ok" => call = "remove" /\ step = "idle"

\* What the last looks saw is so as long as nobody else has acted.
Seen ==
    /\ step \in {"recheck", "opened"} => fd = "staged"
    /\ step = "opened" /\ edits = looked.file => file.sized /\ file.links = 1
    /\ step = "unlink" /\ edits = looked.file => entry = "staged" /\ file.links = 1
    /\ step \in {"verify", "rmdir"} /\ edits = looked.file => file.links = 0
    /\ step = "rmdir" => looked.file <= looked.directory
    /\ step = "rmdir" /\ edits = looked.directory => work = "ours"

SIInv == IInv /\ StagerTypes /\ Running /\ Seen /\ RemovedIsGone

\* StagerInit: nothing has begun here either.
LEMMA StagerInitInvariant == StagerInit => SIInv
BY InitInvariant
   DEF StagerInit, SIInv, StagerTypes, Steps, Running, Seen, RemovedIsGone

\* Beside Stage a step of Stager is one of its own or leaves it alone.
LEMMA StagerIsStage ==
    ASSUME [StagerNext]_stagerVars
    PROVE  [Next]_vars
BY DEF StagerNext, stagerVars, StageOnDisk, StageNewWorkspace, StageCreateFile,
       StageCloseFile, StageVerifyFinal, StageRemovePartial, Methods, BeginOpen,
       BeginRemove, OpenParent, OpenWork, OpenFile, RecheckFile, InspectFile,
       UnlinkFile, VerifyDirectory, RemoveDirectory, MethodFails, Meddle,
       Around, Next, Stage

\* The artifact stays once Stage has returned it.
LEMMA ArtifactStays ==
    ASSUME IInv, [Next]_vars, staging = "artifact"
    PROVE  staging' = "artifact"
<1>1. pc = "returned"
  BY DEF IInv, DiskOK
<1>2. QED
  BY <1>1 DEF Next, vars, outcome, Stage, CheckContext, NewWorkspace, CreateFile,
     CloseFile, RecheckContext, VerifyFinal, RemovePartial, Run, OpenExecutable,
     Start, Reap, Receive, AwaitCopy, DrainCopy, JoinAndReturn, Copier, CopyBlock,
     CopyEnds, Watcher, WatchCancel, WatchExpires, WatchClosed, Group, Cancel,
     LeaderWrites, HelperWrites, Write, LeaderExits, HelperChanges

\* Stage is over when Open and Remove run.
LEMMA StageOnDiskKeeps ==
    ASSUME SIInv, StageOnDisk
    PROVE  StagerTypes' /\ Running' /\ Seen' /\ RemovedIsGone'
<1>1. step = "idle" /\ removal # "ok"
  BY DEF StageOnDisk, StageNewWorkspace, StageCreateFile, StageCloseFile,
         StageVerifyFinal, StageRemovePartial, CheckContext, RecheckContext,
         NewWorkspace, CreateFile, CloseFile, VerifyFinal, RemovePartial, SIInv,
         IInv, DiskOK, Running
<1>2. UNCHANGED <<method, others, looked>>
  BY DEF StageOnDisk
<1>3. file' \in [links : Int, private : BOOLEAN, sized : BOOLEAN]
  <2> USE DEF SIInv, StagerTypes
  <2>1. CASE StageCreateFile
    BY <2>1 DEF StageCreateFile
  <2>2. CASE StageCloseFile
    BY <2>2 DEF StageCloseFile
  <2>3. CASE StageRemovePartial
    BY <2>3 DEF StageRemovePartial, Unlinked
  <2>4. CASE UNCHANGED file
    BY <2>4
  <2>5. QED
    BY <2>1, <2>2, <2>3, <2>4
       DEF StageOnDisk, StageNewWorkspace, StageVerifyFinal, names
<1>4. QED
  BY <1>1, <1>2, <1>3 DEF SIInv, StagerTypes, Running, Seen, RemovedIsGone, method,
         others

\* The steps of Open and Remove.
LEMMA MethodsKeep ==
    ASSUME SIInv, Methods
    PROVE  StagerTypes' /\ Running' /\ Seen' /\ RemovedIsGone'
<1> USE DEF SIInv, StagerTypes, Steps, Running, Seen, RemovedIsGone, Checked, Refused,
            names, others, vars, outcome
<1>1. CASE BeginOpen
  BY <1>1 DEF BeginOpen
<1>2. CASE BeginRemove
  BY <1>2 DEF BeginRemove
<1>3. CASE OpenParent
  BY <1>3 DEF OpenParent
<1>4. CASE OpenWork
  BY <1>4 DEF OpenWork
<1>5. CASE OpenFile
  BY <1>5 DEF OpenFile, MatchesExactly, Matches
<1>6. CASE RecheckFile
  BY <1>6 DEF RecheckFile, MatchesExactly, Matches
<1>7. CASE InspectFile
  BY <1>7 DEF InspectFile, MatchesExactly, Matches
<1>8. CASE UnlinkFile
  BY <1>8 DEF UnlinkFile, Unlinked
<1>9. CASE VerifyDirectory
  BY <1>9 DEF VerifyDirectory
<1>10. CASE RemoveDirectory
  <2>1. edits = looked.file => work = "ours"
    BY <1>10 DEF RemoveDirectory
  <2>2. QED
    BY <1>10, <2>1 DEF RemoveDirectory
<1>11. CASE MethodFails
  BY <1>11 DEF MethodFails
<1>12. QED
  BY <1>1, <1>2, <1>3, <1>4, <1>5, <1>6, <1>7, <1>8, <1>9, <1>10, <1>11 DEF Methods

\* After a change by somebody else no look is the last word.
LEMMA MeddleKeeps ==
    ASSUME SIInv, Meddle
    PROVE  StagerTypes' /\ Running' /\ Seen' /\ RemovedIsGone'
<1>1. /\ edits' = edits + 1 /\ UNCHANGED <<vars, recorded, method, looked>>
      /\ edits' # looked'.file /\ edits' # looked'.directory
  BY DEF Meddle, SIInv, StagerTypes
<1>2. file' \in [links : Int, private : BOOLEAN, sized : BOOLEAN]
  <2> USE DEF SIInv, StagerTypes
  <2>1. CASE ChangeEntry
    BY <2>1 DEF ChangeEntry, Unlinked
  <2>2. CASE ChangeFile
    <3>1. CASE file' = [file EXCEPT !.links = 2]
      BY <3>1
    <3>2. CASE file' = [file EXCEPT !.private = ~@]
      <4>1. (~file.private) \in BOOLEAN
        OBVIOUS
      <4>2. QED
        BY <3>2, <4>1
    <3>3. CASE \E sized \in BOOLEAN : file' = [file EXCEPT !.sized = sized]
      BY <3>3
    <3>4. QED
      BY <2>2, <3>1, <3>2, <3>3 DEF ChangeFile
  <2>3. CASE ReuseInode
    BY <2>3 DEF ReuseInode
  <2>4. CASE UNCHANGED file
    BY <2>4
  <2>5. QED
    BY <2>1, <2>2, <2>3, <2>4 DEF Meddle
<1>3. StagerTypes'
  BY <1>1, <1>2 DEF SIInv, StagerTypes, method
<1>4. Running' /\ Seen' /\ RemovedIsGone'
  BY <1>1 DEF SIInv, StagerTypes, Running, Seen, RemovedIsGone, method, vars, outcome
<1>5. QED
  BY <1>3, <1>4

\* What runs beside Stage, and a step of nobody.
LEMMA AroundKeeps ==
    ASSUME SIInv, [Next]_vars, UNCHANGED <<names, recorded, method, others, looked>>
    PROVE  StagerTypes' /\ Running' /\ Seen' /\ RemovedIsGone'
BY ArtifactStays
   DEF SIInv, StagerTypes, Running, Seen, RemovedIsGone, names, method, others

\* Whatever is done to the directory around it, Stage stays the Stage of
\* DumpStage: every safety property of DumpStage holds of Stager.
THEOREM StagerKeepsStage == StagerSpec => Init /\ [][Next]_vars
<1>1. StagerInit => Init
  BY DEF StagerInit
<1>2. [StagerNext]_stagerVars => [Next]_vars
  BY StagerIsStage
<1>3. QED
  BY <1>1, <1>2, PTL DEF StagerSpec

\* The invariant holds in every state of Stager.
THEOREM StagerInvariant == StagerSpec => []SIInv
<1>1. SIInv /\ [StagerNext]_stagerVars => SIInv'
  <2> SUFFICES ASSUME SIInv, [StagerNext]_stagerVars PROVE SIInv'
    OBVIOUS
  <2>1. [Next]_vars /\ IInv'
    BY StagerIsStage, NextInvariant DEF SIInv
  <2>2. CASE StageOnDisk \/ Methods \/ Meddle
    BY <2>1, <2>2, StageOnDiskKeeps, MethodsKeep, MeddleKeeps DEF SIInv
  <2>3. CASE UNCHANGED <<names, recorded, method, others, looked>>
    BY <2>1, <2>3, AroundKeeps DEF SIInv
  <2>4. QED
    BY <2>2, <2>3 DEF StagerNext, stagerVars, Around
<1>2. QED
  BY StagerInitInvariant, <1>1, PTL DEF StagerSpec

-----------------------------------------------------------------------------
(* Stager: the properties *)

\* What Open returns is the file that Stage finalized, with the whole dump.
THEOREM OpenedStaged == StagerSpec => []OpenedIsStaged
<1>1. SIInv => OpenedIsStaged
  BY DEF SIInv, Running, Seen, IInv, ArtifactIsWholeDump, OpenedIsStaged
<1>2. QED
  BY StagerInvariant, <1>1, PTL

\* A Remove that succeeds leaves no name of the dump.
THEOREM RemovedGone == StagerSpec => []RemovedIsGone
BY StagerInvariant, PTL DEF SIInv

\* Remove takes away what it looked at, unless somebody changed it since.
THEOREM RemoveSpares == StagerSpec => RemoveSparesOthers
<1> DEFINE A == /\ step = "unlink" /\ step' = "verify" =>
                       entry = "staged" \/ edits # looked.file
                /\ step = "rmdir" /\ removal' = "ok" =>
                       work = "ours" \/ edits # looked.directory
<1>1. SIInv => A
  BY DEF SIInv, Seen
<1>2. QED
  BY StagerInvariant, <1>1, PTL DEF StagerSpec, RemoveSparesOthers

-----------------------------------------------------------------------------
(* The redaction of stderr.  What the matcher releases is compared with the   *)
(* replacement in every text that the input may still become: the bytes that  *)
(* are held back stand for what the replacement makes of the rest.            *)

Chars == Bytes \cup {91, 93}

\* A set of naturals has a least element: the form in which the proofs below
\* use induction, as a least counterexample.
LEMMA Least ==
  ASSUME NEW T, T \subseteq Nat, T # {}
  PROVE  \E x \in T : \A y \in T : x <= y
<1> DEFINE R == OpToRel(<, Nat)
<1>1. \A x, y \in Nat : x < y => <<x, y>> \in R
  BY DEF OpToRel
<1>2. IsWellFoundedOn(R, Nat)
  BY NatLessThanWellFounded
<1> HIDE DEF R
<1>3. PICK x \in T : \A y \in T : <<y, x>> \notin R
  BY <1>2, WFMin
<1>4. ASSUME NEW y \in T
      PROVE  x <= y
  <2>1. ~(y < x)
    BY <1>1, <1>3
  <2>2. x \in Nat /\ y \in Nat
    OBVIOUS
  <2>3. QED
    BY <2>1, <2>2
<1>5. QED
  BY <1>4

\* Of the first m elements of s, the last k are its first k.
Border(s, m, k) ==
    k \in 0 .. m /\ \A j \in 1 .. k : s[j] = s[m - k + j]

\* The borders of a border are the shorter borders.
LEMMA BordersNest ==
  ASSUME NEW s, NEW m \in Nat, NEW k, NEW j, Border(s, m, k)
  PROVE  /\ Border(s, m, j) /\ j <= k => Border(s, k, j)
         /\ Border(s, k, j) => Border(s, m, j)
<1>1. k \in 0 .. m /\ \A i \in 1 .. k : s[i] = s[m - k + i]
  BY DEF Border
<1>2. ASSUME Border(s, m, j), j <= k
      PROVE  Border(s, k, j)
  <2>1. j \in 0 .. k /\ \A i \in 1 .. j : s[i] = s[m - j + i]
    BY <1>1, <1>2 DEF Border
  <2>2. ASSUME NEW i \in 1 .. j
        PROVE  s[i] = s[k - j + i]
    <3>1. k - j + i \in 1 .. k /\ m - k + (k - j + i) = m - j + i
      BY <1>1, <2>1
    <3>2. s[k - j + i] = s[m - k + (k - j + i)]
      BY <1>1, <3>1
    <3>3. QED
      BY <2>1, <3>1, <3>2
  <2>3. QED
    BY <2>1, <2>2 DEF Border
<1>3. ASSUME Border(s, k, j)
      PROVE  Border(s, m, j)
  <2>1. j \in 0 .. k /\ \A i \in 1 .. j : s[i] = s[k - j + i]
    BY <1>3 DEF Border
  <2>2. ASSUME NEW i \in 1 .. j
        PROVE  s[i] = s[m - j + i]
    <3>1. k - j + i \in 1 .. k /\ m - k + (k - j + i) = m - j + i
      BY <1>1, <2>1
    <3>2. s[k - j + i] = s[m - k + (k - j + i)]
      BY <1>1, <3>1
    <3>3. QED
      BY <2>1, <3>1, <3>2
  <2>3. QED
    BY <1>1, <2>1, <2>2 DEF Border
<1>4. QED
  BY <1>2, <1>3

\* Border j of the prefix one longer is border j - 1 of the prefix and one byte.
LEMMA BorderGrows ==
  ASSUME NEW s, NEW i \in Nat, NEW j \in 1 .. i, Border(s, i, j), i # 0
  PROVE  Border(s, i - 1, j - 1) /\ s[j] = s[i]
<1>1. \A l \in 1 .. j : s[l] = s[i - j + l]
  BY DEF Border
<1>2. j \in 1 .. j /\ i - j + j = i
  OBVIOUS
<1>3. s[j] = s[i]
  BY <1>1, <1>2
<1>4. ASSUME NEW l \in 1 .. j - 1
      PROVE  s[l] = s[i - 1 - (j - 1) + l]
  <2>1. l \in 1 .. j /\ i - 1 - (j - 1) + l = i - j + l
    OBVIOUS
  <2>2. QED
    BY <1>1, <2>1
<1>5. j - 1 \in 0 .. i - 1
  OBVIOUS
<1>6. QED
  BY <1>3, <1>4, <1>5 DEF Border

LEMMA BorderExtends ==
  ASSUME NEW s, NEW i \in Nat, NEW k, Border(s, i, k), s[k + 1] = s[i + 1]
  PROVE  Border(s, i + 1, k + 1)
<1>1. k \in 0 .. i /\ \A l \in 1 .. k : s[l] = s[i - k + l]
  BY DEF Border
<1>2. ASSUME NEW l \in 1 .. k + 1
      PROVE  s[l] = s[i + 1 - (k + 1) + l]
  <2>1. CASE l = k + 1
    <3>1. i + 1 - (k + 1) + l = i + 1
      BY <1>1, <2>1
    <3>2. QED
      BY <2>1, <3>1
  <2>2. CASE l # k + 1
    <3>1. l \in 1 .. k /\ i + 1 - (k + 1) + l = i - k + l
      BY <1>1, <2>2
    <3>2. QED
      BY <1>1, <3>1
  <2>3. QED
    BY <2>1, <2>2
<1>3. k + 1 \in 0 .. i + 1
  BY <1>1
<1>4. QED
  BY <1>2, <1>3 DEF Border

\* r is the longest proper border of the first m bytes of s, and g the table of
\* these up to n.
Longest(s, m, r) ==
    r \in 0 .. m - 1 /\ Border(s, m, r) /\ \A j \in r + 1 .. m - 1 : ~Border(s, m, j)
TableOK(s, g, n) == \A m \in 1 .. n : Longest(s, m, g[m])

\* What falling back from m reaches: the longest border that value extends.
Reaches(s, m, value, k) ==
    /\ Border(s, m, k)
    /\ k = 0 \/ s[k + 1] = value
    /\ \A j \in k + 1 .. m : Border(s, m, j) => s[j + 1] # value

LEMMA ReachesOne ==
  ASSUME NEW s, NEW m \in Nat, NEW value, NEW k, NEW l,
         Reaches(s, m, value, k), Reaches(s, m, value, l)
  PROVE  k = l
<1>1. k \in 0 .. m /\ l \in 0 .. m
  BY DEF Reaches, Border
<1>2. ~(k < l)
  BY <1>1 DEF Reaches
<1>3. ~(l < k)
  BY <1>1 DEF Reaches
<1>4. QED
  BY <1>1, <1>2, <1>3

\* The function that Fall picks.
Falls(f, s, g, n, value) ==
    f = [m \in 0 .. n |-> IF m > 0 /\ s[m + 1] # value THEN f[g[m]] ELSE m]

\* The recursion of Fall goes to smaller matches, so it defines a function.
LEMMA FallsExists ==
  ASSUME NEW s, NEW g, NEW top \in Nat, TableOK(s, g, top), NEW value
  PROVE  \E f : Falls(f, s, g, top, value)
<1> DEFINE T == {n \in 0 .. top : ~\E f : Falls(f, s, g, n, value)}
<1> SUFFICES ASSUME T # {}
             PROVE  FALSE
  OBVIOUS
<1>2. T \subseteq Nat
  OBVIOUS
<1>3. PICK n \in T : \A k \in T : n <= k
  <2> HIDE DEF T
  <2>1. QED
    BY <1>2, Least
<1>4. n \in 0 .. top /\ ~\E f : Falls(f, s, g, n, value)
  OBVIOUS
<1>5. CASE n = 0
  <2> DEFINE f == [m \in 0 .. 0 |-> m]
  <2>1. Falls(f, s, g, 0, value)
    BY DEF Falls
  <2>2. QED
    BY <1>4, <1>5, <2>1
<1>6. CASE n > 0
  <2>1. n - 1 \in 0 .. top /\ n - 1 \notin T
    BY <1>3, <1>4, <1>6
  <2>2. PICK f : Falls(f, s, g, n - 1, value)
    BY <2>1
  <2> DEFINE h == [m \in 0 .. n |-> IF m > 0 /\ s[m + 1] # value THEN f[g[m]] ELSE m]
  <2>3. \A k \in 0 .. n - 1 : h[k] = f[k]
    <3>1. \A k \in 0 .. n - 1 :
             f[k] = IF k > 0 /\ s[k + 1] # value THEN f[g[k]] ELSE k
      BY <2>2 DEF Falls
    <3>2. \A k \in 0 .. n :
             h[k] = IF k > 0 /\ s[k + 1] # value THEN f[g[k]] ELSE k
      OBVIOUS
    <3> HIDE DEF h
    <3>3. 0 .. n - 1 \subseteq 0 .. n
      BY <1>4
    <3>4. QED
      BY <3>1, <3>2, <3>3
  <2>4. ASSUME NEW m \in 0 .. n, m > 0
        PROVE  h[g[m]] = f[g[m]]
    <3> HIDE DEF h
    <3>1. m \in 1 .. top
      BY <1>4, <2>4
    <3>2. g[m] \in 0 .. m - 1
      BY <3>1 DEF TableOK, Longest
    <3>3. 0 .. m - 1 \subseteq 0 .. n - 1
      BY <1>4
    <3>4. QED
      BY <2>3, <3>2, <3>3
  <2>5. Falls(h, s, g, n, value)
    <3>1. h = [m \in 0 .. n |-> IF m > 0 /\ s[m + 1] # value THEN h[g[m]] ELSE m]
      BY <2>4
    <3> HIDE DEF h
    <3>2. QED
      BY <3>1 DEF Falls
  <2>6. QED
    BY <1>4, <2>5
<1>7. QED
  BY <1>4, <1>5, <1>6

\* Falling back along the table misses no border that value extends.
LEMMA FallReaches ==
  ASSUME NEW s, NEW g, NEW top \in Nat, TableOK(s, g, top), NEW value
  PROVE  Reaches(s, top, value, Fall(s, g, top, value))
<1> DEFINE f == CHOOSE f : Falls(f, s, g, top, value)
<1>2. Falls(f, s, g, top, value)
  BY FallsExists
<1>3. Fall(s, g, top, value) = f[top]
  BY DEF Fall, Falls
<1> HIDE DEF f
<1>4. \A m \in 0 .. top : f[m] = IF m > 0 /\ s[m + 1] # value THEN f[g[m]] ELSE m
  BY <1>2 DEF Falls
<1> DEFINE T == {m \in 0 .. top : ~Reaches(s, m, value, f[m])}
<1>5. T = {}
  <2> SUFFICES ASSUME T # {}
               PROVE  FALSE
    OBVIOUS
  <2>1. T \subseteq Nat
    OBVIOUS
  <2>2. PICK m \in T : \A k \in T : m <= k
    <3> HIDE DEF T
    <3>1. QED
      BY <2>1, Least
  <2>3. m \in 0 .. top /\ ~Reaches(s, m, value, f[m])
    OBVIOUS
  <2>4. CASE m > 0 /\ s[m + 1] # value
    <3> DEFINE k == g[m]
    <3>1. /\ k \in 0 .. m - 1 /\ Border(s, m, k)
          /\ \A j \in k + 1 .. m - 1 : ~Border(s, m, j)
      <4>1. m \in 1 .. top
        BY <2>3, <2>4
      <4>2. QED
        BY <4>1 DEF TableOK, Longest
    <3>2. f[m] = f[k]
      BY <1>4, <2>3, <2>4
    <3>3. Reaches(s, k, value, f[k])
      BY <2>2, <2>3, <3>1
    <3> HIDE DEF k
    <3>4. Border(s, m, f[k])
      BY <2>3, <3>1, <3>3, BordersNest DEF Reaches
    <3>5. ASSUME NEW j \in f[k] + 1 .. m, Border(s, m, j)
          PROVE  s[j + 1] # value
      <4>1. CASE j = m
        BY <2>4, <4>1
      <4>2. CASE j # m
        <5>1. f[k] \in 0 .. k
          BY <3>3 DEF Reaches, Border
        <5>2. j \in f[k] + 1 .. k
          BY <2>3, <3>1, <3>5, <4>2, <5>1
        <5>3. Border(s, k, j)
          BY <2>3, <3>1, <3>5, <5>2, BordersNest
        <5>4. QED
          BY <3>3, <5>2, <5>3 DEF Reaches
      <4>3. QED
        BY <4>1, <4>2
    <3>6. QED
      BY <2>3, <3>2, <3>3, <3>4, <3>5 DEF Reaches
  <2>5. CASE ~(m > 0 /\ s[m + 1] # value)
    <3>1. f[m] = m
      BY <1>4, <2>3, <2>5
    <3>2. Reaches(s, m, value, m)
      BY <2>3, <2>5 DEF Reaches, Border
    <3>3. QED
      BY <2>3, <3>1, <3>2
  <2>6. QED
    BY <2>4, <2>5
<1>6. QED
  BY <1>3, <1>5

\* One entry of prefixFailureTable, and the function it picks.
Row(s, g, i) ==
    IF i = 1 THEN 0
    ELSE LET m == Fall(s, g, g[i - 1], s[i])
         IN  IF s[m + 1] = s[i] THEN m + 1 ELSE m
Table(g, s, n) == g = [i \in 1 .. n |-> Row(s, g, i)]

\* The longest border grows by one, from the longest border of a border that it
\* can grow from.
LEMMA NextRow ==
  ASSUME NEW s, NEW g, NEW i \in Nat \ {0}, TableOK(s, g, i - 1)
  PROVE  Longest(s, i, Row(s, g, i))
<1>1. CASE i = 1
  BY <1>1 DEF Row, Longest, Border
<1>2. CASE i # 1
  <2> DEFINE l == g[i - 1]
             k == Fall(s, g, l, s[i])
  <2>1. Longest(s, i - 1, l)
    <3>1. i - 1 \in 1 .. i - 1
      BY <1>2
    <3>2. QED
      BY <3>1 DEF TableOK
  <2>2. l \in 0 .. i - 2 /\ Border(s, i - 1, l)
    BY <1>2, <2>1 DEF Longest
  <2>3. TableOK(s, g, l)
    <3> HIDE DEF l
    <3>1. 1 .. l \subseteq 1 .. i - 1
      BY <2>2
    <3>2. QED
      BY <3>1 DEF TableOK
  <2>4. Reaches(s, l, s[i], k)
    BY <2>2, <2>3, FallReaches
  <2>5. Row(s, g, i) = IF s[k + 1] = s[i] THEN k + 1 ELSE k
    BY <1>2 DEF Row
  <2> HIDE DEF k, l
  <2>6. k \in 0 .. l /\ Border(s, l, k)
    BY <2>4 DEF Reaches, Border
  <2>7. Border(s, i - 1, k)
    BY <1>2, <2>2, <2>6, BordersNest
  <2>8. ASSUME NEW j \in k + 1 .. i - 1, Border(s, i, j)
        PROVE  j = k + 1 /\ s[k + 1] = s[i]
    <3>1. j \in 1 .. i /\ j - 1 \in 0 .. i - 2 /\ i - 1 \in Nat
      BY <1>2, <2>2, <2>6, <2>8
    <3>2. Border(s, i - 1, j - 1) /\ s[j] = s[i]
      BY <2>8, <3>1, BorderGrows
    <3>3. j - 1 <= l
      <4>1. ~(j - 1 \in l + 1 .. i - 1 - 1)
        BY <2>1, <3>2 DEF Longest
      <4>2. QED
        BY <1>2, <2>2, <3>1, <4>1
    <3>4. Border(s, l, j - 1)
      BY <2>2, <3>1, <3>2, <3>3, BordersNest
    <3>5. ~(j - 1 \in k + 1 .. l)
      <4>1. j - 1 + 1 = j
        BY <3>1
      <4>2. QED
        BY <2>4, <3>2, <3>4, <4>1 DEF Reaches
    <3>6. j = k + 1
      BY <2>2, <2>6, <2>8, <3>1, <3>3, <3>5
    <3>7. QED
      BY <3>2, <3>6
  <2>9. CASE s[k + 1] = s[i]
    <3>1. k + 1 \in 0 .. i - 1
      BY <2>2, <2>6
    <3>2. Border(s, i, k + 1)
      <4>1. i - 1 \in Nat /\ i - 1 + 1 = i
        OBVIOUS
      <4>2. QED
        BY <2>7, <2>9, <4>1, BorderExtends
    <3>3. ASSUME NEW j \in k + 1 + 1 .. i - 1
          PROVE  ~Border(s, i, j)
      <4>1. j \in k + 1 .. i - 1 /\ j # k + 1
        BY <2>2, <2>6
      <4>2. QED
        BY <2>8, <4>1
    <3>4. QED
      BY <2>5, <2>9, <3>1, <3>2, <3>3 DEF Longest
  <2>10. CASE s[k + 1] # s[i]
    <3>1. k = 0
      BY <2>4, <2>10 DEF Reaches
    <3>2. 0 \in 0 .. i - 1 /\ Border(s, i, 0)
      BY DEF Border
    <3>3. \A j \in 0 + 1 .. i - 1 : ~Border(s, i, j)
      BY <2>8, <2>10, <3>1
    <3>4. QED
      BY <2>5, <2>10, <3>1, <3>2, <3>3 DEF Longest
  <2>11. QED
    BY <2>9, <2>10
<1>3. QED
  BY <1>1, <1>2

LEMMA TableRight ==
  ASSUME NEW s, NEW g, NEW n \in Nat, Table(g, s, n)
  PROVE  TableOK(s, g, n)
<1> DEFINE T == {i \in 1 .. n : ~Longest(s, i, g[i])}
<1>1. \A i \in 1 .. n : g[i] = Row(s, g, i)
  BY DEF Table
<1>2. ASSUME T # {}
      PROVE  FALSE
  <2>1. T \subseteq Nat
    OBVIOUS
  <2>2. PICK i \in T : \A j \in T : i <= j
    <3> HIDE DEF T
    <3>1. QED
      BY <1>2, <2>1, Least
  <2>3. i \in 1 .. n /\ ~Longest(s, i, g[i])
    OBVIOUS
  <2>4. TableOK(s, g, i - 1)
    <3>1. ASSUME NEW j \in 1 .. i - 1
          PROVE  Longest(s, j, g[j])
      <4>1. j \in 1 .. n /\ ~(i <= j)
        BY <2>3
      <4>2. QED
        BY <2>2, <4>1
    <3>2. QED
      BY <3>1 DEF TableOK
  <2>5. QED
    BY <1>1, <2>3, <2>4, NextRow
<1>3. QED
  BY <1>2 DEF TableOK

\* The recursion of prefixFailureTable goes to shorter prefixes, so it defines a
\* function.
LEMMA TableExists ==
  ASSUME NEW s, NEW top \in Nat
  PROVE  \E g : Table(g, s, top)
<1> DEFINE T == {n \in 0 .. top : ~\E g : Table(g, s, n)}
<1> SUFFICES ASSUME T # {}
             PROVE  FALSE
  OBVIOUS
<1>1. T \subseteq Nat
  OBVIOUS
<1>2. PICK n \in T : \A k \in T : n <= k
  <2> HIDE DEF T
  <2>1. QED
    BY <1>1, Least
<1>3. n \in 0 .. top /\ ~\E g : Table(g, s, n)
  OBVIOUS
<1>4. CASE n = 0
  <2> DEFINE g == [i \in 1 .. 0 |-> 0]
  <2>1. Table(g, s, 0)
    BY DEF Table
  <2>2. QED
    BY <1>3, <1>4, <2>1
<1>5. CASE n > 0
  <2>1. n - 1 \in 0 .. top /\ n - 1 \notin T
    BY <1>2, <1>3, <1>5
  <2>2. PICK g : Table(g, s, n - 1)
    BY <2>1
  <2>3. TableOK(s, g, n - 1)
    BY <1>3, <1>5, <2>2, TableRight
  <2> DEFINE h == [i \in 1 .. n |-> Row(s, g, i)]
  <2>4. h = [i \in 1 .. n |-> Row(s, g, i)]
    OBVIOUS
  <2>5. \A i \in 1 .. n - 1 : h[i] = g[i]
    <3>1. \A i \in 1 .. n - 1 : g[i] = Row(s, g, i)
      BY <2>2 DEF Table
    <3>2. \A i \in 1 .. n : h[i] = Row(s, g, i)
      OBVIOUS
    <3> HIDE DEF h
    <3>3. 1 .. n - 1 \subseteq 1 .. n
      BY <1>3
    <3>4. QED
      BY <3>1, <3>2, <3>3
  <2> HIDE DEF h
  <2>6. ASSUME NEW i \in 1 .. n
        PROVE  Row(s, h, i) = Row(s, g, i)
    <3>1. CASE i = 1
      BY <3>1 DEF Row
    <3>2. CASE i # 1
      <4>1. i - 1 \in 1 .. n - 1
        BY <3>2
      <4>2. h[i - 1] = g[i - 1]
        BY <2>5, <4>1
      <4> DEFINE l == g[i - 1]
      <4>3. l \in 0 .. i - 2
        <5>1. Longest(s, i - 1, l)
          BY <2>3, <4>1 DEF TableOK
        <5>2. QED
          BY <3>2, <5>1 DEF Longest
      <4>4. TableOK(s, g, l) /\ TableOK(s, h, l)
        <5> HIDE DEF l
        <5>1. 1 .. l \subseteq 1 .. n - 1
          BY <4>3
        <5>2. QED
          BY <2>3, <2>5, <5>1 DEF TableOK
      <4> HIDE DEF l
      <4>5. l \in Nat
        BY <3>2, <4>3
      <4>6. Fall(s, h, l, s[i]) = Fall(s, g, l, s[i])
        <5>1. Reaches(s, l, s[i], Fall(s, h, l, s[i]))
          BY <4>4, <4>5, FallReaches
        <5>2. Reaches(s, l, s[i], Fall(s, g, l, s[i]))
          BY <4>4, <4>5, FallReaches
        <5>3. QED
          BY <4>5, <5>1, <5>2, ReachesOne
      <4>7. QED
        BY <4>2, <4>6 DEF Row, l
    <3>3. QED
      BY <3>1, <3>2
  <2>7. h = [i \in 1 .. n |-> Row(s, h, i)]
    BY <2>4, <2>6
  <2>8. Table(h, s, n)
    BY <2>7 DEF Table
  <2>9. QED
    BY <1>3, <2>8
<1>6. QED
  BY <1>3, <1>4, <1>5

\* For any password, prefixFailureTable computes the longest proper border of each
\* of its prefixes: its loops over bytes and shorter matches miss none.
THEOREM FailureTable ==
  ASSUME NEW s \in Seq(Bytes)
  PROVE  TableOK(s, prefixFailureTable(s), Len(s))
<1> DEFINE g == CHOOSE g : Table(g, s, Len(s))
<1>1. Len(s) \in Nat
  OBVIOUS
<1>2. Table(g, s, Len(s))
  BY <1>1, TableExists
<1>3. prefixFailureTable(s) = g
  BY DEF prefixFailureTable, Table, Row
<1> HIDE DEF g
<1>4. QED
  BY <1>1, <1>2, <1>3, TableRight

LEMMA FallbackReaches ==
  ASSUME secret \in Seq(Bytes), matched \in 0 .. Len(secret), NEW value
  PROVE  Reaches(secret, matched, value, Fallback(value))
<1> DEFINE g == prefixFailureTable(secret)
<1>1. TableOK(secret, g, Len(secret))
  BY FailureTable
<1>2. Len(secret) \in Nat /\ matched \in Nat /\ 1 .. matched \subseteq 1 .. Len(secret)
  OBVIOUS
<1> HIDE DEF g
<1>3. TableOK(secret, g, matched)
  BY <1>1, <1>2 DEF TableOK
<1>4. Reaches(secret, matched, value, Fall(secret, g, matched, value))
  BY <1>2, <1>3, FallReaches
<1>5. QED
  BY <1>4 DEF Fallback, g

\* The function that Redacted picks, on the positions from lo.
Entry(g, t, i) ==
    IF i = Len(t) + 1 THEN <<>>
    ELSE IF secret = <<>> THEN SubSeq(t, i, Len(t))
    ELSE IF IsPrefix(secret, SubSeq(t, i, Len(t))) THEN Marker \o g[i + Len(secret)]
    ELSE IF IsPrefix(SubSeq(t, i, Len(t)), secret) THEN Marker
    ELSE <<t[i]>> \o g[i + 1]

Rec(g, t, lo) == g = [i \in lo .. Len(t) + 1 |-> Entry(g, t, i)]

\* The secret begins at i, and the text ends inside the secret begun at i.
Hit(t, i) ==
    i + Len(secret) - 1 <= Len(t) /\ \A j \in 1 .. Len(secret) : t[i + j - 1] = secret[j]
Cutoff(t, i) ==
    Len(t) - i + 1 <= Len(secret)
    /\ \A j \in 1 .. Len(t) - i + 1 : t[i + j - 1] = secret[j]

\* The two prefix tests of the reference, element by element.
LEMMA PrefixIs ==
  ASSUME secret \in Seq(Bytes), NEW t \in Seq(Bytes), NEW i \in 1 .. Len(t)
  PROVE  /\ IsPrefix(secret, SubSeq(t, i, Len(t))) <=> Hit(t, i)
         /\ IsPrefix(SubSeq(t, i, Len(t)), secret) <=> Cutoff(t, i)
<1> DEFINE n == Len(t)
           L == Len(secret)
           r == SubSeq(t, i, n)
<1>1. n \in Nat /\ L \in Nat /\ i \in Nat /\ i <= n
  OBVIOUS
<1>2. \A j \in i .. n : t[j] \in Bytes
  OBVIOUS
<1>3. /\ r \in Seq(Bytes) /\ Len(r) = n - i + 1
      /\ \A j \in 1 .. n - i + 1 : r[j] = t[i + j - 1]
  BY <1>1, <1>2, SubSeqProperties
<1> HIDE DEF r
<1>4. ASSUME NEW a \in Seq(Bytes), NEW b \in Seq(Bytes)
      PROVE  IsPrefix(a, b) <=> Len(a) <= Len(b) /\ \A j \in 1 .. Len(a) : b[j] = a[j]
  <2>1. Len(a) \in Nat /\ Len(b) \in Nat
    OBVIOUS
  <2>2. SubSeq(a, 1, Len(a)) = a
    OBVIOUS
  <2>3. ASSUME Len(a) <= Len(b)
        PROVE  SubSeq(b, 1, Len(a)) = a <=> \A j \in 1 .. Len(a) : b[j] = a[j]
    <3> DEFINE c == SubSeq(b, 1, Len(a))
    <3>1. /\ c \in Seq(Bytes) /\ Len(c) = Len(a)
          /\ \A j \in 1 .. Len(a) : c[j] = b[j]
      BY <2>1, <2>3
    <3> HIDE DEF c
    <3>2. (\A j \in 1 .. Len(a) : c[j] = a[j]) => c = a
      BY <3>1, SeqEqual
    <3>3. c = a <=> \A j \in 1 .. Len(a) : b[j] = a[j]
      BY <3>1, <3>2
    <3>4. QED
      BY <3>3 DEF c
  <2>4. QED
    BY <2>2, <2>3 DEF IsPrefix
<1>5. IsPrefix(secret, r) <=> L <= n - i + 1 /\ \A j \in 1 .. L : r[j] = secret[j]
  BY <1>3, <1>4
<1>6. IsPrefix(r, secret) <=> n - i + 1 <= L /\ \A j \in 1 .. n - i + 1 : secret[j] = r[j]
  BY <1>3, <1>4
<1>7. IsPrefix(secret, r) <=> Hit(t, i)
  BY <1>1, <1>3, <1>5 DEF Hit
<1>8. IsPrefix(r, secret) <=> Cutoff(t, i)
  BY <1>1, <1>3, <1>6 DEF Cutoff
<1>9. QED
  BY <1>7, <1>8 DEF r

\* The recursion of the reference goes to later positions, so it defines a
\* function.
LEMMA RecExists ==
  ASSUME secret \in Seq(Bytes), NEW t \in Seq(Bytes)
  PROVE  \E g : Rec(g, t, 1)
<1> DEFINE n == Len(t)
           T == {k \in 0 .. n : ~\E g : Rec(g, t, n + 1 - k)}
<1>1. n \in Nat /\ Len(secret) \in Nat
  OBVIOUS
<1>2. ASSUME T = {}
      PROVE  \E g : Rec(g, t, 1)
  <2>1. n \in 0 .. n /\ n + 1 - n = 1
    BY <1>1
  <2>2. QED
    BY <1>2, <2>1
<1>3. ASSUME T # {}
      PROVE  FALSE
  <2>1. T \subseteq Nat
    BY <1>1
  <2>2. PICK k \in T : \A y \in T : k <= y
    <3> HIDE DEF T
    <3>1. QED
      BY <1>3, <2>1, Least
  <2>3. k \in 0 .. n /\ ~\E g : Rec(g, t, n + 1 - k)
    OBVIOUS
  <2>4. CASE k = 0
    <3> DEFINE g == [i \in n + 1 .. n + 1 |-> <<>>]
    <3>1. \A i \in n + 1 .. n + 1 : Entry(g, t, i) = <<>>
      BY <1>1 DEF Entry
    <3>2. g = [i \in n + 1 .. n + 1 |-> Entry(g, t, i)]
      BY <3>1
    <3> HIDE DEF g
    <3>3. Rec(g, t, n + 1 - 0)
      BY <1>1, <3>2 DEF Rec
    <3>4. QED
      BY <2>3, <2>4, <3>3
  <2>5. CASE k > 0
    <3> DEFINE lo == n + 1 - k
    <3>1. k - 1 \in 0 .. n /\ k - 1 \notin T /\ n + 1 - (k - 1) = lo + 1
      BY <1>1, <2>2, <2>3, <2>5
    <3>2. PICK g : Rec(g, t, lo + 1)
      BY <3>1
    <3> DEFINE h == [i \in lo .. n + 1 |-> Entry(g, t, i)]
    <3>3. lo \in 1 .. n
      BY <1>1, <2>3, <2>5
    <3>4. \A i \in lo .. n + 1 : h[i] = Entry(g, t, i)
      OBVIOUS
    <3>5. \A i \in lo + 1 .. n + 1 : g[i] = Entry(g, t, i)
      BY <3>2 DEF Rec
    <3>6. h = [i \in lo .. n + 1 |-> Entry(g, t, i)]
      OBVIOUS
    <3> HIDE DEF h
    <3>7. \A i \in lo + 1 .. n + 1 : h[i] = g[i]
      BY <3>3, <3>4, <3>5, <1>1
    <3>8. ASSUME NEW i \in lo .. n + 1
          PROVE  Entry(h, t, i) = Entry(g, t, i)
      <4>1. CASE i = n + 1
        BY <4>1 DEF Entry
      <4>2. CASE secret = <<>>
        BY <4>2 DEF Entry
      <4>3. CASE i # n + 1 /\ secret # <<>>
        <5>1. i \in 1 .. n /\ i + 1 \in lo + 1 .. n + 1
          BY <1>1, <3>3, <4>3
        <5>2. Len(secret) > 0
          BY <4>3, <1>1
        <5>3. Hit(t, i) => i + Len(secret) \in lo + 1 .. n + 1
          BY <1>1, <3>3, <5>1, <5>2 DEF Hit
        <5>4. IsPrefix(secret, SubSeq(t, i, n)) <=> Hit(t, i)
          BY <5>1, PrefixIs
        <5>5. /\ h[i + 1] = g[i + 1]
              /\ IsPrefix(secret, SubSeq(t, i, n)) => h[i + Len(secret)] = g[i + Len(secret)]
          BY <3>7, <5>1, <5>3, <5>4
        <5>6. QED
          BY <4>3, <5>5 DEF Entry
      <4>4. QED
        BY <4>1, <4>2, <4>3
    <3>9. h = [i \in lo .. n + 1 |-> Entry(h, t, i)]
      BY <3>6, <3>8
    <3>10. Rec(h, t, lo)
      BY <3>9 DEF Rec
    <3>11. QED
      BY <2>3, <3>10
  <2>6. QED
    BY <1>1, <2>3, <2>4, <2>5
<1>4. QED
  BY <1>2, <1>3

Chosen(t) == CHOOSE g : Rec(g, t, 1)

\* The reference at each position of a text.
LEMMA RedactedIs ==
  ASSUME secret \in Seq(Bytes), NEW t \in Seq(Bytes)
  PROVE  /\ Redacted(t)[Len(t) + 1] = <<>>
         /\ \A i \in 1 .. Len(t) :
               Redacted(t)[i] =
                 IF secret = <<>> THEN SubSeq(t, i, Len(t))
                 ELSE IF Hit(t, i) THEN Marker \o Redacted(t)[i + Len(secret)]
                 ELSE IF Cutoff(t, i) THEN Marker
                 ELSE <<t[i]>> \o Redacted(t)[i + 1]
<1>1. Redacted(t) = Chosen(t)
  BY DEF Redacted, Chosen, Rec, Entry
<1>2. Rec(Chosen(t), t, 1)
  BY RecExists DEF Chosen
<1>3. Len(t) \in Nat
  OBVIOUS
<1> DEFINE r == Redacted(t)
<1>4. \A i \in 1 .. Len(t) + 1 : r[i] = Entry(r, t, i)
  BY <1>1, <1>2 DEF Rec
<1> HIDE DEF r
<1>5. r[Len(t) + 1] = <<>>
  <2>1. Len(t) + 1 \in 1 .. Len(t) + 1
    BY <1>3
  <2>2. r[Len(t) + 1] = Entry(r, t, Len(t) + 1)
    BY <1>4, <2>1
  <2>3. QED
    BY <2>2 DEF Entry
<1>6. ASSUME NEW i \in 1 .. Len(t)
      PROVE  r[i] = IF secret = <<>> THEN SubSeq(t, i, Len(t))
                    ELSE IF Hit(t, i) THEN Marker \o r[i + Len(secret)]
                    ELSE IF Cutoff(t, i) THEN Marker
                    ELSE <<t[i]>> \o r[i + 1]
  <2>1. i \in 1 .. Len(t) + 1 /\ i # Len(t) + 1
    BY <1>3
  <2>2. r[i] = Entry(r, t, i)
    BY <1>4, <2>1
  <2>3. QED
    BY <2>1, <2>2, PrefixIs DEF Entry
<1>7. QED
  BY <1>5, <1>6 DEF r


LEMMA MarkerType == Marker \in Seq(Chars)
  BY DEF Marker, Chars

LEMMA BytesAreChars == ASSUME NEW p \in Seq(Bytes) PROVE p \in Seq(Chars)
  BY DEF Chars

LEMMA RedactedType ==
  ASSUME secret \in Seq(Bytes), NEW t \in Seq(Bytes)
  PROVE  \A i \in 1 .. Len(t) + 1 : Redacted(t)[i] \in Seq(Chars)
<1> DEFINE n == Len(t)
           L == Len(secret)
           r == Redacted(t)
           T == {k \in 0 .. n : r[n + 1 - k] \notin Seq(Chars)}
<1>1. n \in Nat /\ L \in Nat
  OBVIOUS
<1>2. ASSUME T # {}
      PROVE  FALSE
  <2>1. T \subseteq Nat
    BY <1>1
  <2>2. PICK k \in T : \A y \in T : k <= y
    <3> HIDE DEF T
    <3>1. QED
      BY <1>2, <2>1, Least
  <2>3. k \in 0 .. n /\ r[n + 1 - k] \notin Seq(Chars)
    OBVIOUS
  <2> DEFINE i == n + 1 - k
  <2>4. k # 0
    <3> SUFFICES ASSUME k = 0
                 PROVE  FALSE
      OBVIOUS
    <3>1. r[n + 1] = <<>>
      BY RedactedIs
    <3>2. n + 1 - k = n + 1
      BY <1>1
    <3>3. <<>> \in Seq(Chars)
      OBVIOUS
    <3> HIDE DEF r
    <3>4. r[n + 1 - k] = <<>>
      BY <3>1, <3>2
    <3>5. QED
      BY <2>3, <3>3, <3>4
  <2>5. i \in 1 .. n
    BY <1>1, <2>3, <2>4
  <2>6. ASSUME NEW j \in i + 1 .. n + 1
        PROVE  r[j] \in Seq(Chars)
    <3>1. n + 1 - j \in 0 .. n /\ n + 1 - j < k /\ n + 1 - (n + 1 - j) = j
      BY <1>1, <2>3, <2>4, <2>5
    <3>2. n + 1 - j \notin T
      <4> HIDE DEF T
      <4>1. n + 1 - j \in Int /\ k \in Int
        BY <3>1, <2>3, <1>1
      <4>2. QED
        BY <2>2, <3>1, <4>1
    <3>3. QED
      BY <3>1, <3>2
  <2> HIDE DEF T, r
  <2>7. r[i] = IF secret = <<>> THEN SubSeq(t, i, n)
               ELSE IF Hit(t, i) THEN Marker \o r[i + L]
               ELSE IF Cutoff(t, i) THEN Marker
               ELSE <<t[i]>> \o r[i + 1]
    BY <2>5, RedactedIs DEF r
  <2> HIDE DEF i
  <2>8. CASE secret = <<>>
    <3>1. SubSeq(t, i, n) \in Seq(Bytes)
      BY <2>5
    <3>2. QED
      BY <2>3, <2>7, <2>8, <3>1, BytesAreChars DEF i
  <2>9. CASE secret # <<>> /\ Hit(t, i)
    <3>1. L > 0
      BY <2>9
    <3>2. i + L \in i + 1 .. n + 1
      BY <1>1, <2>5, <2>9, <3>1 DEF Hit
    <3>3. r[i + L] \in Seq(Chars)
      BY <2>6, <3>2
    <3>4. Marker \o r[i + L] \in Seq(Chars)
      BY <3>3, MarkerType, ConcatProperties
    <3>5. QED
      BY <2>3, <2>7, <2>9, <3>4 DEF i
  <2>10. CASE secret # <<>> /\ ~Hit(t, i) /\ Cutoff(t, i)
    BY <2>3, <2>7, <2>10, MarkerType DEF i
  <2>11. CASE secret # <<>> /\ ~Hit(t, i) /\ ~Cutoff(t, i)
    <3>1. r[i + 1] \in Seq(Chars)
      BY <1>1, <2>5, <2>6
    <3>2. <<t[i]>> \in Seq(Chars)
      BY <2>5 DEF Chars
    <3>3. <<t[i]>> \o r[i + 1] \in Seq(Chars)
      BY <3>1, <3>2, ConcatProperties
    <3>4. QED
      BY <2>3, <2>7, <2>11, <3>3 DEF i
  <2>12. QED
    BY <2>8, <2>9, <2>10, <2>11
<1>3. ASSUME NEW i \in 1 .. n + 1
      PROVE  r[i] \in Seq(Chars)
  <2>1. n + 1 - i \in 0 .. n /\ n + 1 - (n + 1 - i) = i
    BY <1>1
  <2>2. QED
    BY <1>2, <2>1
<1>4. QED
  BY <1>3

\* The input with the value that is written next, and what may follow.
Continues(t, u, value) ==
    /\ t \in Seq(Bytes) /\ u \in Seq(Bytes) /\ value \in Bytes
    /\ Len(u) < Len(t) /\ t[Len(u) + 1] = value
    /\ \A i \in 1 .. Len(u) : t[i] = u[i]

\* The last m bytes of u are the first m of the secret.
EndsIn(u, m) == m \in 0 .. Len(u) /\ \A j \in 1 .. m : u[Len(u) - m + j] = secret[j]

\* Where the match is given up, the reference finds neither the secret nor the
\* end of the text inside it, and copies one byte.
LEMMA NoMatchEarlier ==
  ASSUME secret \in Seq(Bytes), NEW u, NEW t, NEW value, Continues(t, u, value),
         NEW m \in 0 .. Len(secret) - 1, EndsIn(u, m),
         NEW k, Reaches(secret, m, value, k), NEW d \in 0 .. m - k - 1
  PROVE  Redacted(t)[Len(u) - m + 1 + d]
            = <<secret[1 + d]>> \o Redacted(t)[Len(u) - m + 2 + d]
<1> DEFINE i == Len(u) - m + 1 + d
           h == m - d
           L == Len(secret)
<1>1. L \in Nat /\ Len(u) \in Nat /\ Len(t) \in Nat
  BY DEF Continues
<1>2. k \in 0 .. m /\ m \in 0 .. Len(u) /\ d >= 0 /\ d < m - k /\ m < L
  BY <1>1 DEF Reaches, Border, EndsIn
<1>3. h \in k + 1 .. m /\ i \in 1 .. Len(u) /\ i + h = Len(u) + 1 /\ h < L
  BY <1>1, <1>2
<1>4. i \in 1 .. Len(t) /\ h + 1 <= Len(t) - i + 1
  BY <1>1, <1>3 DEF Continues
<1>5. ASSUME NEW j \in 1 .. h
      PROVE  t[i + j - 1] = secret[d + j]
  <2>1. i + j - 1 \in 1 .. Len(u) /\ i + j - 1 = Len(u) - m + (d + j) /\ d + j \in 1 .. m
    BY <1>1, <1>2, <1>3
  <2>2. QED
    BY <2>1 DEF Continues, EndsIn
<1>6. t[i + (h + 1) - 1] = value
  <2>1. i + (h + 1) - 1 = Len(u) + 1
    BY <1>1, <1>2
  <2> HIDE DEF i, h
  <2>2. QED
    BY <2>1 DEF Continues
<1>7. ASSUME \A j \in 1 .. h + 1 : t[i + j - 1] = secret[j]
      PROVE  FALSE
  <2>0. h + 1 \in 1 .. h + 1
    BY <1>2
  <2>1. secret[h + 1] = value
    <3> HIDE DEF h, i
    <3>1. QED
      BY <1>6, <1>7, <2>0
  <2>2. ASSUME NEW j \in 1 .. h
        PROVE  secret[j] = secret[m - h + j]
    <3>1. d + j = m - h + j /\ j \in 1 .. h + 1
      BY <1>2, <1>3
    <3>2. QED
      BY <1>5, <1>7, <3>1
  <2>3. Border(secret, m, h)
    BY <1>2, <1>3, <2>2 DEF Border
  <2>4. QED
    BY <1>3, <2>1, <2>3 DEF Reaches
<1>8. /\ 1 .. h + 1 \subseteq 1 .. Len(secret)
      /\ 1 .. h + 1 \subseteq 1 .. Len(t) - i + 1
  <2> HIDE DEF h, i
  <2>1. QED
    BY <1>1, <1>3, <1>4
<1>9. ~Hit(t, i) /\ ~Cutoff(t, i)
  <2> HIDE DEF h, i
  <2>1. QED
    BY <1>7, <1>8 DEF Hit, Cutoff
<1> HIDE DEF h
<1>10. secret # <<>>
  BY <1>1, <1>3
<1>11. t[i] = secret[1 + d]
  <2>1. 1 \in 1 .. h /\ i + 1 - 1 = i /\ d + 1 = 1 + d
    BY <1>2, <1>3
  <2>2. QED
    BY <1>5, <2>1
<1>12. t \in Seq(Bytes) /\ i + 1 = Len(u) - m + 2 + d
  BY <1>1, <1>2 DEF Continues
<1> HIDE DEF i
<1>13. Redacted(t)[i] = <<t[i]>> \o Redacted(t)[i + 1]
  BY <1>4, <1>9, <1>10, <1>12, RedactedIs
<1>14. QED
  BY <1>11, <1>12, <1>13 DEF i

LEMMA Joins ==
  ASSUME NEW a \in Seq(Chars), NEW b \in Seq(Chars), NEW c \in Seq(Chars)
  PROVE  a \o (b \o c) = (a \o b) \o c
  BY SMT

LEMMA OneMore ==
  ASSUME NEW a \in Seq(Bytes), NEW d \in 1 .. Len(a)
  PROVE  SubSeq(a, 1, d - 1) \o <<a[d]>> = SubSeq(a, 1, d)
<1>1. 1 \in 1 .. Len(a) /\ d \in 1 .. Len(a)
  OBVIOUS
<1>2. QED
  BY <1>1, SubSeqRecursiveSecond

Releases(t, u, m, k) ==
    Redacted(t)[Len(u) - m + 1]
        = SubSeq(secret, 1, m - k) \o Redacted(t)[Len(u) - k + 1]

\* So the bytes that a fallback from m to k releases are what the reference makes
\* of the m - k positions.
LEMMA ReleasedIsRedacted ==
  ASSUME secret \in Seq(Bytes), NEW u, NEW t, NEW value, Continues(t, u, value),
         NEW m \in 0 .. Len(secret) - 1, EndsIn(u, m),
         NEW k, Reaches(secret, m, value, k)
  PROVE  Releases(t, u, m, k)
<1> DEFINE R(i) == Redacted(t)[i]
           from == Len(u) - m + 1
           T == {d \in 0 .. m - k : R(from) # SubSeq(secret, 1, d) \o R(from + d)}
<1>1. Len(secret) \in Nat /\ Len(u) \in Nat /\ Len(t) \in Nat /\ Len(u) < Len(t)
  BY DEF Continues
<1>2. k \in 0 .. m /\ m \in 0 .. Len(u) /\ m < Len(secret)
  BY <1>1 DEF Reaches, Border, EndsIn
<1>3. \A i \in 1 .. Len(t) + 1 : R(i) \in Seq(Chars)
  BY RedactedType DEF Continues
<1>4. \A i \in 1 .. Len(secret) : secret[i] \in Chars
  BY DEF Chars
<1> HIDE DEF R
<1>5. ASSUME T # {}
      PROVE  FALSE
  <2>1. T \subseteq Nat
    BY <1>1, <1>2
  <2>2. PICK d \in T : \A y \in T : d <= y
    <3> HIDE DEF T
    <3>1. QED
      BY <1>5, <2>1, Least
  <2>3. d \in 0 .. m - k /\ R(from) # SubSeq(secret, 1, d) \o R(from + d)
    OBVIOUS
  <2>4. CASE d = 0
    <3>1. SubSeq(secret, 1, 0) = <<>>
      BY SubSeqEmpty
    <3>2. from + 0 = from /\ R(from) \in Seq(Chars)
      BY <1>1, <1>2, <1>3
    <3>3. <<>> \o R(from) = R(from)
      BY <3>2, ConcatEmptySeq
    <3>4. QED
      BY <2>3, <2>4, <3>1, <3>2, <3>3
  <2>5. CASE d > 0
    <3> DEFINE a == SubSeq(secret, 1, d - 1)
               b == R(from + d)
    <3>0. d - 1 \in 0 .. m - k /\ d \in Int
      BY <1>1, <1>2, <2>3, <2>5
    <3>1. d - 1 \notin T
      <4> HIDE DEF T
      <4>1. QED
        BY <2>2, <3>0
    <3>2. R(from) = a \o R(from + (d - 1))
      BY <3>0, <3>1
    <3>3. d - 1 \in 0 .. m - k - 1 /\ from + (d - 1) = Len(u) - m + 1 + (d - 1)
          /\ from + d = Len(u) - m + 2 + (d - 1) /\ 1 + (d - 1) = d
      BY <1>1, <1>2, <2>3, <2>5
    <3>4. R(from + (d - 1)) = <<secret[d]>> \o b
      BY <3>3, NoMatchEarlier DEF R
    <3>5. /\ a \in Seq(Chars) /\ <<secret[d]>> \in Seq(Chars) /\ b \in Seq(Chars)
      <4>1. d \in 1 .. Len(secret) /\ from + d \in 1 .. Len(t) + 1
        BY <1>1, <1>2, <2>3, <2>5
      <4>2. secret[d] \in Chars /\ b \in Seq(Chars)
        BY <1>3, <1>4, <4>1
      <4>3. a \in Seq(Bytes)
        BY <4>1
      <4>4. a \in Seq(Chars)
        <5> HIDE DEF a
        <5>1. QED
          BY <4>3, BytesAreChars
      <4>5. <<secret[d]>> \in Seq(Chars)
        BY <4>2
      <4> HIDE DEF a, b
      <4>6. QED
        BY <4>2, <4>4, <4>5
    <3>6. a \o (<<secret[d]>> \o b) = (a \o <<secret[d]>>) \o b
      <4> DEFINE c == <<secret[d]>>
      <4>1. a \in Seq(Chars) /\ b \in Seq(Chars) /\ c \in Seq(Chars)
        BY <3>5
      <4> HIDE DEF a, b, c
      <4>2. a \o (c \o b) = (a \o c) \o b
        BY <4>1, Joins
      <4>3. QED
        BY <4>2 DEF c
    <3>7. a \o <<secret[d]>> = SubSeq(secret, 1, d)
      <4>1. d \in 1 .. Len(secret)
        BY <1>1, <1>2, <2>3, <2>5
      <4>2. QED
        BY <4>1, OneMore
    <3>8. QED
      BY <2>3, <3>2, <3>4, <3>6, <3>7
  <2>6. QED
    BY <1>1, <1>2, <2>3, <2>4, <2>5
<1>6. m - k \in 0 .. m - k /\ from + (m - k) = Len(u) - k + 1
  BY <1>1, <1>2
<1>7. QED
  BY <1>5, <1>6 DEF R, Releases


\* The reference depends on the secret only.
LEMMA SameRedacted ==
  ASSUME NEW t, secret' = secret
  PROVE  Redacted(t)' = Redacted(t)
  BY DEF Redacted

LEMMA MinIs ==
  ASSUME NEW a \in Int, NEW b \in Int
  PROVE  Min({a, b}) = IF a <= b THEN a ELSE b
<1> DEFINE c == IF a <= b THEN a ELSE b
<1>1. c \in {a, b} /\ \A y \in {a, b} : c <= y
  OBVIOUS
<1>2. \A x \in {a, b} : (\A y \in {a, b} : x <= y) => x = c
  OBVIOUS
<1> HIDE DEF c
<1>3. Min({a, b}) = c
  BY <1>1, <1>2 DEF Min
<1>4. QED
  BY <1>3 DEF c

\* y is x cut at limit.
IsCut(y, x) ==
    /\ y \in Seq(Chars)
    /\ Len(y) = IF Len(x) <= limit THEN Len(x) ELSE limit
    /\ \A i \in 1 .. Len(y) : y[i] = x[i]

LEMMA CutIs ==
  ASSUME limit \in Nat, NEW x \in Seq(Chars)
  PROVE  IsCut(SubSeq(x, 1, Min({Len(x), limit})), x)
<1> DEFINE k == IF Len(x) <= limit THEN Len(x) ELSE limit
<1>1. Len(x) \in Nat
  OBVIOUS
<1>2. Min({Len(x), limit}) = k
  BY <1>1, MinIs
<1>3. k \in 0 .. Len(x)
  BY <1>1
<1>4. \A i \in 1 .. Len(x) : x[i] \in Chars
  OBVIOUS
<1> HIDE DEF k
<1> DEFINE y == SubSeq(x, 1, k)
<1>5. y \in Seq(Chars) /\ Len(y) = k /\ \A i \in 1 .. k : y[i] = x[i]
  <2>1. k \in Int /\ 1 \in Int /\ \A i \in 1 .. k : x[i] \in Chars
    BY <1>1, <1>3, <1>4
  <2>2. /\ y \in Seq(Chars) /\ Len(y) = IF 1 <= k THEN k - 1 + 1 ELSE 0
        /\ \A i \in 1 .. k - 1 + 1 : y[i] = x[1 + i - 1]
    BY <2>1, SubSeqProperties
  <2> HIDE DEF y
  <2>3. QED
    BY <1>1, <1>3, <2>2
<1> HIDE DEF y
<1>6. IsCut(y, x)
  BY <1>5 DEF IsCut, k
<1>7. QED
  BY <1>2, <1>6 DEF y

LEMMA CutIsOne ==
  ASSUME limit \in Nat, NEW x \in Seq(Chars), NEW y, NEW z, IsCut(y, x), IsCut(z, x)
  PROVE  y = z
<1>1. y \in Seq(Chars) /\ z \in Seq(Chars) /\ Len(y) = Len(z)
      /\ \A i \in 1 .. Len(y) : y[i] = z[i]
  BY DEF IsCut
<1>2. QED
  BY <1>1, SeqEqual

\* Writing p to a buffer that holds the cut of x makes it the cut of x and p.
LEMMA CappedIs ==
  ASSUME limit \in Nat, NEW x \in Seq(Chars), NEW y, IsCut(y, x), NEW p \in Seq(Chars)
  PROVE  IsCut(Capped(y, p), x \o p)
<1> DEFINE room == limit - Len(y)
           q == SubSeq(p, 1, Min({Len(p), room}))
           k == IF Len(p) <= room THEN Len(p) ELSE room
<1>1. /\ Len(x) \in Nat /\ Len(p) \in Nat /\ y \in Seq(Chars) /\ Len(y) \in Nat
      /\ Len(y) = IF Len(x) <= limit THEN Len(x) ELSE limit
  BY DEF IsCut
<1>2. room \in Nat /\ k \in 0 .. Len(p)
  BY <1>1
<1>3. Min({Len(p), room}) = k
  <2> HIDE DEF room
  <2>1. QED
    BY <1>1, <1>2, MinIs
<1>4. \A i \in 1 .. Len(p) : p[i] \in Chars
  OBVIOUS
<1>5. q \in Seq(Chars) /\ Len(q) = k /\ \A i \in 1 .. k : q[i] = p[i]
  <2> HIDE DEF k, room
  <2> DEFINE r == SubSeq(p, 1, k)
  <2>1. k \in Int /\ 1 \in Int /\ \A i \in 1 .. k : p[i] \in Chars
    BY <1>1, <1>2, <1>4
  <2>2. /\ r \in Seq(Chars) /\ Len(r) = IF 1 <= k THEN k - 1 + 1 ELSE 0
        /\ \A i \in 1 .. k - 1 + 1 : r[i] = p[1 + i - 1]
    BY <2>1, SubSeqProperties
  <2>3. q = r
    BY <1>3
  <2> HIDE DEF r, q
  <2>4. QED
    BY <1>1, <1>2, <2>2, <2>3
<1>6. Capped(y, p) = y \o q
  BY DEF Capped
<1> HIDE DEF q
<1> DEFINE a == y \o q
           b == x \o p
<1>7. /\ a \in Seq(Chars) /\ Len(a) = Len(y) + k
      /\ \A i \in 1 .. Len(y) + k : a[i] = IF i <= Len(y) THEN y[i] ELSE q[i - Len(y)]
  <2> HIDE DEF k
  <2>1. QED
    BY <1>1, <1>5, ConcatProperties
<1>8. /\ b \in Seq(Chars) /\ Len(b) = Len(x) + Len(p)
      /\ \A i \in 1 .. Len(x) + Len(p) : b[i] = IF i <= Len(x) THEN x[i] ELSE p[i - Len(x)]
  BY ConcatProperties
<1> HIDE DEF a, b
<1>len. Len(y) + k = IF Len(x) + Len(p) <= limit THEN Len(x) + Len(p) ELSE limit
  <2>1. CASE Len(x) <= limit
    <3>1. Len(y) = Len(x)
      BY <1>1, <2>1
    <3>2. QED
      BY <1>1, <2>1, <3>1
  <2>2. CASE ~(Len(x) <= limit)
    <3>1. Len(y) = limit
      BY <1>1, <2>2
    <3>2. k = 0
      BY <1>1, <3>1
    <3>3. QED
      BY <1>1, <2>2, <3>1, <3>2
  <2>3. QED
    BY <2>1, <2>2
<1> HIDE DEF k
<1>9. Len(a) = IF Len(b) <= limit THEN Len(b) ELSE limit
  BY <1>7, <1>8, <1>len
<1>10. ASSUME NEW i \in 1 .. Len(a)
       PROVE  a[i] = b[i]
  <2>1. i \in 1 .. Len(x) + Len(p) /\ i \in 1 .. Len(y) + k /\ i \in Int
    BY <1>1, <1>2, <1>7, <1>len
  <2>2. CASE i <= Len(y)
    <3>1. i <= Len(x) /\ i \in 1 .. Len(y)
      BY <1>1, <2>1, <2>2
    <3>2. y[i] = x[i]
      BY <3>1 DEF IsCut
    <3>3. QED
      BY <1>7, <1>8, <2>1, <2>2, <3>1, <3>2
  <2>3. CASE i > Len(y)
    <3>1. Len(y) = Len(x) /\ i - Len(y) \in 1 .. k /\ ~(i <= Len(y))
      <4>1. Len(y) < limit
        BY <1>1, <1>len, <1>2, <2>1, <2>3
      <4>2. QED
        BY <1>1, <1>2, <2>1, <2>3, <4>1
    <3>2. q[i - Len(y)] = p[i - Len(y)]
      BY <1>5, <3>1
    <3>3. QED
      BY <1>7, <1>8, <2>1, <3>1, <3>2
  <2>4. QED
    BY <1>1, <2>1, <2>2, <2>3
<1>11. IsCut(a, b)
  BY <1>7, <1>9, <1>10 DEF IsCut
<1>12. QED
  BY <1>6, <1>11 DEF a, b


LEMMA CutWhole ==
  ASSUME limit \in Nat, NEW x \in Seq(Chars), Len(x) <= limit
  PROVE  IsCut(x, x)
  BY DEF IsCut

LEMMA CutShort ==
  ASSUME limit \in Nat, NEW x \in Seq(Chars), NEW y, IsCut(y, x), Len(y) < limit
  PROVE  y = x
<1>1. Len(x) \in Nat /\ Len(x) <= limit
  BY DEF IsCut
<1>2. y \in Seq(Chars) /\ Len(y) = Len(x) /\ \A i \in 1 .. Len(y) : y[i] = x[i]
  BY <1>1 DEF IsCut
<1>3. QED
  BY <1>2, SeqEqual

\* A full buffer stays as it is, whatever follows.
LEMMA CutFull ==
  ASSUME limit \in Nat, NEW x \in Seq(Chars), NEW y, IsCut(y, x), ~(Len(y) < limit),
         NEW p \in Seq(Chars)
  PROVE  IsCut(y, x \o p) /\ Capped(y, p) = y
<1>1. /\ Len(x) \in Nat /\ Len(p) \in Nat /\ y \in Seq(Chars) /\ Len(y) = limit
      /\ Len(y) <= Len(x)
  BY DEF IsCut
<1>2. /\ x \o p \in Seq(Chars) /\ Len(x \o p) = Len(x) + Len(p)
      /\ \A i \in 1 .. Len(x) + Len(p) : (x \o p)[i] = IF i <= Len(x) THEN x[i] ELSE p[i - Len(x)]
  BY ConcatProperties
<1>3. ASSUME NEW i \in 1 .. Len(y)
      PROVE  y[i] = (x \o p)[i]
  <2>1. i \in 1 .. Len(x) + Len(p) /\ i <= Len(x)
    BY <1>1
  <2>2. y[i] = x[i]
    BY DEF IsCut
  <2>3. QED
    BY <1>2, <2>1, <2>2
<1>4. Len(y) = IF Len(x \o p) <= limit THEN Len(x \o p) ELSE limit
  BY <1>1, <1>2
<1>5. IsCut(y, x \o p)
  BY <1>1, <1>3, <1>4 DEF IsCut
<1>6. IsCut(Capped(y, p), x \o p)
  BY CappedIs
<1>7. QED
  BY <1>2, <1>5, <1>6, CutIsOne

Extends(t, u) ==
    t \in Seq(Bytes) /\ Len(u) <= Len(t) /\ \A i \in 1 .. Len(u) : t[i] = u[i]

\* A text that goes on after one more byte.
LEMMA OneByteMore ==
  ASSUME NEW u \in Seq(Bytes), NEW value \in Bytes, NEW t, Extends(t, Append(u, value))
  PROVE  Continues(t, u, value) /\ Extends(t, u)
<1>1. /\ Len(Append(u, value)) = Len(u) + 1 /\ Len(u) \in Nat
      /\ \A i \in 1 .. Len(u) : Append(u, value)[i] = u[i]
      /\ Append(u, value)[Len(u) + 1] = value
  OBVIOUS
<1>2. t \in Seq(Bytes) /\ Len(t) \in Nat /\ Len(u) + 1 <= Len(t)
      /\ \A i \in 1 .. Len(u) + 1 : t[i] = Append(u, value)[i]
  BY <1>1 DEF Extends
<1>3. QED
  BY <1>1, <1>2 DEF Continues, Extends

\* A byte at which no match begins is copied by the reference.
LEMMA PlainByte ==
  ASSUME secret \in Seq(Bytes), NEW u, NEW t, NEW value, Continues(t, u, value),
         secret = <<>> \/ secret[1] # value
  PROVE  Redacted(t)[Len(u) + 1] = <<value>> \o Redacted(t)[Len(u) + 2]
<1> DEFINE i == Len(u) + 1
<1>1. /\ Len(u) \in Nat /\ Len(t) \in Nat /\ i \in 1 .. Len(t) /\ t[i] = value
      /\ t \in Seq(Bytes) /\ i + 1 = Len(u) + 2
  BY DEF Continues
<1> HIDE DEF i
<1>2. CASE secret = <<>>
  <2>1. Redacted(t)[i] = SubSeq(t, i, Len(t))
    BY <1>1, <1>2, RedactedIs
  <2>2. SubSeq(t, i, Len(t)) = <<t[i]>> \o SubSeq(t, i + 1, Len(t))
    <3>1. Len(t) \in i .. Len(t)
      BY <1>1
    <3>2. QED
      BY <1>1, <3>1, SubSeqRecursiveFirst
  <2>3. CASE i + 1 \in 1 .. Len(t)
    <3>1. Redacted(t)[i + 1] = SubSeq(t, i + 1, Len(t))
      BY <1>1, <1>2, <2>3, RedactedIs
    <3>2. QED
      BY <1>1, <2>1, <2>2, <3>1 DEF i
  <2>4. CASE i + 1 \notin 1 .. Len(t)
    <3>1. i + 1 = Len(t) + 1 /\ i + 1 \in Int /\ Len(t) < i + 1
      BY <1>1, <2>4
    <3>2. Redacted(t)[i + 1] = <<>>
      BY <1>1, <3>1, RedactedIs
    <3>3. SubSeq(t, i + 1, Len(t)) = <<>>
      BY <1>1, <3>1, SubSeqEmpty
    <3>4. QED
      BY <1>1, <2>1, <2>2, <3>2, <3>3 DEF i
  <2>5. QED
    BY <2>3, <2>4
<1>3. CASE secret # <<>>
  <2>1. secret[1] # value /\ Len(secret) \in Nat /\ Len(secret) >= 1
    BY <1>3
  <2>2. i + 1 - 1 = i /\ Len(t) - i + 1 >= 1
    BY <1>1
  <2>3. ~Hit(t, i)
    BY <1>1, <2>1, <2>2 DEF Hit
  <2>4. ~Cutoff(t, i)
    BY <1>1, <2>1, <2>2 DEF Cutoff
  <2>5. Redacted(t)[i] = <<t[i]>> \o Redacted(t)[i + 1]
    BY <1>1, <1>3, <2>3, <2>4, RedactedIs
  <2>6. QED
    BY <1>1, <2>5 DEF i
<1>4. QED
  BY <1>2, <1>3

\* What the input ends in after a fallback, and after the byte that extends it.
LEMMA EndsInShorter ==
  ASSUME NEW u \in Seq(Bytes), NEW m, EndsIn(u, m), NEW k, Border(secret, m, k)
  PROVE  EndsIn(u, k)
<1>1. m \in 0 .. Len(u) /\ k \in 0 .. m /\ Len(u) \in Nat
  BY DEF EndsIn, Border
<1>2. ASSUME NEW j \in 1 .. k
      PROVE  u[Len(u) - k + j] = secret[j]
  <2>1. m - k + j \in 1 .. m /\ Len(u) - k + j = Len(u) - m + (m - k + j)
    BY <1>1
  <2>2. u[Len(u) - m + (m - k + j)] = secret[m - k + j]
    BY <2>1 DEF EndsIn
  <2>3. secret[j] = secret[m - k + j]
    BY DEF Border
  <2>4. QED
    BY <2>1, <2>2, <2>3
<1>3. QED
  BY <1>1, <1>2 DEF EndsIn

LEMMA EndsInLonger ==
  ASSUME NEW u \in Seq(Bytes), NEW value \in Bytes, NEW k, EndsIn(u, k), secret[k + 1] = value
  PROVE  EndsIn(Append(u, value), k + 1)
<1> DEFINE v == Append(u, value)
<1>1. /\ Len(v) = Len(u) + 1 /\ Len(u) \in Nat /\ k \in 0 .. Len(u)
      /\ \A i \in 1 .. Len(u) : v[i] = u[i]
      /\ v[Len(u) + 1] = value
  BY DEF EndsIn
<1> HIDE DEF v
<1>2. ASSUME NEW j \in 1 .. k + 1
      PROVE  v[Len(v) - (k + 1) + j] = secret[j]
  <2>1. Len(v) - (k + 1) + j = Len(u) - k + j
    BY <1>1
  <2>2. CASE j = k + 1
    <3>1. Len(u) - k + j = Len(u) + 1
      BY <1>1, <2>2
    <3>2. QED
      BY <1>1, <2>1, <2>2, <3>1
  <2>3. CASE j # k + 1
    <3>1. j \in 1 .. k /\ Len(u) - k + j \in 1 .. Len(u)
      BY <1>1, <2>3
    <3>2. QED
      BY <1>1, <2>1, <3>1 DEF EndsIn
  <2>4. QED
    BY <2>2, <2>3
<1>3. k + 1 \in 0 .. Len(v)
  BY <1>1
<1>4. QED
  BY <1>2, <1>3 DEF EndsIn, v

\* A match that is complete is the secret, which the reference replaces.
LEMMA WholeSecret ==
  ASSUME secret \in Seq(Bytes), NEW u, NEW t, NEW value, Continues(t, u, value),
         NEW k, EndsIn(u, k), secret[k + 1] = value, k + 1 = Len(secret)
  PROVE  Redacted(t)[Len(u) - k + 1] = Marker \o Redacted(t)[Len(u) + 2]
<1> DEFINE i == Len(u) - k + 1
<1>1. /\ Len(u) \in Nat /\ k \in 0 .. Len(u) /\ Len(t) \in Nat /\ Len(u) < Len(t)
      /\ t \in Seq(Bytes)
  BY DEF Continues, EndsIn
<1>2. /\ i \in 1 .. Len(t) /\ i + Len(secret) = Len(u) + 2
      /\ i + Len(secret) - 1 <= Len(t) /\ secret # <<>>
  BY <1>1
<1>3. ASSUME NEW j \in 1 .. Len(secret)
      PROVE  t[i + j - 1] = secret[j]
  <2>1. CASE j = k + 1
    <3>1. i + j - 1 = Len(u) + 1
      BY <1>1, <2>1
    <3>2. QED
      BY <2>1, <3>1 DEF Continues
  <2>2. CASE j # k + 1
    <3>1. j \in 1 .. k /\ i + j - 1 = Len(u) - k + j /\ Len(u) - k + j \in 1 .. Len(u)
      BY <1>1, <2>2
    <3>2. QED
      BY <3>1 DEF Continues, EndsIn
  <2>3. QED
    BY <2>1, <2>2
<1>4. Hit(t, i)
  BY <1>2, <1>3 DEF Hit
<1> HIDE DEF i
<1>5. Redacted(t)[i] = Marker \o Redacted(t)[i + Len(secret)]
  BY <1>1, <1>2, <1>4, RedactedIs
<1>6. QED
  BY <1>2, <1>5 DEF i

\* A match that the end of the input cuts off is replaced too.
LEMMA SecretCutOff ==
  ASSUME secret \in Seq(Bytes), NEW u \in Seq(Bytes), NEW m \in 1 .. Len(secret) - 1,
         EndsIn(u, m)
  PROVE  Redacted(u)[Len(u) - m + 1] = Marker
<1> DEFINE i == Len(u) - m + 1
<1>1. /\ Len(u) \in Nat /\ m \in 1 .. Len(u) /\ Len(secret) \in Nat /\ m < Len(secret)
  BY DEF EndsIn
<1>2. i \in 1 .. Len(u) /\ Len(u) - i + 1 = m /\ secret # <<>>
  BY <1>1
<1>3. ~Hit(u, i)
  BY <1>1 DEF Hit
<1>4. \A j \in 1 .. m : i + j - 1 = Len(u) - m + j
  BY <1>1
<1>5. \A j \in 1 .. m : u[i + j - 1] = secret[j]
  BY <1>4 DEF EndsIn
<1> HIDE DEF i
<1>6. Cutoff(u, i)
  BY <1>1, <1>2, <1>5 DEF Cutoff
<1>7. Redacted(u)[i] = Marker
  BY <1>2, <1>3, <1>6, RedactedIs
<1>8. QED
  BY <1>7 DEF i


\* Whatever follows the input, data is the cut of what the replacement makes of
\* it up to the bytes held back, or of more than that once data is full.
Aligned(t) ==
    \E held, rest \in Seq(Chars) :
        /\ Redacted(t)[1] = held \o rest
        /\ IsCut(data, held)
        /\ Len(data) < limit => rest = Redacted(t)[Len(input) - matched + 1]

RedactorTypes ==
    /\ secret \in Seq(Bytes) /\ input \in Seq(Bytes) /\ data \in Seq(Chars)
    /\ limit \in Nat /\ Len(data) <= limit /\ finished \in BOOLEAN

Matching ==
    ~finished =>
        /\ EndsIn(input, matched)
        /\ IF secret = <<>> THEN matched = 0 ELSE matched < Len(secret)
        /\ \A t : Extends(t, input) => Aligned(t)

RedactorInv == RedactorTypes /\ Matching /\ MatchesGreedyReplacement

LEMMA RedactorInitial == RedactorInit => RedactorInv
<1> SUFFICES ASSUME RedactorInit
             PROVE  RedactorInv
  OBVIOUS
<1> USE DEF RedactorInit
<1>1. secret \in Seq(Bytes)
  BY DEF SeqsUpTo
<1>2. limit \in Nat /\ limit > 0
  BY RedactorAssumption
<1>3. RedactorTypes
  <2>1. <<>> \in Seq(Bytes) /\ <<>> \in Seq(Chars) /\ Len(<<>>) = 0
    OBVIOUS
  <2>2. input \in Seq(Bytes) /\ data \in Seq(Chars) /\ Len(data) <= limit
    BY <1>2, <2>1
  <2>3. finished \in BOOLEAN
    OBVIOUS
  <2>4. QED
    BY <1>1, <1>2, <2>2, <2>3 DEF RedactorTypes
<1>4. ASSUME NEW t, Extends(t, input)
      PROVE  Aligned(t)
  <2>1. t \in Seq(Bytes) /\ 1 \in 1 .. Len(t) + 1 /\ Len(input) - matched + 1 = 1
    BY <1>4 DEF Extends
  <2>2. Redacted(t)[1] \in Seq(Chars)
    BY <1>1, <2>1, RedactedType
  <2>3. <<>> \in Seq(Chars) /\ Redacted(t)[1] = <<>> \o Redacted(t)[1]
    BY <2>2, ConcatEmptySeq
  <2>4. IsCut(data, <<>>)
    BY <1>2 DEF IsCut
  <2>5. QED
    BY <2>1, <2>2, <2>3, <2>4 DEF Aligned
<1>5. EndsIn(input, matched)
  BY DEF EndsIn
<1>6. Matching
  <2>1. secret # <<>> => 0 < Len(secret)
    BY <1>1
  <2>2. QED
    BY <1>4, <1>5, <2>1 DEF Matching
<1>7. QED
  BY <1>3, <1>6 DEF RedactorInv, MatchesGreedyReplacement

\* A byte turns the bytes that were held back before it into p and into the
\* bytes held back after it.
Turns(t, p) ==
    /\ Len(data) < limit =>
        /\ IsCut(data', data \o p)
        /\ Redacted(t)[Len(input) - matched + 1]
              = p \o Redacted(t)[Len(input') - matched' + 1]
        /\ Redacted(t)[Len(input') - matched' + 1] \in Seq(Chars)
    /\ ~(Len(data) < limit) => data' = data

LEMMA AlignedMoves ==
  ASSUME RedactorTypes, NEW t, Aligned(t), NEW p \in Seq(Chars),
         secret' = secret, limit' = limit, Turns(t, p)
  PROVE  Aligned(t)'
<1>1. Redacted(t)' = Redacted(t)
  BY SameRedacted
<1>2. PICK held \in Seq(Chars), rest \in Seq(Chars) :
         /\ Redacted(t)[1] = held \o rest
         /\ IsCut(data, held)
         /\ Len(data) < limit => rest = Redacted(t)[Len(input) - matched + 1]
  BY DEF Aligned
<1>3. CASE ~(Len(data) < limit)
  <2>1. data' = data
    BY <1>3 DEF Turns
  <2>2. IsCut(data, held)'
    BY <1>2, <2>1 DEF IsCut
  <2>3. ~(Len(data) < limit)'
    BY <1>3, <2>1
  <2>4. QED
    BY <1>1, <1>2, <2>2, <2>3 DEF Aligned
<1>4. CASE Len(data) < limit
  <2> DEFINE next == Redacted(t)[Len(input') - matched' + 1]
  <2>1. data = held
    BY <1>2, <1>4, CutShort DEF RedactorTypes
  <2>2. next \in Seq(Chars) /\ rest = p \o next
    BY <1>2, <1>4 DEF Turns
  <2>3. next = (Redacted(t)[Len(input) - matched + 1])'
    BY <1>1
  <2> HIDE DEF next
  <2>4. held \o p \in Seq(Chars)
    BY ConcatProperties
  <2>5. held \o (p \o next) = (held \o p) \o next
    BY <2>2, Joins
  <2>6. (Redacted(t)[1])' = (held \o p) \o next
    BY <1>1, <1>2, <2>2, <2>5
  <2>7. IsCut(data', held \o p)
    BY <1>4, <2>1 DEF Turns
  <2>8. IsCut(data, held \o p)'
    BY <2>7 DEF IsCut
  <2>9. QED
    BY <2>2, <2>3, <2>4, <2>6, <2>8 DEF Aligned
<1>5. QED
  BY <1>3, <1>4

\* One byte, in one of its cases: where the match stands after it, and what it
\* releases.
LEMMA ByteKeeps ==
  ASSUME RedactorInv, ~finished, NEW value \in Bytes,
         input' = Append(input, value),
         UNCHANGED <<secret, limit, finished>>,
         EndsIn(input', matched'),
         IF secret = <<>> THEN matched' = 0 ELSE matched' < Len(secret),
         NEW p \in Seq(Chars),
         Len(data) < limit =>
            /\ IsCut(data', data \o p)
            /\ \A t : Continues(t, input, value) =>
                 Redacted(t)[Len(input) - matched + 1]
                   = p \o Redacted(t)[Len(input') - matched' + 1],
         ~(Len(data) < limit) => data' = data
  PROVE  RedactorInv'
<1> USE DEF RedactorInv
<1>1. RedactorTypes
  OBVIOUS
<1>2. RedactorTypes'
  <2>1. data' \in Seq(Chars) /\ Len(data') <= limit
    <3>1. CASE ~(Len(data) < limit)
      BY <1>1, <3>1 DEF RedactorTypes
    <3>2. CASE Len(data) < limit
      <4>1. IsCut(data', data \o p) /\ data \o p \in Seq(Chars)
        BY <1>1, <3>2, ConcatProperties DEF RedactorTypes
      <4>2. Len(data \o p) \in Nat
        BY <4>1
      <4> DEFINE b == data \o p
      <4> HIDE DEF b
      <4>3. QED
        BY <1>1, <4>1, <4>2 DEF IsCut, RedactorTypes, b
    <3>3. QED
      BY <3>1, <3>2
  <2>2. QED
    BY <1>1, <2>1 DEF RedactorTypes
<1>3. ASSUME NEW t, Extends(t, input')
      PROVE  Aligned(t)'
  <2>1. Continues(t, input, value) /\ Extends(t, input)
    BY <1>1, <1>3, OneByteMore DEF RedactorTypes
  <2>2. Aligned(t)
    BY <2>1 DEF Matching
  <2>3. Redacted(t)[Len(input') - matched' + 1] \in Seq(Chars)
    <3>1. /\ Len(input') \in Nat /\ matched' \in 0 .. Len(input') /\ Len(t) \in Nat
          /\ Len(input') <= Len(t) /\ t \in Seq(Bytes) /\ secret \in Seq(Bytes)
      BY <1>1, <1>3 DEF EndsIn, Extends, RedactorTypes
    <3>2. Len(input') - matched' + 1 \in 1 .. Len(t) + 1
      BY <3>1
    <3>3. QED
      BY <3>1, <3>2, RedactedType
  <2>4. Turns(t, p)
    BY <2>1, <2>3 DEF Turns
  <2>5. QED
    BY <1>1, <2>2, <2>4, AlignedMoves
<1>4. EndsIn(input, matched)'
  BY DEF EndsIn
<1>5. Matching'
  <2>1. (\A t : Extends(t, input) => Aligned(t))'
    BY <1>3 DEF Extends
  <2>2. QED
    BY <1>4, <2>1 DEF Matching
<1>6. MatchesGreedyReplacement'
  BY DEF MatchesGreedyReplacement
<1>7. QED
  BY <1>2, <1>5, <1>6

LEMMA ByteWritten ==
  ASSUME RedactorInv, NEW value \in Bytes, WriteByte(value)
  PROVE  RedactorInv'
<1> USE DEF RedactorInv
<1>1. /\ secret \in Seq(Bytes) /\ input \in Seq(Bytes) /\ data \in Seq(Chars)
      /\ limit \in Nat /\ Len(data) <= limit /\ Len(input) \in Nat /\ Len(secret) \in Nat
  BY DEF RedactorTypes
<1>2. /\ ~finished /\ input' = Append(input, value)
      /\ UNCHANGED <<secret, limit, finished>>
  BY DEF WriteByte
<1>3. /\ EndsIn(input, matched)
      /\ IF secret = <<>> THEN matched = 0 ELSE matched < Len(secret)
  BY <1>2 DEF Matching
<1>4. Len(input') = Len(input) + 1 /\ input' \in Seq(Bytes)
  BY <1>1, <1>2
<1>5. EndsIn(input', 0)
  BY <1>4 DEF EndsIn
<1>6. IsCut(data, data)
  BY <1>1, CutWhole
<1>7. <<value>> \in Seq(Chars) /\ <<value>> \in Seq(Bytes)
  BY DEF Chars
<1>8. CASE secret = <<>>
  <2>1. data' = Capped(data, <<value>>) /\ matched' = 0 /\ matched = 0
    BY <1>3, <1>8 DEF WriteByte
  <2>2. IsCut(data', data \o <<value>>)
    BY <1>1, <1>6, <1>7, <2>1, CappedIs
  <2>3. ~(Len(data) < limit) => data' = data
    BY <1>1, <1>6, <1>7, <2>1, CutFull
  <2>4. Len(input) - matched + 1 = Len(input) + 1 /\ Len(input') - matched' + 1 = Len(input) + 2
    BY <1>1, <1>4, <2>1
  <2>5. \A t : Continues(t, input, value) =>
           Redacted(t)[Len(input) - matched + 1]
             = <<value>> \o Redacted(t)[Len(input') - matched' + 1]
    BY <1>1, <1>8, <2>4, PlainByte
  <2>6. QED
    BY <1>2, <1>5, <1>7, <1>8, <2>1, <2>2, <2>3, <2>5, ByteKeeps
<1>9. CASE secret # <<>> /\ ~(Len(data) < limit)
  <2>1. data' = data /\ matched' = 0
    BY <1>1, <1>9 DEF WriteByte
  <2>2. 0 < Len(secret)
    BY <1>1, <1>9
  <2>3. QED
    BY <1>2, <1>5, <1>7, <1>9, <2>1, <2>2, ByteKeeps
<1>10. CASE secret # <<>> /\ Len(data) < limit
  <2> DEFINE k == Fallback(value)
             a == SubSeq(secret, 1, matched - k)
             hit == secret[k + 1] = value
  <2>1. /\ matched \in 0 .. Len(secret) - 1 /\ matched \in 0 .. Len(input)
    BY <1>1, <1>3, <1>10 DEF EndsIn
  <2>2. Reaches(secret, matched, value, k)
    BY <1>1, <2>1, FallbackReaches
  <2>3. /\ k \in 0 .. matched /\ Border(secret, matched, k) /\ (~hit => k = 0)
    BY <2>2 DEF Reaches, Border
  <2>4. EndsIn(input, k)
    BY <1>1, <1>3, <2>3, EndsInShorter
  <2>5. \A t : Continues(t, input, value) =>
           Redacted(t)[Len(input) - matched + 1] = a \o Redacted(t)[Len(input) - k + 1]
    <3> HIDE DEF k
    <3>1. /\ EndsIn(input, matched) /\ secret \in Seq(Bytes)
          /\ matched \in 0 .. Len(secret) - 1
      BY <1>1, <1>3, <2>1
    <3>2. ASSUME NEW t, Continues(t, input, value)
          PROVE  Redacted(t)[Len(input) - matched + 1] = a \o Redacted(t)[Len(input) - k + 1]
      <4>1. Releases(t, input, matched, k)
        BY <2>2, <3>1, <3>2, ReleasedIsRedacted
      <4>2. QED
        BY <4>1 DEF Releases
    <3>3. QED
      BY <3>2
  <2>6. a \in Seq(Bytes) /\ a \in Seq(Chars)
    <3>1. a \in Seq(Bytes)
      <4>1. matched - k \in 0 .. Len(secret)
        BY <1>1, <2>1, <2>3
      <4> HIDE DEF k
      <4>2. QED
        BY <1>1, <4>1
    <3> HIDE DEF a
    <3>2. QED
      BY <3>1, BytesAreChars
  <2>7. [data |-> data', matched |-> matched'] = Step(data, value)
    <3>1. ~(Len(data) >= limit)
      BY <1>1, <1>10
    <3>2. \E next : /\ next = Step(data, value)
                     /\ data' = next.data /\ matched' = next.matched
      BY <1>10, <3>1 DEF WriteByte
    <3>3. QED
      BY <3>2 DEF Step
  <2> DEFINE released(kept) == Capped(data, SubSeq(secret, 1, matched - kept))
  <2>8. CASE ~hit
    <3>1. k = 0 /\ secret[1] # value
      BY <2>3, <2>8
    <3>2. data' = Capped(Capped(data, a), <<value>>) /\ matched' = 0
      BY <2>7, <2>8, <3>1 DEF Step
    <3> DEFINE p == a \o <<value>>
    <3>3. p \in Seq(Chars)
      BY <1>7, <2>6, ConcatProperties
    <3>4. IsCut(data', data \o p)
      <4> HIDE DEF a
      <4>1. IsCut(Capped(data, a), data \o a) /\ data \o a \in Seq(Chars)
        BY <1>1, <1>6, <2>6, CappedIs, ConcatProperties
      <4>2. IsCut(data', (data \o a) \o <<value>>)
        BY <1>1, <1>7, <3>2, <4>1, CappedIs
      <4>3. (data \o a) \o <<value>> = data \o (a \o <<value>>)
        BY <1>1, <1>7, <2>6, Joins
      <4>4. QED
        BY <4>2, <4>3
    <3>5. ASSUME NEW t, Continues(t, input, value)
          PROVE  Redacted(t)[Len(input) - matched + 1]
                   = p \o Redacted(t)[Len(input') - matched' + 1]
      <4>1. /\ Len(input) - k + 1 = Len(input) + 1
            /\ Len(input') - matched' + 1 = Len(input) + 2
        BY <1>1, <1>4, <3>1, <3>2
      <4>2. Redacted(t)[Len(input) + 1] = <<value>> \o Redacted(t)[Len(input) + 2]
        BY <1>1, <3>1, <3>5, PlainByte
      <4>3. Redacted(t)[Len(input) + 2] \in Seq(Chars)
        <5>1. Len(input) + 2 \in 1 .. Len(t) + 1 /\ t \in Seq(Bytes)
          BY <1>1, <3>5 DEF Continues
        <5>2. QED
          BY <1>1, <5>1, RedactedType
      <4> DEFINE b == Redacted(t)[Len(input) + 2]
      <4>4. Redacted(t)[Len(input) - matched + 1] = a \o (<<value>> \o b)
        BY <2>5, <3>5, <4>1, <4>2
      <4> HIDE DEF a, b
      <4>5. a \o (<<value>> \o b) = (a \o <<value>>) \o b
        BY <1>7, <2>6, <4>3, Joins DEF b
      <4>6. QED
        BY <4>1, <4>4, <4>5 DEF b
    <3>6. 0 < Len(secret)
      BY <1>1, <1>10
    <3> HIDE DEF p, k, a
    <3>7. QED
      BY <1>2, <1>5, <1>10, <3>2, <3>3, <3>4, <3>5, <3>6, ByteKeeps
  <2>9. CASE hit /\ k + 1 = Len(secret)
    <3>1. data' = Capped(Capped(data, a), Marker) /\ matched' = 0
      BY <2>7, <2>9 DEF Step
    <3> DEFINE p == a \o Marker
    <3>2. p \in Seq(Chars)
      BY MarkerType, <2>6, ConcatProperties
    <3>3. IsCut(data', data \o p)
      <4> HIDE DEF a
      <4>1. IsCut(Capped(data, a), data \o a) /\ data \o a \in Seq(Chars)
        BY <1>1, <1>6, <2>6, CappedIs, ConcatProperties
      <4>2. IsCut(data', (data \o a) \o Marker)
        BY <1>1, MarkerType, <3>1, <4>1, CappedIs
      <4>3. (data \o a) \o Marker = data \o (a \o Marker)
        BY <1>1, MarkerType, <2>6, Joins
      <4>4. QED
        BY <4>2, <4>3
    <3>4. ASSUME NEW t, Continues(t, input, value)
          PROVE  Redacted(t)[Len(input) - matched + 1]
                   = p \o Redacted(t)[Len(input') - matched' + 1]
      <4>1. Len(input') - matched' + 1 = Len(input) + 2
        BY <1>1, <1>4, <3>1
      <4>2. Redacted(t)[Len(input) - k + 1] = Marker \o Redacted(t)[Len(input) + 2]
        BY <1>1, <2>4, <2>9, <3>4, WholeSecret
      <4>3. Redacted(t)[Len(input) + 2] \in Seq(Chars)
        <5>1. Len(input) + 2 \in 1 .. Len(t) + 1 /\ t \in Seq(Bytes)
          BY <1>1, <3>4 DEF Continues
        <5>2. QED
          BY <1>1, <5>1, RedactedType
      <4> DEFINE b == Redacted(t)[Len(input) + 2]
      <4>4. Redacted(t)[Len(input) - matched + 1] = a \o (Marker \o b)
        BY <2>5, <3>4, <4>2
      <4> HIDE DEF a, b
      <4>5. a \o (Marker \o b) = (a \o Marker) \o b
        BY MarkerType, <2>6, <4>3, Joins DEF b
      <4>6. QED
        BY <4>1, <4>4, <4>5 DEF b
    <3>5. 0 < Len(secret)
      BY <1>1, <1>10
    <3> HIDE DEF p, k, a
    <3>6. QED
      BY <1>2, <1>5, <1>10, <3>1, <3>2, <3>3, <3>4, <3>5, ByteKeeps
  <2>10. CASE hit /\ k + 1 # Len(secret)
    <3>1. data' = Capped(data, a) /\ matched' = k + 1
      BY <2>7, <2>10 DEF Step
    <3>2. IsCut(data', data \o a)
      <4> HIDE DEF a
      <4>1. QED
        BY <1>1, <1>6, <2>6, <3>1, CappedIs
    <3>3. EndsIn(input', matched')
      BY <1>1, <1>2, <2>4, <2>10, <3>1, EndsInLonger
    <3>4. Len(input') - matched' + 1 = Len(input) - k + 1
      BY <1>1, <1>4, <2>1, <2>3, <3>1
    <3>5. \A t : Continues(t, input, value) =>
             Redacted(t)[Len(input) - matched + 1]
               = a \o Redacted(t)[Len(input') - matched' + 1]
      BY <2>5, <3>4
    <3>6. matched' < Len(secret)
      BY <1>1, <2>1, <2>3, <2>10, <3>1
    <3> HIDE DEF k, a
    <3>7. QED
      BY <1>2, <1>10, <2>6, <3>2, <3>3, <3>5, <3>6, ByteKeeps
  <2>11. QED
    BY <2>8, <2>9, <2>10
<1>11. QED
  BY <1>8, <1>9, <1>10

LEMMA FinishKeeps ==
  ASSUME RedactorInv, finish
  PROVE  RedactorInv'
<1> USE DEF RedactorInv
<1>1. /\ secret \in Seq(Bytes) /\ input \in Seq(Bytes) /\ data \in Seq(Chars)
      /\ limit \in Nat /\ Len(data) <= limit /\ Len(input) \in Nat /\ Len(secret) \in Nat
  BY DEF RedactorTypes
<1>2. /\ ~finished /\ finished' = TRUE
      /\ data' = IF matched > 0 THEN Capped(data, Marker) ELSE data
      /\ secret' = secret /\ limit' = limit /\ input' = input
  BY DEF finish
<1>3. /\ EndsIn(input, matched)
      /\ IF secret = <<>> THEN matched = 0 ELSE matched < Len(secret)
      /\ \A t : Extends(t, input) => Aligned(t)
  BY <1>2 DEF Matching
<1>4. matched \in 0 .. Len(input)
  BY <1>3 DEF EndsIn
<1> DEFINE all == Redacted(input)[1]
<1>5. PICK held \in Seq(Chars), rest \in Seq(Chars) :
         /\ all = held \o rest
         /\ IsCut(data, held)
         /\ Len(data) < limit => rest = Redacted(input)[Len(input) - matched + 1]
  <2>1. Extends(input, input)
    BY <1>1 DEF Extends
  <2>2. QED
    BY <1>3, <2>1 DEF Aligned
<1>6. IsCut(data', all)
  <2>1. CASE ~(Len(data) < limit)
    <3>1. IsCut(data, held \o rest)
      BY <1>1, <1>5, <2>1, CutFull
    <3>2. Capped(data, Marker) = data
      BY <1>1, <1>5, <2>1, MarkerType, CutFull
    <3>3. QED
      BY <1>2, <1>5, <3>1, <3>2
  <2>2. CASE Len(data) < limit
    <3>1. data = held
      BY <1>1, <1>5, <2>2, CutShort
    <3>2. CASE matched > 0
      <4>1. matched \in 1 .. Len(secret) - 1
        BY <1>1, <1>3, <1>4, <3>2
      <4>2. rest = Marker
        BY <1>1, <1>3, <1>5, <2>2, <4>1, SecretCutOff
      <4>3. IsCut(Capped(data, Marker), held \o Marker)
        BY <1>1, <1>5, MarkerType, CappedIs
      <4>4. QED
        BY <1>2, <1>5, <3>2, <4>2, <4>3
    <3>3. CASE ~(matched > 0)
      <4>1. Len(input) - matched + 1 = Len(input) + 1
        BY <1>1, <1>4, <3>3
      <4>2. rest = <<>>
        BY <1>1, <1>5, <2>2, <4>1, RedactedIs
      <4>3. held \o rest = held
        BY <4>2, ConcatEmptySeq
      <4>4. QED
        BY <1>2, <1>5, <3>3, <4>3
    <3>4. QED
      BY <3>2, <3>3
  <2>3. QED
    BY <2>1, <2>2
<1>7. all \in Seq(Chars)
  BY <1>5, ConcatProperties
<1>8. Redacted(input)' = Redacted(input)
  BY <1>2 DEF Redacted
<1> HIDE DEF all
<1>9. data' = SubSeq(all, 1, Min({Len(all), limit}))
  BY <1>1, <1>6, <1>7, CutIs, CutIsOne
<1>10. MatchesGreedyReplacement'
  BY <1>2, <1>8, <1>9 DEF MatchesGreedyReplacement, all
<1>11. RedactorTypes'
  <2>1. data' \in Seq(Chars) /\ Len(data') <= limit
    BY <1>1, <1>6, <1>7 DEF IsCut
  <2>2. QED
    BY <1>1, <1>2, <2>1 DEF RedactorTypes
<1>12. Matching'
  BY <1>2 DEF Matching
<1>13. QED
  BY <1>10, <1>11, <1>12

LEMMA RedactorStutters ==
  ASSUME RedactorInv, UNCHANGED redactorVars
  PROVE  RedactorInv'
<1>1. \A t : Redacted(t)' = Redacted(t)
  BY DEF redactorVars, Redacted
<1>2. Redacted(input)' = Redacted(input)
  BY DEF redactorVars, Redacted
<1>3. RedactorTypes' /\ MatchesGreedyReplacement'
  BY <1>2 DEF RedactorInv, RedactorTypes, MatchesGreedyReplacement, redactorVars
<1>4. ASSUME NEW t, Aligned(t)
      PROVE  Aligned(t)'
  BY <1>1, <1>4 DEF Aligned, IsCut, redactorVars
<1>5. Matching'
  BY <1>4 DEF RedactorInv, Matching, EndsIn, Extends, redactorVars
<1>6. QED
  BY <1>3, <1>5 DEF RedactorInv

\* Whatever the password, the stderr of the process and the cap: when it is
\* finished, the buffer holds the text of stderr with every occurrence of the
\* password replaced, leftmost first, and a beginning of it at the end, cut at
\* the cap.
THEOREM RedactorRight == RedactorSpec => []MatchesGreedyReplacement
<1>1. RedactorInv /\ [RedactorNext]_redactorVars => RedactorInv'
  BY ByteWritten, FinishKeeps, RedactorStutters DEF RedactorNext
<1>2. RedactorInv => MatchesGreedyReplacement
  BY DEF RedactorInv
<1>3. QED
  BY RedactorInitial, <1>1, <1>2, PTL DEF RedactorSpec
=============================================================================
