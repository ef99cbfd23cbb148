-------------------------- MODULE PinnedFileProofs --------------------------
(***************************************************************************)
(* That the file which OpenRegular pins, and the file which is executed    *)
(* after RecheckPath, are the ones that the requested path named, for any  *)
(* number of paths, inodes and acts of the administrator.                  *)
(***************************************************************************)
EXTENDS PinnedFile, TLAPS

\* From the fstat of the descriptor to the return of OpenRegular, and for an
\* executable until it was run, the metadata are those of the descriptor.
Opened == {"entry", "resolve_again", "lstat", "read", "resolve_for_exec"}
Checking == {"resolve_for_exec", "recheck", "resolve_last", "exec"}

PathsOK ==
    /\ link \in Paths /\ canonical \in Paths
    /\ entry \in [Paths -> Inodes]

\* What the path names is in the history, and the metadata name the descriptor.
HistoryOK ==
    /\ pc # "resolve" => Named \in named
    /\ pc \in Opened \/ (use = "executable" /\ pc \in Checking) => source.inode = fd

\* An entry that names the pinned inode has named it without a break, because
\* the inode's number is not used again while the descriptor is open; so the
\* path named that inode at the moment it was resolved again.
OpenOK ==
    /\ pc = "lstat" /\ entry[canonical] = fd => fd \in named
    /\ pc \in {"read", "resolve_for_exec"} => fd \in named

\* The same after the last inspection, up to the changes that are recorded.
ExecOK ==
    use = "executable" =>
        /\ pc \in {"resolve_last", "exec"} => entry[canonical] = fd \/ moved
        /\ pc = "exec" => link = canonical \/ turned
        /\ pc = "used" => ran = fd \/ moved \/ turned

\* An executable goes through the steps of RecheckPath, and nothing else does.
UseOK ==
    /\ pc \in {"resolve_for_exec", "resolve_last", "exec"} => use = "executable"
    /\ pc \in {"read", "fstat"} => use # "executable"

IInv == PathsOK /\ HistoryOK /\ OpenOK /\ ExecOK /\ UseOK

\* Init: nothing is open.
LEMMA InitInvariant == Init => IInv
BY DEF Init, IInv, PathsOK, HistoryOK, OpenOK, ExecOK, UseOK, Opened, Checking

\* The steps of OpenRegular.
LEMMA OpenInvariant ==
    ASSUME IInv, Resolve \/ Open \/ Inspect \/ VerifyEntry \/ ResolveAgain \/ Lstat
    PROVE  IInv'
<1> USE DEF At, Goto, Refuse, disk, history, IInv, PathsOK, HistoryOK, OpenOK,
            ExecOK, UseOK, Opened, Checking, Named
<1>1. CASE Resolve
  BY <1>1 DEF Resolve
<1>2. CASE Open
  BY <1>2 DEF Open
<1>3. CASE Inspect
  BY <1>3 DEF Inspect, metadataFromStat
<1>4. CASE VerifyEntry
  BY <1>4 DEF VerifyEntry
<1>5. CASE ResolveAgain
  BY <1>5 DEF ResolveAgain
<1>6. CASE Lstat
  <2>1. CASE metadataFromStat(entry[canonical]) = source
    <3>1. entry[canonical] = fd
      BY <1>6, <2>1 DEF Lstat, metadataFromStat
    <3>2. QED
      BY <1>6, <2>1, <3>1 DEF Lstat
  <2>2. CASE metadataFromStat(entry[canonical]) # source
    BY <1>6, <2>2 DEF Lstat
  <2>3. QED
    BY <2>1, <2>2
<1>7. QED
  BY <1>1, <1>2, <1>3, <1>4, <1>5, <1>6

\* The steps of ReadAll.
LEMMA ReadInvariant ==
    ASSUME IInv, Read \/ ReadReturns
    PROVE  IInv'
<1> USE DEF At, Goto, Refuse, disk, history, IInv, PathsOK, HistoryOK, OpenOK,
            ExecOK, UseOK, Opened, Checking, Named
<1>1. CASE Read
  BY <1>1 DEF Read
<1>2. CASE ReadReturns
  BY <1>2 DEF ReadReturns
<1>3. QED
  BY <1>1, <1>2

\* The steps of Recheck and RecheckPath, and the execution.
LEMMA RecheckInvariant ==
    ASSUME IInv, Recheck \/ ResolveForExec \/ ResolveLast \/ Exec
    PROVE  IInv'
<1> USE DEF At, Goto, Refuse, disk, history, IInv, PathsOK, HistoryOK, OpenOK,
            ExecOK, UseOK, Opened, Checking, Named
<1>1. CASE Recheck
  <2>1. use = "executable" /\ SameTarget(entry[canonical]) => entry[canonical] = fd
    BY <1>1 DEF Recheck, SameTarget, metadataFromStat
  <2>2. QED
    BY <1>1, <2>1 DEF Recheck
<1>2. CASE ResolveForExec
  BY <1>2 DEF ResolveForExec
<1>3. CASE ResolveLast
  BY <1>3 DEF ResolveLast
<1>4. CASE Exec
  BY <1>4 DEF Exec
<1>5. QED
  BY <1>1, <1>2, <1>3, <1>4

\* What the administrator does in between.
LEMMA AdministratorInvariant ==
    ASSUME IInv, Administrator
    PROVE  IInv'
<1> USE DEF Edit, program, history, IInv, PathsOK, HistoryOK, OpenOK, ExecOK,
            UseOK, Opened, Checking, Named
<1>1. CASE FinishRewrite
  BY <1>1 DEF FinishRewrite
<1>2. ASSUME NEW p \in Paths, Replace(p)
      PROVE  IInv'
  <2>1. PICK i \in Inodes \ InUse :
            /\ entry' = [entry EXCEPT ![p] = i]
            /\ named' = IF link = p THEN named \cup {i} ELSE named
    BY <1>2 DEF Replace
  <2>2. i # fd
    BY <2>1 DEF InUse
  <2>3. moved' /\ UNCHANGED <<link, turned, use, pc, canonical, fd, source, ran>>
    BY <1>2 DEF Replace
  <2>4. PathsOK'
    BY <2>1, <2>3
  <2>5. HistoryOK'
    BY <2>1, <2>3
  <2>6. OpenOK'
    BY <2>1, <2>2, <2>3
  <2>7. ExecOK' /\ UseOK'
    BY <2>3
  <2>8. QED
    BY <2>4, <2>5, <2>6, <2>7
<1>3. ASSUME NEW p \in Paths, StartRewrite(p) \/ ChangeMode(p)
      PROVE  IInv'
  BY <1>3 DEF StartRewrite, ChangeMode
<1>4. ASSUME NEW p \in Paths, TurnLink(p)
      PROVE  IInv'
  BY <1>4 DEF TurnLink
<1>5. QED
  BY <1>1, <1>2, <1>3, <1>4 DEF Administrator

\* Every step keeps the invariant.
LEMMA NextInvariant == IInv /\ [Next]_vars => IInv'
<1> SUFFICES ASSUME IInv, [Next]_vars PROVE IInv'
  OBVIOUS
<1>1. CASE Program
  BY <1>1, OpenInvariant, ReadInvariant, RecheckInvariant DEF Program
<1>2. CASE Administrator
  BY <1>2, AdministratorInvariant
<1>3. CASE UNCHANGED vars
  BY <1>3 DEF vars, disk, program, history, IInv, PathsOK, HistoryOK, OpenOK,
              ExecOK, UseOK, Named
<1>4. QED
  BY <1>1, <1>2, <1>3 DEF Next, Done

\* The file that OpenRegular returns is one that the requested path named at an
\* instant during the open, however the link is turned, the files are replaced
\* and their inode numbers are used again (securepath.OpenRegular).
THEOREM PinnedWasNamedTheorem == Spec => []PinnedWasNamed
<1>1. IInv => PinnedWasNamed
  BY DEF IInv, OpenOK, PinnedWasNamed
<1>2. QED
  BY <1>1, InitInvariant, NextInvariant, PTL DEF Spec

\* What is executed is the file that was pinned, unless something changed after
\* the instants at which RecheckPath looked (securepath.RecheckPath and the
\* version probe of validation.checkExecutableAs).
THEOREM PinnedIsExecutedTheorem == Spec => []PinnedIsExecuted
<1>1. IInv => PinnedIsExecuted
  BY DEF IInv, ExecOK, PinnedIsExecuted
<1>2. QED
  BY <1>1, InitInvariant, NextInvariant, PTL DEF Spec

-----------------------------------------------------------------------------
(* What is read, and what is found at the recheck *)

ReadTypes ==
    /\ edits \in Nat
    /\ file \in [Inodes -> [data : Seq(Nat), private : BOOLEAN]]
    /\ rewriting \in Inodes \cup {None} /\ fd \in Inodes \cup {None}
    /\ pc \in {"inspect"} \cup Opened \cup {"fstat"} => fd # None

\* As long as the pinned file has its inspected length, and was not given it
\* anew, what has been read so far is the beginning of its text.
ReadOK ==
    /\ pc \in {"resolve", "open", "inspect"} \cup (Opened \ {"read"}) => bytes = <<>>
    /\ pc \in {"read", "fstat"} =>
          /\ bytes \in Seq(Nat) /\ source.inode = fd
          /\ ~lookalike /\ Len(file[fd].data) = source.size /\ source.size # 0 =>
                /\ Len(bytes) <= source.size
                /\ \A k \in 1 .. Len(bytes) : bytes[k] = file[fd].data[k]

\* The same of whatever has the inspected number and length, when all was read
\* and the descriptor is closed.
CurrentOK ==
    pc = "recheck" /\ use = "config" =>
        /\ bytes \in Seq(Nat) /\ Len(bytes) = source.size
        /\ ~lookalike => \A i \in Inodes :
              i = source.inode /\ Len(file[i].data) = source.size => bytes = file[i].data

RInv == IInv /\ ReadTypes /\ ReadOK /\ CurrentOK

LEMMA TextIsSequence ==
  ASSUME NEW act \in Nat, NEW size \in Nat
  PROVE  Text(act, size) \in Seq(Nat) /\ Len(Text(act, size)) = size
BY DEF Text

\* At the start nothing has been read.
LEMMA ReadInit == Init => RInv
<1> SUFFICES ASSUME Init
             PROVE  RInv
  OBVIOUS
<1>1. IInv
  BY InitInvariant
<1>2. ReadTypes
  <2>1. PICK size \in Sizes :
            file = [i \in Inodes |-> [data |-> Text(0, size), private |-> TRUE]]
    BY DEF Init
  <2>2. Text(0, size) \in Seq(Nat)
    BY TextIsSequence, PinnedAssumption
  <2>3. file \in [Inodes -> [data : Seq(Nat), private : BOOLEAN]]
    BY <2>1, <2>2
  <2>4. QED
    BY <2>3 DEF Init, ReadTypes, Opened
<1>3. ReadOK /\ CurrentOK
  BY DEF Init, ReadOK, CurrentOK
<1>4. QED
  BY <1>1, <1>2, <1>3 DEF RInv

LEMMA SameText ==
  ASSUME NEW s \in Seq(Nat), NEW t \in Seq(Nat), Len(s) = Len(t),
         \A k \in 1 .. Len(s) : s[k] = t[k]
  PROVE  s = t
OBVIOUS

\* What ReadAll returns is the text that the file has.
LEMMA WholeText ==
  ASSUME RInv, pc = "fstat", metadataFromStat(fd) = source,
         Len(bytes) = Len(file[fd].data), ~lookalike
  PROVE  bytes = file[fd].data
<1>1. fd \in Inodes /\ file[fd].data \in Seq(Nat) /\ bytes \in Seq(Nat)
  BY DEF RInv, ReadTypes, ReadOK
<1>2. Len(file[fd].data) = source.size
  BY DEF metadataFromStat
<1>3. CASE source.size = 0
  BY <1>1, <1>2, <1>3
<1>4. CASE source.size # 0
  <2>1. \A k \in 1 .. Len(bytes) : bytes[k] = file[fd].data[k]
    BY <1>2, <1>4 DEF RInv, ReadOK
  <2>2. QED
    BY <1>1, <2>1, SameText
<1>5. QED
  BY <1>3, <1>4

\* A step of the program leaves the files alone.
LEMMA ProgramTypes ==
  ASSUME RInv, Program
  PROVE  /\ ReadTypes'
         /\ UNCHANGED <<entry, file, rewriting, edits, use>>
<1> USE DEF At, Goto, Refuse, disk, history, Opened
<1>1. UNCHANGED <<entry, file, rewriting, edits, use>>
  BY DEF Program, Resolve, Open, Inspect, VerifyEntry, ResolveAgain, Lstat, Read,
         ReadReturns, Recheck, ResolveForExec, ResolveLast, Exec
<1>2. entry[canonical] \in Inodes /\ entry[canonical] # None
  BY PinnedAssumption DEF RInv, IInv, PathsOK
<1>3. /\ fd' \in {fd, None, entry[canonical]}
      /\ pc' \in {"inspect"} \cup Opened \cup {"fstat"} => fd' # None
  <2> USE DEF RInv, ReadTypes
  <2>1. CASE Resolve \/ Open \/ Inspect
    BY <1>2, <2>1 DEF Resolve, Open, Inspect
  <2>2. CASE VerifyEntry \/ ResolveAgain \/ Lstat
    BY <2>2 DEF VerifyEntry, ResolveAgain, Lstat
  <2>3. CASE Read \/ ReadReturns
    BY <2>3 DEF Read, ReadReturns
  <2>4. CASE Recheck \/ ResolveForExec \/ ResolveLast \/ Exec
    BY <2>4 DEF Recheck, ResolveForExec, ResolveLast, Exec
  <2>5. QED
    BY <2>1, <2>2, <2>3, <2>4 DEF Program
<1>4. QED
  BY <1>1, <1>2, <1>3 DEF RInv, ReadTypes

\* Reading appends the next chunk of the text that the file has.
LEMMA ProgramRead ==
  ASSUME RInv, Program
  PROVE  ReadOK' /\ CurrentOK'
<1> USE DEF At, Goto, Refuse, disk, history, Opened, Checking
<1>1. UNCHANGED <<entry, file, rewriting, edits, use>>
  BY ProgramTypes
<1>2. CASE Resolve \/ Open \/ Inspect \/ VerifyEntry \/ ResolveAgain
  BY <1>2 DEF Resolve, Open, Inspect, VerifyEntry, ResolveAgain, RInv, ReadOK, CurrentOK
<1>3. CASE Lstat
  <2>1. bytes = <<>> /\ Len(bytes) = 0 /\ bytes \in Seq(Nat) /\ source.inode = fd
    BY <1>3 DEF Lstat, RInv, ReadOK, IInv, HistoryOK
  <2>2. /\ bytes' = bytes /\ source' = source /\ lookalike' = lookalike
        /\ \/ fd' = fd /\ pc' \in {"read", "resolve_for_exec"}
           \/ pc' = "refused"
    BY <1>3 DEF Lstat
  <2>3. CASE pc' = "read"
    <3>1. fd \in Inodes /\ Len(file[fd].data) \in Nat
      BY <1>3 DEF Lstat, RInv, ReadTypes
    <3>2. QED
      BY <1>1, <2>1, <2>2, <2>3, <3>1 DEF ReadOK, CurrentOK
  <2>4. CASE pc' # "read"
    BY <2>1, <2>2, <2>4 DEF ReadOK, CurrentOK
  <2>5. QED
    BY <2>3, <2>4
<1>4. CASE Read
  <2>1. /\ fd \in Inodes /\ file[fd].data \in Seq(Nat)
        /\ UNCHANGED <<fd, source, lookalike>>
        /\ bytes \in Seq(Nat) /\ source.inode = fd /\ pc = "read"
    BY <1>4 DEF Read, RInv, ReadTypes, ReadOK
  <2>2. CASE Len(bytes) + 1 \in DOMAIN file[fd].data
    <3>1. bytes' = Append(bytes, file[fd].data[Len(bytes) + 1]) /\ pc' = "read"
      BY <1>4, <2>1, <2>2 DEF Read
    <3>2. /\ file[fd].data[Len(bytes) + 1] \in Nat /\ Len(bytes) + 1 <= Len(file[fd].data)
      BY <2>1, <2>2
    <3>3. /\ bytes' \in Seq(Nat) /\ Len(bytes') = Len(bytes) + 1
          /\ bytes'[Len(bytes) + 1] = file[fd].data[Len(bytes) + 1]
          /\ \A k \in 1 .. Len(bytes) : bytes'[k] = bytes[k]
      BY <2>1, <3>1, <3>2
    <3>4. ASSUME ~lookalike, Len(file[fd].data) = source.size, source.size # 0
          PROVE  /\ Len(bytes') <= source.size
                 /\ \A k \in 1 .. Len(bytes') : bytes'[k] = file[fd].data[k]
      <4>1. \A k \in 1 .. Len(bytes) : bytes[k] = file[fd].data[k]
        BY <2>1, <3>4 DEF RInv, ReadOK
      <4>2. \A k \in 1 .. Len(bytes') : k \in 1 .. Len(bytes) \/ k = Len(bytes) + 1
        BY <2>1, <3>3
      <4>3. QED
        BY <3>2, <3>3, <3>4, <4>1, <4>2
    <3>5. QED
      BY <1>1, <2>1, <3>1, <3>3, <3>4 DEF ReadOK, CurrentOK
  <2>3. CASE Len(bytes) + 1 \notin DOMAIN file[fd].data
    <3>1. bytes' = bytes /\ pc' = "fstat"
      BY <1>4, <2>1, <2>3 DEF Read
    <3>2. QED
      BY <1>1, <2>1, <3>1 DEF RInv, ReadOK, CurrentOK
  <2>4. QED
    BY <2>2, <2>3
<1>5. CASE ReadReturns
  <2>1. pc = "fstat" /\ UNCHANGED <<bytes, source, lookalike>>
    BY <1>5 DEF ReadReturns
  <2>2. CASE pc' = "recheck"
    <3>1. metadataFromStat(fd) = source /\ Len(bytes) = Len(file[fd].data)
      BY <1>5, <2>2 DEF ReadReturns
    <3>2. /\ bytes \in Seq(Nat) /\ Len(bytes) = source.size /\ source.inode = fd
      BY <2>1, <3>1 DEF RInv, ReadOK, metadataFromStat
    <3>3. ~lookalike => bytes = file[fd].data
      BY <2>1, <3>1, WholeText
    <3>4. QED
      BY <1>1, <2>1, <2>2, <3>2, <3>3 DEF ReadOK, CurrentOK
  <2>3. CASE pc' # "recheck"
    BY <1>5, <2>3 DEF ReadReturns, ReadOK, CurrentOK
  <2>4. QED
    BY <2>2, <2>3
<1>6. CASE Recheck \/ ResolveForExec \/ ResolveLast \/ Exec
  BY <1>1, <1>6 DEF Recheck, ResolveForExec, ResolveLast, Exec, RInv, ReadOK, CurrentOK,
     IInv, UseOK
<1>7. QED
  BY <1>2, <1>3, <1>4, <1>5, <1>6 DEF Program

\* A text that comes under the inspected number has another length, or is
\* remembered as one that looks the same; nothing read so far says anything else.
LEMMA TextWritten ==
  ASSUME RInv, NEW i \in Inodes, NEW text \in Seq(Nat),
         \A j \in Inodes \ {i} : file'[j] = file[j],
         file'[i].data = text,
         \/ text = <<>> /\ lookalike' = lookalike
         \/ lookalike' = (lookalike \/ LooksLike(i, text)),
         UNCHANGED <<use, pc, canonical, fd, source, bytes>>
  PROVE  ReadOK' /\ CurrentOK'
<1>0. ~lookalike' => ~lookalike /\ (text = <<>> \/ ~LooksLike(i, text))
  OBVIOUS
<1>1. ReadOK'
  <2>1. ASSUME pc \in {"read", "fstat"}, ~lookalike', Len(file'[fd].data) = source.size,
               source.size # 0
        PROVE  /\ Len(bytes) <= source.size
               /\ \A k \in 1 .. Len(bytes) : bytes[k] = file'[fd].data[k]
    <3>1. fd \in Inodes /\ source.inode = fd /\ ~lookalike
      BY <1>0, <2>1 DEF RInv, ReadTypes, ReadOK, Opened
    <3>2. fd # i
      <4>1. ASSUME fd = i
            PROVE  FALSE
        <5>1. LooksLike(i, text)
          BY <2>1, <3>1, <4>1 DEF LooksLike
        <5>2. text = <<>>
          BY <1>0, <2>1, <5>1
        <5>3. QED
          BY <2>1, <4>1, <5>2
      <4>2. QED
        BY <4>1
    <3>3. file'[fd] = file[fd]
      BY <3>1, <3>2
    <3>4. QED
      BY <2>1, <3>1, <3>3 DEF RInv, ReadOK
  <2>2. QED
    BY <2>1 DEF RInv, ReadOK
<1>2. CurrentOK'
  <2>1. ASSUME pc = "recheck", use = "config", ~lookalike', NEW j \in Inodes,
               j = source.inode, Len(file'[j].data) = source.size
        PROVE  bytes = file'[j].data
    <3>1. bytes \in Seq(Nat) /\ Len(bytes) = source.size /\ ~lookalike
      BY <1>0, <2>1 DEF RInv, CurrentOK
    <3>2. CASE j = i
      <4>1. text = <<>>
        BY <1>0, <2>1, <3>2 DEF LooksLike
      <4>2. Len(bytes) = 0 /\ file'[j].data = <<>>
        BY <2>1, <3>1, <3>2, <4>1
      <4>3. QED
        BY <3>1, <4>2
    <3>3. CASE j # i
      BY <2>1, <3>1, <3>3 DEF RInv, CurrentOK
    <3>4. QED
      BY <3>2, <3>3
  <2>2. QED
    BY <2>1 DEF RInv, CurrentOK
<1>3. QED
  BY <1>1, <1>2

\* What the administrator does in between.
LEMMA AdministratorRead ==
  ASSUME RInv, Administrator
  PROVE  ReadTypes' /\ ReadOK' /\ CurrentOK'
<1> USE DEF Edit, program
<1>1. edits \in Nat /\ entry \in [Paths -> Inodes] /\ edits + 1 \in Nat
  BY DEF RInv, ReadTypes, IInv, PathsOK
<1>2. ASSUME NEW p \in Paths, Replace(p)
      PROVE  ReadTypes' /\ ReadOK' /\ CurrentOK'
  <2>1. PICK i \in Inodes \ InUse, size \in Sizes :
            /\ file' = [file EXCEPT ![i] = [data |-> Text(edits + 1, size),
                                            private |-> TRUE]]
            /\ lookalike' = (lookalike \/ LooksLike(i, Text(edits + 1, size)))
    BY <1>2 DEF Replace
  <2>2. Text(edits + 1, size) \in Seq(Nat)
    BY <1>1, TextIsSequence, PinnedAssumption
  <2>3. /\ file' \in [Inodes -> [data : Seq(Nat), private : BOOLEAN]]
        /\ file'[i].data = Text(edits + 1, size)
        /\ \A j \in Inodes \ {i} : file'[j] = file[j]
    BY <2>1, <2>2 DEF RInv, ReadTypes
  <2>4. edits' \in Nat /\ UNCHANGED <<rewriting, use, pc, canonical, fd, source, bytes>>
    BY <1>1, <1>2 DEF Replace
  <2>5. ReadTypes'
    BY <2>3, <2>4 DEF RInv, ReadTypes
  <2>6. QED
    BY <2>1, <2>2, <2>3, <2>4, <2>5, TextWritten
<1>3. ASSUME NEW p \in Paths, StartRewrite(p)
      PROVE  ReadTypes' /\ ReadOK' /\ CurrentOK'
  <2>1. entry[p] \in Inodes
    BY <1>1
  <2>2. /\ file' = [file EXCEPT ![entry[p]].data = <<>>]
        /\ file \in [Inodes -> [data : Seq(Nat), private : BOOLEAN]]
    BY <1>3 DEF StartRewrite, RInv, ReadTypes
  <2>3. /\ file' \in [Inodes -> [data : Seq(Nat), private : BOOLEAN]]
        /\ file'[entry[p]].data = <<>>
        /\ \A j \in Inodes \ {entry[p]} : file'[j] = file[j]
    <3>0. <<>> \in Seq(Nat)
      OBVIOUS
    <3>1. PICK empty \in Seq(Nat) : empty = <<>>
      BY <3>0, Zenon
    <3>2. file' = [file EXCEPT ![entry[p]].data = empty]
      BY <2>2, <3>1
    <3>3. /\ file' \in [Inodes -> [data : Seq(Nat), private : BOOLEAN]]
          /\ file'[entry[p]].data = empty
          /\ \A j \in Inodes \ {entry[p]} : file'[j] = file[j]
      BY <2>1, <2>2, <3>2
    <3>4. QED
      BY <3>1, <3>3
  <2>4. /\ edits' \in Nat /\ rewriting' \in Inodes
        /\ UNCHANGED <<lookalike, use, pc, canonical, fd, source, bytes>>
    BY <1>1, <1>3, <2>1 DEF StartRewrite, history
  <2>5. ReadTypes'
    BY <2>3, <2>4 DEF RInv, ReadTypes
  <2>6. QED
    BY <2>1, <2>3, <2>4, <2>5, TextWritten
<1>4. ASSUME FinishRewrite
      PROVE  ReadTypes' /\ ReadOK' /\ CurrentOK'
  <2>1. PICK size \in Sizes :
            /\ file' = [file EXCEPT ![rewriting].data = Text(edits, size)]
            /\ lookalike' = (lookalike \/ LooksLike(rewriting, Text(edits, size)))
    BY <1>4 DEF FinishRewrite
  <2>2. Text(edits, size) \in Seq(Nat) /\ rewriting \in Inodes
    BY <1>1, <1>4, TextIsSequence, PinnedAssumption DEF FinishRewrite, RInv, ReadTypes
  <2>3. /\ file' \in [Inodes -> [data : Seq(Nat), private : BOOLEAN]]
        /\ file'[rewriting].data = Text(edits, size)
        /\ \A j \in Inodes \ {rewriting} : file'[j] = file[j]
    BY <2>1, <2>2 DEF RInv, ReadTypes
  <2>4. rewriting' = None /\ UNCHANGED <<edits, use, pc, canonical, fd, source, bytes>>
    BY <1>4 DEF FinishRewrite
  <2>5. ReadTypes'
    BY <2>3, <2>4 DEF RInv, ReadTypes
  <2>6. QED
    BY <2>1, <2>2, <2>3, <2>4, <2>5, TextWritten
<1>5. ASSUME NEW p \in Paths, ChangeMode(p) \/ TurnLink(p)
      PROVE  ReadTypes' /\ ReadOK' /\ CurrentOK'
  <2>1. /\ edits' \in Nat
        /\ UNCHANGED <<rewriting, lookalike, use, pc, canonical, fd, source, bytes>>
    BY <1>1, <1>5 DEF ChangeMode, TurnLink, history
  <2>2. /\ file' \in [Inodes -> [data : Seq(Nat), private : BOOLEAN]]
        /\ \A i \in Inodes : file'[i].data = file[i].data
    <3>1. CASE TurnLink(p)
      BY <3>1 DEF TurnLink, RInv, ReadTypes
    <3>2. CASE ChangeMode(p)
      <4>1. /\ file' = [file EXCEPT ![entry[p]].private = ~@] /\ entry[p] \in Inodes
            /\ file \in [Inodes -> [data : Seq(Nat), private : BOOLEAN]]
        BY <1>1, <3>2 DEF ChangeMode, RInv, ReadTypes
      <4>2. file[entry[p]] \in [data : Seq(Nat), private : BOOLEAN]
        BY <4>1
      <4>3. file[entry[p]].private \in BOOLEAN
        BY <4>2
      <4>4. /\ [file[entry[p]] EXCEPT !.private = ~@] \in [data : Seq(Nat), private : BOOLEAN]
            /\ [file[entry[p]] EXCEPT !.private = ~@].data = file[entry[p]].data
        BY <4>2, <4>3
      <4>5. \A i \in Inodes : file'[i] = IF i = entry[p]
                 THEN [file[entry[p]] EXCEPT !.private = ~@] ELSE file[i]
        BY <4>1
      <4>6. file' = [i \in Inodes |-> file'[i]]
        BY <4>1
      <4>7. QED
        BY <4>1, <4>4, <4>5, <4>6
    <3>3. QED
      BY <1>5, <3>1, <3>2
  <2>3. ReadTypes'
    BY <2>1, <2>2 DEF RInv, ReadTypes
  <2>4. ReadOK'
    <3>1. pc \in {"read", "fstat"} => fd \in Inodes
      BY DEF RInv, ReadTypes, Opened
    <3>2. QED
      BY <2>1, <2>2, <3>1 DEF RInv, ReadOK
  <2>5. CurrentOK'
    BY <2>1, <2>2 DEF RInv, CurrentOK
  <2>6. QED
    BY <2>3, <2>4, <2>5
<1>6. QED
  BY <1>2, <1>3, <1>4, <1>5 DEF Administrator

\* Every step keeps it.
LEMMA ReadNext == RInv /\ [Next]_vars => RInv'
<1> SUFFICES ASSUME RInv, [Next]_vars
             PROVE  RInv'
  OBVIOUS
<1>1. IInv'
  BY NextInvariant DEF RInv
<1>2. CASE Program
  BY <1>1, <1>2, ProgramTypes, ProgramRead DEF RInv
<1>3. CASE Administrator
  BY <1>1, <1>3, AdministratorRead DEF RInv
<1>4. CASE UNCHANGED vars
  <2>1. ReadTypes' /\ ReadOK' /\ CurrentOK'
    BY <1>4 DEF vars, disk, program, history, RInv, ReadTypes, ReadOK, CurrentOK
  <2>2. QED
    BY <1>1, <2>1 DEF RInv
<1>5. QED
  BY <1>2, <1>3, <1>4 DEF Next, Done

\* However often the pinned file is truncated, rewritten, extended or replaced
\* between the chunks, the bytes that ReadAll returns are all of the version that
\* the file has then, unless it was rewritten to the very length that was
\* inspected (securepath.ReadAll).
THEOREM ReadIsOneVersionTheorem == Spec => ReadIsOneVersion
<1>1. RInv /\ [Next]_vars =>
        [pc = "fstat" /\ pc' \in {"recheck", "used"} /\ ~lookalike
            => bytes = file[fd].data]_vars
  <2> SUFFICES ASSUME RInv, Next, pc = "fstat", pc' \in {"recheck", "used"}, ~lookalike
               PROVE  bytes = file[fd].data
    OBVIOUS
  <2>1. ReadReturns
    BY DEF Next, Done, Program, Administrator, Resolve, Open, Inspect, VerifyEntry,
           ResolveAgain, Lstat, Read, Recheck, ResolveForExec, ResolveLast, Exec, At,
           FinishRewrite, Replace, StartRewrite, ChangeMode, TurnLink, Edit, program,
           vars
  <2>2. metadataFromStat(fd) = source /\ Len(bytes) = Len(file[fd].data)
    BY <2>1 DEF ReadReturns, Refuse, Goto
  <2>3. QED
    BY <2>2, WholeText
<1>2. QED
  BY <1>1, ReadInit, ReadNext, PTL DEF Spec, ReadIsOneVersion

\* Side effects follow only from a configuration with the text that its
\* canonical path names at the recheck, unless a text of the inspected length was
\* written under the inspected inode number in the meantime (securepath.Recheck).
THEOREM RecheckedIsCurrentTheorem == Spec => RecheckedIsCurrent
<1>1. RInv /\ [Next]_vars =>
        [use = "config" /\ pc = "recheck" /\ pc' = "used" /\ ~lookalike
            => bytes = file[entry[canonical]].data]_vars
  <2> SUFFICES ASSUME RInv, Next, use = "config", pc = "recheck", pc' = "used",
                      ~lookalike
               PROVE  bytes = file[entry[canonical]].data
    OBVIOUS
  <2>1. Recheck
    BY DEF Next, Done, Program, Administrator, Resolve, Open, Inspect, VerifyEntry,
           ResolveAgain, Lstat, Read, ReadReturns, ResolveForExec, ResolveLast, Exec,
           At, FinishRewrite, Replace, StartRewrite, ChangeMode, TurnLink, Edit,
           program, vars
  <2>2. metadataFromStat(entry[canonical]) = source
    BY <2>1 DEF Recheck, SameTarget, Refuse, Goto
  <2>3. /\ entry[canonical] = source.inode
        /\ Len(file[entry[canonical]].data) = source.size
    BY <2>2 DEF metadataFromStat
  <2>4. entry[canonical] \in Inodes
    BY DEF RInv, IInv, PathsOK
  <2>5. QED
    BY <2>3, <2>4 DEF RInv, CurrentOK
<1>2. QED
  BY <1>1, ReadInit, ReadNext, PTL DEF Spec, RecheckedIsCurrent

=============================================================================
