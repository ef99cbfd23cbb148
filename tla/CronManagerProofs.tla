-------------------------- MODULE CronManagerProofs --------------------------
(***************************************************************************)
(* The safety properties of the cron manager, and its refinement of the    *)
(* atomic schedule, for any number of processes, inodes and interventions. *)
(***************************************************************************)
EXTENDS CronManager, TLAPS

Points == {"idle", "presence", "open_lock", "open_existing_lock", "flock",
           "flock_existing", "recheck", "recheck_existing", "inspect", "write",
           "verify", "rename", "remove", "lstat", "read", "release", "return"}
Owning == {"write", "verify", "rename", "remove"}
Held == {"recheck", "recheck_existing", "inspect"} \cup Owning

TypesOK ==
    /\ file = NoFile \/ file \in [inode : Inodes, content : Procs \cup {Foreign}]
    /\ lockFile \in {0} \cup LockInodes
    /\ holder \in [LockInodes -> Procs \cup {Free}]
    /\ pc \in [Procs -> Points]
    /\ op \in [Procs -> {"idle", "install", "remove", "show"}]
    /\ content \in [Procs -> Procs \cup {None}]
    /\ seen \in [Procs -> {0} \cup Inodes]
    /\ lockFd \in [Procs -> {0} \cup LockInodes]
    /\ answer \in [Procs -> {"none", "ok", "refused", "failed"}]
    /\ edits \in 0 .. MaxEdits
    /\ edited \in [Procs -> BOOLEAN]

\* What a process is at, by its operation.
CallsOK ==
    \A p \in Procs :
        /\ pc[p] = "idle" <=> op[p] = "idle"
        /\ pc[p] = "idle" => content[p] = None /\ lockFd[p] = 0
        /\ pc[p] \in {"release", "return"} <=> answer[p] # "none"
        /\ op[p] = "install" => content[p] = p
        /\ op[p] = "remove" => content[p] = None
        /\ pc[p] \in {"write", "rename"} => op[p] = "install"
        /\ pc[p] \in {"presence", "open_existing_lock", "remove"} => op[p] = "remove"
        /\ pc[p] \in {"lstat", "read"} => op[p] = "show"
        /\ op[p] = "show" => pc[p] \in {"lstat", "read", "release", "return"}

\* Who holds the flock on which inode.
LocksOK ==
    \A p \in Procs :
        /\ pc[p] \in {"flock", "flock_existing"} \cup Held => lockFd[p] \in LockInodes
        /\ pc[p] \in Held => holder[lockFd[p]] = p

\* The file stays the program's from the last check to the rename or unlink,
\* but for the administrator.
OwnedOK ==
    \A p \in Procs :
        pc[p] \in {"rename", "remove"} /\ ~edited[p] => file.content # Foreign

\* As long as there is one lock file, what a holder has seen stays true.
AloneOK ==
    edits = 0 => \A p \in Procs :
        /\ lockFd[p] # 0 => lockFd[p] = lockFile
        /\ pc[p] \in Owning => StillOwned(p)
        /\ pc[p] = "open_existing_lock" /\ lockFile = 0 => file = NoFile
        /\ op[p] # "show" /\ answer[p] = "refused" => file.content = Foreign

IInv == TypesOK /\ CallsOK /\ LocksOK /\ OwnedOK /\ AloneOK

\* A step of one process.
Acts(p) == Call(p) \/ Flock(p) \/ Step(p) \/ CallFails(p) \/ Kill(p)

-----------------------------------------------------------------------------
(* The invariant *)

\* Init: every process is idle.
LEMMA InitInvariant == Init => IInv
<1> SUFFICES ASSUME Init PROVE IInv
  OBVIOUS
<1> USE CronAssumption DEF Init
<1>1. TypesOK
  <2>1. file = NoFile \/ file \in [inode : Inodes, content : Procs \cup {Foreign}]
    BY DEF Contents
  <2>2. lockFile \in {0} \cup LockInodes
    BY DEF LockInodes
  <2>3. QED
    BY <2>1, <2>2 DEF TypesOK, Points
<1>2. CallsOK /\ LocksOK /\ OwnedOK /\ AloneOK
  BY DEF CallsOK, LocksOK, OwnedOK, AloneOK, Held, Owning
<1>3. QED
  BY <1>1, <1>2 DEF IInv

\* The values of the variables keep their types.
LEMMA StepTypes ==
    ASSUME TypesOK, CallsOK, LocksOK, NEW p \in Procs, Acts(p)
    PROVE  TypesOK'
<1> USE CronAssumption DEF TypesOK, Points
<1>1. CASE CallInstall(p)
  BY <1>1 DEF CallInstall, Goto, disk, local, history
<1>2. CASE CallRemove(p)
  BY <1>2 DEF CallRemove, Goto, disk, local, history
<1>3. CASE CallShow(p)
  BY <1>3 DEF CallShow, Goto, disk, local, history
<1>4. CASE CheckPresence(p)
  BY <1>4 DEF CheckPresence, Goto, disk, local, history
<1>5. CASE OpenLock(p)
  <2>1. edits + 1 \in LockInodes
    BY <1>5 DEF LockInodes
  <2>2. QED
    BY <1>5, <2>1 DEF OpenLock, Goto, disk, local, history
<1>6. CASE OpenExistingLock(p)
  BY <1>6 DEF OpenExistingLock, Goto, disk, local, history, Conclude
<1>7. CASE Flock(p)
  <2>1. lockFd[p] \in LockInodes
    BY <1>7 DEF Flock, LocksOK
  <2>2. QED
    BY <1>7, <2>1 DEF Flock, Locked, Goto, local, history
<1>8. CASE RecheckLock(p)
  BY <1>8 DEF RecheckLock, Goto, disk, local, history, Conclude
<1>9. CASE Inspect(p)
  <2>1. file.inode \in {0} \cup Inodes
    BY DEF NoFile
  <2>2. QED
    BY <1>9, <2>1 DEF Inspect, Goto, Conclude, disk, history
<1>10. CASE WriteTemporary(p)
  BY <1>10 DEF WriteTemporary, Goto, disk, local, history
<1>11. CASE Verify(p)
  BY <1>11 DEF Verify, Goto, disk, local, history, Conclude, Marked,
         StillOwned
<1>12. CASE Publish(p)
  <2>1. content[p] \in Procs
    BY <1>12 DEF Publish, CallsOK
  <2>2. QED
    BY <1>12, <2>1 DEF Publish, Goto, Conclude, history
<1>13. CASE Unlink(p)
  BY <1>13 DEF Unlink, Goto, disk, local, history, Conclude
<1>14. CASE Lstat(p)
  <2>1. file.inode \in {0} \cup Inodes
    BY DEF NoFile
  <2>2. QED
    BY <1>14, <2>1 DEF Lstat, Goto, Conclude, disk, history
<1>15. CASE Read(p)
  <2>1. Marked(file) => file.content \in Procs
    BY DEF Marked, Contents
  <2>2. QED
    BY <1>15, <2>1 DEF Read, Goto, Conclude, disk, history
<1>16. CASE CallFails(p)
  BY <1>16 DEF CallFails, Goto, disk, local, history, Conclude
<1>17. CASE Release(p)
  BY <1>17 DEF Release, Goto, disk, local, history, Unlocked
<1>18. CASE Return(p)
  BY <1>18 DEF Return, Goto, disk, local, history, Reset
<1>19. CASE Kill(p)
  BY <1>19 DEF Kill, Goto, disk, local, history, Unlocked, Reset
<1>20. QED
  BY <1>1, <1>2, <1>3, <1>4, <1>5, <1>6, <1>7, <1>8, <1>9, <1>10, <1>11,
         <1>12, <1>13, <1>14, <1>15, <1>16, <1>17, <1>18, <1>19
     DEF Acts, Call, Step

\* A process is at a step of the operation that it was called for.
LEMMA StepCalls ==
    ASSUME TypesOK, CallsOK, NEW p \in Procs, Acts(p)
    PROVE  CallsOK'
<1> USE CronAssumption DEF TypesOK, CallsOK, Points
<1>1. CASE CallInstall(p)
  BY <1>1 DEF CallInstall, Goto, disk, local, history
<1>2. CASE CallRemove(p)
  BY <1>2 DEF CallRemove, Goto, disk, local, history
<1>3. CASE CallShow(p)
  BY <1>3 DEF CallShow, Goto, disk, local, history
<1>4. CASE CheckPresence(p)
  BY <1>4 DEF CheckPresence, Goto, disk, local, history
<1>5. CASE OpenLock(p)
  BY <1>5 DEF OpenLock, Goto, disk, local, history
<1>6. CASE OpenExistingLock(p)
  BY <1>6 DEF OpenExistingLock, Goto, disk, local, history, Conclude
<1>7. CASE Flock(p)
  BY <1>7 DEF Flock, Locked, Goto, disk, local, history
<1>8. CASE RecheckLock(p)
  BY <1>8 DEF RecheckLock, Goto, disk, local, history, Conclude
<1>9. CASE Inspect(p)
  BY <1>9 DEF Inspect, Goto, disk, local, history, Conclude, Marked
<1>10. CASE WriteTemporary(p)
  BY <1>10 DEF WriteTemporary, Goto, disk, local, history
<1>11. CASE Verify(p)
  BY <1>11 DEF Verify, Goto, disk, local, history, Conclude, Marked,
         StillOwned
<1>12. CASE Publish(p)
  BY <1>12 DEF Publish, Goto, disk, local, history, Conclude
<1>13. CASE Unlink(p)
  BY <1>13 DEF Unlink, Goto, disk, local, history, Conclude
<1>14. CASE Lstat(p)
  BY <1>14 DEF Lstat, Goto, disk, local, history, Conclude
<1>15. CASE Read(p)
  BY <1>15 DEF Read, Goto, disk, local, history, Conclude, Marked
<1>16. CASE CallFails(p)
  BY <1>16 DEF CallFails, Goto, disk, local, history, Conclude
<1>17. CASE Release(p)
  BY <1>17 DEF Release, Goto, disk, local, history, Unlocked
<1>18. CASE Return(p)
  BY <1>18 DEF Return, Goto, disk, local, history, Reset
<1>19. CASE Kill(p)
  BY <1>19 DEF Kill, Goto, disk, local, history, Unlocked, Reset
<1>20. QED
  BY <1>1, <1>2, <1>3, <1>4, <1>5, <1>6, <1>7, <1>8, <1>9, <1>10, <1>11,
         <1>12, <1>13, <1>14, <1>15, <1>16, <1>17, <1>18, <1>19
     DEF Acts, Call, Step

\* A process that waits for or holds a flock has its file open, and is its holder.
LEMMA StepLocks ==
    ASSUME TypesOK, CallsOK, LocksOK, NEW p \in Procs, Acts(p)
    PROVE  LocksOK'
<1> USE CronAssumption DEF TypesOK, LocksOK, Held, Owning
<1>1. CASE CallInstall(p)
  BY <1>1 DEF CallInstall, Goto, disk, local, history
<1>2. CASE CallRemove(p)
  BY <1>2 DEF CallRemove, Goto, disk, local, history
<1>3. CASE CallShow(p)
  BY <1>3 DEF CallShow, Goto, disk, local, history
<1>4. CASE CheckPresence(p)
  BY <1>4 DEF CheckPresence, Goto, disk, local, history
<1>5. CASE OpenLock(p)
  <2>1. edits + 1 \in LockInodes
    BY <1>5 DEF LockInodes
  <2>2. QED
    BY <1>5, <2>1 DEF OpenLock, Goto, disk, local, history
<1>6. CASE OpenExistingLock(p)
  BY <1>6 DEF OpenExistingLock, Goto, disk, local, history, Conclude
<1>7. CASE Flock(p)
  BY <1>7 DEF Flock, Locked, Goto, disk, local, history
<1>8. CASE RecheckLock(p)
  BY <1>8 DEF RecheckLock, Goto, disk, local, history, Conclude
<1>9. CASE Inspect(p)
  BY <1>9 DEF Inspect, Goto, disk, local, history, Conclude, Marked
<1>10. CASE WriteTemporary(p)
  BY <1>10 DEF WriteTemporary, Goto, disk, local, history
<1>11. CASE Verify(p)
  BY <1>11 DEF Verify, Goto, disk, local, history, Conclude, Marked,
         StillOwned
<1>12. CASE Publish(p)
  BY <1>12 DEF Publish, Goto, disk, local, history, Conclude
<1>13. CASE Unlink(p)
  BY <1>13 DEF Unlink, Goto, disk, local, history, Conclude
<1>14. CASE Lstat(p)
  BY <1>14 DEF Lstat, Goto, disk, local, history, Conclude
<1>15. CASE Read(p)
  BY <1>15 DEF Read, Goto, disk, local, history, Conclude, Marked
<1>16. CASE CallFails(p)
  BY <1>16 DEF CallFails, Goto, disk, local, history, Conclude
<1>17. CASE Release(p)
  BY <1>17 DEF Release, Goto, disk, local, history, Unlocked
<1>18. CASE Return(p)
  BY <1>18 DEF Return, Goto, disk, local, history, Reset
<1>19. CASE Kill(p)
  BY <1>19 DEF Kill, Goto, disk, local, history, Unlocked, Reset
<1>20. QED
  BY <1>1, <1>2, <1>3, <1>4, <1>5, <1>6, <1>7, <1>8, <1>9, <1>10, <1>11,
         <1>12, <1>13, <1>14, <1>15, <1>16, <1>17, <1>18, <1>19
     DEF Acts, Call, Step

\* Between its last check and its rename or unlink a process sees no foreign file,
\* unless it was edited since.
LEMMA StepOwned ==
    ASSUME TypesOK, CallsOK, OwnedOK, NEW p \in Procs, Acts(p)
    PROVE  OwnedOK'
<1> USE CronAssumption DEF TypesOK, OwnedOK
<1>1. CASE CallInstall(p)
  BY <1>1 DEF CallInstall, Goto, disk, local, history
<1>2. CASE CallRemove(p)
  BY <1>2 DEF CallRemove, Goto, disk, local, history
<1>3. CASE CallShow(p)
  BY <1>3 DEF CallShow, Goto, disk, local, history
<1>4. CASE CheckPresence(p)
  BY <1>4 DEF CheckPresence, Goto, disk, local, history
<1>5. CASE OpenLock(p)
  BY <1>5 DEF OpenLock, Goto, disk, local, history
<1>6. CASE OpenExistingLock(p)
  BY <1>6 DEF OpenExistingLock, Goto, disk, local, history, Conclude
<1>7. CASE Flock(p)
  BY <1>7 DEF Flock, Locked, Goto, disk, local, history
<1>8. CASE RecheckLock(p)
  BY <1>8 DEF RecheckLock, Goto, disk, local, history, Conclude
<1>9. CASE Inspect(p)
  BY <1>9 DEF Inspect, Goto, disk, local, history, Conclude, Marked
<1>10. CASE WriteTemporary(p)
  BY <1>10 DEF WriteTemporary, Goto, disk, local, history
<1>11. CASE Verify(p)
  <2>1. StillOwned(p) => file.content # Foreign
    BY DEF StillOwned, Marked, Contents, NoFile
  <2>2. QED
    BY <1>11, <2>1 DEF Verify, Goto, Conclude, disk
<1>12. CASE Publish(p)
  <2>1. content[p] # Foreign
    BY <1>12 DEF Publish, CallsOK
  <2>2. QED
    BY <1>12, <2>1 DEF Publish, Goto, Conclude, history
<1>13. CASE Unlink(p)
  <2>1. NoFile.content # Foreign
    BY DEF NoFile
  <2>2. QED
    BY <1>13, <2>1 DEF Unlink, Goto, Conclude, history
<1>14. CASE Lstat(p)
  BY <1>14 DEF Lstat, Goto, disk, local, history, Conclude
<1>15. CASE Read(p)
  BY <1>15 DEF Read, Goto, disk, local, history, Conclude, Marked
<1>16. CASE CallFails(p)
  BY <1>16 DEF CallFails, Goto, disk, local, history, Conclude
<1>17. CASE Release(p)
  BY <1>17 DEF Release, Goto, disk, local, history, Unlocked
<1>18. CASE Return(p)
  BY <1>18 DEF Return, Goto, disk, local, history, Reset
<1>19. CASE Kill(p)
  BY <1>19 DEF Kill, Goto, disk, local, history, Unlocked, Reset
<1>20. QED
  BY <1>1, <1>2, <1>3, <1>4, <1>5, <1>6, <1>7, <1>8, <1>9, <1>10, <1>11,
         <1>12, <1>13, <1>14, <1>15, <1>16, <1>17, <1>18, <1>19
     DEF Acts, Call, Step

\* With one lock file there is one holder.
LEMMA OneHolder ==
    ASSUME LocksOK, AloneOK, edits = 0, NEW p \in Procs, NEW q \in Procs,
           pc[p] \in Held, pc[q] \in Held
    PROVE  p = q
<1>1. lockFd[p] = lockFile /\ lockFd[q] = lockFile
  BY DEF LocksOK, AloneOK, LockInodes
<1>2. QED
  BY <1>1 DEF LocksOK

\* A file that may be overwritten is not a foreign one.
LEMMA OwnedContent ==
    ASSUME NEW p \in Procs, StillOwned(p)
    PROVE  file.content # Foreign
BY CronAssumption DEF StillOwned, Marked, Contents, NoFile

\* Without an edit there is one lock file, and what its holder has seen stays true.
LEMMA StepAlone ==
    ASSUME TypesOK, CallsOK, LocksOK, AloneOK, edits = 0, NEW p \in Procs, Acts(p)
    PROVE  AloneOK'
<1> USE CronAssumption DEF TypesOK, AloneOK, StillOwned, Owning
<1>1. CASE CallInstall(p)
  BY <1>1 DEF CallInstall, Goto, disk, local, history, CallsOK
<1>2. CASE CallRemove(p)
  BY <1>2 DEF CallRemove, Goto, disk, local, history, CallsOK
<1>3. CASE CallShow(p)
  BY <1>3 DEF CallShow, Goto, disk, local, history
<1>4. CASE CheckPresence(p)
  BY <1>4 DEF CheckPresence, Goto, disk, local, history
<1>5. CASE OpenLock(p)
  BY <1>5 DEF OpenLock, Goto, disk, local, history
<1>6. CASE OpenExistingLock(p)
  BY <1>6 DEF OpenExistingLock, Goto, disk, local, history, Conclude
<1>7. CASE Flock(p)
  BY <1>7 DEF Flock, Locked, Goto, disk, local, history
<1>8. CASE RecheckLock(p)
  <2>1. lockFile = lockFd[p]
    BY <1>8 DEF RecheckLock, LocksOK, Held, LockInodes
  <2>2. QED
    BY <1>8, <2>1 DEF RecheckLock, Goto, disk, history
<1>9. CASE Inspect(p)
  <2>1. /\ file # NoFile => file.inode \in Inodes
        /\ file # NoFile /\ ~Marked(file) => file.content = Foreign
        /\ NoFile.inode = 0
    BY DEF NoFile, Marked, Contents
  <2>2. QED
    BY <1>9, <2>1 DEF Inspect, Goto, Conclude, disk, history
<1>10. CASE WriteTemporary(p)
  BY <1>10 DEF WriteTemporary, Goto, disk, local, history
<1>11. CASE Verify(p)
  <2>1. StillOwned(p)
    BY <1>11 DEF Verify
  <2>2. QED
    BY <1>11, <2>1 DEF Verify, Goto, disk
<1>12. CASE Publish(p)
  <2>1. /\ pc[p] \in Held /\ StillOwned(p) /\ lockFd[p] = lockFile
        /\ lockFile # 0 /\ file.content # Foreign
    BY <1>12, OwnedContent DEF Publish, Held, LocksOK, LockInodes
  <2>2. \A q \in Procs \ {p} : pc[q] \notin Owning
    BY <2>1, OneHolder DEF Held
  <2>3. QED
    BY <1>12, <2>1, <2>2 DEF Publish, Goto, Conclude, history
<1>13. CASE Unlink(p)
  <2>1. /\ pc[p] \in Held /\ StillOwned(p) /\ lockFd[p] = lockFile
        /\ lockFile # 0 /\ file.content # Foreign
    BY <1>13, OwnedContent DEF Unlink, Held, LocksOK, LockInodes
  <2>2. \A q \in Procs \ {p} : pc[q] \notin Owning
    BY <2>1, OneHolder DEF Held
  <2>3. QED
    BY <1>13, <2>1, <2>2 DEF Unlink, Goto, Conclude, history
<1>14. CASE Lstat(p)
  BY <1>14 DEF Lstat, Goto, disk, local, history, Conclude, CallsOK
<1>15. CASE Read(p)
  BY <1>15 DEF Read, Goto, disk, local, history, Conclude, Marked, CallsOK
<1>16. CASE CallFails(p)
  BY <1>16 DEF CallFails, Goto, disk, local, history, Conclude
<1>17. CASE Release(p)
  BY <1>17 DEF Release, Goto, disk, local, history, Unlocked
<1>18. CASE Return(p)
  BY <1>18 DEF Return, Goto, disk, local, history, Reset
<1>19. CASE Kill(p)
  BY <1>19 DEF Kill, Goto, disk, local, history, Unlocked, Reset
<1>20. QED
  BY <1>1, <1>2, <1>3, <1>4, <1>5, <1>6, <1>7, <1>8, <1>9, <1>10, <1>11,
         <1>12, <1>13, <1>14, <1>15, <1>16, <1>17, <1>18, <1>19
     DEF Acts, Call, Step

\* The administrator's intervention is counted and recorded for every process.
LEMMA AdministratorKeeps ==
    ASSUME IInv, Administrator
    PROVE  IInv'
<1> USE CronAssumption DEF IInv, Administrator, local
<1>1. edits' = edits + 1 /\ edits' \in 0 .. MaxEdits /\ edits' # 0
  BY DEF TypesOK
<1>2. TypesOK'
  <2>1. file' = NoFile \/ file' \in [inode : Inodes, content : Procs \cup {Foreign}]
    BY DEF TypesOK
  <2>2. QED
    BY <1>1, <2>1 DEF TypesOK
<1>3. CallsOK' /\ LocksOK'
  BY DEF CallsOK, LocksOK
<1>4. OwnedOK' /\ AloneOK'
  BY <1>1 DEF OwnedOK, AloneOK
<1>5. QED
  BY <1>2, <1>3, <1>4

\* Every step of a process keeps the invariant.
LEMMA ActsKeep ==
    ASSUME IInv, NEW p \in Procs, Acts(p)
    PROVE  IInv'
<1>1. edits' = edits
  BY DEF Acts, Call, Step, CallInstall, CallRemove, CallShow, CheckPresence, OpenLock,
         OpenExistingLock, Flock, RecheckLock, Inspect, WriteTemporary, Verify, Publish,
         Unlink, Lstat, Read, CallFails, Release, Return, Kill, history
<1>2. TypesOK' /\ CallsOK' /\ LocksOK' /\ OwnedOK'
  BY StepTypes, StepCalls, StepLocks, StepOwned DEF IInv
<1>3. CASE edits = 0
  BY <1>2, <1>3, StepAlone DEF IInv
<1>4. CASE edits # 0
  BY <1>1, <1>2, <1>4 DEF IInv, AloneOK
<1>5. QED
  BY <1>3, <1>4

\* So does a step in which nothing happens.
LEMMA StutterKeeps ==
    ASSUME IInv, UNCHANGED vars
    PROVE  IInv'
BY DEF vars, disk, local, history, IInv, TypesOK, CallsOK, LocksOK, OwnedOK, AloneOK,
       StillOwned

\* The invariant holds whatever the processes and the administrator do.
THEOREM Invariant == Spec => []IInv
<1>1. IInv /\ [Next]_vars => IInv'
  BY AdministratorKeeps, ActsKeep, StutterKeeps DEF Next, Acts
<1>2. QED
  BY InitInvariant, <1>1, PTL DEF Spec

-----------------------------------------------------------------------------
(* The safety properties *)

\* Nobody is refused on account of the other processes.
THEOREM RefusedForForeign == Spec => []RefusedOnlyForForeignFile
<1>1. IInv => RefusedOnlyForForeignFile
  BY DEF IInv, AloneOK, RefusedOnlyForForeignFile
<1>2. QED
  BY Invariant, <1>1, PTL

\* A mutation begins only where the lock that is held is that of the path.
LEMMA MutationBegins ==
    ASSUME TypesOK, NEW p \in Procs, Acts(p), NEW q \in Procs,
           ~Mutating(q), Mutating(q)'
    PROVE  RecheckLock(q) /\ lockFile = lockFd[q]
<1> USE DEF TypesOK, Mutating
<1>1. CASE CallInstall(p)
  BY <1>1 DEF CallInstall, Goto, disk, local, history
<1>2. CASE CallRemove(p)
  BY <1>2 DEF CallRemove, Goto, disk, local, history
<1>3. CASE CallShow(p)
  BY <1>3 DEF CallShow, Goto, disk, local, history
<1>4. CASE CheckPresence(p)
  BY <1>4 DEF CheckPresence, Goto, disk, local, history
<1>5. CASE OpenLock(p)
  BY <1>5 DEF OpenLock, Goto, disk, local, history
<1>6. CASE OpenExistingLock(p)
  BY <1>6 DEF OpenExistingLock, Goto, disk, local, history, Conclude
<1>7. CASE Flock(p)
  BY <1>7 DEF Flock, Locked, Goto, disk, local, history
<1>8. CASE RecheckLock(p)
  BY <1>8 DEF RecheckLock, Goto, disk, local, history, Conclude
<1>9. CASE Inspect(p)
  BY <1>9 DEF Inspect, Goto, disk, local, history, Conclude, Marked
<1>10. CASE WriteTemporary(p)
  BY <1>10 DEF WriteTemporary, Goto, disk, local, history
<1>11. CASE Verify(p)
  BY <1>11 DEF Verify, Goto, disk, local, history, Conclude, Marked,
         StillOwned
<1>12. CASE Publish(p)
  BY <1>12 DEF Publish, Goto, disk, local, history, Conclude
<1>13. CASE Unlink(p)
  BY <1>13 DEF Unlink, Goto, disk, local, history, Conclude
<1>14. CASE Lstat(p)
  BY <1>14 DEF Lstat, Goto, disk, local, history, Conclude
<1>15. CASE Read(p)
  BY <1>15 DEF Read, Goto, disk, local, history, Conclude, Marked
<1>16. CASE CallFails(p)
  BY <1>16 DEF CallFails, Goto, disk, local, history, Conclude
<1>17. CASE Release(p)
  BY <1>17 DEF Release, Goto, disk, local, history, Unlocked
<1>18. CASE Return(p)
  BY <1>18 DEF Return, Goto, disk, local, history, Reset
<1>19. CASE Kill(p)
  BY <1>19 DEF Kill, Goto, disk, local, history, Unlocked, Reset
<1>20. QED
  BY <1>1, <1>2, <1>3, <1>4, <1>5, <1>6, <1>7, <1>8, <1>9, <1>10, <1>11,
         <1>12, <1>13, <1>14, <1>15, <1>16, <1>17, <1>18, <1>19
     DEF Acts, Call, Step

\* A mutation begins beside another one only if the other's lock file was
\* removed.
THEOREM MutationsExclude == Spec => Exclusive
<1> DEFINE A == \A p, q \in Procs :
                   p # q /\ Mutating(q) /\ ~Mutating(p) /\ Mutating(p)'
                   => lockFd[q] # lockFile
<1>1. IInv /\ [Next]_vars => A
  <2> SUFFICES ASSUME IInv, [Next]_vars, NEW p \in Procs, NEW q \in Procs,
                      p # q, Mutating(q), ~Mutating(p), Mutating(p)'
               PROVE  lockFd[q] # lockFile
    OBVIOUS
  <2>1. ~UNCHANGED vars
    BY DEF vars, Mutating
  <2>2. PICK r \in Procs : Acts(r)
    BY <2>1 DEF Next, Acts, Administrator, Mutating
  <2>3. RecheckLock(p) /\ lockFile = lockFd[p]
    BY <2>2, MutationBegins DEF IInv
  <2>4. holder[lockFd[p]] = p /\ holder[lockFd[q]] = q
    BY <2>3 DEF RecheckLock, IInv, LocksOK, Held, Owning, Mutating
  <2>5. QED
    BY <2>3, <2>4
<1>2. QED
  BY Invariant, <1>1, PTL DEF Spec, Exclusive

\* A file without the marker is only replaced or deleted in the window behind
\* the last check.
THEOREM ForeignSurvives == Spec => ForeignFileSurvives
<1> DEFINE A == \A p \in Procs :
                   /\ pc[p] \in {"rename", "remove"} /\ pc'[p] # pc[p]
                   /\ file.content = Foreign /\ file' # file
                   => edited[p]
<1>1. IInv => A
  BY DEF IInv, OwnedOK, TypesOK
<1>2. QED
  BY Invariant, <1>1, PTL DEF Spec, ForeignFileSurvives

-----------------------------------------------------------------------------
(* The refinement of CronSchedule *)

Record(p) == [op |-> op[p], content |-> content[p],
              answer |-> IF answer[p] \in {"refused", "failed"} THEN "error"
                                                                ELSE answer[p]]
Calls == [p \in Procs |-> Record(p)]

\* What one process does changes one record.
LEMMA OneRecord ==
    ASSUME TypesOK, NEW p \in Procs, Acts(p)
    PROVE  Calls' = [Calls EXCEPT ![p] = Record(p)'] /\ edits' = edits
<1> USE DEF TypesOK, Calls, Record
<1>1. CASE CallInstall(p)
  BY <1>1 DEF CallInstall, Goto, disk, local, history
<1>2. CASE CallRemove(p)
  BY <1>2 DEF CallRemove, Goto, disk, local, history
<1>3. CASE CallShow(p)
  BY <1>3 DEF CallShow, Goto, disk, local, history
<1>4. CASE CheckPresence(p)
  BY <1>4 DEF CheckPresence, Goto, disk, local, history
<1>5. CASE OpenLock(p)
  BY <1>5 DEF OpenLock, Goto, disk, local, history
<1>6. CASE OpenExistingLock(p)
  BY <1>6 DEF OpenExistingLock, Goto, disk, local, history, Conclude
<1>7. CASE Flock(p)
  BY <1>7 DEF Flock, Locked, Goto, disk, local, history
<1>8. CASE RecheckLock(p)
  BY <1>8 DEF RecheckLock, Goto, disk, local, history, Conclude
<1>9. CASE Inspect(p)
  <2>1. /\ op' = op /\ content' = content /\ edits' = edits
        /\ answer' = [answer EXCEPT ![p] = answer'[p]]
    BY <1>9 DEF Inspect, history, Conclude
  <2>2. QED
    BY <2>1
<1>10. CASE WriteTemporary(p)
  BY <1>10 DEF WriteTemporary, Goto, disk, local, history
<1>11. CASE Verify(p)
  BY <1>11 DEF Verify, Goto, disk, local, history, Conclude, Marked,
         StillOwned
<1>12. CASE Publish(p)
  BY <1>12 DEF Publish, Goto, disk, local, history, Conclude
<1>13. CASE Unlink(p)
  BY <1>13 DEF Unlink, Goto, disk, local, history, Conclude
<1>14. CASE Lstat(p)
  BY <1>14 DEF Lstat, Goto, disk, local, history, Conclude
<1>15. CASE Read(p)
  <2>1. /\ op' = op /\ edits' = edits
        /\ answer' = [answer EXCEPT ![p] = answer'[p]]
        /\ content' = [content EXCEPT ![p] = content'[p]]
    BY <1>15 DEF Read, history, Conclude
  <2>2. QED
    BY <2>1
<1>16. CASE CallFails(p)
  BY <1>16 DEF CallFails, Goto, disk, local, history, Conclude
<1>17. CASE Release(p)
  BY <1>17 DEF Release, Goto, disk, local, history, Unlocked
<1>18. CASE Return(p)
  BY <1>18 DEF Return, Goto, disk, local, history, Reset
<1>19. CASE Kill(p)
  BY <1>19 DEF Kill, Goto, disk, local, history, Unlocked, Reset
<1>20. QED
  BY <1>1, <1>2, <1>3, <1>4, <1>5, <1>6, <1>7, <1>8, <1>9, <1>10, <1>11,
         <1>12, <1>13, <1>14, <1>15, <1>16, <1>17, <1>18, <1>19
     DEF Acts, Call, Step

\* What lets a remove answer ok, with one lock file.
LEMMA AnswersOK ==
    ASSUME TypesOK, CallsOK, LocksOK, AloneOK, edits = 0,
           NEW r \in Procs, Acts(r), NEW p \in Procs,
           op[p] = "remove", answer[p] = "none", answer'[p] = "ok"
    PROVE  (OpenExistingLock(p) /\ lockFile = 0) \/ Inspect(p) \/ Unlink(p)
<1> USE DEF TypesOK, CallsOK
<1>1. CASE CallInstall(r)
  BY <1>1 DEF CallInstall, Goto, disk, local, history
<1>2. CASE CallRemove(r)
  BY <1>2 DEF CallRemove, Goto, disk, local, history
<1>3. CASE CallShow(r)
  BY <1>3 DEF CallShow, Goto, disk, local, history
<1>4. CASE CheckPresence(r)
  BY <1>4 DEF CheckPresence, Goto, disk, local, history
<1>5. CASE OpenLock(r)
  BY <1>5 DEF OpenLock, Goto, disk, local, history
<1>6. CASE OpenExistingLock(r)
  BY <1>6 DEF OpenExistingLock, Goto, disk, local, history, Conclude
<1>7. CASE Flock(r)
  BY <1>7 DEF Flock, Locked, Goto, disk, local, history
<1>8. CASE RecheckLock(r)
  <2>1. lockFile = lockFd[r]
    BY <1>8 DEF RecheckLock, LocksOK, AloneOK, Held, LockInodes
  <2>2. QED
    BY <1>8, <2>1 DEF RecheckLock
<1>9. CASE Inspect(r)
  BY <1>9 DEF Inspect, Goto, disk, local, history, Conclude, Marked
<1>10. CASE WriteTemporary(r)
  BY <1>10 DEF WriteTemporary, Goto, disk, local, history
<1>11. CASE Verify(r)
  BY <1>11 DEF Verify, Goto, disk, local, history, Conclude, Marked,
         StillOwned
<1>12. CASE Publish(r)
  BY <1>12 DEF Publish, Goto, disk, local, history, Conclude
<1>13. CASE Unlink(r)
  BY <1>13 DEF Unlink, Goto, disk, local, history, Conclude
<1>14. CASE Lstat(r)
  BY <1>14 DEF Lstat, Goto, disk, local, history, Conclude
<1>15. CASE Read(r)
  BY <1>15 DEF Read, Goto, disk, local, history, Conclude, Marked
<1>16. CASE CallFails(r)
  BY <1>16 DEF CallFails, Goto, disk, local, history, Conclude
<1>17. CASE Release(r)
  BY <1>17 DEF Release, Goto, disk, local, history, Unlocked
<1>18. CASE Return(r)
  BY <1>18 DEF Return, Goto, disk, local, history, Reset
<1>19. CASE Kill(r)
  BY <1>19 DEF Kill, Goto, disk, local, history, Unlocked, Reset
<1>20. QED
  BY <1>1, <1>2, <1>3, <1>4, <1>5, <1>6, <1>7, <1>8, <1>9, <1>10, <1>11,
         <1>12, <1>13, <1>14, <1>15, <1>16, <1>17, <1>18, <1>19
     DEF Acts, Call, Step

\* What is seen of a step, from the record that it leaves and the file.
LEMMA SeenUnchanged ==
    ASSUME NEW p \in Procs, Calls' = [Calls EXCEPT ![p] = Record(p)'],
           Record(p)' = Record(p), file' = file
    PROVE  UNCHANGED Promise!promiseVars
BY DEF Calls, Promise!promiseVars, Record

\* An answer that is an error, with the file as it was, refuses the call.
LEMMA SeenRefusal ==
    ASSUME NEW p \in Procs, Calls' = [Calls EXCEPT ![p] = Record(p)'],
           op[p] # "idle", answer[p] = "none",
           Record(p)' = [op |-> op[p], content |-> content[p], answer |-> "error"],
           file' = file
    PROVE  Promise!Refuse(p)
<1>1. Record(p) = [op |-> op[p], content |-> content[p], answer |-> "none"]
  BY DEF Record
<1>2. Calls[p] = Record(p)
  BY DEF Calls
<1>3. Record(p)' = [Calls[p] EXCEPT !.answer = "error"]
  BY <1>1, <1>2
<1>4. Calls' = [Calls EXCEPT ![p].answer = "error"]
  BY <1>3
<1>5. QED
  BY <1>1, <1>2, <1>4 DEF Promise!Refuse, Promise!Answer, Calls, Record

\* A process that was idle and has an operation was called.
LEMMA SeenCall ==
    ASSUME NEW p \in Procs, Calls' = [Calls EXCEPT ![p] = Record(p)'],
           op[p] = "idle", content[p] = None, answer[p] = "none",
           \E o \in {"install", "remove", "show"}, c \in Contents \cup {None} :
               /\ (o = "install") = (c # None)
               /\ Record(p)' = [op |-> o, content |-> c, answer |-> "none"],
           file' = file
    PROVE  Promise!Call(p)
<1>1. Record(p) = Promise!Idle
  BY DEF Record, Promise!Idle
<1>2. Calls[p] = Promise!Idle
  BY <1>1 DEF Calls
<1>3. \E o \in {"install", "remove", "show"}, c \in Contents \cup {None} :
          /\ (o = "install") = (c # None)
          /\ Calls' = [Calls EXCEPT ![p] = [op |-> o, content |-> c, answer |-> "none"]]
  OBVIOUS
<1>4. QED
  BY <1>2, <1>3, Zenon DEF Promise!Call, Calls, Record

\* A positive answer with the content of the call on disk is an installation.
LEMMA SeenInstall ==
    ASSUME NEW p \in Procs, Calls' = [Calls EXCEPT ![p] = Record(p)'],
           op[p] = "install", answer[p] = "none", file.content # Foreign,
           Record(p)' = [op |-> "install", content |-> content[p], answer |-> "ok"],
           file'.content = content[p]
    PROVE  Promise!Install(p)
<1>1. Record(p) = [op |-> "install", content |-> content[p], answer |-> "none"]
  BY DEF Record
<1>2. Calls[p] = Record(p)
  BY DEF Calls
<1>3. Record(p)' = [Calls[p] EXCEPT !.answer = "ok"]
  BY <1>1, <1>2
<1>4. Calls' = [Calls EXCEPT ![p].answer = "ok"]
  BY <1>3
<1>5. QED
  BY <1>1, <1>2, <1>4
     DEF Promise!Install, Promise!Pending, Promise!Managed, Promise!Answer, Calls,
         Record

\* A positive answer without a file is a removal.
LEMMA SeenRemoval ==
    ASSUME NEW p \in Procs, Calls' = [Calls EXCEPT ![p] = Record(p)'],
           op[p] = "remove", answer[p] = "none", file.content # Foreign,
           Record(p)' = [op |-> "remove", content |-> content[p], answer |-> "ok"],
           file'.content = None
    PROVE  Promise!Remove(p)
<1>1. Record(p) = [op |-> "remove", content |-> content[p], answer |-> "none"]
  BY DEF Record
<1>2. Calls[p] = Record(p)
  BY DEF Calls
<1>3. Record(p)' = [Calls[p] EXCEPT !.answer = "ok"]
  BY <1>1, <1>2
<1>4. Calls' = [Calls EXCEPT ![p].answer = "ok"]
  BY <1>3
<1>5. QED
  BY <1>1, <1>2, <1>4
     DEF Promise!Remove, Promise!Pending, Promise!Managed, Promise!Answer, Calls,
         Record

\* A positive answer with the content of the file shows it.
LEMMA SeenShow ==
    ASSUME NEW p \in Procs, Calls' = [Calls EXCEPT ![p] = Record(p)'],
           op[p] = "show", answer[p] = "none", file.content \in Contents,
           Record(p)' = [op |-> "show", content |-> file.content, answer |-> "ok"],
           file' = file
    PROVE  Promise!Show(p)
<1>1. Calls[p].op = "show" /\ Calls[p].answer = "none"
  BY DEF Calls, Record
<1>2. Calls' = [Calls EXCEPT ![p] =
          [op |-> "show", content |-> file.content, answer |-> "ok"]]
  OBVIOUS
<1>3. QED
  BY <1>1, <1>2 DEF Promise!Show, Promise!Pending, Calls, Record

\* A positive answer that becomes an error blames the release of the lock.
LEMMA SeenBlame ==
    ASSUME NEW p \in Procs, Calls' = [Calls EXCEPT ![p] = Record(p)'],
           answer[p] = "ok",
           Record(p)' = [op |-> op[p], content |-> content[p], answer |-> "error"],
           file' = file
    PROVE  Promise!Blame(p)
<1>1. Record(p) = [op |-> op[p], content |-> content[p], answer |-> "ok"]
  BY DEF Record
<1>2. Calls[p] = Record(p)
  BY DEF Calls
<1>3. Record(p)' = [Calls[p] EXCEPT !.answer = "error"]
  BY <1>1, <1>2
<1>4. Calls' = [Calls EXCEPT ![p].answer = "error"]
  BY <1>3
<1>5. QED
  BY <1>1, <1>2, <1>4 DEF Promise!Blame, Promise!Answer, Calls, Record

\* A process without an operation has returned.
LEMMA SeenReturn ==
    ASSUME NEW p \in Procs, Calls' = [Calls EXCEPT ![p] = Record(p)'],
           op[p] # "idle",
           Record(p)' = [op |-> "idle", content |-> None, answer |-> "none"],
           file' = file
    PROVE  Promise!Return(p)
<1>1. Calls[p].op = op[p]
  BY DEF Calls, Record
<1>2. Calls[p] # Promise!Idle
  BY <1>1 DEF Promise!Idle
<1>3. Calls' = [Calls EXCEPT ![p] = Promise!Idle]
  BY DEF Promise!Idle
<1>4. QED
  BY <1>2, <1>3 DEF Promise!Return, Calls, Record

\* With one lock file a step of a process is one of the atomic operations, or
\* invisible.
LEMMA StepRefines ==
    ASSUME IInv, edits = 0, NEW p \in Procs, Acts(p)
    PROVE  Promise!Next \/ UNCHANGED Promise!promiseVars
<1> USE CronAssumption DEF IInv, TypesOK, CallsOK, Contents
<1>a. Calls' = [Calls EXCEPT ![p] = Record(p)'] /\ edits' = edits
  BY OneRecord
<1>b. /\ \A x \in Procs : x # None
      /\ pc[p] = "idle" => answer[p] = "none" /\ op[p] = "idle" /\ content[p] = None
      /\ pc[p] \in {"release", "return"} \/ answer[p] = "none"
  OBVIOUS
<1>1. CASE CallInstall(p)
  <2>1. Record(p)' = [op |-> "install", content |-> p, answer |-> "none"] /\ file' = file
    BY <1>1, <1>b DEF CallInstall, Goto, disk, Record
  <2>2. \E o \in {"install", "remove", "show"}, c \in Contents \cup {None} :
            /\ (o = "install") = (c # None)
            /\ Record(p)' = [op |-> o, content |-> c, answer |-> "none"]
    <3>1. p \in Contents \cup {None} /\ ("install" = "install") = (p # None)
      BY <1>b
    <3>2. QED
      BY <2>1, <3>1
  <2>3. Promise!Call(p)
    BY <1>1, <1>a, <1>b, <2>1, <2>2, SeenCall DEF CallInstall
  <2>4. QED
    BY <2>3 DEF Promise!Next
<1>2. CASE CallRemove(p)
  <2>1. Record(p)' = [op |-> "remove", content |-> None, answer |-> "none"] /\ file' = file
    BY <1>2, <1>b DEF CallRemove, Goto, disk, Record
  <2>2. \E o \in {"install", "remove", "show"}, c \in Contents \cup {None} :
            /\ (o = "install") = (c # None)
            /\ Record(p)' = [op |-> o, content |-> c, answer |-> "none"]
    <3>1. None \in Contents \cup {None} /\ ("remove" = "install") = (None # None)
      OBVIOUS
    <3>2. QED
      BY <2>1, <3>1
  <2>3. Promise!Call(p)
    BY <1>2, <1>a, <1>b, <2>1, <2>2, SeenCall DEF CallRemove
  <2>4. QED
    BY <2>3 DEF Promise!Next
<1>3. CASE CallShow(p)
  <2>1. Record(p)' = [op |-> "show", content |-> None, answer |-> "none"] /\ file' = file
    BY <1>3, <1>b DEF CallShow, Goto, disk, Record
  <2>2. \E o \in {"install", "remove", "show"}, c \in Contents \cup {None} :
            /\ (o = "install") = (c # None)
            /\ Record(p)' = [op |-> o, content |-> c, answer |-> "none"]
    <3>1. None \in Contents \cup {None} /\ ("show" = "install") = (None # None)
      OBVIOUS
    <3>2. QED
      BY <2>1, <3>1
  <2>3. Promise!Call(p)
    BY <1>3, <1>a, <1>b, <2>1, <2>2, SeenCall DEF CallShow
  <2>4. QED
    BY <2>3 DEF Promise!Next
<1>4. CASE CheckPresence(p)
  <2>1. Record(p)' = Record(p) /\ file' = file
    BY <1>4 DEF CheckPresence, Goto, disk, local, Record
  <2>2. QED
    BY <1>a, <2>1, SeenUnchanged
<1>5. CASE OpenLock(p)
  <2>1. Record(p)' = Record(p) /\ file' = file
    BY <1>5 DEF OpenLock, Record
  <2>2. QED
    BY <1>a, <2>1, SeenUnchanged
<1>6. CASE OpenExistingLock(p)
  <2>1. file' = file /\ op[p] = "remove" /\ answer[p] = "none"
    BY <1>6, <1>b DEF OpenExistingLock, disk
  <2>2. CASE lockFile = 0
    <3>1. Record(p)' = [op |-> "remove", content |-> content[p], answer |-> "ok"]
      BY <1>6, <2>1, <2>2 DEF OpenExistingLock, Conclude, Record
    <3>2. file.content = None
      BY <1>6, <2>2 DEF OpenExistingLock, AloneOK, NoFile
    <3>3. Promise!Remove(p)
      BY <1>a, <2>1, <3>1, <3>2, SeenRemoval
    <3>4. QED
      BY <3>3 DEF Promise!Next
  <2>3. CASE lockFile # 0
    <3>1. Record(p)' = Record(p)
      BY <1>6, <2>3 DEF OpenExistingLock, Record
    <3>2. QED
      BY <1>a, <2>1, <3>1, SeenUnchanged
  <2>4. QED
    BY <2>2, <2>3
<1>7. CASE Flock(p)
  <2>1. Record(p)' = Record(p) /\ file' = file
    BY <1>7 DEF Flock, local, Record
  <2>2. QED
    BY <1>a, <2>1, SeenUnchanged
<1>8. CASE RecheckLock(p)
  <2>1. file' = file /\ op[p] # "idle" /\ answer[p] = "none"
    BY <1>8, <1>b DEF RecheckLock, disk
  <2>2. lockFile = lockFd[p]
    BY <1>8 DEF RecheckLock, LocksOK, AloneOK, Held, LockInodes
  <2>3. Record(p)' = Record(p)
    BY <1>8, <2>2 DEF RecheckLock, Record
  <2>4. QED
    BY <1>a, <2>1, <2>3, SeenUnchanged
<1>9. CASE Inspect(p)
  <2>1. file' = file /\ op[p] # "idle" /\ answer[p] = "none"
    BY <1>9, <1>b DEF Inspect, disk
  <2>2. CASE file = NoFile /\ op[p] = "remove"
    <3>1. /\ Record(p)' = [op |-> "remove", content |-> content[p], answer |-> "ok"]
          /\ file.content = None
      BY <1>9, <2>2 DEF Inspect, Conclude, Record, NoFile
    <3>2. Promise!Remove(p)
      BY <1>a, <2>1, <2>2, <3>1, SeenRemoval
    <3>3. QED
      BY <3>2 DEF Promise!Next
  <2>3. CASE file # NoFile /\ ~Marked(file)
    <3>1. Record(p)' = [op |-> op[p], content |-> content[p], answer |-> "error"]
      BY <1>9, <2>3 DEF Inspect, Conclude, Record
    <3>2. Promise!Refuse(p)
      BY <1>a, <2>1, <3>1, SeenRefusal
    <3>3. QED
      BY <3>2 DEF Promise!Next
  <2>4. CASE ~(file = NoFile /\ op[p] = "remove") /\ ~(file # NoFile /\ ~Marked(file))
    <3>1. Record(p)' = Record(p)
      BY <1>9, <2>4 DEF Inspect, Record
    <3>2. QED
      BY <1>a, <2>1, <3>1, SeenUnchanged
  <2>5. QED
    BY <2>2, <2>3, <2>4
<1>10. CASE WriteTemporary(p)
  <2>1. Record(p)' = Record(p) /\ file' = file
    BY <1>10 DEF WriteTemporary, disk, local, Record
  <2>2. QED
    BY <1>a, <2>1, SeenUnchanged
<1>11. CASE Verify(p)
  <2>1. file' = file /\ op[p] # "idle" /\ answer[p] = "none"
    BY <1>11, <1>b DEF Verify, disk
  <2>2. CASE StillOwned(p)
    <3>1. Record(p)' = Record(p)
      BY <1>11, <2>2 DEF Verify, Record
    <3>2. QED
      BY <1>a, <2>1, <3>1, SeenUnchanged
  <2>3. CASE ~StillOwned(p)
    <3>1. Record(p)' = [op |-> op[p], content |-> content[p], answer |-> "error"]
      BY <1>11, <2>3 DEF Verify, Conclude, Record
    <3>2. Promise!Refuse(p)
      BY <1>a, <2>1, <3>1, SeenRefusal
    <3>3. QED
      BY <3>2 DEF Promise!Next
  <2>4. QED
    BY <2>2, <2>3
<1>12. CASE Publish(p)
  <2>1. file.content # Foreign
    BY <1>12, OwnedContent DEF Publish, AloneOK, Owning
  <2>2. op[p] = "install" /\ answer[p] = "none" /\ file'.content = content[p]
    BY <1>12, <1>b DEF Publish
  <2>3. Record(p)' = [op |-> "install", content |-> content[p], answer |-> "ok"]
    BY <1>12, <2>2 DEF Publish, Conclude, Record
  <2>4. Promise!Install(p)
    BY <1>a, <2>1, <2>2, <2>3, SeenInstall
  <2>5. QED
    BY <2>4 DEF Promise!Next
<1>13. CASE Unlink(p)
  <2>1. file.content # Foreign
    BY <1>13, OwnedContent DEF Unlink, AloneOK, Owning
  <2>2. op[p] = "remove" /\ answer[p] = "none" /\ file'.content = None
    BY <1>13, <1>b DEF Unlink, NoFile
  <2>3. Record(p)' = [op |-> "remove", content |-> content[p], answer |-> "ok"]
    BY <1>13, <2>2 DEF Unlink, Conclude, Record
  <2>4. Promise!Remove(p)
    BY <1>a, <2>1, <2>2, <2>3, SeenRemoval
  <2>5. QED
    BY <2>4 DEF Promise!Next
<1>14. CASE Lstat(p)
  <2>1. file' = file /\ op[p] # "idle" /\ answer[p] = "none"
    BY <1>14, <1>b DEF Lstat, disk
  <2>2. CASE file = NoFile
    <3>1. Record(p)' = [op |-> op[p], content |-> content[p], answer |-> "error"]
      BY <1>14, <2>2 DEF Lstat, Conclude, Record
    <3>2. Promise!Refuse(p)
      BY <1>a, <2>1, <3>1, SeenRefusal
    <3>3. QED
      BY <3>2 DEF Promise!Next
  <2>3. CASE file # NoFile
    <3>1. Record(p)' = Record(p)
      BY <1>14, <2>3 DEF Lstat, Record
    <3>2. QED
      BY <1>a, <2>1, <3>1, SeenUnchanged
  <2>4. QED
    BY <2>2, <2>3
<1>15. CASE Read(p)
  <2>1. file' = file /\ op[p] = "show" /\ answer[p] = "none"
    BY <1>15, <1>b DEF Read, disk
  <2>2. CASE file.inode = seen[p] /\ Marked(file)
    <3>1. /\ Record(p)' = [op |-> "show", content |-> file.content, answer |-> "ok"]
          /\ file.content \in Contents
      BY <1>15, <2>1, <2>2 DEF Read, Conclude, Record, Marked
    <3>2. Promise!Show(p)
      BY <1>a, <2>1, <3>1, SeenShow
    <3>3. QED
      BY <3>2 DEF Promise!Next
  <2>3. CASE ~(file.inode = seen[p] /\ Marked(file))
    <3>1. Record(p)' = [op |-> op[p], content |-> content[p], answer |-> "error"]
      BY <1>15, <2>3 DEF Read, Conclude, Record
    <3>2. Promise!Refuse(p)
      BY <1>a, <2>1, <3>1, SeenRefusal
    <3>3. QED
      BY <3>2 DEF Promise!Next
  <2>4. QED
    BY <2>2, <2>3
<1>16. CASE CallFails(p)
  <2>1. file' = file /\ op[p] # "idle" /\ answer[p] = "none"
    BY <1>16 DEF CallFails, disk
  <2>2. Record(p)' = [op |-> op[p], content |-> content[p], answer |-> "error"]
    BY <1>16 DEF CallFails, Conclude, Record
  <2>3. Promise!Refuse(p)
    BY <1>a, <2>1, <2>2, SeenRefusal
  <2>4. QED
    BY <2>3 DEF Promise!Next
<1>17. CASE Release(p)
  <2>1. file' = file /\ answer[p] # "none"
    BY <1>17 DEF Release
  <2>2. CASE answer' = answer
    <3>1. Record(p)' = Record(p)
      BY <1>17, <2>2 DEF Release, Record
    <3>2. QED
      BY <1>a, <2>1, <3>1, SeenUnchanged
  <2>3. CASE answer' = [answer EXCEPT ![p] = "failed"]
    <3>1. Record(p)' = [op |-> op[p], content |-> content[p], answer |-> "error"]
      BY <1>17, <2>3 DEF Release, Record
    <3>2. CASE answer[p] = "ok"
      <4>1. Promise!Blame(p)
        BY <1>a, <2>1, <3>1, <3>2, SeenBlame
      <4>2. QED
        BY <4>1 DEF Promise!Next
    <3>3. CASE answer[p] \in {"refused", "failed"}
      <4>1. Record(p)' = Record(p)
        BY <3>1, <3>3 DEF Record
      <4>2. QED
        BY <1>a, <2>1, <4>1, SeenUnchanged
    <3>4. QED
      BY <2>1, <3>2, <3>3
  <2>4. QED
    BY <1>17, <2>2, <2>3 DEF Release
<1>18. CASE Return(p)
  <2>1. /\ Record(p)' = [op |-> "idle", content |-> None, answer |-> "none"]
        /\ file' = file /\ op[p] # "idle"
    BY <1>18 DEF Return, disk, Reset, Record
  <2>2. Promise!Return(p)
    BY <1>a, <2>1, SeenReturn
  <2>3. QED
    BY <2>2 DEF Promise!Next
<1>19. CASE Kill(p)
  <2>1. /\ Record(p)' = [op |-> "idle", content |-> None, answer |-> "none"]
        /\ file' = file /\ op[p] # "idle"
    BY <1>19 DEF Kill, Reset, Record
  <2>2. Promise!Return(p)
    BY <1>a, <2>1, SeenReturn
  <2>3. QED
    BY <2>2 DEF Promise!Next
<1>20. QED
  BY <1>1, <1>2, <1>3, <1>4, <1>5, <1>6, <1>7, <1>8, <1>9, <1>10, <1>11,
         <1>12, <1>13, <1>14, <1>15, <1>16, <1>17, <1>18, <1>19
     DEF Acts, Call, Step

\* RemoveWaitsForInstall: with one lock file, who holds the lock has it open, so
\* the lock file exists, and no remove can be between inspection and unlink.
THEOREM RemoveWaits == Spec => RemoveWaitsForInstall
<1> DEFINE A == edits = 0 => \A p, q \in Procs :
                   /\ op[p] = "remove" /\ answer[p] = "none" /\ answer'[p] = "ok"
                   /\ p # q /\ op[q] = "install"
                   => ~Mutating(q)
<1>1. IInv /\ [Next]_vars => A
  <2> SUFFICES ASSUME IInv, [Next]_vars, edits = 0, NEW p \in Procs, NEW q \in Procs,
                      op[p] = "remove", answer[p] = "none", answer'[p] = "ok",
                      p # q, Mutating(q)
               PROVE  FALSE
    OBVIOUS
  <2>1. PICK r \in Procs : Acts(r)
    BY DEF vars, local, Next, Acts, Administrator
  <2>2. (OpenExistingLock(p) /\ lockFile = 0) \/ Inspect(p) \/ Unlink(p)
    BY <2>1, AnswersOK DEF IInv
  <2>3. pc[q] \in Held /\ lockFile # 0
    BY DEF Mutating, Held, Owning, IInv, LocksOK, AloneOK, LockInodes
  <2>4. pc[p] \in Held
    BY <2>2, <2>3 DEF Inspect, Unlink, Held, Owning
  <2>5. QED
    BY <2>3, <2>4, OneHolder DEF IInv
<1>2. QED
  BY Invariant, <1>1, PTL DEF Spec, RemoveWaitsForInstall

\* KeepsPromise: while nobody edits the directory, the operations are atomic.
THEOREM Refines == Spec => KeepsPromise
<1> DEFINE A == edits' = 0 => Promise!Next
<1>1. Init => Promise!Init
  BY CronAssumption DEF Init, Promise!Init, Promise!Idle, NoFile, Contents
<1>2. IInv /\ [Next]_vars => A \/ UNCHANGED Promise!promiseVars
  <2> SUFFICES ASSUME IInv, [Next]_vars, edits' = 0
               PROVE  Promise!Next \/ UNCHANGED Promise!promiseVars
    OBVIOUS
  <2>1. CASE UNCHANGED vars
    BY <2>1 DEF vars, disk, local, Promise!promiseVars
  <2>2. CASE Administrator
    BY <2>2, CronAssumption DEF Administrator, IInv, TypesOK
  <2>3. ASSUME NEW p \in Procs, Acts(p)
        PROVE  Promise!Next \/ UNCHANGED Promise!promiseVars
    BY <2>3, StepRefines, OneRecord DEF IInv
  <2>4. QED
    BY <2>1, <2>2, <2>3 DEF Next, Acts
<1>3. QED
  BY Invariant, <1>1, <1>2, PTL DEF Spec, KeepsPromise
=============================================================================
