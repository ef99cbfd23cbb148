---------------------------- MODULE CronManager ----------------------------
(***************************************************************************)
(* cron.Manager: several processes install, show and remove the one file   *)
(* in /etc/cron.d.  Install and Remove hold a flock on a hidden file next  *)
(* to it; an administrator who edits the directory does not.  Every system *)
(* call that another actor's could come between is a step of its own.      *)
(***************************************************************************)
EXTENDS Naturals

CONSTANTS
    Procs,     \* processes, each with a configuration of its own
    Free,      \* nobody holds a flock
    None,      \* no file
    Foreign,   \* the content of a file without the ownership marker
    Inodes,    \* inode numbers of schedules; the file system reuses them
    MaxEdits   \* bound: interventions of the administrator

ASSUME CronAssumption ==
    /\ Free \notin Procs /\ None \notin Procs /\ Foreign \notin Procs
    /\ None # Foreign
    /\ Inodes \subseteq Nat \ {0}
    /\ MaxEdits \in Nat

\* The schedules, all of them marked, named by the process whose configuration
\* they render.
Contents == Procs

VARIABLES
    file,      \* the schedule: its inode, 0 if there is none, and its content
    lockFile,  \* inode of the lock file, 0 if there is none
    holder,    \* who holds the flock on each lock inode
    pc,        \* the next step of each process
    op,        \* its operation
    content,   \* what it installs, or what it shows
    seen,      \* the inode it inspected, 0 for no file
    lockFd,    \* the lock inode it has open
    answer,    \* "ok"; "refused" by a check of the program; "failed" in a call
    edits,     \* interventions so far
    edited     \* history: the administrator acted since this process verified

disk == <<file, lockFile, holder>>
local == <<op, content, seen, lockFd, answer>>
history == <<edits, edited>>
vars == <<disk, pc, local, history>>

NoFile == [inode |-> 0, content |-> None]
Marked(f) == f.content \in Contents
LockInodes == 1 .. MaxEdits + 1

Init ==
    /\ file \in {NoFile} \cup [inode : Inodes, content : Contents \cup {Foreign}]
    /\ lockFile \in {0, 1}
    /\ holder = [i \in LockInodes |-> Free]
    /\ pc = [p \in Procs |-> "idle"]
    /\ op = [p \in Procs |-> "idle"]
    /\ content = [p \in Procs |-> None]
    /\ seen = [p \in Procs |-> 0]
    /\ lockFd = [p \in Procs |-> 0]
    /\ answer = [p \in Procs |-> "none"]
    /\ edits = 0
    /\ edited = [p \in Procs |-> FALSE]

Goto(p, step) == pc' = [pc EXCEPT ![p] = step]

\* Go on to release what the operation holds and return this answer.
Conclude(p, result) ==
    /\ answer' = [answer EXCEPT ![p] = result]
    /\ Goto(p, "release")

-----------------------------------------------------------------------------
(* The calls and the lock *)

CallInstall(p) ==
    /\ pc[p] = "idle"
    /\ op' = [op EXCEPT ![p] = "install"]
    /\ content' = [content EXCEPT ![p] = p]
    /\ Goto(p, "open_lock")
    /\ UNCHANGED <<disk, seen, lockFd, answer, history>>

CallRemove(p) ==
    /\ pc[p] = "idle"
    /\ op' = [op EXCEPT ![p] = "remove"]
    /\ Goto(p, "presence")
    /\ UNCHANGED <<disk, content, seen, lockFd, answer, history>>

CallShow(p) ==
    /\ pc[p] = "idle"
    /\ op' = [op EXCEPT ![p] = "show"]
    /\ Goto(p, "lstat")
    /\ UNCHANGED <<disk, content, seen, lockFd, answer, history>>

\* Mutant: what is absent needs no lock at all.
CheckPresenceOnly(p) ==
    /\ pc[p] = "presence"
    /\ IF file = NoFile THEN Conclude(p, "ok") ELSE Goto(p, "open_lock") /\ UNCHANGED answer
    /\ UNCHANGED <<disk, op, content, seen, lockFd, history>>

\* Remove of an absent file creates no lock file.
CheckPresence(p) ==
    /\ pc[p] = "presence"
    /\ Goto(p, IF file = NoFile THEN "open_existing_lock" ELSE "open_lock")
    /\ UNCHANGED <<disk, local, history>>

OpenLock(p) ==
    /\ pc[p] = "open_lock"
    /\ lockFile' = IF lockFile = 0 THEN edits + 1 ELSE lockFile
    /\ lockFd' = [lockFd EXCEPT ![p] = lockFile']
    /\ Goto(p, "flock")
    /\ UNCHANGED <<file, holder, op, content, seen, answer, history>>

\* Without a lock file no install has got anywhere yet.
OpenExistingLock(p) ==
    /\ pc[p] = "open_existing_lock"
    /\ IF lockFile = 0
         THEN Conclude(p, "ok") /\ UNCHANGED lockFd
         ELSE /\ lockFd' = [lockFd EXCEPT ![p] = lockFile]
              /\ Goto(p, "flock_existing")
              /\ UNCHANGED answer
    /\ UNCHANGED <<disk, op, content, seen, history>>

Locked(p) == Goto(p, IF pc[p] = "flock" THEN "recheck" ELSE "recheck_existing")

\* Mutant: the lock is shared.
FlockShared(p) ==
    /\ pc[p] \in {"flock", "flock_existing"}
    /\ holder' = [holder EXCEPT ![lockFd[p]] = p]
    /\ Locked(p)
    /\ UNCHANGED <<file, lockFile, local, history>>

Flock(p) ==
    /\ pc[p] \in {"flock", "flock_existing"}
    /\ holder[lockFd[p]] = Free
    /\ holder' = [holder EXCEPT ![lockFd[p]] = p]
    /\ Locked(p)
    /\ UNCHANGED <<file, lockFile, local, history>>

\* Mutant: the lock is taken whichever file it is on.
LockUnchecked(p) ==
    /\ pc[p] \in {"recheck", "recheck_existing"}
    /\ Goto(p, "inspect")
    /\ UNCHANGED <<disk, op, content, seen, lockFd, answer, history>>

\* The lock file is still the one that is locked.  Otherwise the lock is given up,
\* whatever that answers; a Remove that found no schedule takes a lock file that is
\* gone by now for one that never existed.
RecheckLock(p) ==
    /\ pc[p] \in {"recheck", "recheck_existing"}
    /\ IF lockFile = lockFd[p]
         THEN Goto(p, "inspect") /\ UNCHANGED <<lockFd, answer>>
         ELSE /\ lockFd' = [lockFd EXCEPT ![p] = 0]
              /\ Conclude(p, IF pc[p] = "recheck_existing" /\ lockFile = 0 THEN "ok"
                                                                       ELSE "refused")
    /\ UNCHANGED <<disk, op, content, seen, history>>

-----------------------------------------------------------------------------
(* Install, Remove and Show *)

Inspect(p) ==
    /\ pc[p] = "inspect"
    /\ seen' = [seen EXCEPT ![p] = file.inode]
    /\ CASE file = NoFile /\ op[p] = "remove" -> Conclude(p, "ok")
         [] file # NoFile /\ ~Marked(file) -> Conclude(p, "refused")
         [] OTHER -> /\ Goto(p, IF op[p] = "install" THEN "write" ELSE "verify")
                     /\ UNCHANGED answer
    /\ UNCHANGED <<disk, op, content, lockFd, history>>

\* Create, write, sync, chmod and close the temporary file, which cron ignores.
WriteTemporary(p) ==
    /\ pc[p] = "write"
    /\ Goto(p, "verify")
    /\ UNCHANGED <<disk, local, history>>

\* Mutant: the marker is not looked for again.
SameFile(p) == file.inode = seen[p]

\* verifyDestinationOwnership: still absent, or still the same marked file.
StillOwned(p) ==
    \/ seen[p] = 0 /\ file = NoFile
    \/ seen[p] # 0 /\ file.inode = seen[p] /\ Marked(file)

Verify(p) ==
    /\ pc[p] = "verify"
    /\ IF StillOwned(p)
         THEN /\ Goto(p, IF op[p] = "install" THEN "rename" ELSE "remove")
              /\ edited' = [edited EXCEPT ![p] = FALSE]
              /\ UNCHANGED answer
         ELSE Conclude(p, "refused") /\ UNCHANGED edited
    /\ UNCHANGED <<disk, op, content, seen, lockFd, edits>>

Publish(p) ==
    /\ pc[p] = "rename"
    /\ \E i \in Inodes \ {file.inode} : file' = [inode |-> i, content |-> content[p]]
    /\ Conclude(p, "ok")
    /\ UNCHANGED <<lockFile, holder, op, content, seen, lockFd, history>>

\* Mutant: every error of os.Remove is ignored.
UnlinkIgnoringErrors(p) ==
    /\ pc[p] = "remove"
    /\ file' \in {NoFile, file}
    /\ Conclude(p, "ok")
    /\ UNCHANGED <<lockFile, holder, op, content, seen, lockFd, history>>

\* os.Remove: a file that is gone by now is no error.
Unlink(p) ==
    /\ pc[p] = "remove"
    /\ file' = NoFile
    /\ Conclude(p, "ok")
    /\ UNCHANGED <<lockFile, holder, op, content, seen, lockFd, history>>

\* Show takes no lock: Lstat, then open and read what must be the same file.
Lstat(p) ==
    /\ pc[p] = "lstat"
    /\ IF file = NoFile
         THEN Conclude(p, "refused") /\ UNCHANGED seen
         ELSE /\ seen' = [seen EXCEPT ![p] = file.inode]
              /\ Goto(p, "read")
              /\ UNCHANGED answer
    /\ UNCHANGED <<disk, op, content, lockFd, history>>

Read(p) ==
    /\ pc[p] = "read"
    /\ IF file.inode = seen[p] /\ Marked(file)
         THEN /\ content' = [content EXCEPT ![p] = file.content]
              /\ Conclude(p, "ok")
         ELSE Conclude(p, "refused") /\ UNCHANGED content
    /\ UNCHANGED <<disk, op, seen, lockFd, history>>

\* Any system call before the answer may fail; a temporary file is removed.
CallFails(p) ==
    /\ pc[p] # "idle" /\ answer[p] = "none"
    /\ Conclude(p, "failed")
    /\ UNCHANGED <<disk, op, content, seen, lockFd, history>>

\* Mutant: the lock is not released.
Leaked(p) == UNCHANGED holder

Unlocked(p) ==
    holder' = [i \in LockInodes |-> IF holder[i] = p THEN Free ELSE holder[i]]

\* The deferred release: closing the descriptor unlocks, and an error of either
\* call is joined to the answer.
Release(p) ==
    /\ pc[p] = "release"
    /\ Unlocked(p)
    /\ \/ UNCHANGED answer
       \/ lockFd[p] # 0 /\ answer' = [answer EXCEPT ![p] = "failed"]
    /\ Goto(p, "return")
    /\ UNCHANGED <<file, lockFile, op, content, seen, lockFd, history>>

Reset(p) ==
    /\ Goto(p, "idle")
    /\ op' = [op EXCEPT ![p] = "idle"]
    /\ content' = [content EXCEPT ![p] = None]
    /\ seen' = [seen EXCEPT ![p] = 0]
    /\ lockFd' = [lockFd EXCEPT ![p] = 0]
    /\ answer' = [answer EXCEPT ![p] = "none"]

Return(p) ==
    /\ pc[p] = "return"
    /\ Reset(p)
    /\ UNCHANGED <<disk, history>>

-----------------------------------------------------------------------------
(* Around the processes *)

\* The kernel releases the lock.
Kill(p) ==
    /\ pc[p] # "idle"
    /\ Unlocked(p)
    /\ Reset(p)
    /\ UNCHANGED <<file, lockFile, history>>

\* The administrator writes an own file there, unmarks or deletes the schedule,
\* or removes the lock file.
Administrator ==
    /\ edits < MaxEdits
    /\ edits' = edits + 1
    /\ edited' = [p \in Procs |-> TRUE]
    /\ \/ /\ \E i \in Inodes \ {file.inode} : file' = [inode |-> i, content |-> Foreign]
          /\ UNCHANGED lockFile
       \/ /\ file # NoFile
          /\ file' \in {NoFile, [file EXCEPT !.content = Foreign]}
          /\ UNCHANGED lockFile
       \/ /\ lockFile # 0
          /\ lockFile' = 0
          /\ UNCHANGED file
    /\ UNCHANGED <<holder, pc, local>>

Step(p) ==
    \/ CheckPresence(p) \/ OpenLock(p) \/ OpenExistingLock(p)
    \/ RecheckLock(p) \/ Inspect(p) \/ WriteTemporary(p) \/ Verify(p)
    \/ Publish(p) \/ Unlink(p) \/ Lstat(p) \/ Read(p) \/ Release(p) \/ Return(p)

Call(p) == CallInstall(p) \/ CallRemove(p) \/ CallShow(p)

Next ==
    \/ \E p \in Procs : Call(p) \/ Flock(p) \/ Step(p) \/ CallFails(p) \/ Kill(p)
    \/ Administrator

Spec == Init /\ [][Next]_vars

\* The file system answers, and a waiter for a lock that keeps being released
\* gets it: Linux queues the waiters of a flock.
FairSpec == Spec /\ \A p \in Procs : WF_vars(Step(p)) /\ SF_vars(Flock(p))

-----------------------------------------------------------------------------
(* Properties *)

\* While nobody edits the directory by hand, the checks around the lock (same
\* lock file, nothing appeared, same inode, still marked) never turn down an
\* install or a remove because of what the other processes do: it is refused
\* only for a file that is not the program's.
RefusedOnlyForForeignFile ==
    edits = 0 => \A p \in Procs :
        op[p] \in {"install", "remove"} /\ answer[p] = "refused"
            => file.content = Foreign

\* The steps of a mutation that another mutation must not see half done.
Mutating(p) == pc[p] \in {"inspect", "write", "verify", "rename", "remove"}

\* A remove does not answer ok past an install that already holds the lock: the
\* unlocked fast path notices the lock file of a first install that has not
\* published yet.
RemoveWaitsForInstall ==
    [][edits = 0 => \A p, q \in Procs :
            /\ op[p] = "remove" /\ answer[p] = "none" /\ answer'[p] = "ok"
            /\ p # q /\ op[q] = "install"
            => ~Mutating(q)]_vars

\* A mutation replaces or deletes a file without the marker only if it was put
\* there, or lost its marker, after verifyDestinationOwnership looked: the
\* window between that check and the rename or unlink is the only one.
ForeignFileSurvives ==
    [][\A p \in Procs :
            /\ pc[p] \in {"rename", "remove"} /\ pc'[p] # pc[p]
            /\ file.content = Foreign /\ file' # file
            => edited[p]]_vars

\* A mutation begins beside another one only if the lock file that the other
\* holds was removed: a process that waited for a lock file which was replaced
\* meanwhile does not join the holder of the new one.
Exclusive ==
    [][\A p, q \in Procs :
            p # q /\ Mutating(q) /\ ~Mutating(p) /\ Mutating(p)'
            => lockFd[q] # lockFile]_vars

\* Every call returns, whoever else keeps calling or is killed while it holds
\* the lock.
CallsReturn == \A p \in Procs : pc[p] # "idle" ~> pc[p] = "idle"

\* While nobody edits the directory by hand, the three operations, with their
\* inspections, locks, temporary files and kills, are atomic operations on one
\* schedule.
Promise ==
    INSTANCE CronSchedule WITH
        schedule <- file.content,
        calls <- [p \in Procs |->
            [op |-> op[p], content |-> content[p],
             answer |-> IF answer[p] \in {"refused", "failed"} THEN "error"
                                                              ELSE answer[p]]]

KeepsPromise ==
    Promise!Init /\ [][edits' = 0 => Promise!Next]_(Promise!promiseVars)
=============================================================================
