----------------------------- MODULE LogFamily -----------------------------
(***************************************************************************)
(* One family of the JSON log (info.log, its rotations and their gzip      *)
(* files), shared by the FileLoggers of several processes.  Every          *)
(* operation runs under the lock that withFamilyLock takes on the log      *)
(* directory; inside it each system call that changes the directory is a   *)
(* step of its own, after which the process can be killed and at which the *)
(* call can fail.  An event is its number in the order of appending.       *)
(***************************************************************************)
EXTENDS Integers, Sequences, FiniteSets

CONSTANTS
    Procs,       \* process slots; a slot is used again after an exit or a kill
    Free,        \* nobody holds the lock
    MaxSize,     \* max_size_mb, in units of a short line
    Long,        \* events whose lines are two units long
    MaxFiles,    \* max_files
    AgeLimit,    \* max_age_days is set
    Compress,    \* compress
    EntryBudget, \* rotationEntryBudget(MaxFiles), without unrelated entries
    MaxWrites,   \* bound: writes by each slot
    MaxMishaps   \* bound: kills and failing system calls

ASSUME LogAssumption ==
    /\ Free \notin Procs
    /\ MaxSize \in Nat \ {0} /\ MaxFiles \in Nat \ {0} /\ Long \subseteq Nat
    /\ EntryBudget \in Nat /\ MaxWrites \in Nat /\ MaxMishaps \in Nat
    /\ AgeLimit \in BOOLEAN /\ Compress \in BOOLEAN

\* A file name: the rotation suffix, 0 for the active log, and the form.
Active == <<0, "raw">>
Raw(n) == <<n, "raw">>
Gz(n) == <<n, "gz">>
Suffix(f) == f[1]
IsGz(f) == f[2] = "gz"

Torn == 0    \* a fragment of a line, without its newline

VARIABLES
    files,    \* the log directory: the lines of every file that exists
    orphans,  \* gzip temporaries that nobody will remove
    lock,     \* holder of the flock on the directory
    pc,       \* the next step of each process
    mode,     \* what it is doing: logging.New or Write
    todo,     \* rotations it has still to shift, or to remove
    kept,     \* the in-memory list of rotations it hands to the next step
    failed,   \* the operation returns an error
    line,     \* the event it has appended in this Write
    writes,   \* Writes started by each slot
    next,     \* the next event
    acked,    \* events whose Write returned nil
    horizon,  \* events up to this one are older than max_age_days
    expired,  \* history: events of generations that retention removed
    mishaps   \* kills and failed calls so far

dir == <<files, orphans>>
local == <<mode, todo, kept, failed, line>>
counts == <<writes, next, acked, horizon, expired, mishaps>>
vars == <<dir, lock, pc, local, counts>>

LinesOf(f) == {files[f][i] : i \in DOMAIN files[f]}
Stored == (UNION {LinesOf(f) : f \in DOMAIN files}) \ {Torn}
Rotations == DOMAIN files \ {Active}
SizeOf(lines) == Len(lines) + Cardinality({i \in DOMAIN lines : lines[i] \in Long})

\* An earlier release may have left a generation beyond today's max_files.
Init ==
    /\ \/ files = [f \in {} |-> <<>>] /\ next = 1 /\ acked = {}
       \/ files = [f \in {Active, Gz(MaxFiles + 1)} |->
                       IF f = Active THEN <<2>> ELSE <<1>>]
          /\ next = 3 /\ acked = {1, 2}
    /\ orphans = 0
    /\ lock = Free
    /\ pc = [p \in Procs |-> "off"]
    /\ mode = [p \in Procs |-> "new"]
    /\ todo = [p \in Procs |-> {}]
    /\ kept = [p \in Procs |-> {}]
    /\ failed = [p \in Procs |-> FALSE]
    /\ line = [p \in Procs |-> 0]
    /\ writes = [p \in Procs |-> 0]
    /\ horizon = 0
    /\ expired = {}
    /\ mishaps = 0

Inside == {"open", "list", "shift", "rotate", "compress", "publish", "unlink",
           "retain", "drop", "finish"}

Goto(p, step) == pc' = [pc EXCEPT ![p] = step]

-----------------------------------------------------------------------------
(* The directory *)

Remove(f) == files' = [g \in DOMAIN files \ {f} |-> files[g]]

\* Renameat2 with RENAME_NOREPLACE.
Rename(f, g) ==
    /\ g \notin DOMAIN files
    /\ files' = [h \in (DOMAIN files \ {f}) \cup {g} |->
                     IF h = g THEN files[f] ELSE files[h]]

CreateActive ==
    files' = [f \in DOMAIN files \cup {Active} |->
                  IF f \in DOMAIN files THEN files[f] ELSE <<>>]

\* What retention removes counts as expired.
Expire(f) == Remove(f) /\ expired' = expired \cup (LinesOf(f) \ {Torn})

CanFail == mishaps < MaxMishaps

\* A call that changed the directory is followed by the next step, or by an
\* error: the checks after a rename, and the unlink of what was moved to the
\* quarantine, can fail when the name has already changed.
Then(p, step) ==
    \/ Goto(p, step) /\ UNCHANGED <<failed, mishaps>>
    \/ /\ CanFail
       /\ mishaps' = mishaps + 1
       /\ failed' = [failed EXCEPT ![p] = TRUE]
       /\ Goto(p, "unlock")

ReturnError(p) ==
    /\ failed' = [failed EXCEPT ![p] = TRUE]
    /\ Goto(p, "unlock")

-----------------------------------------------------------------------------
(* withFamilyLock *)

\* A new process calls logging.New; a started one calls Write.
Start(p) ==
    /\ pc[p] = "off" /\ writes[p] < MaxWrites
    /\ mode' = [mode EXCEPT ![p] = "new"]
    /\ Goto(p, "waiting")
    /\ UNCHANGED <<dir, lock, todo, kept, failed, line, counts>>

BeginWrite(p) ==
    /\ pc[p] = "idle" /\ writes[p] < MaxWrites
    /\ writes' = [writes EXCEPT ![p] = @ + 1]
    /\ mode' = [mode EXCEPT ![p] = "write"]
    /\ Goto(p, "waiting")
    /\ UNCHANGED <<dir, lock, todo, kept, failed, line, next, acked, horizon,
                   expired, mishaps>>

Acquire(p) ==
    /\ pc[p] = "waiting"
    /\ lock = Free
    /\ lock' = p
    /\ Goto(p, IF mode[p] = "new" THEN "open" ELSE "list")
    /\ UNCHANGED <<dir, local, counts>>

\* New fails the command when it fails; a Write reports its error or nil.
Unlock(p) ==
    /\ pc[p] = "unlock"
    /\ lock' = Free
    /\ acked' = IF mode[p] = "write" /\ ~failed[p] THEN acked \cup {line[p]}
                                                   ELSE acked
    /\ Goto(p, IF mode[p] = "new" /\ failed[p] THEN "off" ELSE "idle")
    /\ todo' = [todo EXCEPT ![p] = {}]
    /\ kept' = [kept EXCEPT ![p] = {}]
    /\ failed' = [failed EXCEPT ![p] = FALSE]
    /\ line' = [line EXCEPT ![p] = 0]
    /\ UNCHANGED <<dir, mode, writes, next, horizon, expired, mishaps>>

Exit(p) ==
    /\ pc[p] = "idle"
    /\ Goto(p, "off")
    /\ UNCHANGED <<dir, lock, local, counts>>

-----------------------------------------------------------------------------
(* rotateIfNeeded and rotate *)

\* New opens, and creates, the active log before it looks at the rotations.
OpenActive(p) ==
    /\ pc[p] = "open"
    /\ CreateActive
    /\ Then(p, "list")
    /\ UNCHANGED <<orphans, lock, mode, todo, kept, line, writes, next, acked,
                   horizon, expired>>

\* The enumeration is refused over its budget; a missing active log is an error.
ListRefused(p) ==
    /\ pc[p] = "list"
    /\ \/ Cardinality(DOMAIN files) + orphans > EntryBudget
       \/ Active \notin DOMAIN files
    /\ ReturnError(p)
    /\ UNCHANGED <<dir, lock, mode, todo, kept, line, counts>>

\* Mutant: rotation waits until the log is past its size.
ActivePastFull == SizeOf(files[Active]) > MaxSize

\* The size is looked at before the line is appended, whatever its length.
ActiveFull == SizeOf(files[Active]) >= MaxSize

List(p) ==
    /\ pc[p] = "list"
    /\ Cardinality(DOMAIN files) + orphans <= EntryBudget
    /\ Active \in DOMAIN files
    /\ IF ActiveFull
         THEN /\ todo' = [todo EXCEPT ![p] = Rotations]
              /\ Goto(p, "shift")
              /\ UNCHANGED kept
         ELSE /\ kept' = [kept EXCEPT ![p] = Rotations]
              /\ Goto(p, "retain")
              /\ UNCHANGED todo
    /\ UNCHANGED <<dir, lock, mode, failed, line, counts>>

\* Sort by suffix, highest first; of two forms the gzip file comes first.
ShiftsBefore(f, g) ==
    Suffix(f) > Suffix(g) \/ (Suffix(f) = Suffix(g) /\ IsGz(f) /\ ~IsGz(g))

Shift(p) ==
    /\ pc[p] = "shift"
    /\ \E f \in todo[p] :
        /\ \A g \in todo[p] \ {f} : ShiftsBefore(f, g)
        /\ todo' = [todo EXCEPT ![p] = @ \ {f}]
        /\ IF Suffix(f) >= MaxFiles
             THEN /\ Expire(f)
                  /\ UNCHANGED kept
             ELSE LET g == <<Suffix(f) + 1, f[2]>>
                  IN  /\ Rename(f, g)
                      /\ kept' = [kept EXCEPT ![p] = @ \cup {g}]
                      /\ UNCHANGED expired
    /\ Then(p, "shift")
    /\ UNCHANGED <<orphans, lock, mode, line, writes, next, acked, horizon>>

\* Mutant: the active log does not wait for the generations before it.
RotateActiveEarly(p) ==
    /\ pc[p] = "shift"
    /\ Rename(Active, Raw(1))
    /\ kept' = [kept EXCEPT ![p] = @ \cup {Raw(1)}]
    /\ Then(p, IF Compress THEN "compress" ELSE "retain")
    /\ UNCHANGED <<orphans, lock, mode, todo, line, writes, next, acked, horizon,
                   expired>>

RotateActive(p) ==
    /\ pc[p] = "shift"
    /\ todo[p] = {}
    /\ Rename(Active, Raw(1))
    /\ kept' = [kept EXCEPT ![p] = @ \cup {Raw(1)}]
    /\ Then(p, IF Compress THEN "compress" ELSE "retain")
    /\ UNCHANGED <<orphans, lock, mode, todo, line, writes, next, acked, horizon,
                   expired>>

\* compressFileAt writes a temporary, publishes it, and removes the source.
WriteTemporary(p) ==
    /\ pc[p] = "compress"
    /\ Goto(p, "publish")
    /\ UNCHANGED <<dir, lock, local, counts>>

\* Mutant: the gzip file is published before it is written.
PublishUnwritten(p) ==
    /\ pc[p] = "publish"
    /\ files' = [f \in DOMAIN files \cup {Gz(1)} |-> IF f = Gz(1) THEN <<>> ELSE files[f]]
    /\ Then(p, "unlink")
    /\ UNCHANGED <<orphans, lock, mode, todo, kept, line, writes, next, acked,
                   horizon, expired>>

PublishGzip(p) ==
    /\ pc[p] = "publish"
    /\ Gz(1) \notin DOMAIN files
    /\ files' = [f \in DOMAIN files \cup {Gz(1)} |->
                     IF f = Gz(1) THEN files[Raw(1)] ELSE files[f]]
    /\ Then(p, "unlink")
    /\ UNCHANGED <<orphans, lock, mode, todo, kept, line, writes, next, acked,
                   horizon, expired>>

UnlinkSource(p) ==
    /\ pc[p] = "unlink"
    /\ Remove(Raw(1))
    /\ kept' = [kept EXCEPT ![p] = (@ \ {Raw(1)}) \cup {Gz(1)}]
    /\ Then(p, "retain")
    /\ UNCHANGED <<orphans, lock, mode, todo, line, writes, next, acked, horizon,
                   expired>>

-----------------------------------------------------------------------------
(* enforceRetention and appendLineAt *)

\* A raw rotation was last written with its last line, if that is an event; one
\* that ends in a fragment, and a gzip file, after its newest event, or after that
\* of the next older rotation, and just before the event after that was appended.
LastWrite(f, e) ==
    IF ~IsGz(f) /\ files[f] # <<>> /\ files[f][Len(files[f])] = e THEN e ELSE e + 1

NotNewer(f) == {e \in Stored : \E g \in DOMAIN files :
                                  Suffix(g) >= Suffix(f) /\ e \in LinesOf(g)}

\* Mutant: the comparison of the ages is the wrong way round.
TooYoung(f) == AgeLimit /\ \A e \in NotNewer(f) : LastWrite(f, e) > horizon

TooOld(f) == AgeLimit /\ \A e \in NotNewer(f) : LastWrite(f, e) <= horizon

\* Generations beyond MaxFiles or too old are not kept, and of the others only
\* the MaxFiles newest; which of two forms of one suffix is the newer, and in
\* which order files are removed, is left open.
Retained(all) ==
    LET eligible == {f \in all : Suffix(f) <= MaxFiles /\ ~TooOld(f)}
        limit == IF Cardinality(eligible) < MaxFiles THEN Cardinality(eligible)
                                                     ELSE MaxFiles
    IN  {K \in SUBSET eligible :
            /\ Cardinality(K) = limit
            /\ \A f \in K, g \in eligible \ K : Suffix(f) <= Suffix(g)}

Retain(p) ==
    /\ pc[p] = "retain"
    /\ \E K \in Retained(kept[p]) : todo' = [todo EXCEPT ![p] = kept[p] \ K]
    /\ Goto(p, "drop")
    /\ UNCHANGED <<dir, lock, mode, kept, failed, line, counts>>

Drop(p) ==
    /\ pc[p] = "drop"
    /\ \/ \E f \in todo[p] :
            /\ Expire(f)
            /\ todo' = [todo EXCEPT ![p] = @ \ {f}]
            /\ Then(p, "drop")
       \/ /\ todo[p] = {}
          /\ Goto(p, "finish")
          /\ UNCHANGED <<files, todo, expired, failed, mishaps>>
    /\ UNCHANGED <<orphans, lock, mode, kept, line, writes, next, acked, horizon>>

\* New opens the active log once more.
ReopenActive(p) ==
    /\ pc[p] = "finish" /\ mode[p] = "new"
    /\ CreateActive
    /\ Then(p, "unlock")
    /\ UNCHANGED <<orphans, lock, mode, todo, kept, line, writes, next, acked,
                   horizon, expired>>

AppendLine(x) ==
    files' = [f \in DOMAIN files \cup {Active} |->
                  IF f # Active THEN files[f]
                  ELSE IF Active \in DOMAIN files THEN Append(files[f], x)
                  ELSE <<x>>]

AppendEvent(p) ==
    /\ pc[p] = "finish" /\ mode[p] = "write"
    /\ AppendLine(next)
    /\ line' = [line EXCEPT ![p] = next]
    /\ next' = next + 1
    /\ Then(p, "unlock")
    /\ UNCHANGED <<orphans, lock, mode, todo, kept, writes, acked, horizon,
                   expired>>

\* A short write whose rollback fails leaves a fragment.
AppendTorn(p) ==
    /\ pc[p] = "finish" /\ mode[p] = "write"
    /\ CanFail
    /\ mishaps' = mishaps + 1
    /\ AppendLine(Torn)
    /\ ReturnError(p)
    /\ UNCHANGED <<orphans, lock, mode, todo, kept, line, writes, next, acked,
                   horizon, expired>>

-----------------------------------------------------------------------------
(* Failures *)

\* A call fails and leaves the directory as it was.  The gzip temporary of a
\* failed compression is removed, unless that fails too.
CallFails(p) ==
    /\ pc[p] \in Inside
    /\ CanFail
    /\ mishaps' = mishaps + 1
    /\ ReturnError(p)
    /\ orphans' = orphans \/ (pc[p] = "publish" /\ orphans' = orphans + 1)
    /\ UNCHANGED <<files, lock, mode, todo, kept, line, writes, next, acked,
                   horizon, expired>>

\* The kernel releases the lock of a killed process.
Kill(p) ==
    /\ pc[p] # "off"
    /\ CanFail
    /\ mishaps' = mishaps + 1
    /\ lock' = IF lock = p THEN Free ELSE lock
    /\ orphans' = IF pc[p] = "publish" THEN orphans + 1 ELSE orphans
    /\ \/ UNCHANGED files
       \/ pc[p] = "finish" /\ mode[p] = "write" /\ AppendLine(Torn)
    /\ Goto(p, "off")
    /\ todo' = [todo EXCEPT ![p] = {}]
    /\ kept' = [kept EXCEPT ![p] = {}]
    /\ failed' = [failed EXCEPT ![p] = FALSE]
    /\ line' = [line EXCEPT ![p] = 0]
    /\ UNCHANGED <<mode, writes, next, acked, horizon, expired>>

\* Time passes.
Age ==
    /\ AgeLimit
    /\ horizon < next - 1
    /\ horizon' = horizon + 1
    /\ UNCHANGED <<dir, lock, pc, local, writes, next, acked, expired, mishaps>>

\* The steps of an operation between its lock and its unlock.
Locked(p) ==
    \/ OpenActive(p) \/ ListRefused(p) \/ List(p) \/ Shift(p) \/ RotateActive(p)
    \/ WriteTemporary(p) \/ PublishGzip(p) \/ UnlinkSource(p) \/ Retain(p)
    \/ Drop(p) \/ ReopenActive(p) \/ AppendEvent(p)

Operation(p) == Locked(p) \/ Unlock(p)

Caller(p) == Start(p) \/ BeginWrite(p) \/ Exit(p)
Failure(p) == AppendTorn(p) \/ CallFails(p) \/ Kill(p)

Done == (\A p \in Procs : pc[p] = "off" /\ writes[p] = MaxWrites) /\ UNCHANGED vars

Next ==
    \/ \E p \in Procs : Caller(p) \/ Acquire(p) \/ Operation(p) \/ Failure(p)
    \/ Age \/ Done

Spec == Init /\ [][Next]_vars

-----------------------------------------------------------------------------
(* Properties *)

\* No event is lost but by retention: an event whose Write returned nil is in
\* some file of the family or was in a generation that retention removed,
\* whatever is killed, or fails, between the calls of a rotation.
AckedEventsKept == acked \subseteq Stored \cup expired

\* Read from the highest suffix down to the active log, the history is in the
\* order of appending.  No event is twice in it, except that a generation whose
\* source outlived its gzip file (a kill between publishing the one and removing
\* the other) is there in both forms, with the same lines.
HistoryInOrder ==
    \A f, g \in DOMAIN files :
        /\ Suffix(f) = Suffix(g) => files[f] = files[g]
        /\ (Suffix(f) > Suffix(g) /\ ~(IsGz(f) /\ ~IsGz(g) /\ files[f] = files[g])) =>
              \A d \in LinesOf(f) \ {Torn}, e \in LinesOf(g) \ {Torn} : d < e
        /\ \A i, j \in DOMAIN files[f] :
              (i < j /\ files[f][i] # Torn /\ files[f][j] # Torn) =>
                  files[f][i] < files[f][j]

Succeeds(p) == pc[p] = "unlock" /\ ~failed[p] /\ pc'[p] = "idle"

WithoutLast(lines) == SubSeq(lines, 1, Len(lines) - 1)

\* When New or Write succeeds, the active log exists and is below its size, but
\* for the line that a Write has just appended, whatever fragments, long lines
\* and half-done rotations it found; at most MaxFiles rotations remain, and what
\* retention has removed for good is older than everything that is left.
SuccessLeavesGoodHistory ==
    [][\A p \in Procs : Succeeds(p) =>
        /\ Active \in DOMAIN files'
        /\ SizeOf(IF mode[p] = "new" THEN files'[Active]
                                    ELSE WithoutLast(files'[Active])) < MaxSize
        /\ Cardinality(DOMAIN files' \ {Active}) <= MaxFiles
        /\ \A f \in DOMAIN files' : Suffix(f) <= MaxFiles
        /\ \A d \in expired' \ Stored', e \in Stored' : d < e]_vars

=============================================================================
