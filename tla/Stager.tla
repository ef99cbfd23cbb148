------------------------------- MODULE Stager -------------------------------
(***************************************************************************)
(* GzipStager on a staging directory that somebody else changes: Stage, as *)
(* in DumpStage, then Open and Remove, which hold no descriptor over from  *)
(* Stage and know the artifact again by the identity it recorded.  The     *)
(* somebody may be a cleaner of temporary files or an administrator.       *)
(***************************************************************************)
EXTENDS DumpStage

CONSTANT MaxEdits  \* bound: changes that somebody else makes

ASSUME MaxEditsAssumption == MaxEdits \in Nat

VARIABLES
    parent,     \* temp_dir still leads to the directory Stage opened
    work,       \* what has the random name in it: "none", "ours" or "other"
    exists,     \* our private directory exists, under whatever name
    entry,      \* what has the fixed name in ours: "none", "staged", "other"
    file,       \* the staged file: its names, private mode, recorded size
    recorded,   \* the number of names in the artifact's identity
    call,       \* "none", "open" or "remove": the method that is running
    step,       \* its next step; "idle" outside
    fd,         \* the file Open has returned or is about to
    removal,    \* the answer of Remove: "none", "ok" or "error"
    edits,      \* changes by somebody else so far
    looked,     \* history: edits at the last look at the file, at the directory
    rewritten   \* history: somebody wrote to the file or reused its inode number

names == <<parent, work, exists, entry, file>>
method == <<call, step, fd, removal>>
others == <<edits, rewritten>>
stagerVars == <<vars, names, recorded, method, others, looked>>

StagerInit ==
    /\ Init
    /\ parent = TRUE /\ work = "none" /\ exists = FALSE /\ entry = "none"
    /\ file = [links |-> 0, private |-> TRUE, sized |-> TRUE]
    /\ recorded = 1
    /\ call = "none" /\ step = "idle" /\ fd = "none" /\ removal = "none"
    /\ edits = 0 /\ looked = [file |-> 0, directory |-> 0]
    /\ rewritten = FALSE

\* Mutant: a file is known again by its attributes alone.
MatchesButInode(links) == entry # "none" /\ (entry = "staged" => file.links = links)

\* Mutant: another name of the file is no matter.
MatchesButLinks(links) == entry = "staged" /\ file.private

\* Artifact.matchesFile without the size: the entry is the staged file, with
\* this many names and mode 0600.  A stranger's file would differ in its inode
\* number alone.
Matches(links) == entry = "staged" /\ file.private /\ file.links = links

\* With the exact size.
MatchesExactly(links) == Matches(links) /\ (entry = "staged" => file.sized)

\* The file that has the fixed name loses it.
Unlinked ==
    /\ entry' = "none"
    /\ file' = IF entry = "staged" THEN [file EXCEPT !.links = @ - 1] ELSE file

-----------------------------------------------------------------------------
(* Stage: what its steps do to the directory and what they find there *)

StageNewWorkspace ==
    /\ NewWorkspace
    /\ work' = IF staging' = "directory" THEN "ours" ELSE "none"
    /\ exists' = (staging' = "directory")
    /\ UNCHANGED <<parent, entry, file, recorded>>

\* The file is created through the descriptor of the directory, wherever that
\* is by now; without a file the directory is removed if it is still in place.
StageCreateFile ==
    /\ CreateFile
    /\ IF staging' = "partial"
         THEN /\ exists /\ entry = "none"
              /\ entry' = "staged"
              /\ file' = [file EXCEPT !.links = 1]
              /\ UNCHANGED <<work, exists>>
         ELSE /\ staging' = "none" => work = "ours" /\ entry = "none"
              /\ work' = IF staging' = "none" THEN "none" ELSE work
              /\ exists' = (exists /\ staging' # "none")
              /\ UNCHANGED <<entry, file>>
    /\ UNCHANGED <<parent, recorded>>

\* The last fstat makes the identity: links, mode and size as they are then.
\* When it fails Stage fails, with the identity from the creation.
StageCloseFile ==
    /\ CloseFile
    /\ \/ recorded' = file.links
       \/ fail' # "none" /\ UNCHANGED recorded
    /\ file' = [file EXCEPT !.sized = TRUE]
    /\ UNCHANGED <<parent, work, exists, entry>>

StageVerifyFinal ==
    /\ VerifyFinal
    /\ staging' = "artifact" => work = "ours" /\ MatchesExactly(recorded)
    /\ UNCHANGED <<names, recorded>>

\* removeArtifact; what it does not find as recorded it leaves and reports.
StageRemovePartial ==
    /\ RemovePartial
    /\ IF staging' = "partial"
         THEN UNCHANGED <<entry, file>>
         ELSE Matches(recorded) /\ Unlinked
    /\ IF staging' = "none"
         THEN work = "ours" /\ work' = "none" /\ exists' = FALSE
         ELSE UNCHANGED <<work, exists>>
    /\ UNCHANGED <<parent, recorded>>

StageOnDisk ==
    /\ \/ CheckContext /\ UNCHANGED <<names, recorded>>
       \/ RecheckContext /\ UNCHANGED <<names, recorded>>
       \/ StageNewWorkspace \/ StageCreateFile \/ StageCloseFile
       \/ StageVerifyFinal \/ StageRemovePartial
    /\ UNCHANGED <<method, others, looked>>

-----------------------------------------------------------------------------
(* Open and Remove *)

\* Service.Run calls Open at most once, and Remove when it returns.
BeginOpen ==
    /\ staging = "artifact" /\ step = "idle" /\ call = "none"
    /\ call' = "open" /\ step' = "parent"
    /\ UNCHANGED <<vars, names, recorded, fd, removal, others, looked>>

BeginRemove ==
    /\ staging = "artifact" /\ step \in {"idle", "opened"} /\ removal = "none"
    /\ call' = "remove" /\ step' = "parent" /\ fd' = "none"
    /\ UNCHANGED <<vars, names, recorded, removal, others, looked>>

\* The method returns an error; its descriptors are closed.
Refused ==
    /\ step' = "idle" /\ fd' = "none"
    /\ removal' = IF call = "remove" THEN "error" ELSE removal

\* A check that decides about the next step.
Checked(condition, next) ==
    IF condition THEN step' = next /\ UNCHANGED <<fd, removal>> ELSE Refused

\* validShape, and the directory at the path of temp_dir.
OpenParent ==
    /\ step = "parent"
    /\ Checked(recorded = 1 /\ parent, "work")
    /\ UNCHANGED <<vars, names, recorded, call, others, looked>>

OpenWork ==
    /\ step = "work"
    /\ Checked(work = "ours", IF call = "open" THEN "file" ELSE "inspect")
    /\ UNCHANGED <<vars, names, recorded, call, others, looked>>

\* openat, then fstat of what was opened.
OpenFile ==
    /\ step = "file"
    /\ IF MatchesExactly(recorded)
         THEN step' = "recheck" /\ fd' = entry /\ UNCHANGED removal
         ELSE Refused
    /\ UNCHANGED <<vars, names, recorded, call, others, looked>>

\* fstatat: the name still leads to what was opened.
RecheckFile ==
    /\ step = "recheck"
    /\ Checked(MatchesExactly(recorded) /\ entry = fd, "opened")
    /\ looked' = [looked EXCEPT !.file = edits]
    /\ UNCHANGED <<vars, names, recorded, call, others>>

InspectFile ==
    /\ step = "inspect"
    /\ Checked(MatchesExactly(recorded), "unlink")
    /\ looked' = [looked EXCEPT !.file = edits]
    /\ UNCHANGED <<vars, names, recorded, call, others>>

UnlinkFile ==
    /\ step = "unlink"
    /\ IF entry = "none"
         THEN Refused /\ UNCHANGED <<entry, file>>
         ELSE Unlinked /\ step' = "verify" /\ UNCHANGED <<fd, removal>>
    /\ UNCHANGED <<vars, parent, work, exists, recorded, call, others, looked>>

\* Mutant: the directory is not looked at again.
VerifyNothing ==
    /\ step = "verify"
    /\ Checked(TRUE, "rmdir")
    /\ looked' = [looked EXCEPT !.directory = edits]
    /\ UNCHANGED <<vars, names, recorded, call, others>>

VerifyDirectory ==
    /\ step = "verify"
    /\ Checked(work = "ours", "rmdir")
    /\ looked' = [looked EXCEPT !.directory = edits]
    /\ UNCHANGED <<vars, names, recorded, call, others>>

\* Only an empty directory can be removed.
RemoveDirectory ==
    /\ step = "rmdir"
    /\ IF work = "none" \/ (work = "ours" /\ entry # "none")
         THEN Refused /\ UNCHANGED <<work, exists>>
         ELSE /\ work' = "none" /\ exists' = (exists /\ work # "ours")
              /\ step' = "idle" /\ removal' = "ok"
              /\ UNCHANGED fd
    /\ UNCHANGED <<vars, parent, entry, file, recorded, call, others, looked>>

\* Any system call of either method may fail.
MethodFails ==
    /\ step \notin {"idle", "opened"}
    /\ Refused
    /\ UNCHANGED <<vars, names, recorded, call, others, looked>>

Methods ==
    BeginOpen \/ BeginRemove \/ OpenParent \/ OpenWork \/ OpenFile \/ RecheckFile
    \/ InspectFile \/ UnlinkFile \/ VerifyDirectory \/ RemoveDirectory \/ MethodFails

-----------------------------------------------------------------------------
(* Somebody else *)

\* No name and no descriptor keeps the inode of the staged file.
InodeIsFree ==
    /\ file.links = 0 /\ fd = "none"
    /\ pc \in {"cleanup", "returned"}

\* temp_dir is renamed, or back again; the private directory is moved away, back,
\* or another one takes its name; when it is empty it may be removed.
ChangeDirectories ==
    \/ parent' = ~parent /\ UNCHANGED <<work, exists>>
    \/ /\ work' \in {"none", "other"} \cup (IF exists THEN {"ours"} ELSE {})
       /\ work' # work
       /\ UNCHANGED <<parent, exists>>
    \/ /\ exists /\ entry = "none"
       /\ exists' = FALSE
       /\ work' = IF work = "ours" THEN "none" ELSE work
       /\ UNCHANGED parent

\* The file is deleted or renamed out of the directory, another is put in its
\* place, or it comes back.
ChangeEntry ==
    /\ exists
    /\ \/ entry # "none" /\ Unlinked
       \/ /\ entry # "other" /\ entry' = "other"
          /\ file' = IF entry = "staged" THEN [file EXCEPT !.links = @ - 1] ELSE file
       \/ entry = "staged" /\ entry' \in {"none", "other"} /\ UNCHANGED file
       \/ entry # "staged" /\ file.links > 0 /\ entry' = "staged" /\ UNCHANGED file

\* The file itself gets another name, another mode or other contents.
ChangeFile ==
    /\ file.links > 0
    /\ \/ file' = [file EXCEPT !.links = 2] /\ file.links = 1 /\ UNCHANGED rewritten
       \/ file' = [file EXCEPT !.private = ~@] /\ UNCHANGED rewritten
       \/ /\ \E sized \in BOOLEAN : file' = [file EXCEPT !.sized = sized]
          /\ rewritten' = TRUE

\* A new file gets the number of the deleted one.
ReuseInode ==
    /\ InodeIsFree /\ exists
    /\ entry' = "staged" /\ rewritten' = TRUE
    /\ \E sized \in BOOLEAN :
        file' = [links |-> 1, private |-> TRUE, sized |-> sized]

Meddle ==
    /\ edits < MaxEdits
    /\ work # "none" \/ exists
    /\ edits' = edits + 1
    /\ \/ ChangeDirectories /\ UNCHANGED <<entry, file, rewritten>>
       \/ ChangeEntry /\ UNCHANGED <<parent, work, exists, rewritten>>
       \/ ChangeFile /\ UNCHANGED <<parent, work, exists, entry>>
       \/ ReuseInode /\ UNCHANGED <<parent, work, exists>>
    /\ UNCHANGED <<vars, recorded, method, looked>>

-----------------------------------------------------------------------------

\* What DumpStage has beside Stage itself does not touch the directory.
Around(action) == action /\ UNCHANGED <<names, recorded, method, others, looked>>

StagerNext ==
    \/ StageOnDisk \/ Methods \/ Meddle
    \/ Around(Cancel) \/ Around(Run) \/ Around(Copier) \/ Around(Watcher)
    \/ Around(Group)

\* The fairness of DumpStage.
StagerSpec ==
    /\ StagerInit /\ [][StagerNext]_stagerVars
    /\ WF_stagerVars(StageOnDisk) /\ WF_stagerVars(Around(Run))
    /\ WF_stagerVars(Around(Copier)) /\ WF_stagerVars(Around(Watcher))
    /\ WF_stagerVars(Around(leader = "dying" /\ LeaderExits))

-----------------------------------------------------------------------------
(* Properties *)

\* What Open hands to the upload is the file that Stage finalized, with the
\* whole dump in it, and not one that was put in its place or in the place of
\* one of its directories; only who writes to that very file, or is given its
\* inode number, can make it another one.
OpenedIsStaged ==
    step = "opened" =>
        /\ fd = "staged"
        /\ leader = "ok" /\ copied = attempted
        /\ edits = looked.file => file.sized /\ file.links = 1

\* Remove takes away only the staged file and its directory: a stranger's file
\* or directory is lost only if it came between the last look and the call.
RemoveSparesOthers ==
    [][/\ step = "unlink" /\ step' = "verify" =>
            entry = "staged" \/ edits # looked.file
       /\ step = "rmdir" /\ removal' = "ok" =>
            work = "ours" \/ edits # looked.directory]_stagerVars

\* When Remove answers ok, no name of the dump is left and its directory is
\* gone, unless somebody acted after the last look at the file.
RemovedIsGone ==
    removal = "ok" /\ edits = looked.file =>
        file.links = 0 /\ ~exists
=============================================================================
