----------------------------- MODULE PinnedFile -----------------------------
(***************************************************************************)
(* securepath: a configuration, a secret or an executable is opened once   *)
(* through its requested path, pinned by its descriptor and its metadata,  *)
(* and looked at again before it is relied on, while an administrator      *)
(* replaces files by renaming, rewrites them in place, changes their mode, *)
(* and points the symbolic link in the requested path somewhere else.      *)
(* Owners and modes of directories and links do not change here.           *)
(***************************************************************************)
EXTENDS Naturals, Sequences

CONSTANTS
    Paths,     \* canonical paths that the requested path may lead to
    Inodes,    \* inode numbers; a number is used again once its file is gone
    None,      \* no inode
    Sizes,     \* lengths of files, in the chunks in which io.ReadAll gets them
    MaxEdits   \* bound: acts of the administrator

ASSUME PinnedAssumption ==
    None \notin Inodes /\ Sizes \subseteq Nat /\ MaxEdits \in Nat

VARIABLES
    link,       \* the canonical path that the requested path leads to
    entry,      \* the inode that each canonical path names
    file,       \* the file with each inode number
    rewriting,  \* the inode that is being rewritten in place, or None
    use,        \* what the program opens
    pc,         \* its next step
    canonical,  \* the path it resolved
    fd,         \* the inode of its descriptor, None when closed
    source,     \* Source.Metadata
    bytes,      \* what it read
    ran,        \* the inode it executed
    edits,      \* acts of the administrator so far
    named,      \* history: inodes the path named since the open began
    moved,      \* history: an entry changed since the last target inspection
    turned,     \* history: the link changed since it was last resolved
    lookalike   \* history: since the inspection, a text of that length was
                \* written under that inode number

disk == <<link, entry, file, rewriting>>
program == <<use, pc, canonical, fd, source, bytes, ran>>
history == <<named, moved, turned, lookalike>>
vars == <<disk, program, edits, history>>

\* Every chunk of a text is marked with the act of the administrator that wrote
\* it; two texts may have the same length.
Text(act, size) == [k \in 1 .. size |-> act]

\* Device, inode, links, mode, owner and size; no times.
metadataFromStat(i) ==
    [inode |-> i, private |-> file[i].private, size |-> Len(file[i].data)]

NoMetadata == [inode |-> None, private |-> FALSE, size |-> 0]

Named == entry[link]

Init ==
    /\ link \in Paths
    /\ entry \in {e \in [Paths -> Inodes] : \A p, q \in Paths : e[p] = e[q] => p = q}
    /\ \E size \in Sizes :
          file = [i \in Inodes |-> [data |-> Text(0, size), private |-> TRUE]]
    /\ rewriting = None
    /\ use \in {"config", "secret", "executable"}
    /\ pc = "resolve" /\ canonical = link /\ fd = None /\ source = NoMetadata
    /\ bytes = <<>> /\ ran = None
    /\ edits = 0 /\ named = {} /\ moved = FALSE /\ turned = FALSE /\ lookalike = FALSE

Goto(step) == pc' = step
At(step) == pc = step /\ UNCHANGED <<disk, edits, use>>
Refuse == Goto("refused") /\ fd' = None

-----------------------------------------------------------------------------
(* OpenRegular *)

\* The path names some file from the beginning of the open on.
Resolve ==
    /\ At("resolve")
    /\ canonical' = link
    /\ named' = {Named}
    /\ Goto("open")
    /\ UNCHANGED <<fd, source, bytes, ran, moved, turned, lookalike>>

\* openCanonical: the last component is opened, or pinned with O_PATH.
Open ==
    /\ At("open")
    /\ fd' = entry[canonical]
    /\ Goto("inspect")
    /\ UNCHANGED <<canonical, source, bytes, ran, history>>

Inspect ==
    /\ At("inspect")
    /\ source' = metadataFromStat(fd)
    /\ lookalike' = FALSE
    /\ Goto("entry")
    /\ UNCHANGED <<canonical, fd, bytes, ran, named, moved, turned>>

\* Its entry is still the same, and validateTarget accepts its metadata.
VerifyEntry ==
    /\ At("entry")
    /\ IF entry[canonical] = fd /\ source.private
         THEN Goto("resolve_again") /\ UNCHANGED fd
         ELSE Refuse
    /\ UNCHANGED <<canonical, source, bytes, ran, history>>

\* Mutant: the path is not resolved again.
ResolveOnce ==
    /\ At("resolve_again")
    /\ Goto("lstat")
    /\ UNCHANGED <<canonical, fd, source, bytes, ran, history>>

ResolveAgain ==
    /\ At("resolve_again")
    /\ IF link = canonical THEN Goto("lstat") /\ UNCHANGED fd ELSE Refuse
    /\ UNCHANGED <<canonical, source, bytes, ran, history>>

Lstat ==
    /\ At("lstat")
    /\ IF metadataFromStat(entry[canonical]) = source
         THEN /\ Goto(IF use = "executable" THEN "resolve_for_exec" ELSE "read")
              /\ UNCHANGED fd
         ELSE Refuse
    /\ UNCHANGED <<canonical, source, bytes, ran, history>>

-----------------------------------------------------------------------------
(* ReadAll *)

\* A chunk that the file still has, or its end.
Read ==
    /\ At("read")
    /\ LET next == Len(bytes) + 1
       IN  IF next \in DOMAIN file[fd].data
             THEN bytes' = Append(bytes, file[fd].data[next]) /\ UNCHANGED pc
             ELSE Goto("fstat") /\ UNCHANGED bytes
    /\ UNCHANGED <<canonical, fd, source, ran, history>>

\* Mutant: what the descriptor says after reading is not looked at.
ReadUnchecked ==
    /\ At("fstat")
    /\ Goto(IF use = "config" THEN "recheck" ELSE "used") /\ fd' = None
    /\ UNCHANGED <<canonical, source, bytes, ran, history>>

\* The metadata are still the same, and as much was read as the size says.  The
\* descriptor is closed; a secret is used at once.
ReadReturns ==
    /\ At("fstat")
    /\ IF metadataFromStat(fd) = source /\ Len(bytes) = Len(file[fd].data)
         THEN Goto(IF use = "config" THEN "recheck" ELSE "used") /\ fd' = None
         ELSE Refuse
    /\ UNCHANGED <<canonical, source, bytes, ran, history>>

-----------------------------------------------------------------------------
(* Recheck and RecheckPath *)

\* Mutant: any safe file will do.
SameSafety(i) == file[i].private

SameTarget(i) == file[i].private /\ metadataFromStat(i) = source

\* ValidateFor opens the canonical path once more and compares what it finds.
Recheck ==
    /\ At("recheck")
    /\ IF SameTarget(entry[canonical])
         THEN Goto(IF use = "executable" THEN "resolve_last" ELSE "used")
              /\ UNCHANGED fd
         ELSE Refuse
    /\ moved' = FALSE
    /\ UNCHANGED <<canonical, source, bytes, ran, named, turned, lookalike>>

\* RecheckPath resolves the requested path before and after that.
ResolveForExec ==
    /\ At("resolve_for_exec")
    /\ IF link = canonical THEN Goto("recheck") /\ UNCHANGED fd ELSE Refuse
    /\ UNCHANGED <<canonical, source, bytes, ran, history>>

\* Mutant: it is not resolved once more.
ResolveLastDropped ==
    /\ At("resolve_last")
    /\ Goto("exec")
    /\ turned' = FALSE
    /\ UNCHANGED <<canonical, fd, source, bytes, ran, named, moved, lookalike>>

ResolveLast ==
    /\ At("resolve_last")
    /\ IF link = canonical THEN Goto("exec") /\ UNCHANGED fd ELSE Refuse
    /\ turned' = FALSE
    /\ UNCHANGED <<canonical, source, bytes, ran, named, moved, lookalike>>

\* The requested path is executed while the descriptor is still open.
Exec ==
    /\ At("exec")
    /\ ran' = Named
    /\ Goto("used")
    /\ UNCHANGED <<canonical, fd, source, bytes, history>>

-----------------------------------------------------------------------------
(* The administrator *)

Edit == edits < MaxEdits /\ edits' = edits + 1 /\ UNCHANGED program

InUse == {entry[p] : p \in Paths} \cup {fd, rewriting}

\* What the metadata of the pinned file do not tell apart from what they were.
LooksLike(i, text) == i = source.inode /\ Len(text) = source.size

\* A complete new file is renamed over the old one.
Replace(p) ==
    /\ Edit
    /\ \E i \in Inodes \ InUse, size \in Sizes :
        LET text == Text(edits + 1, size)
        IN  /\ entry' = [entry EXCEPT ![p] = i]
            /\ file' = [file EXCEPT ![i] = [data |-> text, private |-> TRUE]]
            /\ named' = IF link = p THEN named \cup {i} ELSE named
            /\ lookalike' = (lookalike \/ LooksLike(i, text))
    /\ moved' = TRUE
    /\ UNCHANGED <<link, rewriting, turned>>

\* A file is truncated and written again.
StartRewrite(p) ==
    /\ Edit
    /\ rewriting = None
    /\ rewriting' = entry[p]
    /\ file' = [file EXCEPT ![entry[p]].data = <<>>]
    /\ UNCHANGED <<link, entry, history>>

FinishRewrite ==
    /\ rewriting # None
    /\ \E size \in Sizes :
        LET text == Text(edits, size)
        IN  /\ file' = [file EXCEPT ![rewriting].data = text]
            /\ lookalike' = (lookalike \/ LooksLike(rewriting, text))
    /\ rewriting' = None
    /\ UNCHANGED <<link, entry, program, edits, named, moved, turned>>

ChangeMode(p) ==
    /\ Edit
    /\ file' = [file EXCEPT ![entry[p]].private = ~@]
    /\ UNCHANGED <<link, entry, rewriting, history>>

TurnLink(p) ==
    /\ Edit
    /\ p # link
    /\ link' = p
    /\ named' = named \cup {entry[p]}
    /\ turned' = TRUE
    /\ UNCHANGED <<entry, file, rewriting, moved, lookalike>>

Administrator ==
    \/ FinishRewrite
    \/ \E p \in Paths : Replace(p) \/ StartRewrite(p) \/ ChangeMode(p) \/ TurnLink(p)

Program ==
    \/ Resolve \/ Open \/ Inspect \/ VerifyEntry \/ ResolveAgain \/ Lstat
    \/ Read \/ ReadReturns \/ Recheck \/ ResolveForExec \/ ResolveLast \/ Exec

Done == pc \in {"used", "refused"} /\ UNCHANGED vars

Next == Program \/ Administrator \/ Done

Spec == Init /\ [][Next]_vars

-----------------------------------------------------------------------------
(* Properties *)

\* The file that OpenRegular returns is one that the requested path named at an
\* instant during the open, although the path is resolved, walked and looked at
\* in separate steps.
PinnedWasNamed ==
    pc \in {"read", "resolve_for_exec"} => fd \in named

\* Bytes that ReadAll returns are all of one version of the pinned file, the one
\* it has at that instant, although it is read in pieces and may be truncated,
\* rewritten or extended between them.  The metadata hold no times: the one
\* rewrite that goes unnoticed is one to the length that was inspected.
ReadIsOneVersion ==
    [][pc = "fstat" /\ pc' \in {"recheck", "used"} /\ ~lookalike
        => bytes = file[fd].data]_vars

\* Side effects follow only from a configuration with the text that its
\* canonical path names at the recheck, unless a text of the same length was
\* written under its inode number since it was inspected: in place, or by a
\* file that got the number once the descriptor was closed.  The comment on
\* RecheckSource promises this without a condition; the code does not keep that.
RecheckedIsCurrent ==
    [][use = "config" /\ pc = "recheck" /\ pc' = "used" /\ ~lookalike
        => bytes = file[entry[canonical]].data]_vars

\* What is executed is the file that was pinned, unless an entry changed after
\* RecheckPath inspected the target or the link after it was resolved last.
PinnedIsExecuted ==
    pc = "used" /\ use = "executable" => ran = fd \/ moved \/ turned
=============================================================================
