-------------------------- MODULE LogFamilyProofs --------------------------
(* Proofs, for any number of processes and any limits, that no acknowledged *)
(* event is lost and that the history of a log family stays in order.       *)
EXTENDS LogFamily, FiniteSetTheorems, TLAPS

-----------------------------------------------------------------------------
(* Histories.  A directory is a function from file names to sequences of    *)
(* lines; what a system call does to its order is said of such functions.   *)

RotationNames == (Nat \ {0}) \X {"raw", "gz"}
FileNames == {Active} \cup RotationNames

EventsIn(s) == {s[i] : i \in DOMAIN s} \ {Torn}

OlderThan(s, t) == \A d \in EventsIn(s), e \in EventsIn(t) : d < e

Increasing(s) ==
    \A i, j \in DOMAIN s : i < j /\ s[i] # Torn /\ s[j] # Torn => s[i] < s[j]

\* A gzip file and a source that a kill has left below it.
Twins(F, f, g) == IsGz(f) /\ ~IsGz(g) /\ F[f] = F[g]

Ordered(F) ==
    /\ \A f, g \in DOMAIN F : Suffix(f) = Suffix(g) => F[f] = F[g]
    /\ \A f, g \in DOMAIN F :
          Suffix(f) > Suffix(g) => OlderThan(F[f], F[g]) \/ Twins(F, f, g)
    /\ \A f \in DOMAIN F : Increasing(F[f])

\* Everything in the active log is newer than every rotation.
ActiveNewest(F) ==
    Active \in DOMAIN F =>
        \A f \in DOMAIN F \ {Active} : OlderThan(F[f], F[Active])

EventsOf(F) == UNION {EventsIn(F[f]) : f \in DOMAIN F}

Directory(F) ==
    /\ DOMAIN F \subseteq FileNames
    /\ F = [f \in DOMAIN F |-> F[f]]
    /\ \A f \in DOMAIN F : F[f] \in Seq(Nat)

\* What the form and the suffix of a name say.
LEMMA NamesOfFiles ==
  /\ \A f \in FileNames : Suffix(f) \in Nat /\ IsGz(f) \in BOOLEAN
  /\ \A f \in FileNames : Suffix(f) = 0 <=> f = Active
  /\ \A f, g \in FileNames : Suffix(f) = Suffix(g) /\ (IsGz(f) <=> IsGz(g)) => f = g
  /\ \A n \in Nat \ {0} :
        /\ Raw(n) \in RotationNames /\ Suffix(Raw(n)) = n /\ ~IsGz(Raw(n))
        /\ Gz(n) \in RotationNames /\ Suffix(Gz(n)) = n /\ IsGz(Gz(n))
  /\ \A f \in RotationNames :
        LET g == <<Suffix(f) + 1, f[2]>>
        IN  g \in RotationNames /\ Suffix(g) = Suffix(f) + 1 /\ (IsGz(g) <=> IsGz(f))
  /\ Active \in FileNames /\ ~IsGz(Active) /\ Active \notin RotationNames
BY DEF FileNames, RotationNames, Active, Raw, Gz, Suffix, IsGz

\* Renaming a rotation to the next suffix, if what lies there is the same, keeps
\* the order and all events.
LEMMA RenameKeeps ==
  ASSUME NEW F, Directory(F), Ordered(F), ActiveNewest(F),
         NEW f \in DOMAIN F \ {Active}, NEW g \in RotationNames \ DOMAIN F,
         Suffix(g) = Suffix(f) + 1, IsGz(g) <=> IsGz(f),
         \A h \in DOMAIN F \ {f, Active} :
            \/ Suffix(h) > Suffix(g)
            \/ Suffix(h) = Suffix(g) /\ F[h] = F[f]
            \/ Suffix(h) < Suffix(f)
            \/ Suffix(h) = Suffix(f) /\ IsGz(f) /\ ~IsGz(h),
         NEW G,
         G = [h \in (DOMAIN F \ {f}) \cup {g} |-> IF h = g THEN F[f] ELSE F[h]]
  PROVE  /\ Directory(G) /\ Ordered(G) /\ ActiveNewest(G)
         /\ EventsOf(G) = EventsOf(F)
<1>1. /\ DOMAIN G = (DOMAIN F \ {f}) \cup {g} /\ G[g] = F[f]
      /\ \A h \in DOMAIN F \ {f} : h # g /\ G[h] = F[h]
  OBVIOUS
<1>2. Directory(G)
  BY <1>1 DEF Directory, FileNames
<1>3. \A h, k \in DOMAIN G : Suffix(h) = Suffix(k) => G[h] = G[k]
  <2>1. \A h \in DOMAIN F \ {f} : Suffix(h) = Suffix(g) => F[h] = F[f]
    <3>1. Suffix(f) \in Nat /\ Suffix(g) # 0 /\ Suffix(Active) = 0
      BY NamesOfFiles DEF Directory
    <3>2. \A h \in DOMAIN F : Suffix(h) \in Nat
      BY NamesOfFiles DEF Directory
    <3>3. QED
      BY <3>1, <3>2
  <2>2. QED
    BY <1>1, <2>1 DEF Ordered
<1>4. ASSUME NEW h \in DOMAIN G, NEW k \in DOMAIN G, Suffix(h) > Suffix(k)
      PROVE  OlderThan(G[h], G[k]) \/ Twins(G, h, k)
  <2>1. CASE h = g
    <3>1. k \in DOMAIN F \ {f}
      BY <1>1, <1>4, <2>1, NamesOfFiles DEF Directory
    <3>2. CASE Suffix(k) < Suffix(f)
      BY <1>1, <2>1, <3>1, <3>2, NamesOfFiles DEF Ordered, Twins, Directory
    <3>3. CASE Suffix(k) = Suffix(f)
      <4>1. k # Active /\ IsGz(f) /\ ~IsGz(k) /\ F[k] = F[f]
        BY <1>4, <2>1, <3>1, <3>3, NamesOfFiles DEF Directory, Ordered
      <4>2. QED
        BY <1>1, <2>1, <3>1, <4>1 DEF Twins
    <3>4. QED
      BY <1>4, <2>1, <3>1, <3>2, <3>3, NamesOfFiles DEF Directory
  <2>2. CASE h # g /\ k = g
    <3>1. h \in DOMAIN F \ {f} /\ Suffix(h) > Suffix(f)
      BY <1>1, <1>4, <2>2, NamesOfFiles DEF Directory
    <3>2. QED
      BY <1>1, <2>2, <3>1 DEF Ordered, Twins
  <2>3. CASE h # g /\ k # g
    BY <1>1, <1>4, <2>3 DEF Ordered, Twins
  <2>4. QED
    BY <2>1, <2>2, <2>3
<1>5. \A h \in DOMAIN G : Increasing(G[h])
  BY <1>1 DEF Ordered
<1>6. ActiveNewest(G)
  BY <1>1, NamesOfFiles DEF ActiveNewest
<1>7. EventsOf(G) = EventsOf(F)
  BY <1>1 DEF EventsOf
<1>8. QED
  BY <1>2, <1>3, <1>4, <1>5, <1>6, <1>7 DEF Ordered

\* The active log becomes the newest rotation.
LEMMA RotateKeeps ==
  ASSUME NEW F, Directory(F), Ordered(F), ActiveNewest(F),
         Active \in DOMAIN F, Raw(1) \notin DOMAIN F,
         \A h \in DOMAIN F \ {Active} : Suffix(h) > 1,
         NEW G,
         G = [h \in (DOMAIN F \ {Active}) \cup {Raw(1)} |->
                 IF h = Raw(1) THEN F[Active] ELSE F[h]]
  PROVE  /\ Directory(G) /\ Ordered(G) /\ ActiveNewest(G)
         /\ EventsOf(G) = EventsOf(F)
         /\ \A h \in DOMAIN G : Suffix(h) > 1 => OlderThan(G[h], G[Raw(1)])
<1>1. /\ DOMAIN G = (DOMAIN F \ {Active}) \cup {Raw(1)} /\ G[Raw(1)] = F[Active]
      /\ \A h \in DOMAIN F \ {Active} : h # Raw(1) /\ G[h] = F[h]
  OBVIOUS
<1>2. Suffix(Raw(1)) = 1 /\ Raw(1) \in FileNames /\ Raw(1) # Active
  BY NamesOfFiles DEF FileNames
<1>3. Directory(G)
  BY <1>1, <1>2 DEF Directory
<1>4. ActiveNewest(G)
  BY <1>1, <1>2 DEF ActiveNewest
<1>5. EventsOf(G) = EventsOf(F)
  BY <1>1 DEF EventsOf
<1>6. \A h \in DOMAIN G : Suffix(h) > 1 => OlderThan(G[h], G[Raw(1)])
  BY <1>1, <1>2 DEF ActiveNewest
<1>7. \A h \in DOMAIN G : Increasing(G[h])
  BY <1>1 DEF Ordered
<1>8. \A h, k \in DOMAIN G : Suffix(h) = Suffix(k) => G[h] = G[k]
  BY <1>1, <1>2 DEF Ordered
<1>9. ASSUME NEW h \in DOMAIN G, NEW k \in DOMAIN G, Suffix(h) > Suffix(k)
      PROVE  OlderThan(G[h], G[k]) \/ Twins(G, h, k)
  <2>1. CASE k = Raw(1)
    BY <1>2, <1>6, <1>9, <2>1
  <2>2. CASE k # Raw(1)
    <3>1. h # Raw(1)
      BY <1>1, <1>2, <1>9, <2>2, NamesOfFiles DEF Directory
    <3>2. QED
      BY <1>1, <1>9, <2>2, <3>1 DEF Ordered, Twins
  <2>3. QED
    BY <2>1, <2>2
<1>10. QED
  BY <1>3, <1>4, <1>5, <1>6, <1>7, <1>8, <1>9 DEF Ordered

\* The gzip file gets its name while its source is still there.
LEMMA PublishKeeps ==
  ASSUME NEW F, Directory(F), Ordered(F), ActiveNewest(F),
         Raw(1) \in DOMAIN F, Gz(1) \notin DOMAIN F,
         \A h \in DOMAIN F : Suffix(h) > 1 => OlderThan(F[h], F[Raw(1)]),
         NEW G,
         G = [h \in DOMAIN F \cup {Gz(1)} |-> IF h = Gz(1) THEN F[Raw(1)] ELSE F[h]]
  PROVE  /\ Directory(G) /\ Ordered(G) /\ ActiveNewest(G)
         /\ EventsOf(G) = EventsOf(F)
         /\ G[Gz(1)] = G[Raw(1)]
         /\ \A h \in DOMAIN G : Suffix(h) > 1 => OlderThan(G[h], G[Raw(1)])
<1>1. /\ DOMAIN G = DOMAIN F \cup {Gz(1)} /\ G[Gz(1)] = F[Raw(1)]
      /\ \A h \in DOMAIN F : h # Gz(1) /\ G[h] = F[h]
  OBVIOUS
<1>2. /\ Suffix(Gz(1)) = 1 /\ Gz(1) \in FileNames /\ Gz(1) # Active
      /\ Suffix(Raw(1)) = 1 /\ Raw(1) # Active
  BY NamesOfFiles DEF FileNames
<1>3. Directory(G)
  BY <1>1, <1>2 DEF Directory
<1>4. ActiveNewest(G)
  BY <1>1, <1>2 DEF ActiveNewest
<1>5. EventsOf(G) = EventsOf(F)
  BY <1>1 DEF EventsOf
<1>6. G[Gz(1)] = G[Raw(1)]
  BY <1>1
<1>7. \A h \in DOMAIN G : Suffix(h) > 1 => OlderThan(G[h], G[Raw(1)])
  BY <1>1, <1>2
<1>8. \A h \in DOMAIN G : Increasing(G[h])
  BY <1>1 DEF Ordered
<1>9. \A h, k \in DOMAIN G : Suffix(h) = Suffix(k) => G[h] = G[k]
  BY <1>1, <1>2 DEF Ordered
<1>10. ASSUME NEW h \in DOMAIN G, NEW k \in DOMAIN G, Suffix(h) > Suffix(k)
       PROVE  OlderThan(G[h], G[k]) \/ Twins(G, h, k)
  <2>1. CASE k = Gz(1)
    BY <1>1, <1>2, <1>7, <1>10, <2>1
  <2>2. CASE k # Gz(1) /\ h = Gz(1)
    <3>1. k = Active /\ k \in DOMAIN F
      BY <1>1, <1>2, <1>10, <2>2, NamesOfFiles DEF Directory
    <3>2. QED
      BY <1>1, <1>2, <2>2, <3>1 DEF ActiveNewest
  <2>3. CASE k # Gz(1) /\ h # Gz(1)
    BY <1>1, <1>10, <2>3 DEF Ordered, Twins
  <2>4. QED
    BY <2>1, <2>2, <2>3
<1>11. QED
  BY <1>3, <1>4, <1>5, <1>6, <1>7, <1>8, <1>9, <1>10 DEF Ordered

\* A file that goes away takes at most its own events along.
LEMMA RemoveKeeps ==
  ASSUME NEW F, Directory(F), Ordered(F), ActiveNewest(F), NEW f,
         NEW G, G = [h \in DOMAIN F \ {f} |-> F[h]]
  PROVE  /\ Directory(G) /\ Ordered(G) /\ ActiveNewest(G)
         /\ EventsOf(G) \subseteq EventsOf(F)
         /\ EventsOf(F) \subseteq EventsOf(G) \cup EventsIn(F[f])
<1>1. DOMAIN G = DOMAIN F \ {f} /\ \A h \in DOMAIN G : G[h] = F[h]
  OBVIOUS
<1>2. Directory(G)
  BY <1>1 DEF Directory
<1>3. Ordered(G) /\ ActiveNewest(G)
  BY <1>1 DEF Ordered, Twins, ActiveNewest
<1>4. EventsOf(G) \subseteq EventsOf(F)
  BY <1>1 DEF EventsOf
<1>5. EventsOf(F) \subseteq EventsOf(G) \cup EventsIn(F[f])
  BY <1>1 DEF EventsOf
<1>6. QED
  BY <1>2, <1>3, <1>4, <1>5

\* G is F with the active log t, which has the new events E.
Extends(G, F, t, E) ==
    /\ DOMAIN G = DOMAIN F \cup {Active} /\ G = [h \in DOMAIN G |-> G[h]]
    /\ G[Active] = t /\ \A h \in DOMAIN F \ {Active} : G[h] = F[h]
    /\ t \in Seq(Nat) /\ Increasing(t)
    /\ EventsIn(t) = E \cup (IF Active \in DOMAIN F THEN EventsIn(F[Active]) ELSE {})
    /\ \A d \in EventsOf(F), e \in E : d < e

\* The active log is new, or longer than it was.
LEMMA ActiveKeeps ==
  ASSUME NEW F, Directory(F), Ordered(F), ActiveNewest(F),
         NEW G, NEW t, NEW E, Extends(G, F, t, E)
  PROVE  /\ Directory(G) /\ Ordered(G) /\ ActiveNewest(G)
         /\ EventsOf(G) = EventsOf(F) \cup E
<1> USE DEF Extends
<1>1. /\ DOMAIN G = DOMAIN F \cup {Active} /\ G[Active] = t
      /\ \A h \in DOMAIN F \ {Active} : G[h] = F[h]
  OBVIOUS
<1>2. Directory(G)
  BY <1>1 DEF Directory, FileNames
<1>3. \A h \in DOMAIN F : EventsIn(F[h]) \subseteq EventsOf(F)
  BY DEF EventsOf
<1>4. ActiveNewest(G)
  BY <1>1, <1>3 DEF ActiveNewest, OlderThan
<1>5. EventsOf(G) = EventsOf(F) \cup E
  <2>1. EventsOf(F) \cup E \subseteq EventsOf(G)
    <3>1. \A h \in DOMAIN F : EventsIn(F[h]) \subseteq EventsIn(G[h])
      BY <1>1
    <3>2. E \subseteq EventsIn(G[Active])
      BY <1>1
    <3>3. QED
      BY <1>1, <3>1, <3>2 DEF EventsOf
  <2>2. EventsOf(G) \subseteq EventsOf(F) \cup E
    <3>1. ASSUME NEW h \in DOMAIN G
          PROVE  EventsIn(G[h]) \subseteq EventsOf(F) \cup E
      BY <1>1, <1>3
    <3>2. QED
      BY <3>1 DEF EventsOf
  <2>3. QED
    BY <2>1, <2>2
<1>6. \A h \in DOMAIN G : Increasing(G[h])
  BY <1>1 DEF Ordered
<1>7. \A h \in DOMAIN G : Suffix(h) = Suffix(Active) => h = Active
  BY <1>1, NamesOfFiles DEF Directory
<1>8. \A h, k \in DOMAIN G : Suffix(h) = Suffix(k) => G[h] = G[k]
  BY <1>1, <1>7 DEF Ordered
<1>9. ASSUME NEW h \in DOMAIN G, NEW k \in DOMAIN G, Suffix(h) > Suffix(k)
      PROVE  OlderThan(G[h], G[k]) \/ Twins(G, h, k)
  <2>1. h # Active
    BY <1>2, <1>9, NamesOfFiles DEF Directory
  <2>2. CASE k = Active
    BY <1>1, <1>4, <2>1, <2>2 DEF ActiveNewest
  <2>3. CASE k # Active
    BY <1>1, <1>9, <2>1, <2>3 DEF Ordered, Twins
  <2>4. QED
    BY <2>2, <2>3
<1>10. QED
  BY <1>2, <1>4, <1>5, <1>6, <1>8, <1>9 DEF Ordered

\* A line is appended to the active log; an event has a number of its own.
LEMMA AppendKeeps ==
  ASSUME NEW F, Directory(F), Ordered(F), ActiveNewest(F),
         NEW x \in Nat, x = Torn \/ \A e \in EventsOf(F) : e < x,
         NEW G,
         G = [f \in DOMAIN F \cup {Active} |->
                 IF f # Active THEN F[f]
                 ELSE IF Active \in DOMAIN F THEN Append(F[f], x) ELSE <<x>>]
  PROVE  /\ Directory(G) /\ Ordered(G) /\ ActiveNewest(G)
         /\ EventsOf(G) = EventsOf(F) \cup ({x} \ {Torn})
<1> DEFINE t == IF Active \in DOMAIN F THEN Append(F[Active], x) ELSE <<x>>
           E == {x} \ {Torn}
<1>1. CASE Active \in DOMAIN F
  <2> DEFINE s == F[Active]
  <2>1. s \in Seq(Nat) /\ Increasing(s) /\ EventsIn(s) \subseteq EventsOf(F)
    BY <1>1 DEF Directory, Ordered, EventsOf
  <2>2. /\ t \in Seq(Nat) /\ DOMAIN s = 1 .. Len(s) /\ DOMAIN t = 1 .. Len(s) + 1
        /\ \A i \in DOMAIN s : t[i] = s[i]
        /\ t[Len(s) + 1] = x /\ Len(s) \in Nat
    BY <1>1, <2>1
  <2>3. EventsIn(t) = E \cup EventsIn(s)
    <3>1. \A i \in DOMAIN t : i \in DOMAIN s \/ t[i] = x
      BY <2>2
    <3>2. DOMAIN s \subseteq DOMAIN t /\ Len(s) + 1 \in DOMAIN t
      BY <2>2
    <3> HIDE DEF s, t
    <3>3. QED
      BY <2>2, <3>1, <3>2 DEF EventsIn
  <2>4. \A i \in DOMAIN s : s[i] # Torn => s[i] \in EventsIn(s)
    BY DEF EventsIn
  <2>5. Increasing(t)
    BY <2>1, <2>2, <2>4 DEF Increasing
  <2>6. /\ DOMAIN G = DOMAIN F \cup {Active} /\ G = [h \in DOMAIN G |-> G[h]]
        /\ G[Active] = t /\ \A h \in DOMAIN F \ {Active} : G[h] = F[h]
    BY <1>1
  <2> HIDE DEF s, t, E
  <2>7. \A d \in EventsOf(F), e \in E : d < e
    BY DEF E
  <2>8. EventsIn(t) = E \cup (IF Active \in DOMAIN F THEN EventsIn(F[Active]) ELSE {})
    BY <1>1, <2>3 DEF s
  <2>9. Extends(G, F, t, E)
    BY <2>2, <2>5, <2>6, <2>7, <2>8 DEF Extends
  <2>10. QED
    BY <2>9, ActiveKeeps DEF E
<1>2. CASE Active \notin DOMAIN F
  <2>1. t = <<x>> /\ t \in Seq(Nat) /\ DOMAIN t = {1} /\ t[1] = x
    BY <1>2
  <2>2. EventsIn(t) = E /\ Increasing(t)
    BY <2>1 DEF EventsIn, Increasing
  <2>3. /\ DOMAIN G = DOMAIN F \cup {Active} /\ G = [h \in DOMAIN G |-> G[h]]
        /\ G[Active] = t /\ \A h \in DOMAIN F \ {Active} : G[h] = F[h]
    BY <1>2
  <2> HIDE DEF t, E
  <2>4. \A d \in EventsOf(F), e \in E : d < e
    BY DEF E
  <2>5. Extends(G, F, t, E)
    BY <1>2, <2>1, <2>2, <2>3, <2>4 DEF Extends
  <2>6. QED
    BY <2>5, ActiveKeeps DEF E
<1>3. QED
  BY <1>1, <1>2

\* The active log is created empty, unless it is there.
LEMMA CreateKeeps ==
  ASSUME NEW F, Directory(F), Ordered(F), ActiveNewest(F),
         NEW G,
         G = [f \in DOMAIN F \cup {Active} |-> IF f \in DOMAIN F THEN F[f] ELSE <<>>]
  PROVE  /\ Directory(G) /\ Ordered(G) /\ ActiveNewest(G)
         /\ EventsOf(G) = EventsOf(F)
<1> DEFINE t == IF Active \in DOMAIN F THEN F[Active] ELSE <<>>
<1>1. t \in Seq(Nat) /\ Increasing(t)
  BY DEF Directory, Ordered, Increasing
<1>2. EventsIn(t) = {} \cup (IF Active \in DOMAIN F THEN EventsIn(F[Active]) ELSE {})
  BY DEF EventsIn
<1>3. /\ DOMAIN G = DOMAIN F \cup {Active} /\ G = [h \in DOMAIN G |-> G[h]]
      /\ G[Active] = t /\ \A h \in DOMAIN F \ {Active} : G[h] = F[h]
  OBVIOUS
<1> HIDE DEF t
<1>4. Extends(G, F, t, {})
  BY <1>1, <1>2, <1>3 DEF Extends
<1>5. QED
  BY <1>4, ActiveKeeps

-----------------------------------------------------------------------------
(* The inductive invariant *)

Points == Inside \cup {"off", "idle", "waiting", "unlock"}

Types ==
    /\ Directory(files)
    /\ pc \in [Procs -> Points]
    /\ mode \in [Procs -> {"new", "write"}]
    /\ todo \in [Procs -> SUBSET FileNames]
    /\ kept \in [Procs -> SUBSET FileNames]
    /\ failed \in [Procs -> BOOLEAN]
    /\ line \in [Procs -> Nat]
    /\ next \in Nat \ {0}

\* While rotations are shifted, those already shifted lie above all the others
\* and above the name that the active log will take.  Only the gzip file of a
\* generation may lie directly above its source, which is the next to follow.
Shifting(p) ==
    /\ Active \in DOMAIN files
    /\ todo[p] \subseteq DOMAIN files \ {Active}
    /\ \A h \in (DOMAIN files \ {Active}) \ todo[p] :
        /\ Suffix(h) > 1
        /\ \A f \in todo[p] :
              \/ Suffix(h) > Suffix(f) + 1
              \/ Suffix(h) = Suffix(f) + 1 /\ Twins(files, h, f)

\* From the rename of the active log to the removal of the source, the source
\* is there, and newer than every older generation; once the gzip file has its
\* name, it holds the same.
Compressing(p) ==
    /\ Raw(1) \in DOMAIN files
    /\ \A h \in DOMAIN files :
          Suffix(h) > 1 => OlderThan(files[h], files[Raw(1)])
    /\ pc[p] = "unlink" => Gz(1) \in DOMAIN files /\ files[Gz(1)] = files[Raw(1)]

\* The events in the log, and those of generations that retention removed.
Recorded == EventsOf(files) \cup expired

\* Where a process is in its operation, which runs under the lock.
AtWork(p) ==
    /\ pc[p] \in Inside \cup {"unlock"} => lock = p
    /\ pc[p] = "shift" => Shifting(p)
    /\ pc[p] \in {"compress", "publish", "unlink"} => Compressing(p)
    /\ pc[p] = "unlock" /\ mode[p] = "write" /\ ~failed[p] => line[p] \in Recorded

\* The directory; no file has an event that is not yet written.
History ==
    /\ Ordered(files) /\ ActiveNewest(files)
    /\ \A e \in EventsOf(files) : e < next
    /\ acked \subseteq Recorded

\* The event that a Write has appended is on record, whatever the Write returns.
LinesRecorded == \A p \in Procs : line[p] \in Recorded \cup {0}

IInv == Types /\ History /\ LinesRecorded /\ \A p \in Procs : AtWork(p)

\* What the invariant says of the directory, in the words of the module.
LEMMA InOtherWords ==
  ASSUME Directory(files)
  PROVE  Stored = EventsOf(files) /\ (HistoryInOrder <=> Ordered(files))
<1>1. \A f : EventsIn(files[f]) = LinesOf(f) \ {Torn}
  BY DEF EventsIn, LinesOf
<1>2. Stored = EventsOf(files)
  <2>1. EventsOf(files) \subseteq Stored
    BY <1>1 DEF Stored, EventsOf
  <2>2. Stored \subseteq EventsOf(files)
    BY <1>1 DEF Stored, EventsOf
  <2>3. QED
    BY <2>1, <2>2
<1>3. HistoryInOrder <=> Ordered(files)
  BY <1>1 DEF HistoryInOrder, Ordered, OlderThan, Twins, Increasing
<1>4. QED
  BY <1>2, <1>3

\* The empty log, or what an earlier release left.
LEMMA InitInvariant == Init => IInv
<1> SUFFICES ASSUME Init
             PROVE  IInv
  OBVIOUS
<1>1. CASE files = [f \in {} |-> <<>>] /\ next = 1 /\ acked = {}
  <2>1. Directory(files) /\ Ordered(files) /\ ActiveNewest(files) /\ EventsOf(files) = {}
    BY <1>1 DEF Directory, Ordered, ActiveNewest, EventsOf
  <2>2. Types
    BY <1>1, <2>1 DEF Init, Types, Points
  <2>3. History
    BY <1>1, <2>1 DEF Init, History, Recorded
  <2>4. \A p \in Procs : AtWork(p)
    BY DEF Init, AtWork, Inside
  <2>5. QED
    BY <2>2, <2>3, <2>4 DEF IInv, Init, LinesRecorded
<1>2. CASE /\ files = [f \in {Active, Gz(MaxFiles + 1)} |->
                           IF f = Active THEN <<2>> ELSE <<1>>]
           /\ next = 3 /\ acked = {1, 2}
  <2> DEFINE g == Gz(MaxFiles + 1)
  <2>1. /\ g \in FileNames /\ Active \in FileNames /\ g # Active
        /\ Suffix(g) \in Nat \ {0} /\ Suffix(Active) = 0
    BY NamesOfFiles, LogAssumption DEF FileNames
  <2> HIDE DEF g
  <2>2. DOMAIN files = {Active, g} /\ files[Active] = <<2>> /\ files[g] = <<1>>
    BY <1>2, <2>1 DEF g
  <2>3. EventsIn(<<2>>) = {2} /\ EventsIn(<<1>>) = {1}
    BY DEF EventsIn, Torn
  <2>4. Directory(files)
    <3>1. <<1>> \in Seq(Nat) /\ <<2>> \in Seq(Nat)
      OBVIOUS
    <3>2. files = [f \in DOMAIN files |-> files[f]]
      BY <1>2
    <3>3. QED
      BY <2>1, <2>2, <3>1, <3>2 DEF Directory
  <2>5. EventsOf(files) = {1, 2}
    BY <2>2, <2>3 DEF EventsOf
  <2>6. Ordered(files) /\ ActiveNewest(files)
    <3>1. OlderThan(files[g], files[Active])
      BY <2>2, <2>3 DEF OlderThan
    <3>2. Increasing(<<1>>) /\ Increasing(<<2>>)
      BY DEF Increasing
    <3>3. QED
      BY <2>1, <2>2, <3>1, <3>2 DEF Ordered, ActiveNewest
  <2>7. Types
    BY <1>2, <2>4 DEF Init, Types, Points
  <2>8. History
    BY <1>2, <2>5, <2>6 DEF History, Recorded
  <2>9. \A p \in Procs : AtWork(p)
    BY DEF Init, AtWork, Inside
  <2>10. QED
    BY <2>7, <2>8, <2>9 DEF IInv, Init, LinesRecorded
<1>3. QED
  BY <1>1, <1>2 DEF Init

-----------------------------------------------------------------------------
(* Steps *)

\* What a step of p leaves alone of the other processes.
Frame(p) ==
    \A q \in Procs \ {p} :
        UNCHANGED <<pc[q], mode[q], todo[q], failed[q], line[q]>>

\* A step of p leaves the other processes where they are, as only the holder of
\* the lock changes the directory and no event goes off the record.
LEMMA OthersKeep ==
  ASSUME IInv, NEW p \in Procs,
         files' = files \/ pc[p] \in Inside,
         lock' = lock \/ lock = p \/ lock = Free,
         Recorded \subseteq Recorded', Frame(p)
  PROVE  \A q \in Procs \ {p} : AtWork(q)'
<1> SUFFICES ASSUME NEW q \in Procs \ {p}
             PROVE  AtWork(q)'
  OBVIOUS
<1>1. AtWork(q) /\ UNCHANGED <<pc[q], mode[q], todo[q], failed[q], line[q]>>
  BY DEF IInv, Frame
<1>2. pc[q] \in Inside \cup {"unlock"} => lock' = q
  BY <1>1, LogAssumption DEF AtWork
<1>3. pc[q] \in Inside => files' = files
  BY <1>1 DEF AtWork, IInv
<1>4. pc[q] = "shift" => Shifting(q)'
  BY <1>1, <1>3 DEF AtWork, Shifting, Twins, Inside
<1>5. pc[q] \in {"compress", "publish", "unlink"} => Compressing(q)'
  BY <1>1, <1>3 DEF AtWork, Compressing, Inside
<1>6. QED
  BY <1>1, <1>2, <1>4, <1>5 DEF AtWork

\* What is left to show of a step of p.
LEMMA StepKeeps ==
  ASSUME IInv, NEW p \in Procs,
         files' = files \/ pc[p] \in Inside,
         lock' = lock \/ lock = p \/ lock = Free,
         Recorded \subseteq Recorded', Frame(p),
         Types', History', AtWork(p)', line'[p] \in {line[p], 0} \cup Recorded'
  PROVE  IInv' /\ Recorded \subseteq Recorded'
<1>1. LinesRecorded'
  BY DEF IInv, LinesRecorded, Frame
<1>2. QED
  BY <1>1, OthersKeep DEF IInv

\* The same of a step that leaves the directory alone.
LEMMA QuietStepKeeps ==
  ASSUME IInv, NEW p \in Procs,
         files' = files, expired' = expired, next' = next, acked' \subseteq Recorded,
         lock' = lock \/ lock = p \/ lock = Free, Frame(p),
         Types', AtWork(p)', line'[p] \in {line[p], 0}
  PROVE  IInv' /\ Recorded \subseteq Recorded'
<1>1. Recorded' = Recorded /\ History'
  BY DEF IInv, History, Recorded
<1>2. QED
  BY <1>1, StepKeeps

\* The steps that take and give back the lock.  An event is acknowledged that is
\* on record.
LEMMA CallerKeeps ==
  ASSUME IInv, NEW p \in Procs, Caller(p) \/ Acquire(p) \/ Unlock(p)
  PROVE  IInv' /\ Recorded \subseteq Recorded'
<1> USE DEF Goto, dir, local, counts, Points, Inside
<1>1. files' = files /\ expired' = expired /\ next' = next
  BY DEF Caller, Start, BeginWrite, Exit, Acquire, Unlock
<1>2. Types'
  <2>1. pc' \in [Procs -> Points]
    BY DEF IInv, Types, Caller, Start, BeginWrite, Exit, Acquire, Unlock
  <2>2. mode' \in [Procs -> {"new", "write"}]
    BY DEF IInv, Types, Caller, Start, BeginWrite, Exit, Acquire, Unlock
  <2>3. /\ todo' \in [Procs -> SUBSET FileNames]
        /\ kept' \in [Procs -> SUBSET FileNames]
    BY DEF IInv, Types, Caller, Start, BeginWrite, Exit, Acquire, Unlock
  <2>4. failed' \in [Procs -> BOOLEAN]
    BY DEF IInv, Types, Caller, Start, BeginWrite, Exit, Acquire, Unlock
  <2>5. line' \in [Procs -> Nat]
    BY DEF IInv, Types, Caller, Start, BeginWrite, Exit, Acquire, Unlock
  <2>6. QED
    BY <1>1, <2>1, <2>2, <2>3, <2>4, <2>5 DEF IInv, Types
<1>3. Frame(p)
  BY DEF Frame, IInv, Types, Caller, Start, BeginWrite, Exit, Acquire, Unlock
<1>4. lock' = lock \/ lock = p \/ lock = Free
  BY DEF IInv, AtWork, Caller, Start, BeginWrite, Exit, Acquire, Unlock
<1>5. acked' \subseteq Recorded
  <2>1. CASE Unlock(p)
    BY <2>1 DEF Unlock, IInv, AtWork, History
  <2>2. CASE Caller(p) \/ Acquire(p)
    BY <2>2 DEF IInv, History, Caller, Start, BeginWrite, Exit, Acquire
  <2>3. QED
    BY <2>1, <2>2
<1>6. AtWork(p)'
  BY DEF AtWork, IInv, Types, Caller, Start, BeginWrite, Exit, Acquire, Unlock
<1>7. line'[p] \in {line[p], 0}
  BY DEF IInv, Types, Caller, Start, BeginWrite, Exit, Acquire, Unlock
<1>8. QED
  BY <1>1, <1>2, <1>3, <1>4, <1>5, <1>6, <1>7, QuietStepKeeps

\* Process p goes on with one of the steps of S, or returns an error.
GoesTo(p, S) ==
    /\ pc' \in [Procs -> Points] /\ failed' \in [Procs -> BOOLEAN]
    /\ pc'[p] \in S \cup {"unlock"}
    /\ pc'[p] \in S \/ failed'[p]
    /\ \A q \in Procs \ {p} : pc'[q] = pc[q] /\ failed'[q] = failed[q]

\* After a call comes the next step, or the unlock with an error.
LEMMA ThenGoes ==
  ASSUME Types, NEW p \in Procs, NEW step \in Points, Then(p, step)
  PROVE  GoesTo(p, {step})
<1> USE DEF Types, Points, Goto, GoesTo
<1>1. CASE Goto(p, step) /\ UNCHANGED <<failed, mishaps>>
  <2>1. pc' \in [Procs -> Points] /\ failed' \in [Procs -> BOOLEAN]
    BY <1>1
  <2>2. pc'[p] = step /\ failed' = failed
    BY <1>1
  <2>3. \A q \in Procs \ {p} : pc'[q] = pc[q]
    BY <1>1
  <2>4. QED
    BY <2>1, <2>2, <2>3
<1>2. CASE failed' = [failed EXCEPT ![p] = TRUE] /\ Goto(p, "unlock")
  <2>1. failed' \in [Procs -> BOOLEAN] /\ pc' \in [Procs -> Points]
    BY <1>2
  <2>2. pc'[p] = "unlock" /\ failed'[p] = TRUE
    BY <1>2
  <2>3. \A q \in Procs \ {p} : pc'[q] = pc[q] /\ failed'[q] = failed[q]
    BY <1>2
  <2>4. QED
    BY <2>1, <2>2, <2>3
<1>3. QED
  BY <1>1, <1>2 DEF Then

\* The steps under the lock that change no file.
LEMMA LookingKeeps ==
  ASSUME IInv, NEW p \in Procs,
         \/ ListRefused(p) \/ List(p) \/ WriteTemporary(p) \/ Retain(p)
         \/ CallFails(p)
  PROVE  IInv' /\ Recorded \subseteq Recorded'
<1> USE DEF Goto, ReturnError, dir, local, counts, Points, Inside
<1>1. /\ pc[p] \in Inside
      /\ UNCHANGED <<files, expired, next, acked, lock, mode, line>>
  BY DEF ListRefused, List, WriteTemporary, Retain, CallFails
<1>2. pc' \in [Procs -> Points] /\ failed' \in [Procs -> BOOLEAN]
  BY DEF IInv, Types, ListRefused, List, WriteTemporary, Retain, CallFails
<1>3. todo' \in [Procs -> SUBSET FileNames] /\ kept' \in [Procs -> SUBSET FileNames]
  <2>1. Rotations \subseteq FileNames
    BY DEF IInv, Types, Directory, Rotations
  <2>2. QED
    BY <2>1 DEF IInv, Types, ListRefused, List, WriteTemporary, Retain, CallFails
<1>4. Types'
  BY <1>1, <1>2, <1>3 DEF IInv, Types
<1>5. Frame(p)
  BY <1>1 DEF Frame, IInv, Types, ListRefused, List, WriteTemporary, Retain, CallFails
<1>6. acked' \subseteq Recorded
  BY <1>1 DEF IInv, History
<1>7. AtWork(p)'
  <2>1. CASE ListRefused(p) \/ CallFails(p)
    BY <1>1, <2>1 DEF AtWork, IInv, Types, ListRefused, CallFails
  <2>2. CASE List(p)
    <3>1. lock' = p /\ (pc'[p] = "shift" \/ pc'[p] = "retain")
      BY <1>1, <2>2 DEF AtWork, IInv, Types, List
    <3>2. pc'[p] = "shift" =>
              Active \in DOMAIN files /\ todo'[p] = DOMAIN files \ {Active}
      BY <1>1, <2>2 DEF IInv, Types, List, Rotations
    <3>3. pc'[p] = "shift" => Shifting(p)'
      BY <1>1, <3>2 DEF Shifting
    <3>4. QED
      BY <3>1, <3>3 DEF AtWork
  <2>3. CASE WriteTemporary(p)
    BY <1>1, <2>3 DEF AtWork, IInv, Types, WriteTemporary, Compressing
  <2>4. CASE Retain(p)
    BY <1>1, <2>4 DEF AtWork, IInv, Types, Retain
  <2>5. QED
    BY <2>1, <2>2, <2>3, <2>4
<1>8. QED
  BY <1>1, <1>4, <1>5, <1>6, <1>7, QuietStepKeeps

\* Opening the active log, before the enumeration and at the end of New.
LEMMA OpenKeeps ==
  ASSUME IInv, NEW p \in Procs, OpenActive(p) \/ ReopenActive(p)
  PROVE  IInv' /\ Recorded \subseteq Recorded'
<1> USE DEF Points, Inside, GoesTo
<1>1. /\ pc[p] \in Inside /\ CreateActive
      /\ UNCHANGED <<expired, next, acked, lock, mode, todo, kept, line>>
  BY DEF OpenActive, ReopenActive
<1>2. /\ Directory(files') /\ Ordered(files') /\ ActiveNewest(files')
      /\ EventsOf(files') = EventsOf(files)
  BY <1>1, CreateKeeps DEF CreateActive, IInv, Types, History
<1>3. Then(p, "list") \/ (Then(p, "unlock") /\ mode[p] = "new")
  BY DEF OpenActive, ReopenActive
<1>4. GoesTo(p, {"list"}) \/ (GoesTo(p, {"unlock"}) /\ mode[p] = "new")
  BY <1>3, ThenGoes DEF IInv
<1>5. Types'
  BY <1>1, <1>2, <1>4 DEF IInv, Types
<1>6. History' /\ Recorded' = Recorded
  BY <1>1, <1>2 DEF IInv, History, Recorded
<1>7. AtWork(p)'
  BY <1>1, <1>4 DEF IInv, AtWork
<1>8. Frame(p)
  BY <1>1, <1>4 DEF Frame
<1>9. QED
  BY <1>1, <1>5, <1>6, <1>7, <1>8, StepKeeps

\* Shifting a rotation: it goes for good, or takes the free name above it.
LEMMA ShiftKeeps ==
  ASSUME IInv, NEW p \in Procs, Shift(p)
  PROVE  IInv' /\ Recorded \subseteq Recorded'
<1> USE DEF Points, Inside, GoesTo
<1>1. PICK f \in todo[p] :
        /\ \A g \in todo[p] \ {f} : ShiftsBefore(f, g)
        /\ todo' = [todo EXCEPT ![p] = @ \ {f}]
        /\ \/ Expire(f) /\ UNCHANGED kept
           \/ /\ Rename(f, <<Suffix(f) + 1, f[2]>>)
              /\ kept' = [kept EXCEPT ![p] = @ \cup {<<Suffix(f) + 1, f[2]>>}]
              /\ UNCHANGED expired
  BY DEF Shift
<1>2. /\ pc[p] = "shift" /\ Then(p, "shift")
      /\ UNCHANGED <<next, acked, lock, mode, line>>
  BY DEF Shift
<1>3. /\ Directory(files) /\ Ordered(files) /\ ActiveNewest(files) /\ Shifting(p)
      /\ lock = p
  BY <1>2 DEF IInv, Types, History, AtWork
<1>4. f \in DOMAIN files \ {Active} /\ f \in RotationNames /\ Active \in DOMAIN files
  BY <1>1, <1>3 DEF Shifting, Directory, FileNames
<1>5. GoesTo(p, {"shift"})
  BY <1>2, ThenGoes DEF IInv
<1>6. todo' \in [Procs -> SUBSET FileNames] /\ todo'[p] = todo[p] \ {f}
      /\ \A q \in Procs \ {p} : todo'[q] = todo[q]
  BY <1>1 DEF IInv, Types
<1>7. Frame(p)
  BY <1>2, <1>5, <1>6 DEF Frame
<1>8. SUFFICES /\ Directory(files') /\ Ordered(files') /\ ActiveNewest(files')
               /\ EventsOf(files') \subseteq EventsOf(files)
               /\ Recorded \subseteq Recorded'
               /\ kept' \in [Procs -> SUBSET FileNames]
               /\ Shifting(p)'
  <2>1. Types'
    BY <1>2, <1>5, <1>6, <1>8 DEF IInv, Types
  <2>2. History'
    BY <1>2, <1>8 DEF IInv, History
  <2>3. AtWork(p)'
    BY <1>2, <1>3, <1>5, <1>8 DEF AtWork
  <2>4. QED
    BY <1>2, <1>7, <1>8, <2>1, <2>2, <2>3, StepKeeps
<1>9. CASE Expire(f) /\ UNCHANGED kept
  <2>1. files' = [h \in DOMAIN files \ {f} |-> files[h]]
    BY <1>9 DEF Expire, Remove
  <2>2. /\ Directory(files') /\ Ordered(files') /\ ActiveNewest(files')
        /\ EventsOf(files') \subseteq EventsOf(files)
        /\ EventsOf(files) \subseteq EventsOf(files') \cup EventsIn(files[f])
    BY <1>3, <2>1, RemoveKeeps
  <2>3. expired' = expired \cup EventsIn(files[f])
    BY <1>9 DEF Expire, LinesOf, EventsIn
  <2>4. Recorded \subseteq Recorded'
    BY <2>2, <2>3 DEF Recorded
  <2>5. Shifting(p)'
    BY <1>3, <1>4, <1>6, <2>1 DEF Shifting, Twins
  <2>6. QED
    BY <1>9, <2>2, <2>4, <2>5 DEF IInv, Types
<1>10. CASE /\ Rename(f, <<Suffix(f) + 1, f[2]>>)
            /\ kept' = [kept EXCEPT ![p] = @ \cup {<<Suffix(f) + 1, f[2]>>}]
            /\ UNCHANGED expired
  <2> DEFINE g == <<Suffix(f) + 1, f[2]>>
  <2>1. /\ g \in RotationNames /\ Suffix(g) = Suffix(f) + 1 /\ (IsGz(g) <=> IsGz(f))
        /\ g \in FileNames
    BY <1>4, NamesOfFiles DEF FileNames
  <2>2. /\ g \notin DOMAIN files
        /\ files' = [h \in (DOMAIN files \ {f}) \cup {g} |->
                        IF h = g THEN files[f] ELSE files[h]]
    BY <1>10 DEF Rename
  <2>3. kept' \in [Procs -> SUBSET FileNames]
    BY <1>10, <2>1 DEF IInv, Types
  <2> HIDE DEF g
  <2>4. ASSUME NEW h \in DOMAIN files \ {f, Active}
        PROVE  \/ Suffix(h) > Suffix(g)
               \/ Suffix(h) = Suffix(g) /\ files[h] = files[f]
               \/ Suffix(h) < Suffix(f)
               \/ Suffix(h) = Suffix(f) /\ IsGz(f) /\ ~IsGz(h)
    <3>1. CASE h \in todo[p]
      BY <1>1, <3>1 DEF ShiftsBefore
    <3>2. CASE h \notin todo[p]
      BY <1>1, <1>3, <2>1, <3>2 DEF Shifting, Twins
    <3>3. QED
      BY <3>1, <3>2
  <2>5. /\ Directory(files') /\ Ordered(files') /\ ActiveNewest(files')
        /\ EventsOf(files') = EventsOf(files)
    BY <1>3, <1>4, <2>1, <2>2, <2>4, RenameKeeps
  <2>6. Recorded' = Recorded
    BY <1>10, <2>5 DEF Recorded
  <2>7. Shifting(p)'
    <3>1. /\ DOMAIN files' = (DOMAIN files \ {f}) \cup {g} /\ files'[g] = files[f]
          /\ \A h \in DOMAIN files \ {f} : h # g /\ files'[h] = files[h]
      BY <2>2
    <3>2. Active \in DOMAIN files' /\ todo'[p] \subseteq DOMAIN files' \ {Active}
      BY <1>3, <1>4, <1>6, <3>1 DEF Shifting
    <3>3. Suffix(g) > 1
      BY <1>4, <2>1, NamesOfFiles DEF FileNames, RotationNames, Suffix
    <3>4. ASSUME NEW k \in todo'[p]
          PROVE  \/ Suffix(g) > Suffix(k) + 1
                 \/ Suffix(g) = Suffix(k) + 1 /\ Twins(files', g, k)
      <4>1. ShiftsBefore(f, k) /\ k \in DOMAIN files /\ k # f
        BY <1>1, <1>3, <1>6 DEF Shifting
      <4>2. Suffix(f) \in Nat /\ Suffix(k) \in Nat
        BY <1>3, <1>4, <4>1, NamesOfFiles DEF Directory
      <4>3. CASE Suffix(f) > Suffix(k)
        BY <2>1, <4>2, <4>3
      <4>4. CASE Suffix(f) = Suffix(k) /\ IsGz(f) /\ ~IsGz(k)
        <5>1. files[f] = files[k]
          BY <1>3, <1>4, <4>1, <4>4 DEF Ordered
        <5>2. QED
          BY <2>1, <3>1, <4>1, <4>4, <5>1 DEF Twins
      <4>5. QED
        BY <4>1, <4>3, <4>4 DEF ShiftsBefore
    <3>5. ASSUME NEW h \in (DOMAIN files' \ {Active}) \ todo'[p], h # g
          PROVE  /\ Suffix(h) > 1
                 /\ \A k \in todo'[p] :
                      \/ Suffix(h) > Suffix(k) + 1
                      \/ Suffix(h) = Suffix(k) + 1 /\ Twins(files', h, k)
      <4>1. h \in (DOMAIN files \ {Active}) \ todo[p] /\ h # f
        BY <1>6, <3>1, <3>5
      <4>2. \A k \in todo'[p] : k \in todo[p] /\ k \in DOMAIN files \ {f}
        BY <1>3, <1>6 DEF Shifting
      <4>3. QED
        BY <1>3, <3>1, <4>1, <4>2 DEF Shifting, Twins
    <3>6. QED
      BY <3>2, <3>3, <3>4, <3>5 DEF Shifting
  <2>8. QED
    BY <2>3, <2>5, <2>6, <2>7
<1>11. QED
  BY <1>1, <1>9, <1>10

\* The active log takes the name that the shifts have freed.
LEMMA RotateStepKeeps ==
  ASSUME IInv, NEW p \in Procs, RotateActive(p)
  PROVE  IInv' /\ Recorded \subseteq Recorded'
<1> USE DEF Points, Inside, GoesTo
<1>1. /\ pc[p] = "shift" /\ todo[p] = {} /\ Rename(Active, Raw(1))
      /\ kept' = [kept EXCEPT ![p] = @ \cup {Raw(1)}]
      /\ UNCHANGED <<expired, next, acked, lock, mode, todo, line>>
  BY DEF RotateActive
<1>2. \E step \in {"compress", "retain"} : Then(p, step)
  BY DEF RotateActive
<1>3. GoesTo(p, {"compress", "retain"})
  BY <1>2, ThenGoes DEF IInv
<1>4. Active \in DOMAIN files /\ \A h \in DOMAIN files \ {Active} : Suffix(h) > 1
  BY <1>1 DEF IInv, AtWork, Shifting
<1>5. /\ Raw(1) \notin DOMAIN files
      /\ files' = [h \in (DOMAIN files \ {Active}) \cup {Raw(1)} |->
                      IF h = Raw(1) THEN files[Active] ELSE files[h]]
  BY <1>1 DEF Rename
<1>6. /\ Directory(files') /\ Ordered(files') /\ ActiveNewest(files')
      /\ EventsOf(files') = EventsOf(files)
      /\ \A h \in DOMAIN files' : Suffix(h) > 1 => OlderThan(files'[h], files'[Raw(1)])
  BY <1>4, <1>5, RotateKeeps DEF IInv, Types, History
<1>7. Raw(1) \in DOMAIN files'
  BY <1>5
<1>8. kept' \in [Procs -> SUBSET FileNames]
  BY <1>1, NamesOfFiles DEF IInv, Types, FileNames
<1>9. Types'
  BY <1>1, <1>3, <1>6, <1>8 DEF IInv, Types
<1>10. History' /\ Recorded' = Recorded
  BY <1>1, <1>6 DEF IInv, History, Recorded
<1>11. AtWork(p)'
  BY <1>1, <1>3, <1>6, <1>7 DEF IInv, AtWork, Compressing
<1>12. Frame(p)
  BY <1>1, <1>3 DEF Frame
<1>13. QED
  BY <1>1, <1>9, <1>10, <1>11, <1>12, StepKeeps

\* The gzip file gets its name.
LEMMA PublishStepKeeps ==
  ASSUME IInv, NEW p \in Procs, PublishGzip(p)
  PROVE  IInv' /\ Recorded \subseteq Recorded'
<1> USE DEF Points, Inside, GoesTo
<1>1. /\ pc[p] = "publish" /\ Gz(1) \notin DOMAIN files /\ Then(p, "unlink")
      /\ files' = [f \in DOMAIN files \cup {Gz(1)} |->
                      IF f = Gz(1) THEN files[Raw(1)] ELSE files[f]]
      /\ UNCHANGED <<expired, next, acked, lock, mode, todo, kept, line>>
  BY DEF PublishGzip
<1>2. GoesTo(p, {"unlink"})
  BY <1>1, ThenGoes DEF IInv
<1>3. Compressing(p)
  BY <1>1 DEF IInv, AtWork
<1>4. /\ Directory(files') /\ Ordered(files') /\ ActiveNewest(files')
      /\ EventsOf(files') = EventsOf(files)
      /\ files'[Gz(1)] = files'[Raw(1)]
      /\ \A h \in DOMAIN files' : Suffix(h) > 1 => OlderThan(files'[h], files'[Raw(1)])
  BY <1>1, <1>3, PublishKeeps DEF IInv, Types, History, Compressing
<1>5. Raw(1) \in DOMAIN files' /\ Gz(1) \in DOMAIN files'
  BY <1>1, <1>3 DEF Compressing
<1>6. Types'
  BY <1>1, <1>2, <1>4 DEF IInv, Types
<1>7. History' /\ Recorded' = Recorded
  BY <1>1, <1>4 DEF IInv, History, Recorded
<1>8. AtWork(p)'
  BY <1>1, <1>2, <1>4, <1>5 DEF IInv, AtWork, Compressing
<1>9. Frame(p)
  BY <1>1, <1>2 DEF Frame
<1>10. QED
  BY <1>1, <1>6, <1>7, <1>8, <1>9, StepKeeps

\* Removing the source loses nothing that the gzip file does not hold, and what
\* retention removes is on record.
LEMMA RemovalKeeps ==
  ASSUME IInv, NEW p \in Procs, UnlinkSource(p) \/ Drop(p)
  PROVE  IInv' /\ Recorded \subseteq Recorded'
<1> USE DEF Points, Inside, GoesTo
<1>1. CASE UnlinkSource(p)
  <2>1. /\ pc[p] = "unlink" /\ Remove(Raw(1)) /\ Then(p, "retain")
        /\ kept' = [kept EXCEPT ![p] = (@ \ {Raw(1)}) \cup {Gz(1)}]
        /\ UNCHANGED <<expired, next, acked, lock, mode, todo, line>>
    BY <1>1 DEF UnlinkSource
  <2>2. GoesTo(p, {"retain"})
    BY <2>1, ThenGoes DEF IInv
  <2>3. files' = [h \in DOMAIN files \ {Raw(1)} |-> files[h]]
    BY <2>1 DEF Remove
  <2>4. /\ Directory(files') /\ Ordered(files') /\ ActiveNewest(files')
        /\ EventsOf(files') \subseteq EventsOf(files)
        /\ EventsOf(files) \subseteq EventsOf(files') \cup EventsIn(files[Raw(1)])
    BY <2>3, RemoveKeeps DEF IInv, Types, History
  <2>5. EventsIn(files[Raw(1)]) \subseteq EventsOf(files')
    <3>1. Gz(1) \in DOMAIN files /\ files[Gz(1)] = files[Raw(1)] /\ Gz(1) # Raw(1)
      BY <2>1, NamesOfFiles DEF IInv, AtWork, Compressing
    <3>2. Gz(1) \in DOMAIN files' /\ files'[Gz(1)] = files[Raw(1)]
      BY <2>3, <3>1
    <3>3. QED
      BY <3>2 DEF EventsOf
  <2>6. kept' \in [Procs -> SUBSET FileNames]
    BY <2>1, NamesOfFiles DEF IInv, Types, FileNames
  <2>7. Types'
    BY <2>1, <2>2, <2>4, <2>6 DEF IInv, Types
  <2>8. History' /\ Recorded \subseteq Recorded'
    BY <2>1, <2>4, <2>5 DEF IInv, History, Recorded
  <2>9. AtWork(p)'
    BY <2>1, <2>2 DEF IInv, AtWork
  <2>10. Frame(p)
    BY <2>1, <2>2 DEF Frame
  <2>11. QED
    BY <2>1, <2>7, <2>8, <2>9, <2>10, StepKeeps
<1>2. CASE Drop(p)
  <2>1. /\ pc[p] = "drop"
        /\ UNCHANGED <<next, acked, lock, mode, kept, line>>
    BY <1>2 DEF Drop
  <2>2. CASE \E f \in todo[p] :
                /\ Expire(f) /\ todo' = [todo EXCEPT ![p] = @ \ {f}]
                /\ Then(p, "drop")
    <3>1. PICK f \in todo[p] :
             /\ Expire(f) /\ todo' = [todo EXCEPT ![p] = @ \ {f}]
             /\ Then(p, "drop")
      BY <2>2
    <3>2. GoesTo(p, {"drop"})
      BY <3>1, ThenGoes DEF IInv
    <3>3. /\ files' = [h \in DOMAIN files \ {f} |-> files[h]]
          /\ expired' = expired \cup EventsIn(files[f])
      BY <3>1 DEF Expire, Remove, LinesOf, EventsIn
    <3>4. /\ Directory(files') /\ Ordered(files') /\ ActiveNewest(files')
          /\ EventsOf(files') \subseteq EventsOf(files)
          /\ EventsOf(files) \subseteq EventsOf(files') \cup EventsIn(files[f])
      BY <3>3, RemoveKeeps DEF IInv, Types, History
    <3>5. /\ todo' \in [Procs -> SUBSET FileNames]
          /\ \A q \in Procs \ {p} : todo'[q] = todo[q]
      BY <3>1 DEF IInv, Types
    <3>6. Types'
      BY <2>1, <3>2, <3>4, <3>5 DEF IInv, Types
    <3>7. History' /\ Recorded \subseteq Recorded'
      BY <2>1, <3>3, <3>4 DEF IInv, History, Recorded
    <3>8. AtWork(p)'
      BY <2>1, <3>2 DEF IInv, AtWork
    <3>9. Frame(p)
      BY <2>1, <3>2, <3>5 DEF Frame
    <3>10. QED
      BY <2>1, <3>6, <3>7, <3>8, <3>9, StepKeeps
  <2>3. CASE Goto(p, "finish") /\ UNCHANGED <<files, todo, expired, failed>>
    <3>1. /\ pc' \in [Procs -> Points] /\ pc'[p] = "finish"
          /\ \A q \in Procs \ {p} : pc'[q] = pc[q]
      BY <2>3 DEF Goto, IInv, Types
    <3>2. Types' /\ Frame(p)
      BY <2>1, <2>3, <3>1 DEF IInv, Types, Frame
    <3>3. AtWork(p)'
      BY <2>1, <3>1 DEF IInv, AtWork
    <3>4. QED
      BY <2>1, <2>3, <3>2, <3>3, QuietStepKeeps DEF IInv, History
  <2>4. QED
    BY <1>2, <2>2, <2>3 DEF Drop
<1>3. QED
  BY <1>1, <1>2

\* What a write to the active log does to the directory.
LEMMA LineKeeps ==
  ASSUME IInv, NEW x \in {Torn, next}, AppendLine(x)
  PROVE  /\ Directory(files') /\ Ordered(files') /\ ActiveNewest(files')
         /\ EventsOf(files') = EventsOf(files) \cup ({x} \ {Torn})
<1>1. x \in Nat /\ (x = Torn \/ \A e \in EventsOf(files) : e < x)
  BY DEF IInv, Types, History, Torn
<1>2. Directory(files) /\ Ordered(files) /\ ActiveNewest(files)
  BY DEF IInv, Types, History
<1>3. files' = [f \in DOMAIN files \cup {Active} |->
                   IF f # Active THEN files[f]
                   ELSE IF Active \in DOMAIN files THEN Append(files[f], x)
                   ELSE <<x>>]
  BY DEF AppendLine
<1>4. QED
  BY <1>1, <1>2, <1>3, AppendKeeps

\* Writing an event puts it on record, and a fragment is no event.
LEMMA AppendStepKeeps ==
  ASSUME IInv, NEW p \in Procs, AppendEvent(p) \/ AppendTorn(p)
  PROVE  IInv' /\ Recorded \subseteq Recorded'
<1> USE DEF Points, Inside, GoesTo
<1>1. /\ pc[p] = "finish" /\ mode[p] = "write"
      /\ UNCHANGED <<expired, acked, lock, mode, todo, kept>>
  BY DEF AppendEvent, AppendTorn
<1>2. CASE AppendEvent(p)
  <2>1. /\ Then(p, "unlock") /\ AppendLine(next)
        /\ line' = [line EXCEPT ![p] = next] /\ next' = next + 1
    BY <1>2 DEF AppendEvent
  <2>2. GoesTo(p, {"unlock"})
    BY <2>1, ThenGoes DEF IInv
  <2>3. /\ Directory(files') /\ Ordered(files') /\ ActiveNewest(files')
        /\ EventsOf(files') = EventsOf(files) \cup {next}
    BY <2>1, LineKeeps DEF IInv, Types, Torn
  <2>4. line' \in [Procs -> Nat] /\ line'[p] = next
        /\ \A q \in Procs \ {p} : line'[q] = line[q]
    BY <2>1 DEF IInv, Types
  <2>5. Types'
    BY <1>1, <2>1, <2>2, <2>3, <2>4 DEF IInv, Types
  <2>6. \A e \in EventsOf(files') : e < next'
    <3>1. \A e \in EventsOf(files) : e \in Nat
      BY DEF EventsOf, EventsIn, IInv, Types, Directory
    <3>2. QED
      BY <2>1, <2>3, <3>1 DEF IInv, Types, History
  <2>7. History' /\ Recorded \subseteq Recorded'
    BY <1>1, <2>3, <2>6 DEF IInv, History, Recorded
  <2>8. AtWork(p)'
    BY <1>1, <2>2, <2>3, <2>4 DEF IInv, AtWork, Recorded
  <2>9. Frame(p)
    BY <1>1, <2>2, <2>4 DEF Frame
  <2>10. line'[p] \in Recorded'
    BY <2>3, <2>4 DEF Recorded
  <2>11. QED
    BY <1>1, <2>5, <2>7, <2>8, <2>9, <2>10, StepKeeps
<1>3. CASE AppendTorn(p)
  <2>1. /\ ReturnError(p) /\ AppendLine(Torn) /\ UNCHANGED <<line, next>>
    BY <1>3 DEF AppendTorn
  <2>2. GoesTo(p, {"unlock"}) /\ failed'[p]
    BY <2>1 DEF ReturnError, Goto, IInv, Types
  <2>3. /\ Directory(files') /\ Ordered(files') /\ ActiveNewest(files')
        /\ EventsOf(files') = EventsOf(files)
    BY <2>1, LineKeeps
  <2>4. Types'
    BY <1>1, <2>1, <2>2, <2>3 DEF IInv, Types
  <2>5. History' /\ Recorded' = Recorded
    BY <1>1, <2>1, <2>3 DEF IInv, History, Recorded
  <2>6. AtWork(p)'
    BY <1>1, <2>2 DEF IInv, AtWork
  <2>7. Frame(p)
    BY <1>1, <2>1, <2>2 DEF Frame
  <2>8. QED
    BY <1>1, <2>1, <2>4, <2>5, <2>6, <2>7, StepKeeps
<1>4. QED
  BY <1>2, <1>3

\* A kill leaves the directory as it was, or a fragment in the active log.
LEMMA KillKeeps ==
  ASSUME IInv, NEW p \in Procs, Kill(p)
  PROVE  IInv' /\ Recorded \subseteq Recorded'
<1> USE DEF Points, Inside
<1>1. /\ lock' = IF lock = p THEN Free ELSE lock
      /\ UNCHANGED <<mode, next, acked, expired>>
      /\ UNCHANGED files \/ (pc[p] = "finish" /\ AppendLine(Torn))
  BY DEF Kill
<1>2. /\ Directory(files') /\ Ordered(files') /\ ActiveNewest(files')
      /\ EventsOf(files') = EventsOf(files)
  <2>1. CASE UNCHANGED files
    BY <2>1 DEF IInv, Types, History
  <2>2. CASE AppendLine(Torn)
    BY <2>2, LineKeeps
  <2>3. QED
    BY <1>1, <2>1, <2>2
<1>3. pc' \in [Procs -> Points] /\ pc'[p] = "off"
  BY DEF Kill, Goto, IInv, Types
<1>4. todo' \in [Procs -> SUBSET FileNames] /\ kept' \in [Procs -> SUBSET FileNames]
  BY DEF Kill, IInv, Types
<1>5. failed' \in [Procs -> BOOLEAN]
  BY DEF Kill, IInv, Types
<1>6. line' \in [Procs -> Nat]
  BY DEF Kill, IInv, Types
<1>7. Types'
  BY <1>1, <1>2, <1>3, <1>4, <1>5, <1>6 DEF IInv, Types
<1>8. History' /\ Recorded' = Recorded
  BY <1>1, <1>2 DEF IInv, History, Recorded
<1>9. AtWork(p)'
  BY <1>3 DEF AtWork
<1>10. Frame(p)
  BY <1>1 DEF Frame, Kill, Goto, IInv, Types
<1>11. line'[p] = 0
  BY DEF Kill, IInv, Types
<1>12. QED
  BY <1>1, <1>7, <1>8, <1>9, <1>10, <1>11, StepKeeps

\* Time, and nobody's step.
LEMMA IdleKeeps ==
  ASSUME IInv, Age \/ UNCHANGED vars
  PROVE  IInv' /\ Recorded \subseteq Recorded'
<1>1. UNCHANGED <<files, lock, pc, local, next, acked, expired>>
  BY DEF Age, vars, dir, local, counts
<1>2. Types' /\ History' /\ Recorded' = Recorded
  BY <1>1 DEF IInv, Types, History, Recorded, local
<1>3. ASSUME NEW p \in Procs
      PROVE  AtWork(p)'
  BY <1>1, <1>2 DEF IInv, AtWork, Shifting, Compressing, Twins, local
<1>4. LinesRecorded'
  BY <1>1, <1>2 DEF IInv, LinesRecorded, local
<1>5. QED
  BY <1>2, <1>3, <1>4 DEF IInv

\* Every step keeps the invariant.
LEMMA NextInvariant == IInv /\ [Next]_vars => IInv' /\ Recorded \subseteq Recorded'
<1> SUFFICES ASSUME IInv, [Next]_vars
             PROVE  IInv' /\ Recorded \subseteq Recorded'
  OBVIOUS
<1>1. ASSUME NEW p \in Procs, Caller(p) \/ Acquire(p) \/ Operation(p) \/ Failure(p)
      PROVE  IInv' /\ Recorded \subseteq Recorded'
  <2>1. CASE Caller(p) \/ Acquire(p) \/ Unlock(p)
    BY <2>1, CallerKeeps
  <2>2. CASE \/ ListRefused(p) \/ List(p) \/ WriteTemporary(p) \/ Retain(p)
             \/ CallFails(p)
    BY <2>2, LookingKeeps
  <2>3. CASE OpenActive(p) \/ ReopenActive(p)
    BY <2>3, OpenKeeps
  <2>4. CASE Shift(p)
    BY <2>4, ShiftKeeps
  <2>5. CASE RotateActive(p)
    BY <2>5, RotateStepKeeps
  <2>6. CASE PublishGzip(p)
    BY <2>6, PublishStepKeeps
  <2>7. CASE UnlinkSource(p) \/ Drop(p)
    BY <2>7, RemovalKeeps
  <2>8. CASE AppendEvent(p) \/ AppendTorn(p)
    BY <2>8, AppendStepKeeps
  <2>9. CASE Kill(p)
    BY <2>9, KillKeeps
  <2>10. QED
    BY <1>1, <2>1, <2>2, <2>3, <2>4, <2>5, <2>6, <2>7, <2>8, <2>9
    DEF Operation, Locked, Failure
<1>2. CASE Age \/ Done \/ UNCHANGED vars
  BY <1>2, IdleKeeps DEF Done
<1>3. QED
  BY <1>1, <1>2 DEF Next

-----------------------------------------------------------------------------
(* The theorems *)

\* The invariant holds in every reachable state.
LEMMA Invariant == Spec => []IInv
BY InitInvariant, NextInvariant, PTL DEF Spec

\* For any number of processes and any limits, an event whose Write returned nil
\* is in the log, or was in a generation that retention removed.
THEOREM AckedKept == Spec => []AckedEventsKept
<1>1. IInv => AckedEventsKept
  BY InOtherWords DEF IInv, Types, History, Recorded, AckedEventsKept
<1>2. QED
  BY Invariant, <1>1, PTL

\* For any number of processes and any limits, the history is in the order of
\* appending, and only an interrupted compression leaves a generation twice.
THEOREM InOrder == Spec => []HistoryInOrder
<1>1. IInv => HistoryInOrder
  BY InOtherWords DEF IInv, Types, History
<1>2. QED
  BY Invariant, <1>1, PTL

-----------------------------------------------------------------------------
(* What success leaves.  Retention and the shifts remove the oldest          *)
(* generations in any order, and can fail between two of them: then a        *)
(* generation is left that is older than one that is gone.  It is doomed:    *)
(* the next retention cannot keep it.  E stands for the expired events, and  *)
(* h for the horizon.                                                        *)

Rot(F) == DOMAIN F \ {Active}

\* By the age of its own events, a file s of the name f goes.
OldAt(f, s, h) ==
    /\ AgeLimit
    /\ \A e \in EventsIn(s) :
          (IF ~IsGz(f) /\ s # <<>> /\ s[Len(s)] = e THEN e ELSE e + 1) <= h

Newer(F, k, f) == Suffix(k) < Suffix(f) /\ OlderThan(F[f], F[k])

\* As many rotations as are kept, those in X apart, are newer than f.
Crowded(F, X, f) ==
    \E K \in SUBSET (Rot(F) \ X) :
        Cardinality(K) = MaxFiles /\ \A k \in K : Newer(F, k, f)

Doomed(F, X, h, f) ==
    Suffix(f) > MaxFiles \/ OldAt(f, F[f], h) \/ Crowded(F, X, f)

\* A file with an event that is older than one that is lost.
Stale(F, E, f) == \E e \in EventsIn(F[f]) : \E d \in E \ EventsOf(F) : e < d

StaleDoomed(F, E, X, h) ==
    \A f \in DOMAIN F : Stale(F, E, f) => f # Active /\ Doomed(F, X, h, f)

\* Every event of E is older than the file s.
Before(E, s) == \A d \in E, e \in EventsIn(s) : d < e

\* What retention leaves when it has still to remove T.
Left(F, T) == Rot(F) \ T

DropOK(F, E, h, T) ==
    /\ T \subseteq Rot(F)
    /\ Cardinality(Left(F, T)) <= MaxFiles
    /\ \A k \in Left(F, T) : Suffix(k) <= MaxFiles /\ Before(E \ EventsOf(F), F[k])
    /\ \A f \in T :
          /\ \A k \in Left(F, T) : OlderThan(F[f], F[k]) \/ F[f] = F[k]
          /\ EventsIn(F[f]) # {} =>
                \/ Suffix(f) > MaxFiles \/ OldAt(f, F[f], h)
                \/ /\ Cardinality(Left(F, T)) = MaxFiles
                   /\ \A k \in Left(F, T) : Suffix(k) <= Suffix(f)

\* The shift of a rotation keeps the stale ones doomed.
LEMMA RenameDoomed ==
  ASSUME NEW F, Directory(F), IsFiniteSet(DOMAIN F),
         NEW f \in Rot(F), NEW g \in RotationNames \ DOMAIN F,
         Suffix(g) = Suffix(f) + 1, IsGz(g) <=> IsGz(f),
         \A h \in DOMAIN F \ {f, Active} :
            \/ Suffix(h) > Suffix(g)
            \/ Suffix(h) = Suffix(g) /\ F[h] = F[f]
            \/ Suffix(h) <= Suffix(f),
         NEW G,
         G = [h \in (DOMAIN F \ {f}) \cup {g} |-> IF h = g THEN F[f] ELSE F[h]],
         EventsOf(G) = EventsOf(F),
         NEW E, NEW h, StaleDoomed(F, E, {}, h)
  PROVE  StaleDoomed(G, E, {}, h)
<1>1. /\ DOMAIN G = (DOMAIN F \ {f}) \cup {g} /\ G[g] = F[f]
      /\ \A k \in DOMAIN F \ {f} : k # g /\ G[k] = F[k]
  OBVIOUS
<1>2. /\ \A k \in DOMAIN F : Suffix(k) \in Nat
      /\ Suffix(f) \in Nat /\ g # Active
  BY NamesOfFiles DEF Directory, Rot
<1> SUFFICES ASSUME NEW t \in DOMAIN G, Stale(G, E, t)
             PROVE  t # Active /\ Doomed(G, {}, h, t)
  BY DEF StaleDoomed
<1>3. CASE t = g
  <2>1. Stale(F, E, f)
    BY <1>1, <1>3 DEF Stale
  <2>2. Doomed(F, {}, h, f)
    BY <2>1 DEF StaleDoomed, Rot
  <2>3. CASE Suffix(f) > MaxFiles \/ OldAt(f, F[f], h)
    BY <1>1, <1>2, <1>3, <2>3, LogAssumption DEF Doomed, OldAt
  <2>4. CASE Crowded(F, {}, f)
    <3>1. PICK K \in SUBSET Rot(F) :
             Cardinality(K) = MaxFiles /\ \A k \in K : Newer(F, k, f)
      BY <2>4 DEF Crowded
    <3>2. f \notin K
      BY <1>2, <3>1 DEF Newer
    <3>3. K \subseteq Rot(G) /\ \A k \in K : Newer(G, k, g)
      BY <1>1, <1>2, <3>1, <3>2 DEF Rot, Newer
    <3>4. Crowded(G, {}, t)
      BY <1>3, <3>1, <3>3 DEF Crowded
    <3>5. QED
      BY <1>2, <1>3, <3>4 DEF Doomed
  <2>5. QED
    BY <2>2, <2>3, <2>4 DEF Doomed
<1>4. CASE t # g
  <2>1. t \in DOMAIN F \ {f} /\ Stale(F, E, t) /\ G[t] = F[t]
    BY <1>1, <1>4 DEF Stale
  <2>2. t # Active /\ Doomed(F, {}, h, t)
    BY <2>1 DEF StaleDoomed
  <2>3. CASE Suffix(t) > MaxFiles \/ OldAt(t, F[t], h)
    BY <2>1, <2>2, <2>3 DEF Doomed
  <2>4. CASE Crowded(F, {}, t)
    <3>1. PICK K \in SUBSET Rot(F) :
             Cardinality(K) = MaxFiles /\ \A k \in K : Newer(F, k, t)
      BY <2>4 DEF Crowded
    <3>2. CASE f \notin K
      <4>1. K \subseteq Rot(G) /\ \A k \in K : Newer(G, k, t)
        BY <1>1, <2>1, <3>1, <3>2 DEF Rot, Newer
      <4>2. QED
        BY <2>2, <3>1, <4>1 DEF Doomed, Crowded
    <3>3. CASE f \in K
      <4> DEFINE M == (K \ {f}) \cup {g}
      <4>1. IsFiniteSet(K) /\ g \notin K
        BY <3>1, FS_Subset DEF Rot
      <4>2. Cardinality(M) = MaxFiles
        <5>1. IsFiniteSet(K \ {f}) /\ Cardinality(K \ {f}) = MaxFiles - 1
          BY <3>1, <3>3, <4>1, FS_RemoveElement
        <5>2. Cardinality(M) = Cardinality(K \ {f}) + 1
          BY <4>1, <5>1, FS_AddElement
        <5>3. QED
          BY <5>1, <5>2, LogAssumption
      <4>3. Newer(G, g, t)
        <5>1. Newer(F, f, t)
          BY <3>1, <3>3
        <5>2. Suffix(t) # Suffix(g)
          <6>1. ~OlderThan(F[t], F[t])
            <7>1. EventsIn(F[t]) \subseteq Nat
              BY <2>1 DEF EventsIn, Directory
            <7>2. QED
              BY <2>1, <7>1 DEF Stale, OlderThan
          <6>2. QED
            BY <1>2, <2>1, <2>2, <5>1, <6>1 DEF Newer
        <5>3. Suffix(g) < Suffix(t)
          BY <1>2, <2>1, <5>1, <5>2 DEF Newer
        <5>4. QED
          BY <1>1, <2>1, <5>1, <5>3 DEF Newer
      <4>4. M \subseteq Rot(G) /\ \A k \in M : Newer(G, k, t)
        BY <1>1, <1>2, <2>1, <3>1, <4>1, <4>3 DEF Rot, Newer
      <4> HIDE DEF M
      <4>5. QED
        BY <2>2, <4>2, <4>4 DEF Doomed, Crowded
    <3>4. QED
      BY <3>2, <3>3
  <2>5. QED
    BY <2>2, <2>3, <2>4 DEF Doomed
<1>5. QED
  BY <1>3, <1>4

\* A stale file stays doomed as long as the rotations it was doomed by stay.
LEMMA DoomStays ==
  ASSUME NEW F, NEW G, NEW E, NEW D, NEW X, NEW Y, NEW h,
         StaleDoomed(F, E, X, h), Rot(F) \ X \subseteq Rot(G) \ Y,
         \A k \in Rot(F) : k \in DOMAIN G => G[k] = F[k],
         D \ EventsOf(G) \subseteq E \ EventsOf(F),
         \A t \in DOMAIN G : Stale(G, D, t) => t \in Rot(F)
  PROVE  StaleDoomed(G, D, Y, h)
<1> SUFFICES ASSUME NEW t \in DOMAIN G, Stale(G, D, t)
             PROVE  t # Active /\ Doomed(G, Y, h, t)
  BY DEF StaleDoomed
<1>1. t \in Rot(F) /\ G[t] = F[t] /\ Stale(F, E, t)
  BY DEF Stale, Rot
<1>2. t # Active /\ Doomed(F, X, h, t)
  BY <1>1 DEF StaleDoomed, Rot
<1>3. CASE Crowded(F, X, t)
  <2>1. PICK K \in SUBSET (Rot(F) \ X) :
           Cardinality(K) = MaxFiles /\ \A k \in K : Newer(F, k, t)
    BY <1>3 DEF Crowded
  <2>2. K \subseteq Rot(G) \ Y /\ \A k \in K : Newer(G, k, t)
    BY <1>1, <2>1 DEF Newer, Rot
  <2>3. QED
    BY <1>2, <2>1, <2>2 DEF Doomed, Crowded
<1>4. QED
  BY <1>1, <1>2, <1>3 DEF Doomed

\* The shift that removes a rotation: what is older lies higher, and goes too.
LEMMA ExpireDoomed ==
  ASSUME NEW F, Directory(F), Ordered(F), ActiveNewest(F),
         NEW f \in Rot(F), Suffix(f) >= MaxFiles,
         NEW G, G = [k \in DOMAIN F \ {f} |-> F[k]],
         NEW E, NEW D, D = E \cup EventsIn(F[f]),
         NEW h, StaleDoomed(F, E, {}, h)
  PROVE  StaleDoomed(G, D, {}, h)
<1>1. DOMAIN G = DOMAIN F \ {f} /\ \A k \in DOMAIN G : G[k] = F[k]
  OBVIOUS
<1>2. /\ EventsOf(G) \subseteq EventsOf(F)
      /\ EventsOf(F) \subseteq EventsOf(G) \cup EventsIn(F[f])
  BY RemoveKeeps
<1>3. \A k \in DOMAIN F : Suffix(k) \in Nat
  BY NamesOfFiles DEF Directory
<1> SUFFICES ASSUME NEW t \in DOMAIN G, Stale(G, D, t)
             PROVE  t # Active /\ Doomed(G, {}, h, t)
  BY DEF StaleDoomed
<1>4. PICK e \in EventsIn(F[t]), d \in D \ EventsOf(G) : e < d
  BY <1>1 DEF Stale
<1>5. e \in Nat
  BY <1>1, <1>4 DEF EventsIn, Directory
<1>6. CASE d \in EventsOf(F)
  <2>1. d \in EventsIn(F[f]) /\ d \in Nat
    <3>1. d \in EventsIn(F[f])
      BY <1>2, <1>4, <1>6
    <3>2. F[f] \in Seq(Nat)
      BY DEF Directory, Rot
    <3>3. QED
      BY <3>1, <3>2 DEF EventsIn
  <2>2. F[t] # F[f]
    BY <1>1, <1>4, <2>1 DEF EventsOf
  <2>3. ~OlderThan(F[f], F[t])
    BY <1>4, <1>5, <2>1 DEF OlderThan
  <2>4. t # Active
    BY <1>1, <2>3 DEF ActiveNewest, Rot
  <2>5. Suffix(t) > Suffix(f)
    BY <1>1, <1>3, <2>2, <2>3 DEF Ordered, Twins, Rot
  <2>6. QED
    BY <1>1, <1>3, <2>4, <2>5, LogAssumption DEF Doomed, Rot
<1>7. CASE d \notin EventsOf(F)
  <2>1. d \in E
    BY <1>4, <1>7 DEF EventsOf, Rot
  <2>2. t # Active /\ Doomed(F, {}, h, t)
    BY <1>1, <1>4, <1>7, <2>1 DEF StaleDoomed, Stale
  <2>3. CASE Crowded(F, {}, t)
    <3>1. PICK K \in SUBSET Rot(F) :
             Cardinality(K) = MaxFiles /\ \A k \in K : Newer(F, k, t)
      BY <2>3 DEF Crowded
    <3>2. CASE f \in K
      BY <1>1, <1>3, <2>2, <3>1, <3>2, LogAssumption DEF Newer, Doomed, Rot
    <3>3. CASE f \notin K
      <4>1. K \subseteq Rot(G) /\ \A k \in K : Newer(G, k, t)
        BY <1>1, <3>1, <3>3 DEF Newer, Rot
      <4>2. QED
        BY <2>2, <3>1, <4>1 DEF Doomed, Crowded
    <3>4. QED
      BY <3>2, <3>3
  <2>4. QED
    BY <1>1, <2>2, <2>3 DEF Doomed
<1>8. QED
  BY <1>6, <1>7

Fresh == {Raw(1), Gz(1)}

\* The rotation of the active log, which is not stale.  From here on, until the
\* source of the gzip file is gone, the newest generation dooms no other.
LEMMA RotateDoomed ==
  ASSUME NEW F, \A k \in Rot(F) : Suffix(k) > 1, Raw(1) \notin DOMAIN F,
         Active \in DOMAIN F,
         NEW G,
         G = [k \in (DOMAIN F \ {Active}) \cup {Raw(1)} |->
                 IF k = Raw(1) THEN F[Active] ELSE F[k]],
         EventsOf(G) = EventsOf(F),
         NEW E, Before(E, F[Active]), E \subseteq Nat, EventsOf(F) \subseteq Nat,
         NEW h, StaleDoomed(F, E, {}, h)
  PROVE  StaleDoomed(G, E, Fresh, h) /\ StaleDoomed(G, E, {}, h)
<1>1. /\ DOMAIN G = (DOMAIN F \ {Active}) \cup {Raw(1)} /\ G[Raw(1)] = F[Active]
      /\ \A k \in DOMAIN F \ {Active} : k # Raw(1) /\ G[k] = F[k]
  OBVIOUS
<1>2. Suffix(Raw(1)) = 1 /\ Suffix(Gz(1)) = 1 /\ Raw(1) # Active
  BY NamesOfFiles DEF RotationNames, Raw, Active
<1>3. Rot(F) \ {} \subseteq Rot(G) \ Fresh
  BY <1>1, <1>2 DEF Rot, Fresh
<1>4. EventsIn(F[Active]) \subseteq Nat
  BY DEF EventsOf
<1>5. ~Stale(G, E, Raw(1))
  BY <1>1, <1>4 DEF Stale, Before
<1>6. \A t \in DOMAIN G : Stale(G, E, t) => t \in Rot(F)
  BY <1>1, <1>5 DEF Rot
<1>7. QED
  BY <1>1, <1>3, <1>6, DoomStays DEF Rot

\* The gzip file gets its name; its source is not stale.
LEMMA PublishDoomed ==
  ASSUME NEW F, Raw(1) \in DOMAIN F, Gz(1) \notin DOMAIN F,
         NEW G,
         G = [k \in DOMAIN F \cup {Gz(1)} |-> IF k = Gz(1) THEN F[Raw(1)] ELSE F[k]],
         EventsOf(G) = EventsOf(F),
         NEW E, Before(E, F[Raw(1)]), E \subseteq Nat, EventsOf(F) \subseteq Nat,
         NEW X, NEW h, X \subseteq Fresh, StaleDoomed(F, E, X, h)
  PROVE  StaleDoomed(G, E, X, h)
<1>1. /\ DOMAIN G = DOMAIN F \cup {Gz(1)} /\ G[Gz(1)] = F[Raw(1)]
      /\ \A k \in DOMAIN F : k # Gz(1) /\ G[k] = F[k]
  OBVIOUS
<1>2. Gz(1) # Active
  BY DEF Gz, Active
<1>3. Rot(F) \ X \subseteq Rot(G) \ X
  BY <1>1 DEF Rot
<1>4. EventsIn(F[Raw(1)]) \subseteq Nat
  BY DEF EventsOf
<1>5. ~Stale(G, E, Gz(1))
  BY <1>1, <1>4 DEF Stale, Before
<1>6. \A t \in DOMAIN G : Stale(G, E, t) => t \in DOMAIN F /\ Stale(F, E, t)
  BY <1>1, <1>5 DEF Stale
<1>7. \A t \in DOMAIN G : Stale(G, E, t) => t \in Rot(F)
  BY <1>6 DEF StaleDoomed, Rot
<1>8. QED
  BY <1>1, <1>3, <1>7, DoomStays DEF Rot

\* The source goes, and the gzip file stays.
LEMMA UnlinkDoomed ==
  ASSUME NEW F, Gz(1) \in DOMAIN F, F[Gz(1)] = F[Raw(1)],
         NEW G, G = [k \in DOMAIN F \ {Raw(1)} |-> F[k]],
         NEW E, NEW h, StaleDoomed(F, E, Fresh, h)
  PROVE  StaleDoomed(G, E, {}, h)
<1>1. DOMAIN G = DOMAIN F \ {Raw(1)} /\ \A k \in DOMAIN G : G[k] = F[k]
  OBVIOUS
<1>2. Gz(1) # Raw(1) /\ Gz(1) \in DOMAIN G
  BY <1>1 DEF Gz, Raw
<1>3. EventsOf(G) = EventsOf(F)
  <2>1. EventsOf(G) \subseteq EventsOf(F)
    BY <1>1 DEF EventsOf
  <2>2. EventsOf(F) \subseteq EventsOf(G)
    <3>1. ASSUME NEW k \in DOMAIN F
          PROVE  EventsIn(F[k]) \subseteq EventsOf(G)
      <4>1. CASE k = Raw(1)
        BY <1>1, <1>2, <4>1 DEF EventsOf
      <4>2. CASE k # Raw(1)
        BY <1>1, <4>2 DEF EventsOf
      <4>3. QED
        BY <4>1, <4>2
    <3>2. QED
      BY <3>1 DEF EventsOf
  <2>3. QED
    BY <2>1, <2>2
<1>4. Rot(F) \ Fresh \subseteq Rot(G) \ {}
  BY <1>1 DEF Rot, Fresh
<1>5. \A t \in DOMAIN G : Stale(G, E, t) => t \in DOMAIN F /\ Stale(F, E, t)
  BY <1>1, <1>3 DEF Stale
<1>6. \A t \in DOMAIN G : Stale(G, E, t) => t \in Rot(F)
  BY <1>5 DEF StaleDoomed, Rot
<1>7. QED
  BY <1>1, <1>3, <1>4, <1>6, DoomStays DEF Rot

\* The active log, which is not stale, is created or gets a line.
LEMMA ActiveDoomed ==
  ASSUME NEW F, NEW G, DOMAIN G = DOMAIN F \cup {Active},
         \A k \in Rot(F) : G[k] = F[k], EventsOf(F) \subseteq EventsOf(G),
         NEW E, Before(E, G[Active]), E \subseteq Nat, EventsIn(G[Active]) \subseteq Nat,
         NEW X, NEW h, StaleDoomed(F, E, X, h)
  PROVE  StaleDoomed(G, E, X, h)
<1>1. ~Stale(G, E, Active)
  BY DEF Stale, Before
<1>2. \A t \in DOMAIN G : Stale(G, E, t) => t \in Rot(F)
  BY <1>1 DEF Rot
<1>3. Rot(F) \ X \subseteq Rot(G) \ X
  BY DEF Rot
<1>4. QED
  BY <1>2, <1>3, DoomStays DEF Rot

\* Files only get older.
LEMMA TimePasses ==
  ASSUME NEW F, Directory(F), NEW E, NEW h \in Int, NEW g \in Int, h <= g
  PROVE  /\ \A X : StaleDoomed(F, E, X, h) => StaleDoomed(F, E, X, g)
         /\ \A T : DropOK(F, E, h, T) => DropOK(F, E, g, T)
<1>1. ASSUME NEW f \in DOMAIN F, OldAt(f, F[f], h)
      PROVE  OldAt(f, F[f], g)
  <2>1. EventsIn(F[f]) \subseteq Nat
    BY DEF EventsIn, Directory
  <2>2. QED
    BY <1>1, <2>1 DEF OldAt
<1>2. \A X : StaleDoomed(F, E, X, h) => StaleDoomed(F, E, X, g)
  BY <1>1 DEF StaleDoomed, Doomed
<1>3. \A T : DropOK(F, E, h, T) => DropOK(F, E, g, T)
  BY <1>1 DEF DropOK, Rot
<1>4. QED
  BY <1>2, <1>3

\* What is removed next is not lost before anything that is to be kept.
LEMMA DropStep ==
  ASSUME NEW F, Directory(F), Ordered(F), ActiveNewest(F),
         NEW E, NEW h, NEW T, DropOK(F, E, h, T),
         NEW f \in T, NEW G, G = [k \in DOMAIN F \ {f} |-> F[k]],
         NEW D, D = E \cup EventsIn(F[f])
  PROVE  DropOK(G, D, h, T \ {f})
<1>1. DOMAIN G = DOMAIN F \ {f} /\ \A k \in DOMAIN G : G[k] = F[k]
  OBVIOUS
<1>2. /\ EventsOf(G) \subseteq EventsOf(F)
      /\ EventsOf(F) \subseteq EventsOf(G) \cup EventsIn(F[f])
  BY RemoveKeeps
<1>3. Left(G, T \ {f}) = Left(F, T) /\ T \ {f} \subseteq Rot(G) /\ f \in Rot(F)
  BY <1>1 DEF Left, Rot, DropOK
<1>4. \A k \in Left(F, T) : k \in DOMAIN G /\ G[k] = F[k]
  BY <1>1 DEF Left, Rot
<1>5. ASSUME NEW k \in Left(F, T), NEW d \in D \ EventsOf(G), NEW e \in EventsIn(G[k])
      PROVE  d < e
  <2>1. CASE d \in EventsOf(F)
    <3>1. d \in EventsIn(F[f])
      BY <1>2, <1>5, <2>1
    <3>2. F[f] # F[k]
      BY <1>4, <1>5, <3>1 DEF EventsOf
    <3>3. OlderThan(F[f], F[k])
      BY <3>2 DEF DropOK
    <3>4. QED
      BY <1>4, <1>5, <3>1, <3>3 DEF OlderThan
  <2>2. CASE d \notin EventsOf(F)
    <3>1. d \in E \ EventsOf(F)
      BY <1>3, <1>5, <2>2 DEF EventsOf, Rot
    <3>2. QED
      BY <1>4, <1>5, <3>1 DEF DropOK, Before
  <2>3. QED
    BY <2>1, <2>2
<1>6. \A k \in Left(F, T) : Before(D \ EventsOf(G), G[k])
  BY <1>5 DEF Before
<1>7. \A k \in T \ {f} : G[k] = F[k]
  BY <1>1 DEF DropOK, Rot
<1>8. QED
  BY <1>3, <1>4, <1>6, <1>7 DEF DropOK

\* Where retention stops half-way, what it had still to remove is doomed.
LEMMA DropDoomed ==
  ASSUME NEW F, Directory(F), Ordered(F), NEW E, E \subseteq Nat,
         Active \in DOMAIN F => Before(E, F[Active]),
         NEW h, NEW T, DropOK(F, E, h, T)
  PROVE  StaleDoomed(F, E, {}, h)
<1> SUFFICES ASSUME NEW f \in DOMAIN F, Stale(F, E, f)
             PROVE  f # Active /\ Doomed(F, {}, h, f)
  BY DEF StaleDoomed
<1>1. PICK e \in EventsIn(F[f]), d \in E \ EventsOf(F) : e < d
  BY DEF Stale
<1>2. e \in Nat /\ d \in Nat
  BY <1>1 DEF EventsIn, Directory
<1>3. f # Active
  BY <1>1, <1>2 DEF Before
<1>4. \A k \in Left(F, T) : F[k] # F[f]
  BY <1>1, <1>2 DEF DropOK, Before
<1>5. f \in T
  BY <1>3, <1>4 DEF Left, Rot
<1>6. CASE Suffix(f) > MaxFiles \/ OldAt(f, F[f], h)
  BY <1>3, <1>6 DEF Doomed
<1>7. CASE /\ Cardinality(Left(F, T)) = MaxFiles
           /\ \A k \in Left(F, T) : Suffix(k) <= Suffix(f)
  <2>1. ASSUME NEW k \in Left(F, T)
        PROVE  Newer(F, k, f)
    <3>1. OlderThan(F[f], F[k])
      BY <1>4, <1>5 DEF DropOK
    <3>2. Suffix(k) # Suffix(f)
      BY <1>4 DEF Ordered, Left, Rot
    <3>3. Suffix(k) \in Nat /\ Suffix(f) \in Nat
      BY NamesOfFiles DEF Directory, Left, Rot
    <3>4. QED
      BY <1>7, <3>1, <3>2, <3>3 DEF Newer
  <2>2. QED
    BY <1>3, <1>7, <2>1 DEF Doomed, Crowded, Left
<1>8. QED
  BY <1>1, <1>5, <1>6, <1>7 DEF DropOK

\* The ages of generations are in the order of the generations.
LEMMA AgesInOrder ==
  ASSUME Directory(files), Ordered(files), horizon \in Nat,
         NEW f \in DOMAIN files
  PROVE  /\ EventsIn(files[f]) # {} => (TooOld(f) <=> OldAt(f, files[f], horizon))
         /\ \A k \in DOMAIN files :
               Newer(files, k, f) /\ TooOld(k) => OldAt(f, files[f], horizon)
<1>1. \A k \in DOMAIN files : LinesOf(k) \ {Torn} = EventsIn(files[k])
  BY DEF LinesOf, EventsIn
<1>2. \A k : NotNewer(k) = {e \in EventsOf(files) : \E g \in DOMAIN files :
                               Suffix(g) >= Suffix(k) /\ e \in EventsIn(files[g])}
  <2>1. Stored = EventsOf(files)
    BY InOtherWords
  <2>2. \A e \in Stored : e # Torn
    BY DEF Stored
  <2>3. QED
    BY <1>1, <2>1, <2>2 DEF NotNewer
<1>3. \A k \in DOMAIN files :
        /\ Suffix(k) \in Nat /\ EventsIn(files[k]) \subseteq Nat
        /\ EventsIn(files[k]) \subseteq EventsOf(files)
  BY NamesOfFiles DEF Directory, EventsIn, EventsOf
<1>4. ASSUME EventsIn(files[f]) # {}
      PROVE  TooOld(f) <=> OldAt(f, files[f], horizon)
  <2>1. EventsIn(files[f]) \subseteq NotNewer(f)
    BY <1>2, <1>3
  <2>2. ASSUME NEW e \in NotNewer(f), OldAt(f, files[f], horizon)
        PROVE  LastWrite(f, e) <= horizon
    <3>1. CASE e \in EventsIn(files[f])
      BY <2>2, <3>1 DEF OldAt, LastWrite
    <3>2. CASE e \notin EventsIn(files[f])
      <4>1. PICK g \in DOMAIN files : Suffix(g) >= Suffix(f) /\ e \in EventsIn(files[g])
        BY <1>2
      <4>2. OlderThan(files[g], files[f])
        BY <1>3, <3>2, <4>1 DEF Ordered, Twins
      <4>3. PICK x \in EventsIn(files[f]) : TRUE
        BY <1>4
      <4>4. e < x /\ e \in Nat /\ x \in Nat
        BY <1>3, <4>1, <4>2, <4>3 DEF OlderThan
      <4>5. x <= horizon
        BY <2>2, <4>3, <4>4 DEF OldAt
      <4>6. QED
        BY <4>4, <4>5 DEF LastWrite
    <3>3. QED
      BY <3>1, <3>2
  <2>3. TooOld(f) => OldAt(f, files[f], horizon)
    BY <2>1 DEF TooOld, OldAt, LastWrite
  <2>4. QED
    BY <2>2, <2>3 DEF TooOld, OldAt
<1>5. ASSUME NEW k \in DOMAIN files, Newer(files, k, f), TooOld(k)
      PROVE  OldAt(f, files[f], horizon)
  <2>1. ASSUME NEW e \in EventsIn(files[f])
        PROVE  e \in Nat /\ e + 1 <= horizon
    <3>1. e \in NotNewer(k) /\ e \in Nat
      BY <1>2, <1>3, <1>5 DEF Newer
    <3>2. e \notin EventsIn(files[k])
      BY <1>5, <3>1 DEF Newer, OlderThan
    <3>3. files[k] # <<>> => files[k][Len(files[k])] # e
      <4>1. files[k] \in Seq(Nat) /\ e # Torn
        BY DEF Directory, EventsIn
      <4>2. files[k] # <<>> => Len(files[k]) \in DOMAIN files[k]
        BY <4>1
      <4>3. QED
        BY <3>2, <4>1, <4>2 DEF EventsIn
    <3>4. LastWrite(k, e) = e + 1
      BY <3>3 DEF LastWrite
    <3>5. QED
      BY <1>5, <3>1, <3>4 DEF TooOld
  <2>2. QED
    BY <1>5, <2>1 DEF OldAt, TooOld
<1>6. QED
  BY <1>4, <1>5

\* Retention keeps no generation that is older than a lost event: with it would
\* stay the MaxFiles newer ones that doom it.
LEMMA RetainOK ==
  ASSUME Directory(files), Ordered(files), IsFiniteSet(DOMAIN files), horizon \in Nat,
         expired \subseteq Nat, StaleDoomed(files, expired, {}, horizon),
         NEW K \in Retained(Rotations)
  PROVE  DropOK(files, expired, horizon, Rotations \ K)
<1> DEFINE eligible == {f \in Rotations : Suffix(f) <= MaxFiles /\ ~TooOld(f)}
           T == Rotations \ K
<1>1. /\ K \subseteq eligible
      /\ Cardinality(K) = IF Cardinality(eligible) < MaxFiles
                            THEN Cardinality(eligible) ELSE MaxFiles
      /\ \A f \in K, g \in eligible \ K : Suffix(f) <= Suffix(g)
  BY DEF Retained
<1>2. IsFiniteSet(eligible) /\ IsFiniteSet(K) /\ Cardinality(eligible) \in Nat
      /\ Cardinality(K) \in Nat
  BY <1>1, FS_Subset, FS_CardinalityType DEF Rotations
<1>3. Cardinality(K) <= MaxFiles /\ (K # eligible => Cardinality(K) = MaxFiles)
  <2>1. Cardinality(K) <= MaxFiles
    BY <1>1, <1>2, LogAssumption
  <2>2. K # eligible => Cardinality(K) # Cardinality(eligible)
    BY <1>1, <1>2, FS_Subset
  <2>3. QED
    BY <1>1, <2>1, <2>2
<1>4. Rotations = Rot(files) /\ Left(files, T) = K
  BY <1>1 DEF Rotations, Rot, Left
<1>5. \A f \in DOMAIN files :
        /\ Suffix(f) \in Nat /\ EventsIn(files[f]) \subseteq Nat
        /\ EventsIn(files[f]) \subseteq EventsOf(files)
  BY NamesOfFiles DEF Directory, EventsIn, EventsOf
<1>6. ASSUME NEW f \in K
      PROVE  ~Stale(files, expired, f)
  <2> SUFFICES ASSUME Stale(files, expired, f)
               PROVE  FALSE
    OBVIOUS
  <2>1. f \in DOMAIN files /\ Suffix(f) <= MaxFiles /\ ~TooOld(f)
    BY <1>1 DEF Rotations
  <2>2. EventsIn(files[f]) # {}
    BY DEF Stale
  <2>3. ~OldAt(f, files[f], horizon)
    BY <2>1, <2>2, AgesInOrder
  <2>4. Crowded(files, {}, f)
    BY <1>5, <2>1, <2>3, LogAssumption DEF StaleDoomed, Doomed
  <2>5. PICK N \in SUBSET Rot(files) :
           Cardinality(N) = MaxFiles /\ \A k \in N : Newer(files, k, f)
    BY <2>4 DEF Crowded
  <2>6. ASSUME NEW k \in N
        PROVE  k \in K
    <3>1. k \in DOMAIN files /\ k \in Rotations /\ Newer(files, k, f)
      BY <1>4, <2>5 DEF Rot
    <3>2. ~TooOld(k)
      BY <2>1, <2>3, <3>1, AgesInOrder
    <3>3. Suffix(k) < Suffix(f) /\ Suffix(k) <= MaxFiles
      BY <1>5, <2>1, <3>1, LogAssumption DEF Newer
    <3>4. k \in eligible
      BY <3>1, <3>2, <3>3
    <3>5. QED
      BY <1>1, <1>5, <2>1, <3>1, <3>3, <3>4
  <2>7. f \notin N
    BY <1>5, <2>1, <2>5 DEF Newer
  <2>8. IsFiniteSet(N) /\ N \cup {f} \subseteq K
    BY <1>2, <2>6, FS_Subset
  <2>9. Cardinality(N \cup {f}) = MaxFiles + 1
    BY <2>5, <2>7, <2>8, FS_AddElement
  <2>10. Cardinality(N \cup {f}) <= Cardinality(K)
    BY <1>2, <2>8, FS_Subset
  <2>11. QED
    BY <1>2, <1>3, <2>9, <2>10, LogAssumption
<1>7. ASSUME NEW k \in K
      PROVE  Suffix(k) <= MaxFiles /\ Before(expired \ EventsOf(files), files[k])
  <2>1. k \in DOMAIN files /\ Suffix(k) <= MaxFiles
    BY <1>1 DEF Rotations
  <2>2. ASSUME NEW d \in expired \ EventsOf(files), NEW e \in EventsIn(files[k])
        PROVE  d < e
    <3>1. ~(e < d) /\ e # d
      BY <1>5, <1>6, <2>1 DEF Stale
    <3>2. d \in Nat /\ e \in Nat
      BY <1>5, <2>1
    <3>3. QED
      BY <3>1, <3>2
  <2>3. QED
    BY <2>1, <2>2 DEF Before
<1>8. ASSUME NEW f \in T
      PROVE  /\ \A k \in K : OlderThan(files[f], files[k]) \/ files[f] = files[k]
             /\ EventsIn(files[f]) # {} =>
                   \/ Suffix(f) > MaxFiles \/ OldAt(f, files[f], horizon)
                   \/ /\ Cardinality(K) = MaxFiles
                      /\ \A k \in K : Suffix(k) <= Suffix(f)
  <2>1. f \in DOMAIN files /\ f \in Rotations /\ f \notin K
    BY DEF Rotations
  <2>2. EventsIn(files[f]) # {} => (TooOld(f) <=> OldAt(f, files[f], horizon))
    BY <2>1, AgesInOrder
  <2>3. CASE EventsIn(files[f]) = {}
    BY <2>3 DEF OlderThan
  <2>4. CASE EventsIn(files[f]) # {}
    <3>1. ASSUME NEW k \in K
          PROVE  OlderThan(files[f], files[k]) \/ files[f] = files[k]
      <4>1. k \in DOMAIN files /\ Suffix(k) <= MaxFiles /\ ~TooOld(k)
        BY <1>1 DEF Rotations
      <4>2. CASE Suffix(f) >= Suffix(k)
        BY <1>5, <2>1, <4>1, <4>2 DEF Ordered, Twins
      <4>3. CASE Suffix(f) < Suffix(k) /\ EventsIn(files[k]) # {}
        <5>1. OlderThan(files[k], files[f]) \/ files[f] = files[k]
          BY <2>1, <4>1, <4>3 DEF Ordered, Twins
        <5>2. CASE OlderThan(files[k], files[f])
          <6>1. ~TooOld(f)
            BY <2>1, <4>1, <4>3, <5>2, AgesInOrder DEF Newer
          <6>2. f \in eligible
            BY <1>5, <2>1, <4>1, <4>3, <6>1, LogAssumption
          <6>3. Suffix(k) <= Suffix(f)
            BY <1>1, <2>1, <6>2
          <6>4. QED
            BY <1>5, <2>1, <4>1, <4>3, <6>3
        <5>3. QED
          BY <5>1, <5>2
      <4>4. CASE EventsIn(files[k]) = {}
        BY <4>4 DEF OlderThan
      <4>5. QED
        BY <1>5, <2>1, <4>1, <4>2, <4>3, <4>4
    <3>2. CASE f \in eligible
      BY <1>1, <1>3, <2>1, <3>1, <3>2
    <3>3. CASE f \notin eligible
      BY <1>5, <2>1, <2>2, <2>4, <3>1, <3>3, LogAssumption
    <3>4. QED
      BY <3>2, <3>3
  <2>5. QED
    BY <2>3, <2>4
<1>9. T \subseteq Rot(files)
  BY <1>4
<1> HIDE DEF T
<1>10. DropOK(files, expired, horizon, T)
  BY <1>3, <1>4, <1>7, <1>8, <1>9 DEF DropOK
<1>11. QED
  BY <1>10 DEF T

-----------------------------------------------------------------------------
(* The second inductive invariant, on top of IInv                            *)

\* A size is a number, so that a log that is not full is below its limit.
LEMMA SizeIsNatural ==
  ASSUME NEW lines \in Seq(Nat)
  PROVE  SizeOf(lines) \in Nat
<1> DEFINE L == {i \in DOMAIN lines : lines[i] \in Long}
<1>1. L \subseteq 1..Len(lines) /\ IsFiniteSet(1..Len(lines))
  BY FS_Interval
<1>2. Cardinality(L) \in Nat
  BY <1>1, FS_Subset, FS_CardinalityType
<1>3. QED
  BY <1>2 DEF SizeOf

\* Without the line just appended a log is what it was.
LEMMA LastAppended ==
  ASSUME NEW lines \in Seq(Nat), NEW x \in Nat
  PROVE  WithoutLast(Append(lines, x)) = lines
<1>1. /\ Append(lines, x) \in Seq(Nat) /\ Len(Append(lines, x)) = Len(lines) + 1
      /\ \A i \in 1..Len(lines) : Append(lines, x)[i] = lines[i]
  OBVIOUS
<1>2. /\ WithoutLast(Append(lines, x)) \in Seq(Nat)
      /\ Len(WithoutLast(Append(lines, x))) = Len(lines)
      /\ \A i \in 1..Len(lines) : WithoutLast(Append(lines, x))[i] = lines[i]
  BY <1>1 DEF WithoutLast
<1>3. QED
  BY <1>2

\* An empty file has no size.
LEMMA EmptySize == SizeOf(<<>>) = 0
<1>1. {i \in DOMAIN <<>> : <<>>[i] \in Long} = {} /\ Len(<<>>) = 0
  OBVIOUS
<1>2. QED
  BY <1>1, FS_EmptySet DEF SizeOf

\* The directory as retention finds it.
DirOK ==
    /\ IsFiniteSet(DOMAIN files)
    /\ horizon \in Nat
    /\ \A d \in expired : d \in Nat /\ d < next
    /\ Active \in DOMAIN files => Before(expired, files[Active])
    /\ StaleDoomed(files, expired, {}, horizon)

Settled == DropOK(files, expired, horizon, {})

\* The active log when the lock is given back: the size was looked at before the
\* line of a Write.
BelowSize(p) ==
    SizeOf(IF mode[p] = "new" THEN files[Active] ELSE WithoutLast(files[Active]))
       < MaxSize

\* What a process knows of the directory at each of its steps.
Knows(p) ==
    /\ pc[p] \in {"off", "idle", "waiting", "open", "list"} => kept[p] = {}
    /\ pc[p] = "shift" => kept[p] = Rot(files) \ todo[p]
    /\ pc[p] \in {"compress", "publish", "retain"} => kept[p] = Rot(files)
    /\ pc[p] = "unlink" => Rot(files) = kept[p] \cup {Gz(1)}
    /\ pc[p] \in {"compress", "publish", "unlink"} =>
          /\ Active \notin DOMAIN files
          /\ Before(expired, files[Raw(1)])
          /\ StaleDoomed(files, expired, Fresh, horizon)
    /\ pc[p] \in {"retain", "drop", "finish"} =>
          (Active \in DOMAIN files => SizeOf(files[Active]) < MaxSize)
    /\ pc[p] = "drop" => DropOK(files, expired, horizon, todo[p])
    /\ pc[p] = "finish" => Settled
    /\ pc[p] = "unlock" /\ ~failed[p] =>
          Settled /\ Active \in DOMAIN files /\ BelowSize(p)

GoodInv == DirOK /\ \A p \in Procs : Knows(p)

\* What a step of p leaves alone of the other processes.
Apart(p) ==
    \A q \in Procs \ {p} : UNCHANGED <<pc[q], mode[q], todo[q], kept[q], failed[q]>>

\* What is left to show of a step of p: the others are not inside when it is.
LEMMA KnowledgeKeeps ==
  ASSUME IInv, GoodInv, NEW p \in Procs, Apart(p),
         UNCHANGED <<files, expired, horizon>> \/ pc[p] \in Inside,
         DirOK', Knows(p)'
  PROVE  GoodInv'
<1> SUFFICES ASSUME NEW q \in Procs \ {p}
             PROVE  Knows(q)'
  BY DEF GoodInv
<1>1. Knows(q) /\ UNCHANGED <<pc[q], mode[q], todo[q], kept[q], failed[q]>>
  BY DEF GoodInv, Apart
<1>2. CASE UNCHANGED <<files, expired, horizon>>
  <2>1. /\ Rot(files') = Rot(files) /\ DOMAIN files' = DOMAIN files
        /\ files'[Active] = files[Active] /\ files'[Raw(1)] = files[Raw(1)]
        /\ StaleDoomed(files', expired', Fresh, horizon')
              <=> StaleDoomed(files, expired, Fresh, horizon)
        /\ \A T : DropOK(files', expired', horizon', T)
                     <=> DropOK(files, expired, horizon, T)
        /\ \A s : Before(expired', s) <=> Before(expired, s)
    BY <1>2
  <2>2. QED
    BY <1>1, <2>1 DEF Knows, Settled, BelowSize
<1>3. CASE pc[p] \in Inside
  <2>1. pc[q] \notin Inside \cup {"unlock"}
    BY <1>3 DEF IInv, AtWork
  <2>2. pc[q] \in {"off", "idle", "waiting"}
    BY <2>1 DEF IInv, Types, Points
  <2>3. QED
    BY <1>1, <2>2 DEF Knows
<1>4. QED
  BY <1>2, <1>3

\* Where the log begins.
LEMMA GoodInit == Init => GoodInv
<1> SUFFICES ASSUME Init
             PROVE  GoodInv
  OBVIOUS
<1>1. expired = {} /\ horizon = 0 /\ \A p \in Procs : Knows(p)
  BY DEF Init, Knows
<1>2. StaleDoomed(files, expired, {}, horizon)
  BY <1>1 DEF StaleDoomed, Stale
<1>3. CASE files = [f \in {} |-> <<>>]
  BY <1>1, <1>2, <1>3, FS_EmptySet DEF GoodInv, DirOK
<1>4. CASE files = [f \in {Active, Gz(MaxFiles + 1)} |->
                       IF f = Active THEN <<2>> ELSE <<1>>]
  <2>1. IsFiniteSet({Active, Gz(MaxFiles + 1)})
    <3>1. IsFiniteSet({Active} \cup {Gz(MaxFiles + 1)})
      BY FS_Singleton, FS_AddElement
    <3>2. {Active} \cup {Gz(MaxFiles + 1)} = {Active, Gz(MaxFiles + 1)}
      OBVIOUS
    <3>3. QED
      BY <3>1, <3>2
  <2>2. QED
    BY <1>1, <1>2, <1>4, <2>1, LogAssumption DEF GoodInv, DirOK, Before
<1>5. QED
  BY <1>3, <1>4 DEF Init


\* The steps of p that change no file and neither age nor expire any.
LEMMA QuietGood ==
  ASSUME IInv, GoodInv, NEW p \in Procs, Apart(p),
         UNCHANGED <<files, expired, horizon, next>>, Knows(p)'
  PROVE  GoodInv'
<1>1. DirOK'
  BY DEF GoodInv, DirOK
<1>2. QED
  BY <1>1, KnowledgeKeeps

\* The steps that take and give back the lock: the lists are empty outside.
LEMMA CallerGood ==
  ASSUME IInv, GoodInv, NEW p \in Procs, Caller(p) \/ Acquire(p) \/ Unlock(p)
  PROVE  GoodInv'
<1> USE DEF Goto, dir, local, counts, Points, Inside
<1>1. UNCHANGED <<files, expired, horizon, next>>
  BY DEF Caller, Start, BeginWrite, Exit, Acquire, Unlock
<1>2. Apart(p)
  BY DEF Apart, IInv, Types, Caller, Start, BeginWrite, Exit, Acquire, Unlock
<1>3. pc'[p] \in {"off", "idle", "waiting", "open", "list"}
  BY DEF IInv, Types, Caller, Start, BeginWrite, Exit, Acquire, Unlock
<1>4. kept'[p] = {}
  <2>1. CASE Caller(p) \/ Acquire(p)
    BY <2>1 DEF GoodInv, Knows, Caller, Start, BeginWrite, Exit, Acquire
  <2>2. CASE Unlock(p)
    BY <2>2 DEF IInv, Types, Unlock
  <2>3. QED
    BY <2>1, <2>2
<1>5. Knows(p)'
  BY <1>3, <1>4 DEF Knows
<1>6. QED
  BY <1>1, <1>2, <1>5, QuietGood

\* A step of p that ends in an error knows nothing of the directory.
LEMMA ErrorKnows ==
  ASSUME NEW p \in Procs, pc'[p] = "unlock", failed'[p]
  PROVE  Knows(p)'
BY DEF Knows

\* The steps under the lock that change no file.
LEMMA LookingGood ==
  ASSUME IInv, GoodInv, NEW p \in Procs,
         \/ ListRefused(p) \/ List(p) \/ WriteTemporary(p) \/ Retain(p)
         \/ CallFails(p)
  PROVE  GoodInv'
<1> USE DEF Goto, ReturnError, dir, local, counts, Points, Inside
<1>1. UNCHANGED <<files, expired, horizon, next>>
  BY DEF ListRefused, List, WriteTemporary, Retain, CallFails
<1>2. Apart(p)
  BY DEF Apart, IInv, Types, ListRefused, List, WriteTemporary, Retain, CallFails
<1>3. Knows(p)'
  <2>1. CASE ListRefused(p) \/ CallFails(p)
    <3>1. pc'[p] = "unlock" /\ failed'[p]
      BY <2>1 DEF IInv, Types, ListRefused, CallFails
    <3>2. QED
      BY <3>1, ErrorKnows
  <2>2. CASE List(p) /\ ActiveFull
    <3>1. pc'[p] = "shift" /\ kept'[p] = {} /\ todo'[p] = Rot(files)
      BY <2>2 DEF IInv, Types, List, Rotations, Rot, GoodInv, Knows
    <3>2. QED
      BY <1>1, <3>1 DEF Knows
  <2>3. CASE List(p) /\ ~ActiveFull
    <3>1. pc'[p] = "retain" /\ kept'[p] = Rot(files)
      BY <2>3 DEF IInv, Types, List, Rotations, Rot
    <3>2. Active \in DOMAIN files => SizeOf(files[Active]) < MaxSize
      <4>1. Active \in DOMAIN files => SizeOf(files[Active]) \in Nat
        BY SizeIsNatural DEF IInv, Types, Directory
      <4>2. QED
        BY <2>3, <4>1, LogAssumption DEF ActiveFull
    <3>3. QED
      BY <1>1, <3>1, <3>2 DEF Knows
  <2>4. CASE WriteTemporary(p)
    <3>1. pc[p] = "compress" /\ pc'[p] = "publish" /\ kept'[p] = kept[p]
      BY <2>4 DEF IInv, Types, WriteTemporary
    <3>2. QED
      BY <1>1, <3>1 DEF Knows, GoodInv
  <2>5. CASE Retain(p)
    <3>1. PICK K \in Retained(kept[p]) : todo' = [todo EXCEPT ![p] = kept[p] \ K]
      BY <2>5 DEF Retain
    <3>2. pc[p] = "retain" /\ pc'[p] = "drop" /\ kept'[p] = kept[p]
      BY <2>5 DEF IInv, Types, Retain
    <3>3. kept[p] = Rotations /\ (Active \in DOMAIN files => SizeOf(files[Active]) < MaxSize)
      BY <3>2 DEF GoodInv, Knows, Rot, Rotations
    <3>4. todo'[p] = Rotations \ K
      BY <3>1, <3>3 DEF IInv, Types
    <3>5. DropOK(files, expired, horizon, Rotations \ K)
      BY <3>1, <3>3, RetainOK DEF IInv, Types, History, GoodInv, DirOK
    <3>6. DropOK(files', expired', horizon', todo'[p])
      BY <1>1, <3>4, <3>5
    <3>7. QED
      BY <1>1, <3>2, <3>3, <3>6 DEF Knows
  <2>6. QED
    BY <2>1, <2>2, <2>3, <2>4, <2>5
<1>4. QED
  BY <1>1, <1>2, <1>3, QuietGood

\* What the numbers of events are, before and after a step.
LEMMA EventNumbers ==
  ASSUME IInv, GoodInv
  PROVE  /\ EventsOf(files) \subseteq Nat /\ expired \subseteq Nat /\ next \in Nat
         /\ \A f \in DOMAIN files : /\ EventsIn(files[f]) \subseteq EventsOf(files)
                                    /\ files[f] \in Seq(Nat)
                                    /\ \A e \in EventsIn(files[f]) : e < next
<1>1. \A f \in DOMAIN files : files[f] \in Seq(Nat)
  BY DEF IInv, Types, Directory
<1>2. EventsOf(files) \subseteq Nat
  BY <1>1 DEF EventsOf, EventsIn
<1>3. \A f \in DOMAIN files : EventsIn(files[f]) \subseteq EventsOf(files)
  BY DEF EventsOf
<1>4. QED
  BY <1>1, <1>2, <1>3 DEF IInv, Types, History, GoodInv, DirOK

\* The active log is created or gets a line; what was settled stays so.
LEMMA ActiveGrows ==
  ASSUME IInv, GoodInv, DOMAIN files' = DOMAIN files \cup {Active},
         \A k \in Rot(files) : files'[k] = files[k],
         EventsOf(files) \subseteq EventsOf(files'),
         UNCHANGED <<expired, horizon>>,
         next \in Nat, next' \in Nat, next <= next',
         EventsIn(files'[Active]) \subseteq Nat, Before(expired, files'[Active])
  PROVE  DirOK' /\ (Settled => Settled')
<1>1. IsFiniteSet(DOMAIN files')
  BY FS_AddElement DEF GoodInv, DirOK
<1>2. StaleDoomed(files', expired, {}, horizon)
  BY EventNumbers, ActiveDoomed DEF GoodInv, DirOK
<1>3. \A d \in expired : d \in Nat /\ d < next'
  BY DEF GoodInv, DirOK
<1>4. DirOK'
  BY <1>1, <1>2, <1>3 DEF GoodInv, DirOK
<1>5. Rot(files') = Rot(files) /\ Left(files', {}) = Left(files, {})
  BY DEF Rot, Left
<1>6. \A k \in Left(files, {}) : files'[k] = files[k]
  BY DEF Left
<1>7. ASSUME Settled
      PROVE  Settled'
  <2>1. \A k \in Left(files', {}) :
          Suffix(k) <= MaxFiles /\ Before(expired \ EventsOf(files'), files'[k])
    BY <1>5, <1>6, <1>7 DEF Settled, DropOK, Before
  <2>2. DropOK(files', expired, horizon, {})
    BY <1>5, <1>7, <2>1 DEF Settled, DropOK
  <2>3. QED
    BY <2>2 DEF Settled
<1>8. QED
  BY <1>4, <1>7

\* Opening the active log.
LEMMA OpenGood ==
  ASSUME IInv, GoodInv, NEW p \in Procs, OpenActive(p) \/ ReopenActive(p)
  PROVE  GoodInv'
<1> USE DEF Points, Inside, GoesTo
<1>1. /\ pc[p] \in Inside /\ CreateActive
      /\ UNCHANGED <<expired, horizon, next, mode, todo, kept>>
  BY DEF OpenActive, ReopenActive
<1>2. \/ pc[p] = "open" /\ GoesTo(p, {"list"})
      \/ pc[p] = "finish" /\ mode[p] = "new" /\ GoesTo(p, {"unlock"})
  <2>1. \/ pc[p] = "open" /\ Then(p, "list")
        \/ pc[p] = "finish" /\ mode[p] = "new" /\ Then(p, "unlock")
    BY DEF OpenActive, ReopenActive
  <2>2. \/ pc[p] = "open" /\ GoesTo(p, {"list"})
        \/ pc[p] = "finish" /\ mode[p] = "new" /\ GoesTo(p, {"unlock"})
    BY <2>1, ThenGoes DEF IInv
  <2>3. QED
    BY <2>2
<1>3. /\ DOMAIN files' = DOMAIN files \cup {Active}
      /\ \A k \in DOMAIN files : files'[k] = files[k]
      /\ Active \notin DOMAIN files => files'[Active] = <<>>
  BY <1>1 DEF CreateActive
<1>4. EventsOf(files) \subseteq EventsOf(files')
  BY <1>3 DEF EventsOf
<1>5. pc[p] = "finish" => SizeOf(files'[Active]) < MaxSize
  BY <1>3, EmptySize, LogAssumption DEF GoodInv, Knows
<1>6. EventsIn(files'[Active]) \subseteq Nat /\ Before(expired, files'[Active])
  <2>1. CASE Active \in DOMAIN files
    BY <1>3, <2>1, EventNumbers DEF GoodInv, DirOK
  <2>2. CASE Active \notin DOMAIN files
    BY <1>3, <2>2 DEF Before, EventsIn
  <2>3. QED
    BY <2>1, <2>2
<1>7. \A k \in Rot(files) : files'[k] = files[k]
  BY <1>3 DEF Rot
<1>8. DirOK' /\ (Settled => Settled')
  <2>1. next' \in Nat /\ next <= next' /\ next \in Nat
    BY <1>1, EventNumbers
  <2>2. QED
    BY <1>1, <1>3, <1>4, <1>6, <1>7, <2>1, ActiveGrows
<1>9. Knows(p)'
  <2>1. CASE pc[p] = "open" /\ GoesTo(p, {"list"})
    <3>1. kept'[p] = {}
      BY <1>1, <2>1 DEF GoodInv, Knows
    <3>2. QED
      BY <2>1, <3>1 DEF Knows
  <2>2. CASE pc[p] = "finish" /\ mode[p] = "new" /\ GoesTo(p, {"unlock"})
    <3>1. Settled'
      BY <1>8, <2>2 DEF GoodInv, Knows
    <3>2. BelowSize(p)'
      BY <1>1, <1>5, <2>2 DEF BelowSize
    <3>3. QED
      BY <1>3, <2>2, <3>1, <3>2 DEF Knows
  <2>3. QED
    BY <1>2, <2>1, <2>2
<1>10. Apart(p)
  BY <1>1, <1>2 DEF Apart
<1>11. QED
  BY <1>1, <1>8, <1>9, <1>10, KnowledgeKeeps


\* Shifting a rotation, or removing it.
LEMMA ShiftGood ==
  ASSUME IInv, IInv', GoodInv, NEW p \in Procs, Shift(p)
  PROVE  GoodInv'
<1> USE DEF Points, Inside, GoesTo
<1>1. PICK f \in todo[p] :
        /\ \A g \in todo[p] \ {f} : ShiftsBefore(f, g)
        /\ todo' = [todo EXCEPT ![p] = @ \ {f}]
        /\ \/ Suffix(f) >= MaxFiles /\ Expire(f) /\ UNCHANGED kept
           \/ /\ Rename(f, <<Suffix(f) + 1, f[2]>>)
              /\ kept' = [kept EXCEPT ![p] = @ \cup {<<Suffix(f) + 1, f[2]>>}]
              /\ UNCHANGED expired
  BY DEF Shift
<1>2. /\ pc[p] = "shift" /\ Then(p, "shift")
      /\ UNCHANGED <<next, horizon, mode>>
  BY DEF Shift
<1>3. /\ Directory(files) /\ Ordered(files) /\ ActiveNewest(files) /\ Shifting(p)
      /\ IsFiniteSet(DOMAIN files) /\ StaleDoomed(files, expired, {}, horizon)
      /\ kept[p] = Rot(files) \ todo[p]
  BY <1>2 DEF IInv, Types, History, AtWork, GoodInv, DirOK, Knows
<1>4. /\ f \in Rot(files) /\ f \in RotationNames /\ Active \in DOMAIN files
      /\ todo[p] \subseteq Rot(files)
  BY <1>1, <1>3 DEF Shifting, Directory, FileNames, Rot
<1>5. GoesTo(p, {"shift"})
  BY <1>2, ThenGoes DEF IInv
<1>6. todo'[p] = todo[p] \ {f} /\ \A q \in Procs \ {p} : todo'[q] = todo[q]
  BY <1>1 DEF IInv, Types
<1>7. SUFFICES /\ DirOK'
               /\ kept'[p] = Rot(files') \ todo'[p]
               /\ \A q \in Procs \ {p} : kept'[q] = kept[q]
  <2>1. Knows(p)'
    BY <1>5, <1>7 DEF Knows
  <2>2. Apart(p)
    BY <1>2, <1>5, <1>6, <1>7 DEF Apart
  <2>3. QED
    BY <1>2, <1>7, <2>1, <2>2, KnowledgeKeeps
<1>8. CASE Suffix(f) >= MaxFiles /\ Expire(f) /\ UNCHANGED kept
  <2>1. files' = [h \in DOMAIN files \ {f} |-> files[h]]
    BY <1>8 DEF Expire, Remove
  <2>2. expired' = expired \cup EventsIn(files[f])
    BY <1>8 DEF Expire, LinesOf, EventsIn
  <2>3. StaleDoomed(files', expired', {}, horizon)
    <3>1. Suffix(f) >= MaxFiles
      BY <1>8
    <3>2. \A D : D = expired \cup EventsIn(files[f]) => StaleDoomed(files', D, {}, horizon)
      BY <1>3, <1>4, <2>1, <3>1, ExpireDoomed
    <3>3. QED
      BY <2>2, <3>2
  <2>4. IsFiniteSet(DOMAIN files')
    BY <1>3, <2>1, FS_RemoveElement
  <2>5. \A d \in expired' : d \in Nat /\ d < next
    BY <1>4, <2>2, EventNumbers DEF GoodInv, DirOK, Rot
  <2>6. files'[Active] = files[Active] /\ Active \in DOMAIN files
    BY <1>4, <2>1 DEF Rot
  <2>7. Before(expired', files'[Active])
    BY <1>3, <1>4, <2>2, <2>6 DEF ActiveNewest, OlderThan, Before, GoodInv, DirOK, Rot
  <2>8. DirOK'
    BY <1>2, <2>3, <2>4, <2>5, <2>6, <2>7 DEF GoodInv, DirOK
  <2>9. Rot(files') = Rot(files) \ {f}
    BY <2>1 DEF Rot
  <2>10. QED
    BY <1>1, <1>3, <1>6, <1>8, <2>8, <2>9
<1>9. CASE /\ Rename(f, <<Suffix(f) + 1, f[2]>>)
           /\ kept' = [kept EXCEPT ![p] = @ \cup {<<Suffix(f) + 1, f[2]>>}]
           /\ UNCHANGED expired
  <2> DEFINE g == <<Suffix(f) + 1, f[2]>>
  <2>1. /\ g \in RotationNames /\ Suffix(g) = Suffix(f) + 1 /\ (IsGz(g) <=> IsGz(f))
        /\ g # Active
    BY <1>4, NamesOfFiles
  <2>2. /\ g \notin DOMAIN files
        /\ files' = [h \in (DOMAIN files \ {f}) \cup {g} |->
                        IF h = g THEN files[f] ELSE files[h]]
    BY <1>9 DEF Rename
  <2>3. kept'[p] = kept[p] \cup {g} /\ \A q \in Procs \ {p} : kept'[q] = kept[q]
    BY <1>9 DEF IInv, Types
  <2> HIDE DEF g
  <2>4. /\ DOMAIN files' = (DOMAIN files \ {f}) \cup {g} /\ files'[g] = files[f]
        /\ \A h \in DOMAIN files \ {f} : h # g /\ files'[h] = files[h]
    BY <2>2
  <2>5. ASSUME NEW h \in DOMAIN files \ {f, Active}
        PROVE  \/ Suffix(h) > Suffix(g)
               \/ Suffix(h) = Suffix(g) /\ files[h] = files[f]
               \/ Suffix(h) <= Suffix(f)
    <3>1. CASE h \in todo[p]
      <4>1. Suffix(h) \in Nat /\ Suffix(f) \in Nat
        BY <1>3, <1>4, NamesOfFiles DEF Directory, Rot
      <4>2. QED
        BY <1>1, <3>1, <4>1 DEF ShiftsBefore
    <3>2. CASE h \notin todo[p]
      BY <1>1, <1>3, <2>1, <3>2 DEF Shifting, Twins
    <3>3. QED
      BY <3>1, <3>2
  <2>6. EventsOf(files') = EventsOf(files)
    <3>1. EventsOf(files') \subseteq EventsOf(files)
      BY <1>4, <2>4 DEF EventsOf, Rot
    <3>2. ASSUME NEW h \in DOMAIN files
          PROVE  EventsIn(files[h]) \subseteq EventsOf(files')
      <4>1. PICK k \in DOMAIN files' : files'[k] = files[h]
        BY <2>4
      <4>2. QED
        BY <4>1 DEF EventsOf
    <3>3. EventsOf(files) \subseteq EventsOf(files')
      BY <3>2 DEF EventsOf
    <3>4. QED
      BY <3>1, <3>3
  <2>7. StaleDoomed(files', expired, {}, horizon)
    BY <1>3, <1>4, <2>1, <2>2, <2>5, <2>6, RenameDoomed
  <2>8. IsFiniteSet(DOMAIN files')
    <3>1. IsFiniteSet(DOMAIN files \ {f})
      BY <1>3, FS_RemoveElement
    <3>2. QED
      BY <2>4, <3>1, FS_AddElement
  <2>9. files'[Active] = files[Active]
    BY <1>4, <2>4 DEF Rot
  <2>10. DirOK'
    BY <1>2, <1>4, <1>9, <2>7, <2>8, <2>9 DEF GoodInv, DirOK
  <2>11. Rot(files') = (Rot(files) \ {f}) \cup {g} /\ g \notin todo[p]
    BY <1>4, <2>1, <2>2, <2>4 DEF Rot
  <2>12. QED
    BY <1>3, <1>4, <1>6, <2>3, <2>10, <2>11
<1>10. QED
  BY <1>1, <1>8, <1>9

\* The active log becomes the newest rotation.
LEMMA RotateGood ==
  ASSUME IInv, IInv', GoodInv, NEW p \in Procs, RotateActive(p)
  PROVE  GoodInv'
<1> USE DEF Points, Inside, GoesTo
<1>1. /\ pc[p] = "shift" /\ todo[p] = {} /\ Rename(Active, Raw(1))
      /\ kept' = [kept EXCEPT ![p] = @ \cup {Raw(1)}]
      /\ UNCHANGED <<expired, next, horizon, mode, todo>>
  BY DEF RotateActive
<1>2. \E step \in {"compress", "retain"} : Then(p, step)
  BY DEF RotateActive
<1>3. GoesTo(p, {"compress", "retain"})
  BY <1>2, ThenGoes DEF IInv
<1>4. Active \in DOMAIN files /\ \A h \in Rot(files) : Suffix(h) > 1
  BY <1>1 DEF IInv, AtWork, Shifting, Rot
<1>5. /\ Raw(1) \notin DOMAIN files
      /\ files' = [h \in (DOMAIN files \ {Active}) \cup {Raw(1)} |->
                      IF h = Raw(1) THEN files[Active] ELSE files[h]]
  BY <1>1 DEF Rename
<1>6. /\ DOMAIN files' = (DOMAIN files \ {Active}) \cup {Raw(1)}
      /\ files'[Raw(1)] = files[Active] /\ Raw(1) # Active
      /\ \A h \in DOMAIN files \ {Active} : files'[h] = files[h]
  BY <1>4, <1>5
<1>7. EventsOf(files') = EventsOf(files)
  <2>1. EventsOf(files') \subseteq EventsOf(files)
    BY <1>4, <1>6 DEF EventsOf
  <2>2. EventsOf(files) \subseteq EventsOf(files')
    BY <1>6 DEF EventsOf
  <2>3. QED
    BY <2>1, <2>2
<1>8. Before(expired, files[Active])
  BY <1>4 DEF GoodInv, DirOK
<1>9. /\ StaleDoomed(files', expired, Fresh, horizon)
      /\ StaleDoomed(files', expired, {}, horizon)
  BY <1>4, <1>5, <1>7, <1>8, EventNumbers, RotateDoomed DEF GoodInv, DirOK
<1>10. IsFiniteSet(DOMAIN files')
  <2>1. IsFiniteSet(DOMAIN files \ {Active})
    BY FS_RemoveElement DEF GoodInv, DirOK
  <2>2. QED
    BY <1>6, <2>1, FS_AddElement
<1>11. Active \notin DOMAIN files'
  BY <1>6
<1>12. DirOK'
  BY <1>1, <1>9, <1>10, <1>11 DEF GoodInv, DirOK
<1>13. kept'[p] = Rot(files') /\ \A q \in Procs \ {p} : kept'[q] = kept[q]
  <2>1. kept[p] = Rot(files) /\ Rot(files') = Rot(files) \cup {Raw(1)}
    BY <1>1, <1>6 DEF GoodInv, Knows, Rot
  <2>2. QED
    BY <1>1, <2>1 DEF IInv, Types
<1>14. Knows(p)'
  BY <1>1, <1>3, <1>6, <1>8, <1>9, <1>11, <1>13 DEF Knows
<1>15. Apart(p)
  BY <1>1, <1>3, <1>13 DEF Apart
<1>16. QED
  BY <1>1, <1>12, <1>14, <1>15, KnowledgeKeeps

\* The gzip file of the newest rotation gets its name.
LEMMA PublishGood ==
  ASSUME IInv, IInv', GoodInv, NEW p \in Procs, PublishGzip(p)
  PROVE  GoodInv'
<1> USE DEF Points, Inside, GoesTo
<1>1. /\ pc[p] = "publish" /\ Gz(1) \notin DOMAIN files /\ Then(p, "unlink")
      /\ files' = [f \in DOMAIN files \cup {Gz(1)} |->
                      IF f = Gz(1) THEN files[Raw(1)] ELSE files[f]]
      /\ UNCHANGED <<expired, next, horizon, mode, todo, kept>>
  BY DEF PublishGzip
<1>2. GoesTo(p, {"unlink"})
  BY <1>1, ThenGoes DEF IInv
<1>3. Raw(1) \in DOMAIN files
  BY <1>1 DEF IInv, AtWork, Compressing
<1>4. /\ Active \notin DOMAIN files /\ Before(expired, files[Raw(1)])
      /\ StaleDoomed(files, expired, Fresh, horizon) /\ kept[p] = Rot(files)
      /\ StaleDoomed(files, expired, {}, horizon)
  BY <1>1 DEF GoodInv, Knows, DirOK
<1>5. /\ DOMAIN files' = DOMAIN files \cup {Gz(1)} /\ Gz(1) # Active
      /\ files'[Gz(1)] = files[Raw(1)]
      /\ \A h \in DOMAIN files : files'[h] = files[h]
  BY <1>1 DEF Gz, Active
<1>6. EventsOf(files') = EventsOf(files)
  <2>1. EventsOf(files') \subseteq EventsOf(files)
    BY <1>3, <1>5 DEF EventsOf
  <2>2. EventsOf(files) \subseteq EventsOf(files')
    BY <1>5 DEF EventsOf
  <2>3. QED
    BY <2>1, <2>2
<1>7. /\ StaleDoomed(files', expired, Fresh, horizon)
      /\ StaleDoomed(files', expired, {}, horizon)
  BY <1>1, <1>3, <1>4, <1>6, EventNumbers, PublishDoomed
<1>8. IsFiniteSet(DOMAIN files')
  BY <1>5, FS_AddElement DEF GoodInv, DirOK
<1>9. Active \notin DOMAIN files'
  BY <1>4, <1>5
<1>10. DirOK'
  BY <1>1, <1>7, <1>8, <1>9 DEF GoodInv, DirOK
<1>11. Rot(files') = kept'[p] \cup {Gz(1)}
  BY <1>1, <1>4, <1>5 DEF Rot
<1>12. Knows(p)'
  BY <1>1, <1>2, <1>3, <1>4, <1>5, <1>7, <1>9, <1>11 DEF Knows
<1>13. Apart(p)
  BY <1>1, <1>2 DEF Apart
<1>14. QED
  BY <1>1, <1>10, <1>12, <1>13, KnowledgeKeeps

\* The source of the gzip file goes.
LEMMA UnlinkGood ==
  ASSUME IInv, IInv', GoodInv, NEW p \in Procs, UnlinkSource(p)
  PROVE  GoodInv'
<1> USE DEF Points, Inside, GoesTo
<1>1. /\ pc[p] = "unlink" /\ Remove(Raw(1)) /\ Then(p, "retain")
      /\ kept' = [kept EXCEPT ![p] = (@ \ {Raw(1)}) \cup {Gz(1)}]
      /\ UNCHANGED <<expired, next, horizon, mode, todo>>
  BY DEF UnlinkSource
<1>2. GoesTo(p, {"retain"})
  BY <1>1, ThenGoes DEF IInv
<1>3. files' = [h \in DOMAIN files \ {Raw(1)} |-> files[h]]
  BY <1>1 DEF Remove
<1>4. Gz(1) \in DOMAIN files /\ files[Gz(1)] = files[Raw(1)]
  BY <1>1 DEF IInv, AtWork, Compressing
<1>5. /\ Active \notin DOMAIN files /\ Rot(files) = kept[p] \cup {Gz(1)}
      /\ StaleDoomed(files, expired, Fresh, horizon)
  BY <1>1 DEF GoodInv, Knows
<1>6. StaleDoomed(files', expired, {}, horizon)
  BY <1>3, <1>4, <1>5, UnlinkDoomed
<1>7. IsFiniteSet(DOMAIN files') /\ Active \notin DOMAIN files'
  BY <1>3, <1>5, FS_RemoveElement DEF GoodInv, DirOK
<1>8. DirOK'
  BY <1>1, <1>6, <1>7 DEF GoodInv, DirOK
<1>9. Rot(files') = Rot(files) \ {Raw(1)} /\ Gz(1) # Raw(1)
  BY <1>3 DEF Rot, Gz, Raw
<1>10. kept'[p] = Rot(files') /\ \A q \in Procs \ {p} : kept'[q] = kept[q]
  <2>1. kept'[p] = (kept[p] \ {Raw(1)}) \cup {Gz(1)}
    BY <1>1 DEF IInv, Types
  <2>2. QED
    BY <1>1, <1>5, <1>9, <2>1 DEF IInv, Types
<1>11. Knows(p)'
  BY <1>2, <1>7, <1>10 DEF Knows
<1>12. Apart(p)
  BY <1>1, <1>2, <1>10 DEF Apart
<1>13. QED
  BY <1>1, <1>8, <1>11, <1>12, KnowledgeKeeps


\* Retention removes one rotation after the other.
LEMMA DropGood ==
  ASSUME IInv, IInv', GoodInv, NEW p \in Procs, Drop(p)
  PROVE  GoodInv'
<1> USE DEF Points, Inside, GoesTo
<1>1. /\ pc[p] = "drop" /\ UNCHANGED <<next, horizon, mode, kept>>
      /\ DropOK(files, expired, horizon, todo[p])
      /\ Active \in DOMAIN files => SizeOf(files[Active]) < MaxSize
  BY DEF Drop, GoodInv, Knows
<1>2. ASSUME NEW f \in todo[p], Expire(f), todo' = [todo EXCEPT ![p] = @ \ {f}],
             Then(p, "drop")
      PROVE  GoodInv'
  <2>1. GoesTo(p, {"drop"})
    BY <1>2, ThenGoes DEF IInv
  <2>2. /\ files' = [h \in DOMAIN files \ {f} |-> files[h]]
        /\ expired' = expired \cup EventsIn(files[f])
    BY <1>2 DEF Expire, Remove, LinesOf, EventsIn
  <2>3. todo'[p] = todo[p] \ {f} /\ \A q \in Procs \ {p} : todo'[q] = todo[q]
    BY <1>2 DEF IInv, Types
  <2>4. f \in Rot(files)
    BY <1>1, <1>2 DEF DropOK
  <2>5. DropOK(files', expired', horizon, todo[p] \ {f})
    <3>1. Directory(files) /\ Ordered(files) /\ ActiveNewest(files)
      BY DEF IInv, Types, History
    <3>2. QED
      BY <1>1, <1>2, <2>2, <3>1, DropStep
  <2>6. /\ Active \in DOMAIN files' =>
              Active \in DOMAIN files /\ files'[Active] = files[Active]
        /\ IsFiniteSet(DOMAIN files')
    BY <2>2, FS_RemoveElement DEF GoodInv, DirOK
  <2>7. Active \in DOMAIN files' => Before(expired', files'[Active])
    BY <2>2, <2>4, <2>6 DEF IInv, History, ActiveNewest, OlderThan, Before, GoodInv,
       DirOK, Rot
  <2>8. \A d \in expired' : d \in Nat /\ d < next
    BY <2>2, <2>4, EventNumbers DEF GoodInv, DirOK, Rot
  <2>9. StaleDoomed(files', expired', {}, horizon)
    <3>1. Directory(files') /\ Ordered(files') /\ expired' \subseteq Nat
      BY <2>8 DEF IInv, Types, History
    <3>2. QED
      BY <2>5, <2>7, <3>1, DropDoomed
  <2>10. DirOK'
    BY <1>1, <2>6, <2>7, <2>8, <2>9 DEF GoodInv, DirOK
  <2>11. Knows(p)'
    BY <1>1, <2>1, <2>3, <2>5, <2>6 DEF Knows
  <2>12. Apart(p)
    BY <1>1, <2>1, <2>3 DEF Apart
  <2>13. QED
    BY <1>1, <2>10, <2>11, <2>12, KnowledgeKeeps
<1>3. ASSUME todo[p] = {}, Goto(p, "finish"), UNCHANGED <<files, todo, expired, failed>>
      PROVE  GoodInv'
  <2>1. pc'[p] = "finish" /\ \A q \in Procs \ {p} : pc'[q] = pc[q]
    BY <1>3 DEF Goto, IInv, Types
  <2>2. Settled'
    BY <1>1, <1>3 DEF Settled
  <2>3. Knows(p)'
    BY <1>1, <1>3, <2>1, <2>2 DEF Knows
  <2>4. Apart(p)
    BY <1>1, <1>3, <2>1 DEF Apart
  <2>5. QED
    BY <1>1, <1>3, <2>3, <2>4, QuietGood
<1>4. QED
  BY <1>2, <1>3 DEF Drop

\* A line in the active log: what was there before it is below the limit.
LEMMA LineGood ==
  ASSUME IInv, GoodInv, NEW p \in Procs, pc[p] = "finish",
         NEW x \in {Torn, next}, AppendLine(x), UNCHANGED <<expired, horizon>>,
         next' \in Nat, next <= next'
  PROVE  /\ DirOK' /\ Settled' /\ Active \in DOMAIN files'
         /\ SizeOf(WithoutLast(files'[Active])) < MaxSize
<1>1. /\ DOMAIN files' = DOMAIN files \cup {Active}
      /\ \A k \in Rot(files) : files'[k] = files[k]
      /\ Active \in DOMAIN files => files'[Active] = Append(files[Active], x)
      /\ Active \notin DOMAIN files => files'[Active] = <<x>>
  BY DEF AppendLine, Rot
<1>2. EventsOf(files) \subseteq EventsOf(files')
  BY LineKeeps
<1>3. x \in Nat /\ next \in Nat /\ \A d \in expired : d < next
  BY DEF IInv, Types, Torn, GoodInv, DirOK
<1>4. Settled /\ (Active \in DOMAIN files => SizeOf(files[Active]) < MaxSize)
  BY DEF GoodInv, Knows
<1>5. CASE Active \in DOMAIN files
  <2>1. files[Active] \in Seq(Nat)
    BY <1>5, EventNumbers
  <2>2. WithoutLast(files'[Active]) = files[Active]
    <3>1. files'[Active] = Append(files[Active], x)
      BY <1>1, <1>5
    <3>2. QED
      BY <1>3, <2>1, <3>1, LastAppended
  <2>3. EventsIn(files'[Active]) \subseteq EventsIn(files[Active]) \cup ({x} \ {Torn})
    BY <1>1, <1>3, <1>5, <2>1 DEF EventsIn
  <2>4. EventsIn(files'[Active]) \subseteq Nat
    BY <1>3, <1>5, <2>3, EventNumbers
  <2>5. Before(expired, files'[Active])
    BY <1>3, <1>5, <2>3 DEF Before, GoodInv, DirOK
  <2>6. DirOK' /\ Settled'
    BY <1>1, <1>2, <1>3, <1>4, <2>4, <2>5, ActiveGrows
  <2>7. QED
    BY <1>1, <1>4, <1>5, <2>2, <2>6
<1>6. CASE Active \notin DOMAIN files
  <2>1. SizeOf(WithoutLast(files'[Active])) < MaxSize
    <3>1. files'[Active] = <<x>>
      BY <1>1, <1>6
    <3>2. WithoutLast(<<x>>) = <<>>
      BY <1>3 DEF WithoutLast
    <3>3. QED
      BY <3>1, <3>2, EmptySize, LogAssumption
  <2>2. EventsIn(files'[Active]) \subseteq {x} \ {Torn}
    BY <1>1, <1>6 DEF EventsIn
  <2>3. EventsIn(files'[Active]) \subseteq Nat /\ Before(expired, files'[Active])
    BY <1>3, <2>2 DEF Before
  <2>4. QED
    BY <1>1, <1>2, <1>3, <1>4, <2>1, <2>3, ActiveGrows
<1>7. QED
  BY <1>5, <1>6

\* Writing an event, or a fragment of one.
LEMMA AppendGood ==
  ASSUME IInv, GoodInv, NEW p \in Procs, AppendEvent(p) \/ AppendTorn(p)
  PROVE  GoodInv'
<1> USE DEF Points, Inside, GoesTo
<1>1. /\ pc[p] = "finish"
      /\ mode[p] = "write"
      /\ UNCHANGED <<expired, horizon, mode, todo, kept>>
  BY DEF AppendEvent, AppendTorn
<1>2. /\ next \in Nat /\ next' \in Nat /\ next <= next'
      /\ \E x \in {Torn, next} : AppendLine(x)
  BY DEF AppendEvent, AppendTorn, IInv, Types
<1>3. /\ DirOK' /\ Settled' /\ Active \in DOMAIN files'
      /\ SizeOf(WithoutLast(files'[Active])) < MaxSize
  BY <1>1, <1>2, LineGood
<1>4. GoesTo(p, {"unlock"})
  <2>1. CASE AppendEvent(p)
    BY <2>1, ThenGoes DEF AppendEvent, IInv
  <2>2. CASE AppendTorn(p)
    BY <2>2 DEF AppendTorn, ReturnError, Goto, IInv, Types
  <2>3. QED
    BY <2>1, <2>2
<1>5. Knows(p)'
  BY <1>1, <1>3, <1>4 DEF Knows, BelowSize
<1>6. Apart(p)
  BY <1>1, <1>4 DEF Apart
<1>7. QED
  BY <1>1, <1>3, <1>5, <1>6, KnowledgeKeeps

\* A kill between two calls.
LEMMA KillGood ==
  ASSUME IInv, GoodInv, NEW p \in Procs, Kill(p)
  PROVE  GoodInv'
<1> USE DEF Points, Inside
<1>1. /\ UNCHANGED <<expired, horizon, next>>
      /\ UNCHANGED files \/ (pc[p] = "finish" /\ AppendLine(Torn))
  BY DEF Kill
<1>2. pc'[p] = "off" /\ kept'[p] = {}
  BY DEF Kill, Goto, IInv, Types
<1>3. Knows(p)'
  BY <1>2 DEF Knows
<1>4. Apart(p)
  BY DEF Apart, Kill, Goto, IInv, Types
<1>5. CASE UNCHANGED files
  BY <1>1, <1>3, <1>4, <1>5, QuietGood
<1>6. CASE pc[p] = "finish" /\ AppendLine(Torn)
  <2>1. next' \in Nat /\ next <= next'
    BY <1>1 DEF IInv, Types
  <2>2. DirOK'
    BY <1>1, <1>6, <2>1, LineGood
  <2>3. QED
    BY <1>3, <1>4, <1>6, <2>2, KnowledgeKeeps
<1>7. QED
  BY <1>1, <1>5, <1>6

\* Time, and nobody's step.
LEMMA IdleGood ==
  ASSUME IInv, GoodInv, Age \/ UNCHANGED vars
  PROVE  GoodInv'
<1>1. /\ UNCHANGED <<files, expired, next, pc, mode, todo, kept, failed>>
      /\ horizon' = horizon \/ horizon' = horizon + 1
  BY DEF Age, vars, dir, local, counts
<1>2. horizon \in Int /\ horizon' \in Nat /\ horizon' \in Int /\ horizon <= horizon'
  BY <1>1 DEF GoodInv, DirOK
<1>3. /\ \A X : StaleDoomed(files, expired, X, horizon) =>
                   StaleDoomed(files, expired, X, horizon')
      /\ \A T : DropOK(files, expired, horizon, T) =>
                   DropOK(files, expired, horizon', T)
  <2>1. Directory(files)
    BY DEF IInv, Types
  <2>2. QED
    BY <1>2, <2>1, TimePasses
<1>4. DirOK'
  BY <1>1, <1>2, <1>3 DEF GoodInv, DirOK
<1>5. ASSUME NEW p \in Procs
      PROVE  Knows(p)'
  BY <1>1, <1>3 DEF GoodInv, Knows, Settled, BelowSize
<1>6. QED
  BY <1>4, <1>5 DEF GoodInv

\* Every step keeps the second invariant.
LEMMA GoodNext == IInv /\ GoodInv /\ [Next]_vars => GoodInv'
<1> SUFFICES ASSUME IInv, GoodInv, [Next]_vars
             PROVE  GoodInv'
  OBVIOUS
<1>1. IInv'
  BY NextInvariant
<1>2. ASSUME NEW p \in Procs, Caller(p) \/ Acquire(p) \/ Operation(p) \/ Failure(p)
      PROVE  GoodInv'
  <2>1. CASE Caller(p) \/ Acquire(p) \/ Unlock(p)
    BY <2>1, CallerGood
  <2>2. CASE \/ ListRefused(p) \/ List(p) \/ WriteTemporary(p) \/ Retain(p)
             \/ CallFails(p)
    BY <2>2, LookingGood
  <2>3. CASE OpenActive(p) \/ ReopenActive(p)
    BY <2>3, OpenGood
  <2>4. CASE Shift(p)
    BY <1>1, <2>4, ShiftGood
  <2>5. CASE RotateActive(p)
    BY <1>1, <2>5, RotateGood
  <2>6. CASE PublishGzip(p)
    BY <1>1, <2>6, PublishGood
  <2>7. CASE UnlinkSource(p)
    BY <1>1, <2>7, UnlinkGood
  <2>8. CASE Drop(p)
    BY <1>1, <2>8, DropGood
  <2>9. CASE AppendEvent(p) \/ AppendTorn(p)
    BY <2>9, AppendGood
  <2>10. CASE Kill(p)
    BY <2>10, KillGood
  <2>11. QED
    BY <1>2, <2>1, <2>2, <2>3, <2>4, <2>5, <2>6, <2>7, <2>8, <2>9, <2>10
    DEF Operation, Locked, Failure
<1>3. CASE Age \/ Done \/ UNCHANGED vars
  BY <1>3, IdleGood DEF Done
<1>4. QED
  BY <1>2, <1>3 DEF Next

\* Only an unlock without an error succeeds, and it finds the directory settled.
LEMMA SuccessSettled ==
  ASSUME IInv, GoodInv, [Next]_vars, NEW p \in Procs, Succeeds(p)
  PROVE  /\ UNCHANGED <<files, expired>> /\ Settled /\ Active \in DOMAIN files
         /\ BelowSize(p)
<1>1. pc[p] = "unlock" /\ ~failed[p] /\ pc'[p] = "idle"
  BY DEF Succeeds
<1>2. Settled /\ Active \in DOMAIN files /\ BelowSize(p)
  BY <1>1 DEF GoodInv, Knows
<1>3. ASSUME NEW q \in Procs, Caller(q) \/ Acquire(q) \/ Operation(q) \/ Failure(q)
      PROVE  UNCHANGED <<files, expired>>
  <2>1. CASE q = p
    BY <1>1, <1>3, <2>1 DEF Caller, Start, BeginWrite, Exit, Acquire, Operation, Locked,
       OpenActive, ListRefused, List, Shift, RotateActive, WriteTemporary, PublishGzip,
       UnlinkSource, Retain, Drop, ReopenActive, AppendEvent, Unlock, Failure,
       AppendTorn, CallFails, Kill, Inside, dir
  <2>2. CASE q # p
    <3>1. pc[q] \notin Inside \cup {"unlock"}
      BY <1>1, <2>2 DEF IInv, AtWork
    <3>2. Caller(q) \/ Acquire(q) \/ Kill(q)
      BY <1>3, <3>1 DEF Operation, Locked, OpenActive, ListRefused, List, Shift,
         RotateActive, WriteTemporary, PublishGzip, UnlinkSource, Retain, Drop,
         ReopenActive, AppendEvent, Unlock, Failure, AppendTorn, CallFails, Inside
    <3>3. QED
      BY <3>1, <3>2 DEF Caller, Start, BeginWrite, Exit, Acquire, Kill, Inside, dir, counts
  <2>3. QED
    BY <2>1, <2>2
<1>4. CASE Age \/ Done \/ UNCHANGED vars
  <2>1. Age \/ UNCHANGED vars
    BY <1>4 DEF Done
  <2>2. QED
    BY <1>2, <2>1 DEF Age, vars, dir, counts
<1>5. QED
  BY <1>2, <1>3, <1>4 DEF Next

\* For any number of processes and any limits, and wherever earlier operations
\* failed or were killed: when New or Write succeeds, the active log is below its
\* size but for the line, of any length, that a Write has just appended; at most
\* max_files rotations are left, all under names that retention knows, and
\* whatever is lost for good is older than whatever is left.
THEOREM GoodHistory == Spec => SuccessLeavesGoodHistory
<1>1. ASSUME IInv, GoodInv, [Next]_vars, NEW p \in Procs, Succeeds(p)
      PROVE  /\ Active \in DOMAIN files'
             /\ SizeOf(IF mode[p] = "new" THEN files'[Active]
                       ELSE WithoutLast(files'[Active])) < MaxSize
             /\ Cardinality(DOMAIN files' \ {Active}) <= MaxFiles
             /\ \A f \in DOMAIN files' : Suffix(f) <= MaxFiles
             /\ \A d \in expired' \ Stored', e \in Stored' : d < e
  <2>1. /\ UNCHANGED <<files, expired>> /\ Settled /\ Active \in DOMAIN files
        /\ BelowSize(p)
    BY <1>1, SuccessSettled
  <2>2. /\ SizeOf(IF mode[p] = "new" THEN files'[Active]
                  ELSE WithoutLast(files'[Active])) < MaxSize
        /\ Before(expired, files[Active])
    BY <1>1, <2>1 DEF GoodInv, DirOK, BelowSize
  <2>3. /\ Cardinality(Rot(files)) <= MaxFiles
        /\ \A f \in Rot(files) :
              Suffix(f) <= MaxFiles /\ Before(expired \ EventsOf(files), files[f])
    <3>1. Left(files, {}) = Rot(files)
      BY DEF Left
    <3>2. QED
      BY <2>1, <3>1 DEF Settled, DropOK
  <2>4. Suffix(Active) <= MaxFiles
    BY LogAssumption DEF Suffix, Active
  <2>5. \A d \in expired \ EventsOf(files), e \in EventsOf(files) : d < e
    BY <2>2, <2>3 DEF EventsOf, Before, Rot
  <2>6. Stored = EventsOf(files)
    BY <1>1, InOtherWords DEF IInv, Types
  <2>7. Stored' = Stored
    BY <2>1 DEF Stored, LinesOf
  <2>8. QED
    BY <2>1, <2>2, <2>3, <2>4, <2>5, <2>6, <2>7 DEF Rot
<1>2. IInv /\ GoodInv /\ [Next]_vars =>
        \A p \in Procs : Succeeds(p) =>
            /\ Active \in DOMAIN files'
            /\ SizeOf(IF mode[p] = "new" THEN files'[Active]
                      ELSE WithoutLast(files'[Active])) < MaxSize
            /\ Cardinality(DOMAIN files' \ {Active}) <= MaxFiles
            /\ \A f \in DOMAIN files' : Suffix(f) <= MaxFiles
            /\ \A d \in expired' \ Stored', e \in Stored' : d < e
  BY <1>1
<1>3. Spec => []GoodInv
  BY Invariant, GoodInit, GoodNext, PTL DEF Spec
<1>4. QED
  BY Invariant, <1>2, <1>3, PTL DEF Spec, SuccessLeavesGoodHistory

=============================================================================
