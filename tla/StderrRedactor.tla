--------------------------- MODULE StderrRedactor ---------------------------
(***************************************************************************)
(* redactingCappedBuffer: what run keeps of the dump process's stderr for  *)
(* its error.  The password is replaced while the bytes stream in, in      *)
(* writes that may cut it anywhere, and what is kept is capped.            *)
(***************************************************************************)
EXTENDS Naturals, Sequences, SequencesExt

CONSTANTS
    Bytes,       \* byte values, in the password and outside it
    MaxSecret,   \* bound: length of the password
    MaxInput,    \* bound: bytes written to stderr
    MaxLimit     \* bound: the cap

\* Two bytes stand for the ten of "[REDACTED]": enough for the cap to cut it.
Marker == <<91, 93>>

ASSUME RedactorAssumption ==
    /\ MaxSecret \in Nat /\ MaxInput \in Nat /\ MaxLimit \in Nat

VARIABLES
    secret, limit,
    input,      \* history: the bytes written so far
    data,       \* output.data
    matched,    \* bytes of the secret held back
    finished

redactorVars == <<secret, limit, input, data, matched, finished>>

SeqsUpTo(n) == UNION {[1 .. k -> Bytes] : k \in 0 .. n}

\* The loop of Write and of prefixFailureTable: while value does not extend a
\* match of m bytes, go on with a shorter one.
Fall(pattern, failure, from, value) ==
    LET f[m \in 0 .. from] ==
            IF m > 0 /\ pattern[m + 1] # value THEN f[failure[m]] ELSE m
    IN  f[from]

prefixFailureTable(pattern) ==
    LET failure[i \in 1 .. Len(pattern)] ==
            IF i = 1 THEN 0
            ELSE LET m == Fall(pattern, failure, failure[i - 1], pattern[i])
                 IN  IF pattern[m + 1] = pattern[i] THEN m + 1 ELSE m
    IN  failure

RedactorInit ==
    /\ secret \in SeqsUpTo(MaxSecret) /\ limit \in 1 .. MaxLimit
    /\ input = <<>> /\ data = <<>> /\ matched = 0 /\ finished = FALSE

\* cappedBuffer.Write
Capped(buffer, p) ==
    buffer \o SubSeq(p, 1, Min({Len(p), limit - Len(buffer)}))

\* The prefix of the secret that a value extends, along the failure table.
Fallback(value) == Fall(secret, prefixFailureTable(secret), matched, value)

\* One byte of a write.  A byte that does not extend the match releases the
\* part of the secret that can no longer be the start of one.
Step(buffer, value) ==
    LET m == Fallback(value)
        extends == secret[m + 1] = value
        kept == IF extends THEN m ELSE 0
        released == Capped(buffer, SubSeq(secret, 1, matched - kept))
    IN  CASE ~extends -> [data |-> Capped(released, <<value>>), matched |-> 0]
          [] extends /\ m + 1 = Len(secret) ->
                [data |-> Capped(released, Marker), matched |-> 0]
          [] OTHER -> [data |-> released, matched |-> m + 1]

\* Write, one byte of it: where a write begins or ends changes nothing, as
\* the match is kept between writes.  A full buffer takes no more.
WriteByte(value) ==
    /\ ~finished /\ Len(input) < MaxInput
    /\ input' = Append(input, value)
    /\ LET next == IF secret = <<>>
                     THEN [data |-> Capped(data, <<value>>), matched |-> 0]
                   ELSE IF Len(data) >= limit
                     THEN [data |-> data, matched |-> 0]
                   ELSE Step(data, value)
       IN  data' = next.data /\ matched' = next.matched
    /\ UNCHANGED <<secret, limit, finished>>

\* Mutant: what is held back at the end is written out.
FinishReleases ==
    /\ ~finished
    /\ finished' = TRUE
    /\ data' = Capped(data, SubSeq(secret, 1, matched))
    /\ matched' = 0
    /\ UNCHANGED <<secret, limit, input>>

\* A password that was cut off at the end is replaced too.
finish ==
    /\ ~finished
    /\ finished' = TRUE
    /\ data' = IF matched > 0 THEN Capped(data, Marker) ELSE data
    /\ matched' = 0
    /\ UNCHANGED <<secret, limit, input>>

RedactorNext == (\E value \in Bytes : WriteByte(value)) \/ finish

RedactorSpec == RedactorInit /\ [][RedactorNext]_redactorVars

-----------------------------------------------------------------------------
(* Properties *)

\* Reference: from each position on, the text with every occurrence of the
\* secret, leftmost first, and a last proper prefix of it replaced.
Redacted(text) ==
    LET n == Len(text)
        at(i) == SubSeq(text, i, n)
        r[i \in 1 .. n + 1] ==
            IF i = n + 1 THEN <<>>
            ELSE IF secret = <<>> THEN at(i)
            ELSE IF IsPrefix(secret, at(i)) THEN Marker \o r[i + Len(secret)]
            ELSE IF IsPrefix(at(i), secret) THEN Marker
            ELSE <<text[i]>> \o r[i + 1]
    IN  r

\* What is kept is the redacted text, cut at the cap, wherever the writes cut
\* the password and however it overlaps itself.
MatchesGreedyReplacement ==
    finished =>
        LET all == Redacted(input)[1]
        IN  data = SubSeq(all, 1, Min({Len(all), limit}))
=============================================================================
