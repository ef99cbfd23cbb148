-------------------------- MODULE MultipartUpload --------------------------
(***************************************************************************)
(* fileUploader.Upload against an S3 service.  A request, once sent, stays *)
(* in the network: it may be handled late, after the uploader gave up on   *)
(* it, and more than once, because the SDK repeats it; its answer may be   *)
(* lost.  The service is external: it is modelled from what the uploader   *)
(* relies on.                                                              *)
(***************************************************************************)
EXTENDS MultipartPlan, Sequences, FiniteSets

CONSTANTS
    Threshold,      \* multipartThreshold
    ConfiguredSize, \* partSize
    MaxSize,        \* bound: the largest file tried
    MaxSessions     \* bound: multipart sessions the service opens

ASSUME UploadAssumption ==
    /\ Threshold \in Nat /\ ConfiguredSize \in Nat
    /\ MaxSize \in Nat /\ MaxSessions \in Nat \ {0}

NoObject == <<>>
Ids == 1 .. MaxSessions
NoId == 0    \* an answer without a usable multipart upload ID

VARIABLES
    size,      \* bytes of the staged file
    cancelled, \* the context is done
    pc,        \* "start", a request's name before it is sent, "sent", ...
    request,   \* the request being answered
    uploadId,  \* session the uploader knows
    index,     \* parts uploaded
    errs,      \* the joined error, by operation; <<>> is nil
    network,   \* requests sent; each may be handled any number of times
    answers,   \* answers on their way to the uploader
    sessions,  \* service: state of each multipart session
    parts,     \* service: the byte range of each part a session holds
    object     \* service: byte ranges of the object, in order

client == <<size, cancelled, pc, request, uploadId, index, errs>>
service == <<sessions, parts, object>>
vars == <<client, network, answers, service>>

Count == PartCount(size, ConfiguredSize)

\* The bytes of a section reader: first byte and length.
Range(i) == [offset |-> PartOffset(size, ConfiguredSize, i),
             length |-> PartLength(size, ConfiguredSize, i)]
Whole == [offset |-> 0, length |-> size]

\* One shape for every request; a field that an operation does not use is 0.
Request(op, id, part, range) == [op |-> op, id |-> id, part |-> part, range |-> range]
NoRequest == Request("none", NoId, 0, [offset |-> 0, length |-> 0])

\* The request for the current step of the uploader.
Current(op) ==
    CASE op = "put"  -> Request(op, NoId, 0, Whole)
      [] op = "part" -> Request(op, uploadId, index + 1, Range(index))
      [] OTHER       -> Request(op, uploadId, 0, [offset |-> 0, length |-> 0])

Operations == {"put", "create", "part", "complete", "abort"}

Init ==
    /\ size \in 0 .. MaxSize
    /\ cancelled = FALSE
    /\ pc = "start"
    /\ request = NoRequest
    /\ uploadId = NoId
    /\ index = 0
    /\ errs = <<>>
    /\ network = {}
    /\ answers = {}
    /\ sessions = [id \in Ids |-> "unused"]
    /\ parts = [id \in Ids |-> <<>>]
    /\ object = NoObject

-----------------------------------------------------------------------------
(* The uploader *)

Goto(step) == pc' = step

Return(stages) == errs' = stages /\ Goto("returned")

\* A size outside the limits, a done context and an invalid plan are refused
\* before the first request.
Refuse ==
    /\ pc = "start"
    /\ IF size > MaxObjectSize THEN Return(<<"read">>)
       ELSE IF cancelled THEN Return(<<"upload">>)
       ELSE /\ size > Threshold
            /\ ~PlanIsValid(size, ConfiguredSize)
            /\ Return(<<"prepare">>)
    /\ UNCHANGED <<size, cancelled, request, uploadId, index, network, answers,
                   service>>

Begin ==
    /\ pc = "start"
    /\ size <= MaxObjectSize
    /\ ~cancelled
    /\ IF size <= Threshold
         THEN Goto("put")
         ELSE PlanIsValid(size, ConfiguredSize) /\ Goto("create")
    /\ UNCHANGED <<size, cancelled, request, uploadId, index, errs, network,
                   answers, service>>

\* The call of the client: the SDK sends the request.  The abort has a context
\* of its own, that cancellation does not reach.
Send ==
    /\ pc \in Operations
    /\ request' = Current(pc)
    /\ network' = network \cup {Current(pc)}
    /\ Goto("sent")
    /\ UNCHANGED <<size, cancelled, uploadId, index, errs, answers, service>>

\* Mutant: the session of a failed upload is left open.
FailedUnaborted(op) == Return(IF op = "abort" THEN Append(errs, "abort") ELSE <<op>>)

\* Mutant: a failed part or completion is tried again.
FailedRetried(op) ==
    CASE op = "abort" -> Return(Append(errs, "abort"))
      [] op \in {"put", "create"} -> Return(<<op>>)
      [] OTHER -> errs' = <<op>> /\ Goto(op)

\* What follows a failed call.  An error of an abort is joined behind the primary
\* one; a failed step of a multipart upload goes on to the abort.
Failed(op) ==
    CASE op = "abort" -> Return(Append(errs, "abort"))
      [] op \in {"put", "create"} -> Return(<<op>>)
      [] OTHER -> errs' = <<op>> /\ Goto("abort")

\* The call returns an error: cancelled, timed out, refused, or the answer lost.
CallFails ==
    /\ pc = "sent" \/ (pc \in Operations /\ (cancelled \/ pc = "abort"))
    /\ Failed(IF pc = "sent" THEN request.op ELSE pc)
    /\ UNCHANGED <<size, cancelled, request, uploadId, index, network, answers,
                   service>>

\* An answer to the current request arrives.
Answered(op, usable) ==
    /\ pc = "sent" /\ request.op = op
    /\ \E a \in answers : a.to = request /\ a.usable = usable

\* PutObject: an answer without an output is an error.
PutAnswered ==
    /\ \/ Answered("put", TRUE) /\ Return(<<>>)
       \/ Answered("put", FALSE) /\ Return(<<"put">>)
    /\ UNCHANGED <<size, cancelled, request, uploadId, index, network, answers,
                   service>>

\* CreateMultipartUpload: without an ID there is nothing to abort.
CreateAnswered ==
    /\ pc = "sent" /\ request.op = "create"
    /\ \E a \in answers :
        /\ a.to = request
        /\ uploadId' = a.id
        /\ IF a.id = NoId THEN Return(<<"create">>)
           ELSE IF cancelled THEN errs' = <<"part">> /\ Goto("abort")
           ELSE Goto("part") /\ UNCHANGED errs
    /\ UNCHANGED <<size, cancelled, request, index, network, answers, service>>

MoreParts(done) == done < Count

\* UploadPart: an empty ETag, or a context done by now, aborts.
PartAnswered ==
    /\ \/ /\ Answered("part", TRUE)
          /\ index' = index + 1
          /\ IF cancelled THEN errs' = <<"part">> /\ Goto("abort")
             ELSE /\ Goto(IF MoreParts(index + 1) THEN "part" ELSE "complete")
                  /\ UNCHANGED errs
       \/ /\ Answered("part", FALSE)
          /\ errs' = <<"part">> /\ Goto("abort")
          /\ UNCHANGED index
    /\ UNCHANGED <<size, cancelled, request, uploadId, network, answers, service>>

CompleteAnswered ==
    /\ \/ Answered("complete", TRUE) /\ Return(<<>>)
       \/ Answered("complete", FALSE) /\ errs' = <<"complete">> /\ Goto("abort")
    /\ UNCHANGED <<size, cancelled, request, uploadId, index, network, answers,
                   service>>

AbortAnswered ==
    /\ Answered("abort", TRUE)
    /\ Return(errs)
    /\ UNCHANGED <<size, cancelled, request, uploadId, index, network, answers,
                   service>>

Cancel ==
    /\ ~cancelled /\ pc # "returned"
    /\ cancelled' = TRUE
    /\ UNCHANGED <<size, pc, request, uploadId, index, errs, network, answers,
                   service>>

-----------------------------------------------------------------------------
(* The service (external) *)

Answer(r, id, usable) ==
    answers' = answers \cup {[to |-> r, id |-> id, usable |-> usable]}

\* Every answer may also come back without what the uploader needs in it.
HandlePut(r) ==
    /\ r.op = "put"
    /\ object' = <<r.range>>
    /\ \E usable \in BOOLEAN : Answer(r, NoId, usable)
    /\ UNCHANGED <<sessions, parts>>

HandleCreate(r) ==
    /\ r.op = "create"
    /\ \E id \in Ids :
        /\ sessions[id] = "unused"
        /\ \A other \in Ids : sessions[other] = "unused" => id <= other
        /\ sessions' = [sessions EXCEPT ![id] = "open"]
        /\ \E told \in {id, NoId} : Answer(r, told, TRUE)
    /\ UNCHANGED <<parts, object>>

HandlePart(r) ==
    /\ r.op = "part"
    /\ sessions[r.id] = "open"
    /\ parts' = [parts EXCEPT ![r.id] =
                    [n \in DOMAIN @ \cup {r.part} |->
                        IF n = r.part THEN r.range ELSE @[n]]]
    /\ \E usable \in BOOLEAN : Answer(r, NoId, usable)
    /\ UNCHANGED <<sessions, object>>

\* The uploader lists the parts it has uploaded; the service joins them in order.
HandleComplete(r) ==
    /\ r.op = "complete"
    /\ sessions[r.id] = "open"
    /\ sessions' = [sessions EXCEPT ![r.id] = "completed"]
    /\ object' = parts[r.id]
    /\ \E usable \in BOOLEAN : Answer(r, NoId, usable)
    /\ UNCHANGED parts

\* An abort of a session that is gone is answered with an error (CallFails).
HandleAbort(r) ==
    /\ r.op = "abort"
    /\ sessions[r.id] = "open"
    /\ sessions' = [sessions EXCEPT ![r.id] = "aborted"]
    /\ Answer(r, NoId, TRUE)
    /\ UNCHANGED <<parts, object>>

Service ==
    /\ \E r \in network :
        \/ HandlePut(r) \/ HandleCreate(r) \/ HandlePart(r) \/ HandleComplete(r)
        \/ HandleAbort(r)
    /\ UNCHANGED <<client, network>>

Answers ==
    PutAnswered \/ CreateAnswered \/ PartAnswered \/ CompleteAnswered \/ AbortAnswered

Done == pc = "returned" /\ UNCHANGED vars

Next == Refuse \/ Begin \/ Send \/ Answers \/ CallFails \/ Cancel \/ Service \/ Done

Spec == Init /\ [][Next]_vars

\* The uploader goes on while it can.  A call is only sure to end when its
\* context is done: after a cancellation, and, for the abort, after its timeout.
Fairness ==
    /\ WF_vars(Refuse \/ Begin \/ Send \/ Answers)
    /\ WF_vars(CallFails /\ (cancelled \/ request.op = "abort"))

FairSpec == Spec /\ Fairness

-----------------------------------------------------------------------------
(* Properties *)

\* The object, whenever there is one, is the staged file: its parts follow one
\* another from the first byte to the last, none is outside the sizes that S3
\* accepts, and there are not too many of them.  So it is for repeated, late
\* and reordered requests.
ObjectIsWhole ==
    object # NoObject =>
        LET n == Len(object)
            End(i) == object[i].offset + object[i].length
        IN  /\ object[1].offset = 0 /\ End(n) = size
            /\ \A i \in 1 .. n - 1 : object[i + 1].offset = End(i)
            /\ n > 1 => /\ n <= MaxPartCount
                        /\ \A i \in 1 .. n - 1 :
                              object[i].length \in MinPartSize .. MaxPartSize
                        /\ object[n].length \in 1 .. MaxPartSize

\* A nil error means that the object is there and that the session the
\* uploader used is closed.
SuccessIsStored ==
    (pc = "returned" /\ errs = <<>>) =>
        /\ object # NoObject
        /\ uploadId # NoId => sessions[uploadId] = "completed"

\* A failure after a usable upload ID was aborted: either the abort error is
\* joined behind the primary one, or the session is gone and no object was, or
\* ever will be, made of it.
FailureIsAborted ==
    (pc = "returned" /\ errs # <<>> /\ uploadId # NoId) =>
        \/ Len(errs) = 2 /\ errs[1] # "abort" /\ errs[2] = "abort"
        \/ Len(errs) = 1 /\ sessions[uploadId] = "aborted" /\ object = NoObject

\* What the caller is told is so at the service.
OutcomeTellsTruth == SuccessIsStored /\ FailureIsAborted

\* A cancelled upload returns, even when the service has stopped answering:
\* the abort, which cancellation does not reach, has a timeout.
CancelledUploadReturns == cancelled ~> pc = "returned"
=============================================================================
