-------------------------- MODULE MultipartProofs --------------------------
(* Proofs about multipartPlan and the upload that follows it, for every file *)
(* size, configured part size and limit, and any number of sessions: TLC     *)
(* tries a few small ones, the code runs with 5 MiB, 5 GiB and 10 000.       *)
EXTENDS MultipartUpload, TLAPS

-----------------------------------------------------------------------------
(* The plan *)

\* Multiplying a bound by a natural number.
LEMMA Monotone ==
  ASSUME NEW a \in Nat, NEW b \in Nat, NEW c \in Nat, a <= b
  PROVE  a * c <= b * c
  BY SMT

\* A product is only below another one if its factor is.
LEMMA LessFactor ==
  ASSUME NEW a \in Nat, NEW b \in Nat, NEW c \in Nat \ {0}, a * c < b * c
  PROVE  a < b
  <1>1. SUFFICES ASSUME b <= a PROVE FALSE
    OBVIOUS
  <1>. QED
    BY <1>1, Monotone

\* divideRoundUp is the smallest number of divisors that reach the value.
LEMMA RoundUp ==
  ASSUME NEW v \in Nat, NEW d \in Nat \ {0}
  PROVE  /\ DivideRoundUp(v, d) \in Nat
         /\ v <= DivideRoundUp(v, d) * d
         /\ DivideRoundUp(v, d) * d < v + d
         /\ v > 0 => DivideRoundUp(v, d) > 0
  <1>. DEFINE q == v \div d
              r == v % d
  <1>1. q \in Nat /\ r \in 0 .. d - 1 /\ v = d * q + r
    BY SMT
  <1>. HIDE DEF q, r
  <1>2. CASE r = 0
    <2>1. DivideRoundUp(v, d) = q
      BY <1>1, <1>2 DEF DivideRoundUp, q, r
    <2>2. d * q = q * d /\ 0 * d = 0
      BY <1>1
    <2>. QED
      BY <1>1, <1>2, <2>1, <2>2
  <1>3. CASE r # 0
    <2>1. DivideRoundUp(v, d) = q + 1
      BY <1>1, <1>3 DEF DivideRoundUp, q, r
    <2>2. (q + 1) * d = d * q + d
      BY <1>1
    <2>. QED
      BY <1>1, <1>3, <2>1, <2>2
  <1>. QED
    BY <1>1, <1>2, <1>3

\* No smaller number of divisors reaches the value.
LEMMA RoundUpLeast ==
  ASSUME NEW v \in Nat, NEW d \in Nat \ {0}, NEW n \in Nat, v <= n * d
  PROVE  DivideRoundUp(v, d) <= n
  <1>. DEFINE q == DivideRoundUp(v, d)
  <1>1. q \in Nat /\ q * d < v + d
    BY RoundUp
  <1>. HIDE DEF q
  <1>2. n * d + d = (n + 1) * d
    OBVIOUS
  <1>3. q * d < (n + 1) * d
    <2>1. q * d \in Nat /\ n * d \in Nat
      BY <1>1
    <2>. QED
      BY <1>1, <1>2, <2>1
  <1>4. q < n + 1
    BY <1>1, <1>3, LessFactor
  <1>. QED
    BY <1>1, <1>4 DEF q

-----------------------------------------------------------------------------

\* The part size lies between the smallest one S3 accepts and what the file
\* needs, and is a number of bytes.
LEMMA PartSizeBounds ==
  ASSUME NEW bytes \in Nat \ {0}, NEW configured \in Nat
  PROVE  /\ PartSize(bytes, configured) \in Nat \ {0}
         /\ MinPartSize <= PartSize(bytes, configured)
         /\ DivideRoundUp(bytes, MaxPartCount) <= PartSize(bytes, configured)
  <1>1. DivideRoundUp(bytes, MaxPartCount) \in Nat
    BY RoundUp, PlanAssumption
  <1>. QED
    BY <1>1, PlanAssumption DEF PartSize, Larger

\* Every file within the S3 object limit has a valid plan, whatever part size
\* up to the largest one is configured: multipartPlan refuses none of them.
THEOREM PlanAlwaysValid ==
  ASSUME NEW bytes \in 0 .. MaxObjectSize, NEW configured \in 0 .. MaxPartSize
  PROVE  PlanIsValid(bytes, configured)
  <1>1. MaxObjectSize \in Nat /\ bytes \in Nat /\ configured \in Nat
    BY PlanAssumption DEF MaxObjectSize
  <1>2. CASE bytes = 0
    BY <1>1, <1>2, PlanAssumption DEF PlanIsValid, PartSize, PartCount
  <1>3. CASE bytes # 0
    <2>. DEFINE ps == PartSize(bytes, configured)
                required == DivideRoundUp(bytes, MaxPartCount)
    <2>1. /\ ps \in Nat \ {0} /\ required \in Nat /\ required <= ps
          /\ bytes <= required * MaxPartCount
      BY <1>1, <1>3, PartSizeBounds, RoundUp, PlanAssumption
    <2>2. ps <= MaxPartSize
      <3>1. required <= MaxPartSize
        BY <1>1, RoundUpLeast, PlanAssumption DEF MaxObjectSize
      <3>. QED
        BY <1>1, <1>3, <2>1, <3>1, PlanAssumption DEF PartSize, Larger
    <2>3. bytes <= MaxPartCount * ps
      <3>1. required * MaxPartCount <= ps * MaxPartCount
        BY <2>1, Monotone, PlanAssumption
      <3>2. /\ required * MaxPartCount \in Nat
            /\ ps * MaxPartCount = MaxPartCount * ps /\ ps * MaxPartCount \in Nat
        BY <2>1, PlanAssumption
      <3>. QED
        BY <1>1, <2>1, <3>1, <3>2
    <2>4. PartCount(bytes, configured) <= MaxPartCount
      BY <1>1, <1>3, <2>1, <2>3, RoundUpLeast, PlanAssumption DEF PartCount
    <2>5. PartCount(bytes, configured) >= 1
      <3>1. DivideRoundUp(bytes, ps) \in Nat /\ DivideRoundUp(bytes, ps) > 0
        <4>1. bytes \in Nat /\ bytes > 0 /\ ps \in Nat \ {0}
          BY <1>1, <1>3, <2>1
        <4>. HIDE DEF ps
        <4>. QED
          BY <4>1, RoundUp
      <3>. QED
        BY <1>3, <3>1 DEF PartCount
    <2>. QED
      BY <1>1, <2>2, <2>4, <2>5 DEF PlanIsValid
  <1>. QED
    BY <1>2, <1>3

\* The parts tile the file: each starts where the one before it ends, all but
\* the last are full, none is empty, and the last ends with the file.
THEOREM PartsTileFile ==
  ASSUME NEW bytes \in Nat \ {0}, NEW configured \in Nat,
         NEW section \in 0 .. PartCount(bytes, configured) - 1
  PROVE  LET partSize == PartSize(bytes, configured)
             Offset(i) == PartOffset(bytes, configured, i)
             length    == PartLength(bytes, configured, section)
         IN  /\ MinPartSize <= partSize
             /\ length \in 1 .. partSize
             /\ IF section < PartCount(bytes, configured) - 1
                  THEN length = partSize /\ Offset(section + 1) = Offset(section) + length
                  ELSE Offset(section) + length = bytes
  <1>. DEFINE ps == PartSize(bytes, configured)
              n == PartCount(bytes, configured)
              offset == section * ps
  <1>1. ps \in Nat \ {0} /\ MinPartSize <= ps
    BY PartSizeBounds
  <1>2. n \in Nat /\ bytes <= n * ps /\ n * ps < bytes + ps
    BY <1>1, RoundUp DEF PartCount
  <1>3. section \in Nat /\ section <= n - 1
    BY <1>2
  <1>. HIDE DEF ps, n
  <1>4. n * ps \in Nat /\ offset \in Nat /\ (section + 1) * ps = offset + ps
    BY <1>1, <1>2, <1>3
  <1>5. PartLength(bytes, configured, section)
          = IF ps < bytes - offset THEN ps ELSE bytes - offset
    BY DEF PartLength, PartOffset, Smaller, ps
  <1>6. CASE section < n - 1
    <2>1. (section + 2) * ps <= n * ps
      BY <1>1, <1>2, <1>3, <1>6, Monotone
    <2>2. (section + 2) * ps = offset + ps + ps
      BY <1>1, <1>3
    <2>3. ps < bytes - offset
      BY <1>1, <1>2, <1>4, <2>1, <2>2
    <2>. QED
      BY <1>1, <1>4, <1>5, <1>6, <2>3 DEF PartOffset, ps, n
  <1>7. CASE section = n - 1
    <2>1. n * ps = offset + ps
      BY <1>1, <1>2, <1>3, <1>4, <1>7
    <2>2. 0 < bytes - offset /\ bytes - offset <= ps
      BY <1>1, <1>2, <1>4, <2>1
    <2>. QED
      BY <1>1, <1>3, <1>4, <1>5, <1>7, <2>2 DEF PartOffset, ps, n
  <1>. QED
    BY <1>2, <1>3, <1>6, <1>7

-----------------------------------------------------------------------------
(* The inductive invariant of the upload *)

Types ==
    /\ size \in Nat /\ cancelled \in BOOLEAN /\ index \in Nat
    /\ pc \in {"start", "sent", "returned"} \cup Operations
    /\ pc = "sent" => request.op \in Operations /\ request = Current(request.op)
    /\ uploadId \in Ids \cup {NoId}
    /\ sessions \in [Ids -> {"unused", "open", "completed", "aborted"}]
    /\ parts = [id \in Ids |-> parts[id]]

Multipart == size > Threshold /\ PlanIsValid(size, ConfiguredSize)
SectionOf(n) == Range(n - 1)

\* The operation the uploader is at, sent or not.
Doing == IF pc = "sent" THEN request.op ELSE pc

\* What is known at each operation.
Path ==
    /\ Doing = "start" => network = {}
    /\ Doing \in {"start", "put", "create"} => uploadId = NoId
    /\ Doing = "put" => size <= Threshold
    /\ Doing = "create" => Multipart
    /\ Doing \in {"part", "complete", "abort"} => uploadId # NoId
    /\ uploadId = NoId => index = 0
    /\ uploadId # NoId => Multipart
    /\ Doing = "part" => index < Count
    /\ Doing = "complete" => index = Count
    /\ Doing = "abort" => errs = <<"part">> \/ errs = <<"complete">>

\* The requests that the service may still handle.
RequestOK(r) ==
    /\ r.op \in Operations
    /\ r.op = "put" => size <= Threshold /\ r.range = Whole
    /\ r.op \in {"part", "complete", "abort"} => uploadId # NoId /\ r.id = uploadId
    /\ r.op = "part" => r.part \in 1 .. Count /\ r.range = SectionOf(r.part)
    /\ r.op = "complete" => index = Count

\* An answer is true, and stays so.
AnswerOK(a) ==
    /\ a.to \in network
    /\ a.to.op = "create" => a.id \in Ids \cup {NoId}
    /\ a.to.op \in {"put", "complete"} => object # NoObject
    /\ a.to.op = "part" => a.to.part \in DOMAIN parts[a.to.id]
    /\ a.to.op = "complete" => sessions[a.to.id] = "completed"
    /\ a.to.op = "abort" => sessions[a.to.id] = "aborted"

\* What the service holds: sections of the file, those uploaded among them, and
\* an object that is the file itself or all its sections.
StoreOK ==
    /\ \A id \in Ids : parts[id] = [n \in DOMAIN parts[id] |-> SectionOf(n)]
    /\ \A id \in Ids : DOMAIN parts[id] \subseteq 1 .. Count
    /\ \A n \in 1 .. index : n \in DOMAIN parts[uploadId]
    /\ object # NoObject =>
          \/ size <= Threshold /\ object = <<Whole>>
          \/ /\ uploadId # NoId /\ sessions[uploadId] = "completed"
             /\ object = [n \in 1 .. Count |-> SectionOf(n)]

IInv ==
    /\ Types /\ Path /\ StoreOK /\ OutcomeTellsTruth
    /\ \A r \in network : RequestOK(r)
    /\ \A a \in answers : AnswerOK(a)

\* What the plan says of the sections of the file.
LEMMA Sections ==
  ASSUME size \in Nat, Multipart
  PROVE  /\ Count \in Nat \ {0} /\ Count <= MaxPartCount
         /\ SectionOf(1).offset = 0
         /\ SectionOf(Count).offset + SectionOf(Count).length = size
         /\ \A n \in 1 .. Count : SectionOf(n).length \in 1 .. MaxPartSize
         /\ \A n \in 1 .. Count - 1 :
              /\ SectionOf(n).length \in MinPartSize .. MaxPartSize
              /\ SectionOf(n + 1).offset = SectionOf(n).offset + SectionOf(n).length
<1> DEFINE ps == PartSize(size, ConfiguredSize)
<1>1. /\ size \in Nat \ {0} /\ ConfiguredSize \in Nat
      /\ MinPartSize \in Nat /\ MaxPartSize \in Nat
  BY UploadAssumption, PlanAssumption DEF Multipart
<1>2. ps \in Nat \ {0} /\ MinPartSize <= ps /\ ps <= MaxPartSize
  BY <1>1, PartSizeBounds DEF Multipart, PlanIsValid
<1>3. Count \in Nat \ {0} /\ Count <= MaxPartCount
  <2>1. Count \in Nat
    BY <1>1, <1>2, RoundUp DEF Count, PartCount
  <2>2. QED
    BY <1>1, <2>1 DEF Multipart, PlanIsValid, Count
<1>4. SectionOf(1).offset = 0
  BY <1>2 DEF SectionOf, Range, PartOffset
<1>5. ASSUME NEW n \in 1 .. Count
      PROVE  /\ SectionOf(n).length \in 1 .. ps
             /\ IF n < Count
                  THEN /\ SectionOf(n).length = ps
                       /\ SectionOf(n + 1).offset
                            = SectionOf(n).offset + SectionOf(n).length
                  ELSE SectionOf(n).offset + SectionOf(n).length = size
  <2>1. n - 1 \in 0 .. Count - 1 /\ (n + 1) - 1 = (n - 1) + 1
        /\ (n < Count <=> n - 1 < Count - 1)
    BY <1>3
  <2>2. QED
    BY <1>1, <2>1, PartsTileFile DEF SectionOf, Range, Count
<1> HIDE DEF ps
<1>6. SectionOf(Count).offset + SectionOf(Count).length = size
  BY <1>3, <1>5
<1>7. \A n \in 1 .. Count : SectionOf(n).length \in 1 .. MaxPartSize
  BY <1>1, <1>2, <1>5
<1>8. ASSUME NEW n \in 1 .. Count - 1
      PROVE  /\ SectionOf(n).length \in MinPartSize .. MaxPartSize
             /\ SectionOf(n + 1).offset = SectionOf(n).offset + SectionOf(n).length
  <2>1. n \in 1 .. Count /\ n < Count
    BY <1>3
  <2>2. QED
    BY <1>1, <1>2, <1>5, <2>1
<1>9. QED
  BY <1>3, <1>4, <1>6, <1>7, <1>8

\* An object that is the file or all its sections is whole.
LEMMA StoredIsWhole ==
  ASSUME Types, Path, StoreOK
  PROVE  ObjectIsWhole
<1> SUFFICES ASSUME object # NoObject
             PROVE  ObjectIsWhole
  BY DEF ObjectIsWhole
<1>1. CASE object = <<Whole>>
  BY <1>1 DEF ObjectIsWhole, Whole, Types
<1>2. CASE uploadId # NoId /\ object = [n \in 1 .. Count |-> SectionOf(n)]
  <2>1. Multipart /\ size \in Nat
    BY <1>2 DEF Path, Types
  <2>2. Count \in Nat \ {0} /\ Len(object) = Count
    BY <1>2, <2>1, Sections
  <2>3. \A n \in 1 .. Count : object[n] = SectionOf(n)
    BY <1>2
  <2>4. 1 \in 1 .. Count /\ Count \in 1 .. Count
        /\ \A n \in 1 .. Count - 1 : n \in 1 .. Count /\ n + 1 \in 1 .. Count
    BY <2>2
  <2>5. object[1].offset = 0 /\ object[Count].offset + object[Count].length = size
    BY <2>1, <2>3, <2>4, Sections
  <2>6. \A n \in 1 .. Count - 1 :
          /\ object[n].length \in MinPartSize .. MaxPartSize
          /\ object[n + 1].offset = object[n].offset + object[n].length
    BY <2>1, <2>3, <2>4, Sections
  <2>7. Count <= MaxPartCount /\ object[Count].length \in 1 .. MaxPartSize
    BY <2>1, <2>3, <2>4, Sections
  <2>8. QED
    BY <2>2, <2>5, <2>6, <2>7 DEF ObjectIsWhole
<1>3. QED
  BY <1>1, <1>2 DEF StoreOK

\* At the start there is nothing in the network and nothing in the store.
LEMMA InitInvariant == Init => IInv
<1> SUFFICES ASSUME Init
             PROVE  IInv
  OBVIOUS
<1>1. Types
  <2>1. size \in Nat /\ index \in Nat /\ cancelled \in BOOLEAN
    <3>1. size \in 0 .. MaxSize /\ MaxSize \in Nat /\ index = 0
      BY UploadAssumption DEF Init
    <3>2. size \in Nat /\ index \in Nat
      BY <3>1
    <3>3. cancelled \in BOOLEAN
      BY DEF Init
    <3>4. QED
      BY <3>2, <3>3
  <2>2. sessions \in [Ids -> {"unused", "open", "completed", "aborted"}]
    BY DEF Init
  <2>3. parts = [id \in Ids |-> parts[id]]
    BY DEF Init
  <2>4. QED
    BY <2>1, <2>2, <2>3 DEF Init, Types
<1>2. Path /\ OutcomeTellsTruth
  BY DEF Init, Path, Doing, OutcomeTellsTruth, SuccessIsStored, FailureIsAborted
<1>3. StoreOK
  BY DEF Init, StoreOK
<1>4. QED
  BY <1>1, <1>2, <1>3 DEF Init, IInv

-----------------------------------------------------------------------------
(* Steps of the uploader *)

\* The request that the uploader sends names its session and its section.
LEMMA CurrentRequest ==
  ASSUME NEW op \in Operations
  PROVE  /\ Current(op).op = op
         /\ op = "put" => Current(op).range = Whole
         /\ op \in {"part", "complete", "abort"} => Current(op).id = uploadId
         /\ op = "part" => Current(op).part = index + 1 /\ Current(op).range = Range(index)
BY DEF Current, Request, Operations

\* A step that neither asks nor learns anything leaves the service as it was.
LEMMA UploaderStepKeeps ==
  ASSUME IInv, UNCHANGED <<size, uploadId, index, network, answers, service>>,
         Types', Path', OutcomeTellsTruth'
  PROVE  IInv'
<1>1. StoreOK'
  BY DEF IInv, StoreOK, service, Whole, SectionOf, Range, Count
<1>2. \A r \in network' : RequestOK(r)'
  BY DEF IInv, RequestOK, Whole, SectionOf, Range, Count
<1>3. \A a \in answers' : AnswerOK(a)'
  BY DEF IInv, AnswerOK, service
<1>4. QED
  BY <1>1, <1>2, <1>3 DEF IInv

\* Before the first request, and a cancellation.
LEMMA BeginKeeps ==
  ASSUME IInv, Refuse \/ Begin \/ Cancel
  PROVE  IInv'
<1> USE DEF Goto, Return, Operations
<1>1. UNCHANGED <<size, uploadId, index, network, answers, service, request>>
  BY DEF Refuse, Begin, Cancel
<1>2. Types'
  BY <1>1 DEF IInv, Types, Refuse, Begin, Cancel, service, Current, Whole, Range
<1>3. Path'
  <2>1. CASE Refuse
    BY <1>1, <2>1 DEF IInv, Path, Doing, Refuse, Multipart, Count
  <2>2. CASE Begin
    <3>1. pc = "start" /\ Multipart' = Multipart
          /\ \/ pc' = "put" /\ size <= Threshold
             \/ pc' = "create" /\ Multipart
      BY <2>2, UploadAssumption DEF Begin, IInv, Types, Multipart
    <3>2. QED
      BY <1>1, <3>1 DEF IInv, Path, Doing
  <2>3. CASE Cancel
    BY <1>1, <2>3 DEF IInv, Path, Doing, Cancel, Multipart, Count
  <2>4. QED
    BY <2>1, <2>2, <2>3
<1>4. OutcomeTellsTruth'
  BY <1>1 DEF IInv, Path, Doing, Refuse, Begin, Cancel, service, OutcomeTellsTruth,
              SuccessIsStored, FailureIsAborted
<1>5. QED
  BY <1>1, <1>2, <1>3, <1>4, UploaderStepKeeps

\* A request that goes out says what the uploader is at.
LEMMA SendKeeps ==
  ASSUME IInv, Send
  PROVE  IInv'
<1>1. /\ pc \in Operations /\ pc' = "sent" /\ request' = Current(pc)
      /\ network' = network \cup {Current(pc)}
      /\ UNCHANGED <<size, cancelled, uploadId, index, errs, answers, service>>
  BY DEF Send, Goto
<1>2. request'.op = pc /\ Doing = pc /\ Doing' = pc
  BY <1>1, CurrentRequest DEF Doing, Operations
<1>3. Types'
  BY <1>1, <1>2 DEF IInv, Types, service, Current, Whole, Range
<1>4. Path'
  BY <1>1, <1>2 DEF IInv, Path, Multipart, Count, Operations
<1>5. StoreOK'
  BY <1>1 DEF IInv, StoreOK, service, Whole, SectionOf, Range, Count
<1>6. RequestOK(Current(pc))
  <2>1. pc = "part" => /\ index + 1 \in 1 .. Count /\ index = (index + 1) - 1
    <3>1. pc = "part" => index < Count /\ Multipart
      BY <1>2 DEF IInv, Path
    <3>2. QED
      BY <3>1, Sections DEF IInv, Types
  <2>2. pc = "put" => size <= Threshold
    BY <1>2 DEF IInv, Path
  <2>3. pc = "complete" => index = Count
    BY <1>2 DEF IInv, Path
  <2>4. pc \in {"part", "complete", "abort"} => uploadId # NoId
    BY <1>2 DEF IInv, Path
  <2>5. QED
    BY <1>1, <2>1, <2>2, <2>3, <2>4, CurrentRequest DEF RequestOK, SectionOf
<1>7. \A r \in network' : RequestOK(r)'
  BY <1>1, <1>6 DEF IInv, RequestOK, Whole, SectionOf, Range, Count
<1>8. \A a \in answers' : AnswerOK(a)'
  BY <1>1 DEF IInv, AnswerOK, service
<1>9. OutcomeTellsTruth'
  BY <1>1 DEF OutcomeTellsTruth, SuccessIsStored, FailureIsAborted
<1>10. QED
  BY <1>3, <1>4, <1>5, <1>7, <1>8, <1>9 DEF IInv

\* After a call the uploader returns, or goes on to the abort.
LEMMA EndingKeeps ==
  ASSUME IInv,
         UNCHANGED <<size, cancelled, request, uploadId, index, network, answers, service>>,
         \/ pc' = "returned"
         \/ pc' = "abort" /\ uploadId # NoId /\ errs' \in {<<"part">>, <<"complete">>},
         OutcomeTellsTruth'
  PROVE  IInv'
<1>1. Types'
  BY DEF IInv, Types, Operations, service
<1>2. Doing' = pc'
  BY DEF Doing
<1>3. Path'
  BY <1>2 DEF IInv, Path, Multipart, Count
<1>4. QED
  BY <1>1, <1>3, UploaderStepKeeps

\* An error ends the upload, or sends it on to the abort of its session.
LEMMA CallFailsKeeps ==
  ASSUME IInv, CallFails
  PROVE  IInv'
<1>1. /\ UNCHANGED <<size, cancelled, request, uploadId, index, network, answers, service>>
      /\ Failed(Doing) /\ Doing \in Operations
  BY DEF CallFails, Doing, IInv, Types, Operations
<1>2. CASE Doing = "abort"
  <2>1. pc' = "returned" /\ errs' = Append(errs, "abort") /\ uploadId # NoId
        /\ (errs = <<"part">> \/ errs = <<"complete">>)
    BY <1>1, <1>2 DEF Failed, Return, Goto, IInv, Path
  <2>2. Len(errs') = 2 /\ errs'[1] \in {"part", "complete"} /\ errs'[2] = "abort"
    <3>1. \A e, a : LET t == Append(<<e>>, a)
                   IN  Len(t) = 2 /\ t[1] = e /\ t[2] = a
      OBVIOUS
    <3>2. QED
      BY <2>1, <3>1
  <2>3. OutcomeTellsTruth'
    BY <2>2 DEF OutcomeTellsTruth, SuccessIsStored, FailureIsAborted
  <2>4. QED
    BY <1>1, <2>1, <2>3, EndingKeeps
<1>3. CASE Doing \in {"put", "create"}
  <2>1. pc' = "returned" /\ errs' = <<Doing>> /\ uploadId = NoId
    BY <1>1, <1>3 DEF Failed, Return, Goto, IInv, Path
  <2>2. OutcomeTellsTruth'
    BY <1>1, <2>1 DEF OutcomeTellsTruth, SuccessIsStored, FailureIsAborted
  <2>3. QED
    BY <1>1, <2>1, <2>2, EndingKeeps
<1>4. CASE Doing \in {"part", "complete"}
  <2>1. pc' = "abort" /\ errs' = <<Doing>> /\ uploadId # NoId
    BY <1>1, <1>4 DEF Failed, Goto, IInv, Path
  <2>2. OutcomeTellsTruth'
    BY <2>1 DEF OutcomeTellsTruth, SuccessIsStored, FailureIsAborted
  <2>3. QED
    BY <1>1, <1>4, <2>1, <2>2, EndingKeeps
<1>5. QED
  BY <1>1, <1>2, <1>3, <1>4 DEF Operations

\* The answers that end the upload or leave what the uploader knows as it was.
LEMMA PlainAnswerKeeps ==
  ASSUME IInv, PutAnswered \/ CompleteAnswered \/ AbortAnswered
  PROVE  IInv'
<1>1. /\ UNCHANGED <<size, cancelled, request, uploadId, index, network, answers, service>>
      /\ pc = "sent" /\ Doing = request.op /\ request = Current(request.op)
  BY DEF PutAnswered, CompleteAnswered, AbortAnswered, Answered, Doing, IInv, Types
<1>2. CASE PutAnswered
  <2>1. /\ Doing = "put" /\ pc' = "returned" /\ uploadId = NoId
        /\ (errs' = <<>> /\ object # NoObject) \/ errs' = <<"put">>
    BY <1>1, <1>2 DEF PutAnswered, Answered, Return, Goto, IInv, Path, AnswerOK
  <2>2. OutcomeTellsTruth'
    BY <1>1, <2>1 DEF OutcomeTellsTruth, SuccessIsStored, FailureIsAborted, service
  <2>3. QED
    BY <1>1, <2>1, <2>2, EndingKeeps
<1>3. CASE CompleteAnswered
  <2>1. Doing = "complete" /\ uploadId # NoId /\ request.id = uploadId
    BY <1>1, <1>3, CurrentRequest
    DEF CompleteAnswered, Answered, IInv, Path, Operations
  <2>2. CASE /\ Answered("complete", TRUE) /\ pc' = "returned" /\ errs' = <<>>
    <3>1. sessions[uploadId] = "completed" /\ object # NoObject
      BY <2>1, <2>2 DEF Answered, IInv, AnswerOK
    <3>2. OutcomeTellsTruth'
      BY <1>1, <2>2, <3>1 DEF OutcomeTellsTruth, SuccessIsStored, FailureIsAborted,
             service
    <3>3. QED
      BY <1>1, <2>2, <3>2, EndingKeeps
  <2>3. CASE pc' = "abort" /\ errs' = <<"complete">>
    <3>1. OutcomeTellsTruth'
      BY <2>3 DEF OutcomeTellsTruth, SuccessIsStored, FailureIsAborted
    <3>2. QED
      BY <1>1, <2>1, <2>3, <3>1, EndingKeeps
  <2>4. QED
    BY <1>3, <2>2, <2>3 DEF CompleteAnswered, Return, Goto
<1>4. CASE AbortAnswered
  <2>1. /\ Doing = "abort" /\ uploadId # NoId /\ request.id = uploadId
        /\ errs = <<"part">> \/ errs = <<"complete">>
        /\ pc' = "returned" /\ errs' = errs
    BY <1>1, <1>4, CurrentRequest
    DEF AbortAnswered, Answered, IInv, Path, Operations, Return, Goto
  <2>2. sessions[uploadId] = "aborted"
    BY <1>4, <2>1 DEF AbortAnswered, Answered, IInv, AnswerOK
  <2>3. object = NoObject
    BY <2>1, <2>2, UploadAssumption DEF IInv, StoreOK, Path, Multipart, Types
  <2>4. OutcomeTellsTruth'
    BY <1>1, <2>1, <2>2, <2>3
    DEF OutcomeTellsTruth, SuccessIsStored, FailureIsAborted, service
  <2>5. QED
    BY <1>1, <2>1, <2>4, EndingKeeps
<1>5. QED
  BY <1>2, <1>3, <1>4

\* The uploader learns its session, for which nothing was asked before.
LEMMA CreateAnswerKeeps ==
  ASSUME IInv, CreateAnswered
  PROVE  IInv'
<1>1. /\ pc = "sent" /\ request.op = "create"
      /\ UNCHANGED <<size, cancelled, request, index, network, answers, service>>
  BY DEF CreateAnswered
<1>2. PICK a \in answers :
        /\ a.to = request /\ uploadId' = a.id
        /\ IF a.id = NoId THEN Return(<<"create">>)
           ELSE IF cancelled THEN errs' = <<"part">> /\ Goto("abort")
           ELSE Goto("part") /\ UNCHANGED errs
  BY DEF CreateAnswered
<1>3. Doing = "create" /\ uploadId = NoId /\ Multipart /\ index = 0
  BY <1>1 DEF Doing, IInv, Path
<1>4. uploadId' \in Ids \cup {NoId}
  BY <1>1, <1>2 DEF IInv, AnswerOK
<1>5. \/ pc' = "returned" /\ errs' = <<"create">> /\ uploadId' = NoId
      \/ pc' = "abort" /\ errs' = <<"part">> /\ uploadId' # NoId
      \/ pc' = "part" /\ uploadId' # NoId
  BY <1>2 DEF Return, Goto
<1>6. Types'
  BY <1>1, <1>4, <1>5 DEF IInv, Types, Operations, service
<1>7. Count \in Nat /\ 0 < Count
  BY <1>3, Sections DEF IInv, Types
<1>8. Path'
  <2>1. Doing' = pc' /\ Multipart' /\ Count' = Count
    BY <1>1, <1>3, <1>5 DEF Doing, Multipart, Count
  <2>2. QED
    BY <1>1, <1>3, <1>5, <1>7, <2>1 DEF Path
<1>9. StoreOK'
  <2>1. object = NoObject
    BY <1>3, UploadAssumption DEF IInv, StoreOK, Types, Multipart
  <2>2. QED
    BY <1>1, <1>3, <2>1 DEF IInv, StoreOK, service, Whole, SectionOf, Range, Count
<1>10. \A r \in network' : RequestOK(r)'
  BY <1>1, <1>3 DEF IInv, RequestOK, Whole, SectionOf, Range, Count
<1>11. \A b \in answers' : AnswerOK(b)'
  BY <1>1 DEF IInv, AnswerOK, service
<1>12. OutcomeTellsTruth'
  BY <1>5 DEF OutcomeTellsTruth, SuccessIsStored, FailureIsAborted
<1>13. QED
  BY <1>6, <1>8, <1>9, <1>10, <1>11, <1>12 DEF IInv

\* A part that is answered is at the service.
LEMMA PartAnswerKeeps ==
  ASSUME IInv, PartAnswered
  PROVE  IInv'
<1>1. /\ pc = "sent" /\ request.op = "part" /\ request = Current("part")
      /\ UNCHANGED <<size, cancelled, request, uploadId, network, answers, service>>
  BY DEF PartAnswered, Answered, IInv, Types
<1>2. Doing = "part" /\ uploadId # NoId /\ Multipart /\ index < Count
  BY <1>1 DEF Doing, IInv, Path
<1>3. Count \in Nat /\ index \in Nat
  BY <1>2, Sections DEF IInv, Types
<1>4. CASE Answered("part", FALSE) /\ errs' = <<"part">> /\ pc' = "abort" /\ index' = index
  <2>1. OutcomeTellsTruth'
    BY <1>4 DEF OutcomeTellsTruth, SuccessIsStored, FailureIsAborted
  <2>2. QED
    BY <1>1, <1>2, <1>4, <2>1, EndingKeeps
<1>5. CASE /\ Answered("part", TRUE) /\ index' = index + 1
           /\ \/ pc' = "abort" /\ errs' = <<"part">>
              \/ pc' = "part" /\ MoreParts(index + 1)
              \/ pc' = "complete" /\ ~MoreParts(index + 1)
  <2>1. Types'
    BY <1>1, <1>3, <1>5 DEF IInv, Types, Operations, service
  <2>2. Path'
    <3>1. Doing' = pc' /\ (Multipart' <=> Multipart) /\ Count' = Count
      BY <1>1, <1>5 DEF Doing, Multipart, Count
    <3>2. QED
      BY <1>1, <1>2, <1>3, <1>5, <3>1 DEF Path, MoreParts
  <2>3. index + 1 \in DOMAIN parts[uploadId]
    BY <1>1, <1>5, CurrentRequest DEF Answered, IInv, AnswerOK, Operations
  <2>4. StoreOK'
    <3>1. \A n \in 1 .. index' : n \in DOMAIN parts[uploadId]
      BY <1>3, <1>5, <2>3 DEF IInv, StoreOK
    <3>2. QED
      BY <1>1, <3>1 DEF IInv, StoreOK, service, Whole, SectionOf, Range, Count
  <2>5. \A r \in network' : RequestOK(r)'
    <3>1. \A r \in network : r.op # "complete"
      BY <1>2, <1>3 DEF IInv, RequestOK
    <3>2. QED
      BY <1>1, <3>1 DEF IInv, RequestOK, Whole, SectionOf, Range, Count
  <2>6. \A a \in answers' : AnswerOK(a)'
    BY <1>1 DEF IInv, AnswerOK, service
  <2>7. OutcomeTellsTruth'
    BY <1>5 DEF OutcomeTellsTruth, SuccessIsStored, FailureIsAborted
  <2>8. QED
    BY <2>1, <2>2, <2>4, <2>5, <2>6, <2>7 DEF IInv
<1>6. QED
  BY <1>4, <1>5 DEF PartAnswered, Goto

-----------------------------------------------------------------------------
(* Steps of the service *)

\* What is left to show of the handling of a request: a session that ended
\* stays so, an object stays, and no part is forgotten.
LEMMA ServiceStepKeeps ==
  ASSUME IInv, UNCHANGED <<client, network>>,
         NEW r \in network, NEW b, b.to = r, answers' = answers \cup {b}, AnswerOK(b)',
         sessions' \in [Ids -> {"unused", "open", "completed", "aborted"}],
         parts' = [id \in Ids |-> parts'[id]],
         \A id \in Ids : sessions[id] \in {"completed", "aborted"} => sessions'[id] = sessions[id],
         \A id \in Ids : DOMAIN parts[id] \subseteq DOMAIN parts'[id],
         object # NoObject => object' # NoObject,
         StoreOK'
  PROVE  IInv'
<1> USE DEF client
<1>1. Types'
  BY DEF IInv, Types, Current, Whole, Range
<1>2. Path'
  BY DEF IInv, Path, Doing, Multipart, Count
<1>3. \A q \in network' : RequestOK(q)'
  BY DEF IInv, RequestOK, Whole, SectionOf, Range, Count
<1>4. ASSUME NEW a \in answers
      PROVE  AnswerOK(a)'
  <2>1. AnswerOK(a) /\ RequestOK(a.to)
    BY DEF IInv, AnswerOK
  <2>2. a.to.op \in {"part", "complete", "abort"} => a.to.id \in Ids
    BY <2>1 DEF RequestOK, IInv, Types
  <2>3. QED
    BY <2>1, <2>2 DEF AnswerOK
<1>5. OutcomeTellsTruth'
  <2>1. SuccessIsStored'
    BY DEF IInv, Types, OutcomeTellsTruth, SuccessIsStored
  <2>2. FailureIsAborted'
    <3>1. CASE pc = "returned" /\ errs # <<>> /\ uploadId # NoId
               /\ sessions[uploadId] = "aborted" /\ Len(errs) = 1
      <4>1. sessions'[uploadId] = "aborted"
        BY <3>1 DEF IInv, Types
      <4>2. object' = NoObject
        BY <3>1, <4>1, UploadAssumption DEF StoreOK, IInv, Types, Path, Multipart
      <4>3. QED
        BY <3>1, <4>1, <4>2 DEF FailureIsAborted
    <3>2. QED
      BY <3>1 DEF IInv, OutcomeTellsTruth, FailureIsAborted
  <2>3. QED
    BY <2>1, <2>2 DEF OutcomeTellsTruth
<1>6. QED
  BY <1>1, <1>2, <1>3, <1>4, <1>5 DEF IInv

\* A single request puts the whole file.
LEMMA PutKeeps ==
  ASSUME IInv, UNCHANGED <<client, network>>, NEW r \in network, HandlePut(r)
  PROVE  IInv'
<1>1. /\ r.op = "put" /\ size <= Threshold /\ object' = <<Whole>>
      /\ UNCHANGED <<sessions, parts>>
  BY DEF HandlePut, IInv, RequestOK
<1>2. PICK b : b.to = r /\ answers' = answers \cup {b}
  BY DEF HandlePut, Answer
<1>3. object' # NoObject
  BY <1>1 DEF NoObject
<1>4. AnswerOK(b)'
  BY <1>1, <1>2, <1>3 DEF AnswerOK
<1>5. StoreOK'
  BY <1>1 DEF IInv, StoreOK, client, Whole, SectionOf, Range, Count
<1>6. QED
  BY <1>1, <1>2, <1>3, <1>4, <1>5, ServiceStepKeeps DEF IInv, Types

\* A session is opened; the answer may come without its ID.
LEMMA CreateKeeps ==
  ASSUME IInv, UNCHANGED <<client, network>>, NEW r \in network, HandleCreate(r)
  PROVE  IInv'
<1>1. r.op = "create" /\ UNCHANGED <<parts, object>>
  BY DEF HandleCreate
<1>2. PICK id \in Ids :
        /\ sessions[id] = "unused" /\ sessions' = [sessions EXCEPT ![id] = "open"]
        /\ \E told \in {id, NoId} : Answer(r, told, TRUE)
  BY DEF HandleCreate
<1>3. PICK b : b.to = r /\ b.id \in Ids \cup {NoId} /\ answers' = answers \cup {b}
  BY <1>2 DEF Answer
<1>4. /\ sessions' \in [Ids -> {"unused", "open", "completed", "aborted"}]
      /\ \A i \in Ids : sessions[i] \in {"completed", "aborted"} =>
                            sessions'[i] = sessions[i]
  BY <1>2 DEF IInv, Types
<1>5. AnswerOK(b)'
  BY <1>1, <1>3 DEF AnswerOK
<1>6. StoreOK'
  <2>1. /\ Count' = Count /\ \A n : SectionOf(n)' = SectionOf(n)
        /\ UNCHANGED <<index, uploadId, size>> /\ Whole' = Whole
    BY DEF client, Count, SectionOf, Range, Whole
  <2>2. uploadId # NoId /\ sessions[uploadId] = "completed" =>
            sessions'[uploadId] = "completed"
    BY <1>4 DEF IInv, Types
  <2>3. QED
    BY <1>1, <2>1, <2>2 DEF IInv, StoreOK
<1>7. QED
  BY <1>1, <1>3, <1>4, <1>5, <1>6, ServiceStepKeeps DEF IInv, Types

\* A section of the file is stored under its number, again or for the first time.
LEMMA PartKeeps ==
  ASSUME IInv, UNCHANGED <<client, network>>, NEW r \in network, HandlePart(r)
  PROVE  IInv'
<1>1. /\ r.op = "part" /\ r.id = uploadId /\ r.id \in Ids
      /\ r.part \in 1 .. Count /\ r.range = SectionOf(r.part)
      /\ UNCHANGED <<sessions, object>>
  BY DEF HandlePart, IInv, RequestOK, Types
<1>2. PICK b : b.to = r /\ answers' = answers \cup {b}
  BY DEF HandlePart, Answer
<1> DEFINE old == parts[r.id]
           new == [n \in DOMAIN old \cup {r.part} |->
                      IF n = r.part THEN r.range ELSE old[n]]
<1>3. /\ parts' = [id \in Ids |-> parts'[id]] /\ parts'[r.id] = new
      /\ \A id \in Ids \ {r.id} : parts'[id] = parts[id]
  <2>1. parts = [id \in Ids |-> parts[id]]
    BY DEF IInv, Types
  <2>2. parts' = [parts EXCEPT ![r.id] = new]
    BY DEF HandlePart
  <2> HIDE DEF new
  <2>3. QED
    BY <1>1, <2>1, <2>2
<1>4. /\ old = [n \in DOMAIN old |-> SectionOf(n)]
      /\ DOMAIN old \subseteq 1 .. Count
  BY <1>1 DEF IInv, StoreOK
<1>5. /\ DOMAIN new = DOMAIN old \cup {r.part}
      /\ new = [n \in DOMAIN new |-> SectionOf(n)]
  BY <1>1, <1>4
<1> HIDE DEF old, new
<1>6. \A id \in Ids : DOMAIN parts[id] \subseteq DOMAIN parts'[id]
  BY <1>3, <1>5 DEF old
<1>7. AnswerOK(b)'
  BY <1>1, <1>2, <1>3, <1>5 DEF AnswerOK
<1>8. StoreOK'
  <2>1. /\ Count' = Count /\ \A n : SectionOf(n)' = SectionOf(n)
        /\ UNCHANGED <<index, uploadId, size>> /\ Whole' = Whole
    BY DEF client, Count, SectionOf, Range, Whole
  <2>2. \A id \in Ids : parts'[id] = [n \in DOMAIN parts'[id] |-> SectionOf(n)]
    BY <1>3, <1>5 DEF IInv, StoreOK
  <2>3. \A id \in Ids : DOMAIN parts'[id] \subseteq 1 .. Count
    BY <1>1, <1>3, <1>4, <1>5 DEF IInv, StoreOK
  <2>4. \A n \in 1 .. index : n \in DOMAIN parts'[uploadId]
    BY <1>1, <1>6 DEF IInv, StoreOK
  <2>5. QED
    BY <1>1, <2>1, <2>2, <2>3, <2>4 DEF IInv, StoreOK
<1>9. QED
  BY <1>1, <1>2, <1>3, <1>6, <1>7, <1>8, ServiceStepKeeps DEF IInv, Types

\* A completion is only asked for when all sections are there.
LEMMA CompleteKeeps ==
  ASSUME IInv, UNCHANGED <<client, network>>, NEW r \in network, HandleComplete(r)
  PROVE  IInv'
<1>1. /\ r.op = "complete" /\ r.id = uploadId /\ uploadId # NoId /\ r.id \in Ids
      /\ index = Count /\ sessions[r.id] = "open" /\ object' = parts[r.id]
      /\ sessions' = [sessions EXCEPT ![r.id] = "completed"]
      /\ UNCHANGED parts
  BY DEF HandleComplete, IInv, RequestOK, Types
<1>2. PICK b : b.to = r /\ answers' = answers \cup {b}
  BY DEF HandleComplete, Answer
<1>3. /\ sessions' \in [Ids -> {"unused", "open", "completed", "aborted"}]
      /\ sessions'[r.id] = "completed"
      /\ \A i \in Ids : sessions[i] \in {"completed", "aborted"} =>
                            sessions'[i] = sessions[i]
  BY <1>1 DEF IInv, Types
<1>4. DOMAIN parts[r.id] = 1 .. Count
  BY <1>1 DEF IInv, StoreOK
<1>5. object' = [n \in 1 .. Count |-> SectionOf(n)]
  BY <1>1, <1>4 DEF IInv, StoreOK
<1>6. object' # NoObject
  <2>1. Count \in Nat \ {0}
    BY <1>1, Sections DEF IInv, Types, Path
  <2>2. DOMAIN object' # {}
    BY <1>5, <2>1
  <2>3. QED
    BY <2>2 DEF NoObject
<1>7. AnswerOK(b)'
  BY <1>1, <1>2, <1>3, <1>6 DEF AnswerOK
<1>8. StoreOK'
  <2>1. /\ Count' = Count /\ \A n : SectionOf(n)' = SectionOf(n)
        /\ UNCHANGED <<index, uploadId, size>>
    BY DEF client, Count, SectionOf, Range
  <2>2. object' = [n \in 1 .. Count' |-> SectionOf(n)']
    BY <1>5, <2>1
  <2>3. uploadId' # NoId /\ sessions'[uploadId'] = "completed"
    BY <1>1, <1>3, <2>1
  <2>4. /\ \A id \in Ids : parts'[id] = [n \in DOMAIN parts'[id] |-> SectionOf(n)']
        /\ \A id \in Ids : DOMAIN parts'[id] \subseteq 1 .. Count'
        /\ \A n \in 1 .. index' : n \in DOMAIN parts'[uploadId']
    BY <1>1, <2>1 DEF IInv, StoreOK
  <2>5. QED
    BY <2>2, <2>3, <2>4 DEF StoreOK
<1>9. QED
  BY <1>1, <1>2, <1>3, <1>6, <1>7, <1>8, ServiceStepKeeps DEF IInv, Types

\* An open session has no object, and an aborted one never will.
LEMMA AbortKeeps ==
  ASSUME IInv, UNCHANGED <<client, network>>, NEW r \in network, HandleAbort(r)
  PROVE  IInv'
<1>1. /\ r.op = "abort" /\ r.id = uploadId /\ uploadId # NoId /\ r.id \in Ids
      /\ sessions[r.id] = "open" /\ sessions' = [sessions EXCEPT ![r.id] = "aborted"]
      /\ UNCHANGED <<parts, object>>
  BY DEF HandleAbort, IInv, RequestOK, Types
<1>2. PICK b : b.to = r /\ answers' = answers \cup {b}
  BY DEF HandleAbort, Answer
<1>3. /\ sessions' \in [Ids -> {"unused", "open", "completed", "aborted"}]
      /\ sessions'[r.id] = "aborted"
      /\ \A i \in Ids : sessions[i] \in {"completed", "aborted"} =>
                            sessions'[i] = sessions[i]
  BY <1>1 DEF IInv, Types
<1>4. AnswerOK(b)'
  BY <1>1, <1>2, <1>3 DEF AnswerOK
<1>5. StoreOK'
  <2>1. object = NoObject
    BY <1>1, UploadAssumption DEF IInv, StoreOK, Types, Path, Multipart
  <2>2. QED
    BY <1>1, <2>1 DEF IInv, StoreOK, client, SectionOf, Range, Count
<1>6. QED
  BY <1>1, <1>2, <1>3, <1>4, <1>5, ServiceStepKeeps DEF IInv, Types

\* Every step keeps the invariant.
LEMMA NextInvariant == IInv /\ [Next]_vars => IInv'
<1> SUFFICES ASSUME IInv, [Next]_vars
             PROVE  IInv'
  OBVIOUS
<1>1. CASE Refuse \/ Begin \/ Cancel
  BY <1>1, BeginKeeps
<1>2. CASE Send
  BY <1>2, SendKeeps
<1>3. CASE Answers
  BY <1>3, PlainAnswerKeeps, CreateAnswerKeeps, PartAnswerKeeps DEF Answers
<1>4. CASE CallFails
  BY <1>4, CallFailsKeeps
<1>5. CASE Service
  BY <1>5, PutKeeps, CreateKeeps, PartKeeps, CompleteKeeps, AbortKeeps DEF Service
<1>6. CASE UNCHANGED vars
  <2>1. Types'
    BY <1>6 DEF IInv, Types, vars, client, service, Current, Whole, Range
  <2>2. Path'
    BY <1>6 DEF IInv, Path, Doing, Multipart, Count, vars, client
  <2>3. OutcomeTellsTruth'
    BY <1>6 DEF IInv, OutcomeTellsTruth, SuccessIsStored, FailureIsAborted, vars,
           client, service
  <2>4. QED
    BY <1>6, <2>1, <2>2, <2>3, UploaderStepKeeps DEF vars, client
<1>7. QED
  BY <1>1, <1>2, <1>3, <1>4, <1>5, <1>6 DEF Next, Done

-----------------------------------------------------------------------------
(* The theorems of the upload *)

\* The invariant holds in every reachable state.
LEMMA Invariant == Spec => []IInv
BY InitInvariant, NextInvariant, PTL DEF Spec

\* For every file and every limit, and however requests are repeated, delayed or
\* reordered: an object at the service is the whole file, in parts that S3 takes.
THEOREM WholeObject == Spec => []ObjectIsWhole
<1>1. IInv => ObjectIsWhole
  BY StoredIsWhole DEF IInv
<1>2. QED
  BY Invariant, <1>1, PTL

\* Likewise, what Upload returns is so at the service: a stored object, or an
\* aborted session without one, or an error that says that the abort failed.
THEOREM UploadTellsTruth == Spec => []OutcomeTellsTruth
<1>1. IInv => OutcomeTellsTruth
  BY DEF IInv
<1>2. QED
  BY Invariant, <1>1, PTL

=============================================================================
