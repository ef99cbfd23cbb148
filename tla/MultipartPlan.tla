--------------------------- MODULE MultipartPlan ---------------------------
(***************************************************************************)
(* multipartPlan: how a staged file is cut into parts.  The code's limits  *)
(* are 5 MiB, 5 GiB and 10 000 parts; only how they relate to one another  *)
(* matters.  int64 does not overflow: the largest object has MaxPartSize * *)
(* MaxPartCount bytes, far below 2^63, and no operator exceeds it by more  *)
(* than a part.                                                            *)
(***************************************************************************)
EXTENDS Integers

CONSTANTS
    MinPartSize,   \* minimumPartSize
    MaxPartSize,   \* maximumPartSize
    MaxPartCount   \* maximumPartCount

ASSUME PlanAssumption ==
    /\ MinPartSize \in Nat \ {0} /\ MaxPartSize \in Nat \ {0}
    /\ MaxPartCount \in Nat \ {0}
    /\ MinPartSize <= MaxPartSize

MaxObjectSize == MaxPartSize * MaxPartCount

\* Mutant: the last, short part is not counted.
DivideRoundDown(value, divisor) == value \div divisor

DivideRoundUp(value, divisor) ==
    value \div divisor + (IF value % divisor # 0 THEN 1 ELSE 0)

Larger(a, b) == IF a < b THEN b ELSE a
Smaller(a, b) == IF a < b THEN a ELSE b

\* The part size for a size within the limits and a configured part size.
PartSize(size, configured) ==
    IF size = 0 THEN MinPartSize
    ELSE Larger(Larger(configured, MinPartSize),
                DivideRoundUp(size, MaxPartCount))

PartCount(size, configured) ==
    IF size = 0 THEN 0
    ELSE DivideRoundUp(size, PartSize(size, configured))

\* The plan is refused outside these limits.
PlanIsValid(size, configured) ==
    /\ size >= 0 /\ size <= MaxObjectSize
    /\ PartSize(size, configured) <= MaxPartSize
    /\ size > 0 => PartCount(size, configured) >= 1
    /\ PartCount(size, configured) <= MaxPartCount

\* The loop of multipart: where part `index' (from 0) starts, and its length.
PartOffset(size, configured, index) == index * PartSize(size, configured)

PartLength(size, configured, index) ==
    Smaller(PartSize(size, configured),
            size - PartOffset(size, configured, index))
=============================================================================
