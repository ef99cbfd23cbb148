--------------------------- MODULE BackupPromise ---------------------------
(***************************************************************************)
(* What `ezdbbackup backup' promises about a set of jobs, without saying   *)
(* how: jobs are decided in name order, an object is only ever made from   *)
(* an artifact on local disk, and a job is called successful only when its *)
(* object exists and its artifact is gone.                                 *)
(***************************************************************************)
EXTENDS Naturals

CONSTANT Names

VARIABLES
    chosen,    \* the jobs the operator asked for
    allowed,   \* the jobs that may run
    outcome,   \* what is known of each job
    object,    \* jobs whose object exists
    onDisk     \* jobs with something in the staging directory

request == <<chosen, allowed>>
promiseVars == <<request, outcome, object, onDisk>>

Init ==
    /\ chosen \in SUBSET Names /\ allowed \in SUBSET Names
    /\ outcome = [n \in Names |-> "pending"]
    /\ object = {}
    /\ onDisk = {}

\* It is the turn of the first undecided job, if every chosen one may run.
Turn(n) ==
    /\ chosen \subseteq allowed
    /\ n \in chosen /\ outcome[n] = "pending"
    /\ \A m \in chosen : m < n => outcome[m] # "pending"

Decide(S, verdict) ==
    outcome' = [n \in Names |-> IF n \in S THEN verdict ELSE outcome[n]]

\* The whole request is refused before any job has left a trace.
Refuse ==
    /\ object = {} /\ onDisk = {}
    /\ \A n \in chosen : outcome[n] = "pending"
    /\ Decide(chosen, "failed")
    /\ UNCHANGED <<request, object, onDisk>>

Stage(n) ==
    /\ Turn(n)
    /\ onDisk' = onDisk \cup {n}
    /\ UNCHANGED <<request, outcome, object>>

Publish(n) ==
    /\ Turn(n)
    /\ n \in onDisk
    /\ object' = object \cup {n}
    /\ UNCHANGED <<request, outcome, onDisk>>

Unstage(n) ==
    /\ Turn(n)
    /\ onDisk' = onDisk \ {n}
    /\ UNCHANGED <<request, outcome, object>>

Succeed(n) ==
    /\ Turn(n)
    /\ n \in object /\ n \notin onDisk
    /\ Decide({n}, "succeeded")
    /\ UNCHANGED <<request, object, onDisk>>

Fail(n) ==
    /\ Turn(n)
    /\ Decide({n}, "failed")
    /\ UNCHANGED <<request, object, onDisk>>

Next ==
    \/ Refuse
    \/ \E n \in Names :
        Stage(n) \/ Publish(n) \/ Unstage(n) \/ Succeed(n) \/ Fail(n)

Spec == Init /\ [][Next]_promiseVars
=============================================================================
