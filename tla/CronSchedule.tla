---------------------------- MODULE CronSchedule ----------------------------
(***************************************************************************)
(* What `cron install', `cron show' and `cron remove' promise: each takes  *)
(* effect at once and at most once, somewhere between its call and its      *)
(* return; an answer `ok' means that it did; none of them acts on a file   *)
(* without the ownership marker.                                           *)
(***************************************************************************)
CONSTANTS Procs, Contents, None, Foreign

VARIABLES
    schedule,   \* None, a content installed by the program, or Foreign
    calls       \* per process: what it asked for, and the answer it will get

promiseVars == <<schedule, calls>>

Idle == [op |-> "idle", content |-> None, answer |-> "none"]
Managed == schedule # Foreign

Init ==
    /\ schedule \in Contents \cup {None, Foreign}
    /\ calls = [p \in Procs |-> Idle]

Pending(p, op) == calls[p].op = op /\ calls[p].answer = "none"

Answer(p, answer) == calls' = [calls EXCEPT ![p].answer = answer]

Call(p) ==
    /\ calls[p] = Idle
    /\ \E op \in {"install", "remove", "show"}, c \in Contents \cup {None} :
        /\ (op = "install") = (c # None)
        /\ calls' = [calls EXCEPT ![p] = [op |-> op, content |-> c, answer |-> "none"]]
    /\ UNCHANGED schedule

Install(p) ==
    /\ Pending(p, "install") /\ Managed
    /\ schedule' = calls[p].content
    /\ Answer(p, "ok")

\* Removing what is not there succeeds.
Remove(p) ==
    /\ Pending(p, "remove") /\ Managed
    /\ schedule' = None
    /\ Answer(p, "ok")

Show(p) ==
    /\ Pending(p, "show") /\ schedule \in Contents
    /\ calls' = [calls EXCEPT ![p] =
           [op |-> "show", content |-> schedule, answer |-> "ok"]]
    /\ UNCHANGED schedule

Refuse(p) ==
    /\ calls[p].op # "idle" /\ calls[p].answer = "none"
    /\ Answer(p, "error")
    /\ UNCHANGED schedule

\* An error after the effect: the lock could not be released.
Blame(p) ==
    /\ calls[p].answer = "ok"
    /\ Answer(p, "error")
    /\ UNCHANGED schedule

\* The call returns, or its process is killed.
Return(p) ==
    /\ calls[p] # Idle
    /\ calls' = [calls EXCEPT ![p] = Idle]
    /\ UNCHANGED schedule

Next ==
    \E p \in Procs :
        Call(p) \/ Install(p) \/ Remove(p) \/ Show(p) \/ Refuse(p) \/ Blame(p)
        \/ Return(p)

Spec == Init /\ [][Next]_promiseVars
=============================================================================
