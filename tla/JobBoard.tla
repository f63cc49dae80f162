------------------------------ MODULE JobBoard ------------------------------
(***************************************************************************)
(* What file_worker_jobs promises the processes that ask for jobs, however *)
(* queues and handlers are arranged behind it: a job is asked for once,    *)
(* and settles once, while it is taken; jobs that wait for others are      *)
(* taken together with one other job at most, so that one handler works on *)
(* files at a time.  A job whose process died is never heard of again.     *)
(***************************************************************************)
CONSTANTS
    Jobs,       \* identifiers of jobs
    Waiting,    \* those whose handlers wait for other jobs
    Chained     \* those that are two tasks, the second put by the first

VARIABLE place    \* where each job is

Places == {"none", "queued", "taken", "complete", "failed", "lost"}
vars == <<place>>
TypeOK == place \in [Jobs -> Places]

Init == place = [j \in Jobs |-> "none"]

Moves(j, from, to) ==
    /\ place[j] = from
    /\ place' = [place EXCEPT ![j] = to]

Ask(j) == Moves(j, "none", "queued")

Take(j) ==
    /\ Moves(j, "queued", "taken")
    /\ \A k \in Jobs : place[k] = "taken" => k \in Waiting

\* The first task is over, and the second is queued.
Chain(j) == j \in Chained /\ Moves(j, "taken", "queued")

Complete(j) == Moves(j, "taken", "complete")

\* Some of these jobs end together, in this way; the others stay where they are.
EndTogether(from, to) ==
    /\ place' \in [Jobs -> Places]
    /\ \A j \in Jobs : place'[j] # place[j] => place[j] \in from /\ place'[j] = to

\* A failure may take the jobs with it that wait around it.
Fail == EndTogether({"taken"}, "failed")

\* A process dies with all that it has taken, and what it has queued for itself.
Lose ==
    /\ EndTogether({"queued", "taken"}, "lost")
    /\ \A j \in Jobs : place'[j] # "taken"

Next ==
    \/ Fail
    \/ Lose
    \/ \E j \in Jobs : Ask(j) \/ Take(j) \/ Chain(j) \/ Complete(j)

Spec == Init /\ [][Next]_vars
=============================================================================
