----------------------------- MODULE FileWorker -----------------------------
(***************************************************************************)
(* The file worker of wrolpi/files/worker.py: any process puts a task on a *)
(* public queue, and one process (the owner of the perpetual loops, see    *)
(* PerpetualOwner) moves the public queue into a private stack and handles *)
(* the newest task first.  Every task belongs to a job whose status is     *)
(* shared, and the processes that asked for the job poll that status.      *)
(*                                                                         *)
(* A batch reorganization runs inside the consumer and, while it waits for *)
(* the job of its current collection, drains the queues itself: handlers   *)
(* nest.  `stack' holds the handlers that have started and not returned,   *)
(* the innermost first; all of them but the first are batches.             *)
(*                                                                         *)
(* What a handler does to files is not modelled here: it completes, fails, *)
(* is cancelled or dies with its process.                                  *)
(***************************************************************************)
EXTENDS Naturals, Sequences, SequencesExt, FiniteSets

CONSTANTS
    Refresh,       \* refresh jobs
    Move,          \* moves of a collection, each asked for by one process
    Batch,         \* batch reorganizations
    Collections,   \* how many collections each batch covers
    MaxFaults      \* bound on deaths, cancellations and timeouts together

ASSUME CollectionsAssumption == Collections \in [Batch -> Nat \ {0}]
ASSUME MaxFaultsAssumption == MaxFaults \in Nat

\* The job that reorganizes the k-th collection of batch b.
Sub(b, k) == <<b, k>>
SubJobs == UNION {{Sub(b, k) : k \in 1..Collections[b]} : b \in Batch}
Jobs == Refresh \cup Move \cup Batch \cup SubJobs

\* Every job has an identifier of its own: a prefix for its kind, then a uuid.
ASSUME JobsAssumption ==
    /\ Move \cap (Refresh \cup Batch \cup SubJobs) = {}
    /\ Refresh \cap (Batch \cup SubJobs) = {}
    /\ Batch \cap SubJobs = {}

Steps == {"count", "refresh", "move", "reorganize", "batch"}
Task == [job : Jobs, step : Steps]
Statuses == {"none", "pending", "running", "complete", "failed"}
Clients == {"idle", "flagged", "waiting", "moved", "reverted", "gaveup"}

VARIABLES
    public,      \* file_worker_public_queue, oldest first
    private,     \* the consumer's LifoQueue, newest first
    stack,       \* the handlers under way in the consumer, innermost first
    jobs,        \* file_worker_jobs
    at,          \* the collection each batch has reached
    busy,        \* flags.file_worker_busy
    client,      \* where the process that moves a collection has got to
    directory,   \* which directory the database gives that collection
    lost,        \* (history) jobs whose task died with a consumer
    faults       \* (bound) deaths, cancellations and timeouts so far

vars == <<public, private, stack, jobs, at, busy, client, directory, lost, faults>>
clientVars == <<client, directory>>

TypeOK ==
    /\ public \in Seq(Task)
    /\ private \in Seq(Task)
    /\ stack \in Seq(Task)
    /\ jobs \in [Jobs -> Statuses]
    /\ at \in [Batch -> Nat]
    /\ \A b \in Batch : at[b] \in 1..(Collections[b] + 1)
    /\ busy \in BOOLEAN
    /\ client \in [Move -> Clients]
    /\ directory \in [Move -> {"old", "new"}]
    /\ lost \subseteq Jobs
    /\ faults \in 0..MaxFaults

Init ==
    /\ public = <<>> /\ private = <<>> /\ stack = <<>>
    /\ jobs = [j \in Jobs |-> "none"]
    /\ at = [b \in Batch |-> 1]
    /\ busy = FALSE
    /\ client = [m \in Move |-> "idle"]
    /\ directory = [m \in Move |-> "old"]
    /\ lost = {}
    /\ faults = 0

JobsOf(seq) == {seq[i].job : i \in DOMAIN seq}
JobsDiffer(seq) == \A i, k \in DOMAIN seq : seq[i].job = seq[k].job => i = k
Held == JobsOf(public) \cup JobsOf(private) \cup JobsOf(stack)
Settled == {"complete", "failed"}
Top == Head(stack)
Fault == faults < MaxFaults /\ faults' = faults + 1

\* `queue_refresh' and its siblings: record the job, then put its task.
Put(job, step) ==
    /\ jobs' = [jobs EXCEPT ![job] = "pending"]
    /\ public' = Append(public, [job |-> job, step |-> step])

-----------------------------------------------------------------------------
(* The processes that ask for jobs.                                        *)

QueueRefresh(r) ==
    /\ jobs[r] = "none"
    /\ Put(r, "count")
    /\ UNCHANGED <<private, stack, at, busy, clientVars, lost, faults>>

QueueBatch(b) ==
    /\ jobs[b] = "none"
    /\ Put(b, "batch")
    /\ UNCHANGED <<private, stack, at, busy, clientVars, lost, faults>>

\* `with flags.file_worker_busy:' raises when the flag is set.  Inside it the
\* collection and its downloads are given the new directory and committed.
MoveEnters(m) ==
    /\ client[m] = "idle"
    /\ ~busy
    /\ busy' = TRUE
    /\ client' = [client EXCEPT ![m] = "flagged"]
    /\ directory' = [directory EXCEPT ![m] = "new"]
    /\ UNCHANGED <<public, private, stack, jobs, at, lost, faults>>

\* Leaving the `with' clears the flag, whoever has set it since; the move is
\* queued next.
MoveQueues(m) ==
    /\ client[m] = "flagged"
    /\ busy' = FALSE
    /\ Put(m, "move")
    /\ client' = [client EXCEPT ![m] = "waiting"]
    /\ UNCHANGED <<private, stack, at, directory, lost, faults>>

\* (mutant) the directory is left at the new one.
PutBackForgets(m, outcome) ==
    /\ client' = [client EXCEPT ![m] = outcome]
    /\ UNCHANGED directory

\* The except branch of `move_collection': the old directory is put back.
PutBack(m, outcome) ==
    /\ client' = [client EXCEPT ![m] = outcome]
    /\ directory' = [directory EXCEPT ![m] = "old"]

MoveSeesJob(m) ==
    /\ client[m] = "waiting"
    /\ \/ /\ jobs[m] = "complete"
          /\ client' = [client EXCEPT ![m] = "moved"]
          /\ UNCHANGED directory
       \/ /\ jobs[m] = "failed"
          /\ PutBack(m, "reverted")
    /\ UNCHANGED <<public, private, stack, jobs, at, busy, lost, faults>>

\* `wait_for_job' has waited its 300 seconds.
MoveGivesUp(m) ==
    /\ client[m] = "waiting"
    /\ Fault
    /\ PutBack(m, "gaveup")
    /\ UNCHANGED <<public, private, stack, jobs, at, busy, lost>>

-----------------------------------------------------------------------------
(* The consumer.                                                           *)

\* The innermost handler is a batch that polls the job of its collection.
Polling ==
    /\ stack # <<>>
    /\ Top.step = "batch"
    /\ at[Top.job] <= Collections[Top.job]
    /\ jobs[Sub(Top.job, at[Top.job])] \in {"pending", "running"}

\* (mutant) a batch drains in the background, not while it waits only.
DrainingInBackground == stack = <<>> \/ \E i \in DOMAIN stack : stack[i].step = "batch"

\* (mutant) only the loop drains.
DrainingAtLoop == stack = <<>>

\* Queues are drained by the perpetual loop, and by a batch that waits.
Draining == stack = <<>> \/ Polling

\* (mutant) the tasks are copied and stay on the public queue.
TransferCopies ==
    /\ Draining
    /\ public # <<>>
    /\ Len(private) < 3
    /\ private' = Reverse(public) \o private
    /\ UNCHANGED <<public, stack, jobs, at, busy, clientVars, lost, faults>>

Transfer ==
    /\ Draining
    /\ public # <<>>
    /\ private' = Reverse(public) \o private
    /\ public' = <<>>
    /\ UNCHANGED <<stack, jobs, at, busy, clientVars, lost, faults>>

Process ==
    /\ Draining
    /\ private # <<>>
    /\ LET task == Head(private) IN
        /\ stack' = <<task>> \o stack
        /\ jobs' = IF task.step \in {"reorganize", "batch"}
                   THEN [jobs EXCEPT ![task.job] = "running"]
                   ELSE jobs
    /\ private' = Tail(private)
    /\ busy' = TRUE
    /\ UNCHANGED <<public, at, clientVars, lost, faults>>

\* (mutant) the flag is not cleared when there is nothing to do.
ProcessNothingKeepsBusy ==
    /\ Draining
    /\ private = <<>>
    /\ public = <<>>
    /\ UNCHANGED vars

ProcessNothing ==
    /\ Draining
    /\ private = <<>>
    /\ public = <<>>
    /\ busy
    /\ busy' = FALSE
    /\ UNCHANGED <<public, private, stack, jobs, at, clientVars, lost, faults>>

\* The `finally' of `process_queue', with the queues as the handler left them.
ClearBusyIfDone ==
    busy' = (busy /\ (private' # <<>> \/ public' # <<>>))

\* The innermost handler returns, its job given this status.
Returns(status) ==
    /\ stack' = Tail(stack)
    /\ jobs' = [jobs EXCEPT ![Top.job] = status]
    /\ UNCHANGED <<public, private>>
    /\ ClearBusyIfDone

\* (mutant) the refresh is not chained to the count.
CountDoneForgets ==
    /\ stack # <<>> /\ Top.step = "count"
    /\ stack' = Tail(stack)
    /\ UNCHANGED <<public, private>>
    /\ ClearBusyIfDone
    /\ UNCHANGED <<jobs, at, clientVars, lost, faults>>

CountDone ==
    /\ stack # <<>> /\ Top.step = "count"
    /\ private' = <<[Top EXCEPT !.step = "refresh"]>> \o private
    /\ stack' = Tail(stack)
    /\ UNCHANGED public
    /\ ClearBusyIfDone
    /\ UNCHANGED <<jobs, at, clientVars, lost, faults>>

RefreshDone ==
    /\ stack # <<>> /\ Top.step = "refresh"
    /\ Returns("complete")
    /\ UNCHANGED <<at, clientVars, lost, faults>>

\* Counting and refreshing let their exceptions out, and so does a move whose
\* revert raises.  A batch that was waiting around them takes the exception for a
\* failure of its own collection.
HandlerRaises ==
    /\ stack # <<>> /\ Top.step \in {"count", "refresh", "move"}
    /\ \/ /\ Len(stack) = 1
          /\ Returns("failed")
       \/ /\ Len(stack) > 1
          /\ jobs' = [jobs EXCEPT ![Top.job] = "failed", ![stack[2].job] = "failed"]
          /\ stack' = Tail(Tail(stack))
          /\ UNCHANGED <<public, private>>
          /\ ClearBusyIfDone
    /\ UNCHANGED <<at, clientVars, lost, faults>>

\* Moving and reorganizing catch the exceptions of their work, and return.
MoveReturns ==
    /\ stack # <<>> /\ Top.step \in {"move", "reorganize"}
    /\ \/ Returns("complete")
       \/ Returns("failed")
    /\ UNCHANGED <<at, clientVars, lost, faults>>

-----------------------------------------------------------------------------
(* A batch, while it is the innermost handler.                             *)

AtCollection(b, statuses) ==
    /\ stack # <<>> /\ Top.step = "batch" /\ Top.job = b
    /\ at[b] <= Collections[b]
    /\ jobs[Sub(b, at[b])] \in statuses

NextCollection(b) ==
    /\ at' = [at EXCEPT ![b] = @ + 1]
    /\ UNCHANGED <<public, private, stack, jobs, busy, clientVars, lost, faults>>

BatchQueues(b) ==
    /\ AtCollection(b, {"none"})
    /\ Put(Sub(b, at[b]), "reorganize")
    /\ UNCHANGED <<private, stack, at, busy, clientVars, lost, faults>>

\* The collection is gone, or `execute_reorganization' found nothing to move.
BatchSkips(b) ==
    /\ AtCollection(b, {"none"})
    /\ NextCollection(b)

\* (mutant) the next collection does not wait for the job of this one.
BatchAdvancesEarly(b) ==
    /\ AtCollection(b, {"pending", "running", "complete"})
    /\ NextCollection(b)

BatchAdvances(b) ==
    /\ AtCollection(b, {"complete"})
    /\ NextCollection(b)

\* (mutant) the batch goes on past a collection that failed.
BatchStopsNot(b) ==
    /\ AtCollection(b, {"failed"})
    /\ NextCollection(b)

\* `execute_reorganization' refused, or the job of the collection failed.
BatchStops(b) ==
    /\ AtCollection(b, {"none", "failed"})
    /\ Returns("failed")
    /\ UNCHANGED <<at, clientVars, lost, faults>>

\* (mutant) the job that was waited for is failed too.
BatchTimesOutFailsSub(b) ==
    /\ AtCollection(b, Statuses \ {"none"})
    /\ Fault
    /\ stack' = Tail(stack)
    /\ jobs' = [jobs EXCEPT ![b] = "failed", ![Sub(b, at[b])] = "failed"]
    /\ UNCHANGED <<public, private>>
    /\ ClearBusyIfDone
    /\ UNCHANGED <<at, clientVars, lost>>

\* An hour has gone by.  The clock is read before the job's status is.
BatchTimesOut(b) ==
    /\ AtCollection(b, Statuses \ {"none"})
    /\ Fault
    /\ Returns("failed")
    /\ UNCHANGED <<at, clientVars, lost>>

BatchDone(b) ==
    /\ stack # <<>> /\ Top.step = "batch" /\ Top.job = b
    /\ at[b] > Collections[b]
    /\ Returns("complete")
    /\ UNCHANGED <<at, clientVars, lost, faults>>

-----------------------------------------------------------------------------
(* What ends a handler from outside.                                       *)

\* The loop's task is cancelled while the server stays up: every handler that
\* awaits fails its job on the way out, the private queue stays, and the loop
\* is scheduled again.  Reorganizing never awaits.
Cancelled ==
    /\ stack # <<>> /\ Top.step # "reorganize"
    /\ Fault
    /\ jobs' = [j \in Jobs |-> IF j \in JobsOf(stack) THEN "failed" ELSE jobs[j]]
    /\ stack' = <<>>
    /\ UNCHANGED <<public, private>>
    /\ ClearBusyIfDone
    /\ UNCHANGED <<at, clientVars, lost>>

\* The consumer's process dies; another worker takes the loops over with a
\* private queue of its own.
Dies ==
    /\ stack # <<>> \/ private # <<>>
    /\ Fault
    /\ lost' = lost \cup JobsOf(stack) \cup JobsOf(private)
    /\ stack' = <<>>
    /\ private' = <<>>
    /\ UNCHANGED <<public, jobs, at, busy, clientVars>>

-----------------------------------------------------------------------------
BatchStep(b) ==
    \/ BatchQueues(b) \/ BatchSkips(b) \/ BatchAdvances(b)
    \/ BatchStops(b) \/ BatchDone(b)

\* What the consumer does by itself.
Consumer ==
    \/ Transfer \/ Process \/ ProcessNothing
    \/ CountDone \/ RefreshDone \/ HandlerRaises \/ MoveReturns
    \/ \E b \in Batch : BatchStep(b)

Client ==
    \/ \E r \in Refresh : QueueRefresh(r)
    \/ \E b \in Batch : QueueBatch(b)
    \/ \E m \in Move : MoveEnters(m) \/ MoveQueues(m) \/ MoveSeesJob(m) \/ MoveGivesUp(m)

Next ==
    \/ Consumer
    \/ Client
    \/ \E b \in Batch : BatchTimesOut(b)
    \/ Cancelled
    \/ Dies

\* The loop reschedules itself whatever its iterations raise, a dead owner is
\* replaced, and a process that is inside `with' leaves it and then polls.
Spec ==
    /\ Init /\ [][Next]_vars
    /\ WF_vars(Consumer)
    /\ \A m \in Move : WF_vars(MoveQueues(m)) /\ WF_vars(MoveSeesJob(m))

-----------------------------------------------------------------------------
(* Safety.                                                                 *)

\* A job that is pending or running has its task in a queue or in a handler,
\* unless that task died with its process: no path through the handlers, nested
\* or failing, drops the task of a job somebody waits for.
PendingIsHeld ==
    \A j \in Jobs : jobs[j] \in {"pending", "running"} => j \in Held \cup lost

\* A job has one task at most, in one place, and none once it has settled: two
\* handlers never work for one job, and nothing queued is already over.
OneTaskPerJob ==
    /\ JobsDiffer(public) /\ JobsDiffer(private) /\ JobsDiffer(stack)
    /\ JobsOf(public) \cap JobsOf(private) = {}
    /\ JobsOf(public) \cap JobsOf(stack) = {}
    /\ JobsOf(private) \cap JobsOf(stack) = {}
    /\ \A j \in Held : jobs[j] \in {"pending", "running"}

\* A job settles once: no failed or completed job is ever run, completed or
\* failed again, so what a waiter read stays true.
SettlesOnce ==
    [][\A j \in Jobs : jobs[j] \in Settled => jobs'[j] = jobs[j]]_vars

\* Collections are reorganized one after another: while a batch has got to its
\* k-th collection, the jobs of the earlier ones have completed or were never
\* needed, and those of the later ones are not queued.
BatchIsSequential ==
    \A b \in Batch : \A k \in 1..Collections[b] :
        /\ k < at[b] => jobs[Sub(b, k)] \in {"none", "complete"}
        /\ k > at[b] => jobs[Sub(b, k)] = "none"

\* A batch that reports success has reorganized every collection that needed it.
CompleteBatchIsComplete ==
    \A b \in Batch : jobs[b] = "complete" =>
        \A k \in 1..Collections[b] : jobs[Sub(b, k)] \in {"none", "complete"}

\* What the database says of a collection agrees with what its move job did,
\* once a process that did not give up has heard of the outcome.
OutcomeIsRecorded ==
    \A m \in Move : client[m] \in {"moved", "reverted"} =>
        (directory[m] = "new" <=> jobs[m] = "complete")

\* The same of every move that is over, those whose process gave up included.
\* The code does not keep this one: the job outlives its waiter.
MovedFilesAreFound ==
    \A m \in Move : client[m] \in {"moved", "reverted", "gaveup"} /\ jobs[m] \in Settled =>
        (directory[m] = "new" <=> jobs[m] = "complete")

-----------------------------------------------------------------------------
(* The jobs as those who ask for them see them.                            *)

Place(j) ==
    IF jobs[j] \in Settled THEN jobs[j]
    ELSE IF j \in lost THEN "lost"
    ELSE IF j \in JobsOf(stack) THEN "taken"
    ELSE IF j \in Held THEN "queued" ELSE "none"

JB == INSTANCE JobBoard WITH place <- [j \in Jobs |-> Place(j)],
                             Waiting <- Batch, Chained <- Refresh

\* Queues, nested handlers, failures and deaths are steps of a board of jobs:
\* each is asked for, taken and settled once, and one handler at a time works
\* on files, the others being batches that wait.
ImplementsJobBoard == JB!Spec

-----------------------------------------------------------------------------
(* Liveness.                                                               *)

\* Every job that was queued settles, unless it died with a consumer, once no
\* more jobs are asked for: a batch never waits for a job that only its own
\* return would let run.
JobsSettle ==
    []<>(\A j \in Jobs : jobs[j] \in {"pending", "running"} => j \in lost)

\* The busy flag never sticks: moves that are refused while it is set get in
\* again, also after a consumer died with the flag set.
BusyClears == []<>~busy
=============================================================================
