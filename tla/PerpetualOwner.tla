---------------------------- MODULE PerpetualOwner ----------------------------
(***************************************************************************)
(* Which Sanic worker process runs the perpetual loops (file worker,       *)
(* downloads, switches, ...) of wrolpi/api_utils.py.  A process claims     *)
(* them through a shared event, the owner's pid and a heartbeat; the       *)
(* others run a watchdog that takes over when the owner is dead or silent. *)
(*                                                                         *)
(* The loops of a process are counted as one: they are started together    *)
(* and each reschedules itself until the process stops, whatever it        *)
(* raises, unless the dispatch of its next run does.  Every member of Procs *)
(* is one operating system process: a worker that is started in place of a *)
(* dead one is another member.                                             *)
(***************************************************************************)
EXTENDS Naturals

CONSTANTS
    Procs,      \* the worker processes that may ever be started
    None,       \* no process
    LoopsCap    \* how far the loops of one process are counted (a bound)

ASSUME NoneIsNoProcess == None \notin Procs
ASSUME LoopsCapType == LoopsCap \in Nat /\ LoopsCap >= 2

VARIABLES
    started,    \* perpetual_tasks_started
    owner,      \* perpetual_tasks_owner_pid
    heartbeat,  \* is it OWNER_HEARTBEAT_STALE_SECONDS old?
    reused,     \* dead processes whose pid an unrelated process has now
    pc,         \* per process: what it is doing
    stalled,    \* processes whose event loop is blocked
    loops,      \* per process: how many times the loops run in it
    suspect,    \* history: processes that have been blocked or told to stop
    failed      \* history: living processes in which a dispatch of the loops raised
                \* after the last one that did not

vars == <<started, owner, heartbeat, reused, pc, stalled, loops, suspect, failed>>

Steps == {"unborn", "starting", "dispatching", "taking", "watching", "stopping", "dead"}

TypeOK ==
    /\ started \in {"clear", "set"}
    /\ owner \in Procs \cup {None}
    /\ heartbeat \in {"fresh", "stale"}
    /\ reused \subseteq Procs
    /\ pc \in [Procs -> Steps]
    /\ stalled \subseteq Procs
    /\ loops \in [Procs -> 0..LoopsCap]
    /\ suspect \subseteq Procs
    /\ failed \subseteq Procs

Init ==
    /\ started = "clear"
    /\ owner = None
    /\ heartbeat = "fresh"
    /\ reused = {}
    /\ pc = [p \in Procs |-> "unborn"]
    /\ stalled = {}
    /\ loops = [p \in Procs |-> 0]
    /\ suspect = {}
    /\ failed = {}

-----------------------------------------------------------------------------

Running(p) == pc[p] \notin {"unborn", "dead"}

Goto(p, step) == pc' = [pc EXCEPT ![p] = step]

\* Mutant: only the pid is looked at, so that a reused one counts as the owner.
OwnerIsAliveByPid ==
    /\ owner # None
    /\ Running(owner) \/ owner \in reused

\* _perpetual_owner_is_alive
OwnerIsAlive ==
    /\ owner # None
    /\ Running(owner) \/ owner \in reused
    /\ heartbeat = "fresh"

\* Mutant: the claim does not look whether there is an owner.
ClaimAnyway(p) ==
    /\ started' = "set"
    /\ owner' = p
    /\ heartbeat' = "fresh"

\* _claim_perpetual_tasks, which holds a lock: the claim succeeds ...
Claim(p) ==
    /\ ~(started = "set" /\ OwnerIsAlive)
    /\ started' = "set"
    /\ owner' = p
    /\ heartbeat' = "fresh"

\* ... or it is refused.
Refused == started = "set" /\ OwnerIsAlive

\* A worker process is started, by Sanic or in place of one that died.
Spawn(p) ==
    /\ pc[p] = "unborn"
    /\ Goto(p, "starting")
    /\ UNCHANGED <<started, owner, heartbeat, reused, stalled, loops, suspect, failed>>

\* start_perpetual_tasks: the process that claims starts every loop, any other
\* one the watchdog.
StartUp(p) ==
    /\ pc[p] = "starting"
    /\ p \notin stalled
    /\ \/ Claim(p) /\ Goto(p, "dispatching")
       \/ /\ Refused
          /\ Goto(p, "watching")
          /\ UNCHANGED <<started, owner, heartbeat>>
    /\ UNCHANGED <<reused, stalled, loops, suspect, failed>>

\* The loops are dispatched after the claim, without looking at it again.
DispatchLoops(p) ==
    /\ pc[p] \in {"dispatching", "taking"}
    /\ p \notin stalled
    /\ loops' = [loops EXCEPT ![p] = IF @ < LoopsCap THEN @ + 1 ELSE @]
    /\ failed' = failed \ {p}
    /\ Goto(p, "watching")
    /\ UNCHANGED <<started, owner, heartbeat, reused, stalled, suspect>>

\* A dispatch raises.  At startup that ends the process (Die); in the watchdog it
\* is logged, and the watchdog goes on as the owner's, without the loops, or with
\* those that were dispatched before.
DispatchRaises(p) ==
    /\ pc[p] = "taking"
    /\ p \notin stalled
    /\ failed' = failed \cup {p}
    /\ Goto(p, "watching")
    /\ UNCHANGED <<started, owner, heartbeat, reused, stalled, loops, suspect>>

\* A loop ends when the dispatch of its next run raises.
LoopEnds(p) ==
    /\ loops[p] > 0
    /\ p \notin stalled
    /\ loops' = [loops EXCEPT ![p] = @ - 1]
    /\ failed' = failed \cup {p}
    /\ UNCHANGED <<started, owner, heartbeat, reused, pc, stalled, suspect>>

\* perpetual_owner_watchdog in the owner.
Beat(p) ==
    /\ pc[p] = "watching"
    /\ p \notin stalled
    /\ owner = p
    /\ heartbeat' = "fresh"
    /\ UNCHANGED <<started, owner, reused, pc, stalled, loops, suspect, failed>>

\* perpetual_owner_watchdog in another process, which finds the owner gone.
TakeOver(p) ==
    /\ pc[p] = "watching"
    /\ p \notin stalled
    /\ owner # p
    /\ Claim(p)
    /\ Goto(p, "taking")
    /\ UNCHANGED <<reused, stalled, loops, suspect, failed>>

\* The event loop is blocked, by file work say, and later goes on.
Stall(p) ==
    /\ Running(p)
    /\ p \notin stalled
    /\ stalled' = stalled \cup {p}
    /\ suspect' = suspect \cup {p}
    /\ UNCHANGED <<started, owner, heartbeat, reused, pc, loops, failed>>

Resume(p) ==
    /\ p \in stalled
    /\ stalled' = stalled \ {p}
    /\ UNCHANGED <<started, owner, heartbeat, reused, pc, loops, suspect, failed>>

\* before_server_stop: the watchdog is silent from now on, and a loop that is
\* in the middle of an iteration ends with it.  Or the dispatch of the watchdog's
\* next run raises.
Stop(p) ==
    /\ pc[p] = "watching"
    /\ p \notin stalled
    /\ Goto(p, "stopping")
    /\ suspect' = suspect \cup {p}
    /\ UNCHANGED <<started, owner, heartbeat, reused, stalled, loops, failed>>

\* The process exits, or crashes at any point.
Die(p) ==
    /\ Running(p)
    /\ Goto(p, "dead")
    /\ stalled' = stalled \ {p}
    /\ loops' = [loops EXCEPT ![p] = 0]
    /\ failed' = failed \ {p}
    /\ UNCHANGED <<started, owner, heartbeat, reused, suspect>>

\* The kernel gives the pid of a dead process to one that is not a worker.
ReusePid(p) ==
    /\ pc[p] = "dead"
    /\ p \notin reused
    /\ reused' = reused \cup {p}
    /\ UNCHANGED <<started, owner, heartbeat, pc, stalled, loops, suspect, failed>>

\* Half a minute without a heartbeat, which the watchdog of a process whose
\* event loop runs would have updated several times.
Silence ==
    /\ owner # None
    /\ heartbeat = "fresh"
    /\ pc[owner] \in {"stopping", "dead"} \/ owner \in stalled
    /\ heartbeat' = "stale"
    /\ UNCHANGED <<started, owner, reused, pc, stalled, loops, suspect, failed>>

ProcStep(p) ==
    StartUp(p) \/ DispatchLoops(p) \/ DispatchRaises(p) \/ Beat(p) \/ TakeOver(p)

Next ==
    \/ \E p \in Procs : ProcStep(p)
    \/ \E p \in Procs : Spawn(p)
    \/ \E p \in Procs : LoopEnds(p)
    \/ \E p \in Procs : Stall(p)
    \/ \E p \in Procs : Resume(p)
    \/ \E p \in Procs : Stop(p)
    \/ \E p \in Procs : Die(p)
    \/ \E p \in Procs : ReusePid(p)
    \/ Silence

\* Time passes, and an event loop runs a ready task when it is not blocked: a
\* task waits for the long ones before it, but not for ever (strong fairness).
Fairness ==
    /\ \A p \in Procs : SF_vars(ProcStep(p))
    /\ WF_vars(Silence)

Spec == Init /\ [][Next]_vars

FairSpec == Spec /\ Fairness

-----------------------------------------------------------------------------
(* Properties                                                              *)

\* Crashes, replacements and reused pids never lead to two consumers: as long
\* as no process is blocked or slow to stop, one process runs the loops, once.
OneConsumerUnlessSuspect ==
    \A p, q \in Procs \ suspect :
        loops[p] > 0 /\ loops[q] > 0 => p = q /\ loops[p] = 1

Serving(p) == loops[p] > 0 /\ pc[p] = "watching" /\ p \notin stalled

\* An owner that beats after a dispatch of its loops has raised: the watchdogs of
\* the others see a living owner.
Lame(p) == owner = p /\ p \in failed /\ pc[p] = "watching"

\* If one worker keeps running, the loops never stay dead: the watchdog takes
\* over from an owner that crashed, hangs, or whose pid another process has.  The
\* exception is an owner that lives and beats, but in which a dispatch raised.
LoopsKeepRunning ==
    (\E p \in Procs : <>[]( /\ pc[p] \in {"dispatching", "taking", "watching"}
                           /\ p \notin stalled))
        => []<>(\E q \in Procs : Serving(q) \/ Lame(q))

==============================================================================
