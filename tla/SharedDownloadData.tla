-------------------------- MODULE SharedDownloadData --------------------------
(***************************************************************************)
(* The dictionary that the Sanic worker processes share for the download   *)
(* manager (shared_ctx.download_manager_data): the domains being           *)
(* processed, the killed downloads and the progress of running downloads.  *)
(*                                                                         *)
(* Every update reads the dictionary, or one key of it, computes, and      *)
(* writes back what it read with its change.  Within one process nothing   *)
(* runs between the two, for there is no `await`; two processes may        *)
(* overlap, and then the later write undoes what it has not read.          *)
(* DownloadManager takes each update as one step; this module is about     *)
(* what is left of that when updates overlap and workers die.              *)
(*                                                                         *)
(* Abstracted: each download has a domain of its own, for two of one       *)
(* domain are the subject of DownloadManager; a downloader does nothing    *)
(* but report progress.                                                    *)
(***************************************************************************)
EXTENDS Naturals

CONSTANTS
    Downloads,   \* the downloads, each with its own domain
    Workers,     \* the Sanic worker processes
    NoOp         \* a worker that is not in the middle of an update

VARIABLES
    data,    \* the shared dictionary
    op,      \* per worker: the update it is in the middle of, with what it read
    stage,   \* per download: the next step of its handler
    home,    \* per download: the worker its handler runs in
    undone   \* history: downloads for which a write undid another one's update

sharedVars == <<data, op, stage, home, undone>>

Kinds == {"add", "delete", "kill", "unkill", "progress", "clear"}
Stages == {"idle", "lost", "running", "unkill", "finally", "cleanup"}
Data == [processing : SUBSET Downloads, killed : SUBSET Downloads,
         progress : SUBSET Downloads]
Updates == [kind : Kinds, download : Downloads, seen : Data]

ASSUME NoOpIsNoUpdate == NoOp \notin Updates

SharedTypeOK ==
    /\ data \in Data
    /\ op \in [Workers -> Updates \cup {NoOp}]
    /\ stage \in [Downloads -> Stages]
    /\ home \in [Downloads -> Workers]
    /\ undone \subseteq Downloads

SharedInit ==
    /\ data = [processing |-> {}, killed |-> {}, progress |-> {}]
    /\ op = [w \in Workers |-> NoOp]
    /\ stage = [d \in Downloads |-> "idle"]
    /\ home \in [Downloads -> Workers]
    /\ undone = {}

-----------------------------------------------------------------------------
(* One update                                                              *)

\* A key to which updates of one kind add d, and from which another kind takes it.
Edited(key, d, kind, adds, removes) ==
    IF kind = adds THEN key \cup {d}
    ELSE IF kind = removes THEN key \ {d} ELSE key

\* Mutant: a domain that is added replaces the list instead of extending it.
ChangeReplacesDomains(kind, d, seen) ==
    [processing |-> IF kind = "add" THEN {d}
                    ELSE Edited(seen.processing, d, kind, "add", "delete"),
     killed     |-> Edited(seen.killed, d, kind, "kill", "unkill"),
     progress   |-> Edited(seen.progress, d, kind, "progress", "clear")]

\* What an update makes of the dictionary it read.
Change(kind, d, seen) ==
    [processing |-> Edited(seen.processing, d, kind, "add", "delete"),
     killed     |-> Edited(seen.killed, d, kind, "kill", "unkill"),
     progress   |-> Edited(seen.progress, d, kind, "progress", "clear")]

\* _add_processing_domain and _delete_processing_domain write one key; the
\* others write the whole copy back.
Written(o) ==
    LET new == Change(o.kind, o.download, o.seen) IN
    IF o.kind \in {"add", "delete"}
    THEN [data EXCEPT !.processing = new.processing]
    ELSE new

\* The downloads that are in a key, or not in it, other than if the update had
\* been one step.
Undone(o) ==
    LET once == Change(o.kind, o.download, data) IN
    {d \in Downloads : \E key \in {"processing", "killed", "progress"} :
                         (d \in Written(o)[key]) # (d \in once[key])}

\* What it reads: one key, or the whole dictionary.
Copied(kind) ==
    IF kind \in {"add", "delete"}
    THEN [data EXCEPT !.killed = {}, !.progress = {}]
    ELSE data

Read(w, kind, d) ==
    /\ op[w] = NoOp
    /\ op' = [op EXCEPT ![w] = [kind |-> kind, download |-> d, seen |-> Copied(kind)]]
    /\ UNCHANGED <<data, undone>>

-----------------------------------------------------------------------------
(* A handler, from the dispatch to the end of signal_download_download     *)

\* No other update of this download's handler is on its way.
Between(d) ==
    \A w \in Workers : op[w] # NoOp =>
        op[w].download # d \/ op[w].kind = "kill"

\* A dispatcher takes a free domain; the handler runs in the same process.
Dispatch(w, d) ==
    /\ stage[d] \in {"idle", "lost"}
    /\ d \notin data.processing
    /\ Between(d)
    /\ Read(w, "add", d)
    /\ home' = [home EXCEPT ![d] = w]
    /\ UNCHANGED stage

\* While it runs it reports progress, and cancel_wrapper takes a kill back.
Run(d) ==
    /\ stage[d] = "running"
    /\ Between(d)
    /\ \/ Read(home[d], "progress", d)
       \/ d \in data.killed /\ Read(home[d], "unkill", d)
       \/ Read(home[d], "delete", d)
    /\ UNCHANGED <<stage, home>>

\* Mutant: `finally` clears the progress but not the domain.
FailSkipsDelete(d) ==
    /\ stage[d] = "running"
    /\ Between(d)
    /\ stage' = [stage EXCEPT ![d] = "cleanup"]
    /\ UNCHANGED <<data, op, home, undone>>

\* An exception: `finally` is next.
Fail(d) ==
    /\ stage[d] = "running"
    /\ Between(d)
    /\ stage' = [stage EXCEPT ![d] = "finally"]
    /\ UNCHANGED <<data, op, home, undone>>

\* After the domain the kill is taken back, then `finally` deletes the domain
\* once more and clears the progress.
End(d) ==
    /\ Between(d)
    /\ \/ stage[d] = "unkill" /\ Read(home[d], "unkill", d)
       \/ stage[d] = "finally" /\ Read(home[d], "delete", d)
       \/ stage[d] = "cleanup" /\ Read(home[d], "clear", d)
    /\ UNCHANGED <<stage, home>>

\* kill_download, called by the API in any process.
Kill(w, d) ==
    /\ Read(w, "kill", d)
    /\ UNCHANGED <<stage, home>>

\* Where a handler goes on when an update of its own is written.
After(kind, step) ==
    IF kind = "add" THEN "running"
    ELSE IF kind = "clear" THEN "idle"
    ELSE IF kind = "delete" THEN IF step = "running" THEN "unkill" ELSE "cleanup"
    ELSE IF kind = "unkill" /\ step = "unkill" THEN "finally"
    ELSE step

Write(w) ==
    /\ op[w] # NoOp
    /\ data' = Written(op[w])
    /\ stage' = [stage EXCEPT ![op[w].download] = After(op[w].kind, @)]
    /\ op' = [op EXCEPT ![w] = NoOp]
    /\ undone' = undone \cup Undone(op[w])
    /\ UNCHANGED home

\* The process dies, in the middle of an update or not, and another one is started
\* in its place.  Its handlers end without their `finally`.
WorkerDies(w) ==
    /\ op' = [op EXCEPT ![w] = NoOp]
    /\ stage' = [d \in Downloads |->
                    IF home[d] = w /\ stage[d] # "idle" THEN "lost" ELSE stage[d]]
    /\ UNCHANGED <<data, home, undone>>

SharedNext ==
    \/ \E w \in Workers, d \in Downloads : Dispatch(w, d)
    \/ \E d \in Downloads : Run(d)
    \/ \E d \in Downloads : Fail(d)
    \/ \E d \in Downloads : End(d)
    \/ \E w \in Workers, d \in Downloads : Kill(w, d)
    \/ \E w \in Workers : Write(w)
    \/ \E w \in Workers : WorkerDies(w)

SharedSpec == SharedInit /\ [][SharedNext]_sharedVars

-----------------------------------------------------------------------------
(* Properties                                                              *)

\* What signal_download_download says of its `finally`, which "must still
\* release the claim, or the domain leaks forever": once a handler has ended,
\* neither its domain nor its progress is left in the dictionary, whatever it
\* raised and whoever killed it meanwhile, unless the write of another process
\* undid its update, or its own process died.
NothingLeftBehind ==
    \A d \in data.processing \cup data.progress : stage[d] # "idle" \/ d \in undone

\* While a download runs its domain is listed, which is all that keeps another
\* dispatch from taking it, unless a write of another process undid that.
RunningIsListed ==
    \A d \in Downloads : stage[d] = "running" => d \in data.processing \cup undone

==============================================================================
