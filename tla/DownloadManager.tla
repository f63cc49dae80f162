--------------------------- MODULE DownloadManager ---------------------------
(***************************************************************************)
(* The download manager of wrolpi/downloader.py: the `download` table, the *)
(* shared list of domains being processed, the shared list of killed       *)
(* downloads, the dispatchers that claim "new" rows, and the               *)
(* `wrolpi.download.download` signal handlers that run them.               *)
(*                                                                         *)
(* Dispatchers, handlers and API calls run in several Sanic workers.  An   *)
(* action is one database transaction, or one update of the shared         *)
(* dictionary, with the local computation around it: anything may happen   *)
(* between two of them.  That an update of the dictionary is one step is   *)
(* an assumption, and SharedDownloadData is about it.                      *)
(*                                                                         *)
(* Abstracted: URLs are members of Downloads, times (`next_download`, the  *)
(* download window, the wait between two downloads of a domain, the daily  *)
(* limits) are choices of the environment, and what a Downloader does is   *)
(* one of the outcomes its handler tells apart.                            *)
(***************************************************************************)
EXTENDS Naturals, FiniteSets

CONSTANTS
    Downloads,    \* the rows (one for each URL) the table may hold
    Domains,      \* the network locations of those URLs
    Blank,        \* the empty one, of a URL without a scheme
    DomainOf,     \* Download.domain
    Dispatchers,  \* the calls of dispatch_downloads that may overlap
    Perpetual,    \* the one made by perpetual_download_worker
    Handlers,     \* how many signal handlers may be alive at once (a bound)
    Slots,        \* SIMULTANEOUS_DOWNLOAD_DOMAINS
    Killable,     \* the rows the user may kill (a bound)
    Editable,     \* the rows that may get or lose a frequency (a bound)
    None          \* no download

ASSUME DomainOfType == DomainOf \in [Downloads -> Domains]
ASSUME PerpetualIsDispatcher == Perpetual \in Dispatchers
ASSUME SlotsType == Slots \in Nat \ {0}
ASSUME BoundsType == Killable \subseteq Downloads /\ Editable \subseteq Downloads
ASSUME NoneIsNoDownload == None \notin Downloads

VARIABLES
    status,      \* Download.status, "absent" when there is no such row
    recurring,   \* the rows with a frequency
    processing,  \* processing_domains: an entry for each dispatch, with its domain
    killed,      \* killed_downloads
    killing,     \* kill_download calls between the list and the transaction
    gate,        \* blocked_download_reason
    cycle,       \* how far the perpetual worker is in do_downloads
    due,         \* the rows the perpetual worker read as due
    claims,      \* per dispatcher: claimed rows whose signal is not sent yet
    job,         \* per handler: its row
    pc,          \* per handler: the next step, "lost" when its worker died
    result,      \* per handler: what the downloader returned
    orphaned     \* history: pending rows whose handler ended without finishing them

dbVars == <<status, recurring>>
cycleVars == <<cycle, due>>
handlerVars == <<job, pc, result>>
vars == <<status, recurring, processing, killed, killing, gate, cycle, due,
          claims, job, pc, result, orphaned>>

-----------------------------------------------------------------------------
(* Types                                                                   *)

Statuses == {"new", "pending", "complete", "failed", "deferred"}
Gates == {"open", "blocked", "window"}
Cycles == {"sleep", "recurring", "scan", "deferred", "cleanup", "dispatch"}
Outcomes == {"success", "error", "unrecoverable", "paused"}
HandlerSteps == {"idle", "lost", "dispatched", "running", "botblocked", "finish",
                 "children", "release", "unkill", "final"}

TypeOK ==
    /\ status \in [Downloads -> Statuses \cup {"absent"}]
    /\ recurring \subseteq Downloads
    /\ processing \subseteq Handlers \X Domains
    /\ killed \subseteq Downloads
    /\ killing \subseteq Downloads
    /\ gate \in Gates
    /\ cycle \in Cycles
    /\ due \subseteq Downloads
    /\ claims \in [Dispatchers -> SUBSET Downloads]
    /\ job \in [Handlers -> Downloads \cup {None}]
    /\ pc \in [Handlers -> HandlerSteps]
    /\ result \in [Handlers -> Outcomes \cup {"none"}]
    /\ orphaned \subseteq Downloads

Exists(d) == status[d] # "absent"

\* `processing_domains` as the dispatcher reads it.
Processing == {e[2] : e \in processing}

Without(domain) == {e \in processing : e[2] # domain}

\* `Download.renew` on a set of rows.
Renew(S) == [d \in Downloads |-> IF d \in S THEN "new" ELSE status[d]]

Drop(S) == [d \in Downloads |-> IF d \in S THEN "absent" ELSE status[d]]

Init ==
    /\ status = [d \in Downloads |-> "absent"]
    /\ recurring = {}
    /\ processing = {}
    /\ killed = {}
    /\ killing = {}
    /\ gate = "blocked"
    /\ cycle = "sleep"
    /\ due = {}
    /\ claims = [k \in Dispatchers |-> {}]
    /\ job = [h \in Handlers |-> None]
    /\ pc = [h \in Handlers |-> "idle"]
    /\ result = [h \in Handlers |-> "none"]
    /\ orphaned = {}

-----------------------------------------------------------------------------
(* Calls of the API                                                        *)

\* create_downloads: every row is created or renewed, whatever its status is.
CreateDownloads(S) ==
    /\ status' = Renew(S)
    /\ UNCHANGED <<recurring, processing, killed, killing, gate, cycleVars,
                   claims, handlerVars>>

\* recurring_download: the same, and the row gets a frequency.
RecurringDownload(d) ==
    /\ status' = Renew({d})
    /\ recurring' = recurring \cup {d}
    /\ UNCHANGED <<processing, killed, killing, gate, cycleVars, claims,
                   handlerVars>>

\* update_download sets or clears the frequency and keeps the status.
UpdateDownload(d) ==
    /\ Exists(d)
    /\ recurring' \in {recurring \cup {d}, recurring \ {d}}
    /\ UNCHANGED <<status, processing, killed, killing, gate, cycleVars,
                   claims, handlerVars>>

\* restart_download, and retry_downloads_by_ids for rows that failed or wait.
RestartDownload(d) ==
    /\ Exists(d)
    /\ status' = Renew({d})
    /\ UNCHANGED <<recurring, processing, killed, killing, gate, cycleVars,
                   claims, handlerVars>>

Retryable == {d \in Downloads : status[d] \in {"pending", "deferred", "failed"}}

\* retry_downloads, called by the API and at startup.
RetryDownloads ==
    /\ status' = Renew(Retryable)
    /\ UNCHANGED <<recurring, processing, killed, killing, gate, cycleVars,
                   claims, handlerVars>>

\* delete_download, delete_downloads_by_ids and delete_once: running rows too.
DeleteDownloads(S) ==
    /\ \A d \in S : Exists(d)
    /\ status' = Drop(S)
    /\ recurring' = recurring \ S
    /\ UNCHANGED <<processing, killed, killing, gate, cycleVars, claims,
                   handlerVars>>

FinishedOnce == {d \in Downloads \ recurring : status[d] \in {"complete", "failed"}}

\* delete_completed, delete_failed and clear_completed_by_ids.
ClearFinished(S) ==
    /\ S \subseteq FinishedOnce
    /\ status' = Drop(S)
    /\ UNCHANGED <<recurring, processing, killed, killing, gate, cycleVars,
                   claims, handlerVars>>

\* kill_download first adds the id to the shared list ...
KillFlag(d) ==
    /\ Exists(d)
    /\ d \notin killing
    /\ killed' = killed \cup {d}
    /\ killing' = killing \cup {d}
    /\ UNCHANGED <<dbVars, processing, gate, cycleVars, claims, handlerVars>>

\* ... and then fails the row.  That raises, and rolls back, if the row is
\* recurring or gone, or the database is locked.
KillCommit(d) ==
    /\ d \in killing
    /\ killing' = killing \ {d}
    /\ \/ Exists(d) /\ d \notin recurring /\ status' = [status EXCEPT ![d] = "failed"]
       \/ UNCHANGED status
    /\ UNCHANGED <<recurring, processing, killed, gate, cycleVars, claims,
                   handlerVars>>

\* disable, enable, the internet, WROL mode, the media and the download window.
SetGate(g) ==
    /\ gate # g
    /\ gate' = g
    /\ UNCHANGED <<dbVars, processing, killed, killing, cycleVars, claims,
                   handlerVars>>

-----------------------------------------------------------------------------
(* do_downloads: renew what is due, delete what is old, then dispatch.  Each *)
(* of these transactions may raise on a locked database, and changes nothing *)
(* then; the next part runs all the same.                                    *)

\* Any part of a set may be due: `next_download` is compared with the clock.
ScanRecurring ==
    /\ cycle = "sleep"
    /\ claims[Perpetual] = {}
    /\ gate = "open"
    /\ due' \in SUBSET {d \in recurring : status[d] \notin {"new", "pending"}}
    /\ cycle' = "recurring"
    /\ UNCHANGED <<dbVars, processing, killed, killing, gate, claims,
                   handlerVars>>

\* Mutant: the second transaction trusts what the first one read.
StillRenewableUnchecked == {d \in due : Exists(d)}

\* renew_recurring_downloads checks the status again: the row may have moved on.
StillRenewable == {d \in due : status[d] \notin {"absent", "new", "pending"}}

RenewRecurring ==
    /\ cycle = "recurring"
    /\ status' \in {Renew(StillRenewable), status}
    /\ due' = {}
    /\ cycle' = "scan"
    /\ UNCHANGED <<recurring, processing, killed, killing, gate, claims,
                   handlerVars>>

ScanDeferred ==
    /\ cycle = "scan"
    /\ due' \in SUBSET {d \in Downloads \ recurring : status[d] = "deferred"}
    /\ cycle' = "deferred"
    /\ UNCHANGED <<dbVars, processing, killed, killing, gate, claims,
                   handlerVars>>

\* renew_deferred_once_downloads checks again too.
StillDeferred == {d \in due : status[d] = "deferred"}

RenewDeferred ==
    /\ cycle = "deferred"
    /\ status' \in {Renew(StillDeferred), status}
    /\ due' = {}
    /\ cycle' = "cleanup"
    /\ UNCHANGED <<recurring, processing, killed, killing, gate, claims,
                   handlerVars>>

\* delete_old_once_downloads: any finished once-download may be a month old.
DeleteOld ==
    /\ cycle = "cleanup"
    /\ \E S \in SUBSET FinishedOnce : status' = Drop(S)
    /\ cycle' = "dispatch"
    /\ UNCHANGED <<recurring, processing, killed, killing, gate, due, claims,
                   handlerVars>>

-----------------------------------------------------------------------------
(* _dispatch_new_downloads                                                 *)

\* `waiting` are the domains downloaded from a moment ago, `capped` those that
\* reached a daily limit, which does not bind recurring downloads.
Eligible(waiting, capped) ==
    {d \in Downloads : /\ status[d] = "new"
                       /\ DomainOf[d] \notin Processing
                       /\ DomainOf[d] \notin waiting
                       /\ d \in recurring \/ DomainOf[d] \notin capped}

\* The rows one transaction claims: in the order recurring first, each one
\* whose domain is not taken, as long as there is a slot.
IsBatch(C, E) ==
    LET full == Cardinality(processing) + Cardinality(C) >= Slots IN
    /\ C \subseteq E
    /\ C # {} => Cardinality(processing) + Cardinality(C) <= Slots
    /\ \A d, e \in C : DomainOf[d] = DomainOf[e] => d = e
    /\ \A e \in E :
          \/ \E d \in C : /\ DomainOf[d] = DomainOf[e]
                          /\ e \in recurring => d \in recurring
          \/ full /\ (e \in recurring => C \subseteq recurring)

\* A claim writes `last_download_attempt` only: the row is still "new", and its
\* domain is not yet in `processing_domains`, when the transaction commits.
Claim(k) ==
    /\ claims[k] = {}
    /\ gate = "open"
    /\ Cardinality(processing) <= Slots
    /\ \E waiting, capped \in SUBSET Domains : \E C \in SUBSET Downloads :
          /\ IsBatch(C, Eligible(waiting, capped))
          /\ claims' = [claims EXCEPT ![k] = C]

\* A dispatch that create_downloads starts in the background.
BackgroundDispatch(k) ==
    /\ k # Perpetual
    /\ Claim(k)
    /\ UNCHANGED <<dbVars, processing, killed, killing, gate, cycleVars,
                   handlerVars>>

\* The dispatch that ends do_downloads, which may find the gate closed, all slots
\* taken or the database locked.
PerpetualDispatch ==
    /\ cycle = "dispatch"
    /\ cycle' = "sleep"
    /\ \/ Claim(Perpetual)
       \/ UNCHANGED claims
    /\ UNCHANGED <<dbVars, processing, killed, killing, gate, due,
                   handlerVars>>

\* A slot for a new handler: the entry of the last one is not in the list.
Free(h) ==
    /\ pc[h] \in {"idle", "lost"}
    /\ \A e \in processing : e[1] # h

\* After the commit, for each claimed row: take the domain, send the signal.
Announce(k, d, h) ==
    /\ d \in claims[k]
    /\ Free(h)
    /\ claims' = [claims EXCEPT ![k] = @ \ {d}]
    /\ processing' = processing \cup {<<h, DomainOf[d]>>}
    /\ job' = [job EXCEPT ![h] = d]
    /\ pc' = [pc EXCEPT ![h] = "dispatched"]
    /\ UNCHANGED <<dbVars, killed, killing, gate, cycleVars, result>>

\* The domain is taken and the signal is not sent: `dispatch` raises, which ends
\* the loop over the claimed rows as well.
AnnounceFails(k, d, h) ==
    /\ d \in claims[k]
    /\ Free(h)
    /\ claims' = [claims EXCEPT ![k] = {}]
    /\ processing' = processing \cup {<<h, DomainOf[d]>>}
    /\ pc' = [pc EXCEPT ![h] = "lost"]
    /\ UNCHANGED <<dbVars, killed, killing, gate, cycleVars, job, result>>

-----------------------------------------------------------------------------
(* signal_download_download                                                *)

Goto(h, step) == pc' = [pc EXCEPT ![h] = step]

\* What a handler that ends here leaves pending.
GivenUp(h) == {d \in {job[h]} : status[d] = "pending"}

\* Mutant: a handler whose row is gone waits for it instead of ending.
StartNeedsRow(h) ==
    /\ pc[h] = "dispatched"
    /\ Exists(job[h])
    /\ status' = [status EXCEPT ![job[h]] = "pending"]
    /\ orphaned' = orphaned \ {job[h]}
    /\ Goto(h, "running")
    /\ UNCHANGED <<recurring, processing, killed, killing, gate, cycleVars,
                   claims, job, result>>

\* The first transaction marks the row pending, whatever its status is now.  It
\* raises when the row was deleted meanwhile, and whenever the database is locked;
\* then only `finally` runs.
Start(h) ==
    /\ pc[h] = "dispatched"
    /\ \/ /\ Exists(job[h])
          /\ status' = [status EXCEPT ![job[h]] = "pending"]
          /\ orphaned' = orphaned \ {job[h]}
          /\ Goto(h, "running")
       \/ /\ Goto(h, "final")
          /\ UNCHANGED <<status, orphaned>>
    /\ UNCHANGED <<recurring, processing, killed, killing, gate, cycleVars,
                   claims, job, result>>

\* get_downloader raises outside the inner `try`, or the task of the handler is
\* cancelled: the row stays pending.
NoDownloader(h) ==
    /\ pc[h] = "running"
    /\ orphaned' = orphaned \cup GivenUp(h)
    /\ Goto(h, "final")
    /\ UNCHANGED <<dbVars, processing, killed, killing, gate, cycleVars,
                   claims, job, result>>

\* prepare_download, execute_download and finalize_download end.  Bot detection
\* is unrecoverable, and has more to do before the outcome is recorded.
Execute(h, outcome) ==
    /\ pc[h] = "running"
    /\ outcome \in Outcomes \ {"paused"}
    /\ result' = [result EXCEPT ![h] = outcome]
    /\ \/ Goto(h, "finish")
       \/ outcome = "unrecoverable" /\ Goto(h, "botblocked")
    /\ UNCHANGED <<dbVars, processing, killed, killing, gate, cycleVars,
                   claims, job, orphaned>>

\* cancel_wrapper sees a kill, or that downloading is no longer allowed.
Cancel(h) ==
    /\ pc[h] = "running"
    /\ job[h] \in killed \/ gate # "open"
    /\ result' = [result EXCEPT ![h] = IF gate = "window" THEN "paused" ELSE "error"]
    /\ killed' = killed \ {job[h]}
    /\ Goto(h, "finish")
    /\ UNCHANGED <<dbVars, processing, killing, gate, cycleVars, claims, job,
                   orphaned>>

\* The rows whose URL contains "://" followed by the domain of this one: every
\* URL with a scheme, when that domain is empty.
Siblings(h) ==
    {d \in Downloads \ {job[h]} :
        /\ status[d] \in {"new", "pending"}
        /\ IF DomainOf[job[h]] = Blank
           THEN DomainOf[d] # Blank
           ELSE DomainOf[d] = DomainOf[job[h]]}

\* BotBlockedDownloadError fails the siblings in one transaction.  That raises on
\* a recurring one (or on a locked database): nothing is failed, and the handler
\* ends there.
BotBlocked(h) ==
    /\ pc[h] = "botblocked"
    /\ \/ /\ Siblings(h) \cap recurring = {}
          /\ status' = [d \in Downloads |->
                            IF d \in Siblings(h) THEN "failed" ELSE status[d]]
          /\ orphaned' = orphaned \ Siblings(h)
          /\ Goto(h, "finish")
          /\ UNCHANGED result
       \/ /\ orphaned' = orphaned \cup GivenUp(h)
          /\ result' = [result EXCEPT ![h] = "none"]
          /\ Goto(h, "final")
          /\ UNCHANGED status
    /\ UNCHANGED <<recurring, processing, killed, killing, gate, cycleVars,
                   claims, job>>

\* Mutants: a paused download left as it is; an unrecoverable error of a
\* recurring download that is neither failed nor deferred; and one that is
\* failed.
FinalStatusPausedKept(d, outcome) ==
    CASE outcome = "paused" -> status[d]
      [] outcome = "unrecoverable" /\ d \notin recurring -> "failed"
      [] outcome = "success" -> "complete"
      [] OTHER -> "deferred"

FinalStatusUnrecoverableKept(d, outcome) ==
    CASE outcome = "paused" -> "new"
      [] outcome = "unrecoverable" -> IF d \in recurring THEN status[d] ELSE "failed"
      [] outcome = "success" -> "complete"
      [] OTHER -> "deferred"

FinalStatusFailsAll(d, outcome) ==
    CASE outcome = "paused" -> "new"
      [] outcome = "unrecoverable" -> "failed"
      [] outcome = "success" -> "complete"
      [] OTHER -> "deferred"

FinalStatus(d, outcome) ==
    CASE outcome = "paused" -> "new"
      [] outcome = "unrecoverable" /\ d \notin recurring -> "failed"
      [] outcome = "success" -> "complete"
      [] OTHER -> "deferred"

\* The transaction that records the outcome, whatever the status is by now.  It
\* raises when the row is gone, when calculate_next_download does, and when the
\* database is locked: the row keeps its status, and only `finally` runs.
Finish(h) ==
    /\ pc[h] = "finish"
    /\ \/ /\ Exists(job[h])
          /\ status' = [status EXCEPT ![job[h]] = FinalStatus(job[h], result[h])]
          /\ Goto(h, IF result[h] = "success" THEN "children" ELSE "release")
          /\ orphaned' = orphaned \ {job[h]}
       \/ /\ Goto(h, "final")
          /\ orphaned' = orphaned \cup GivenUp(h)
          /\ UNCHANGED status
    /\ result' = [result EXCEPT ![h] = "none"]
    /\ UNCHANGED <<recurring, processing, killed, killing, gate, cycleVars,
                   claims, job>>

\* The URLs a download found are created in a transaction of their own, which
\* may fail; it does when the row was deleted.
EnqueueChildren(h, S) ==
    /\ pc[h] = "children"
    /\ S # {} => Exists(job[h])
    /\ status' = Renew(S)
    /\ orphaned' = orphaned \ S
    /\ Goto(h, "release")
    /\ UNCHANGED <<recurring, processing, killed, killing, gate, cycleVars,
                   claims, job, result>>

Release(h) ==
    /\ pc[h] = "release"
    /\ processing' = Without(DomainOf[job[h]])
    /\ Goto(h, "unkill")
    /\ UNCHANGED <<dbVars, killed, killing, gate, cycleVars, claims, job,
                   result, orphaned>>

Unkill(h) ==
    /\ pc[h] = "unkill"
    /\ killed' = killed \ {job[h]}
    /\ Goto(h, "final")
    /\ UNCHANGED <<dbVars, processing, killing, gate, cycleVars, claims, job,
                   result, orphaned>>

\* Mutant: only the regular end of a handler releases the domain.
FinalKeepsDomain(h) ==
    /\ pc[h] = "final"
    /\ job' = [job EXCEPT ![h] = None]
    /\ result' = [result EXCEPT ![h] = "none"]
    /\ Goto(h, "idle")
    /\ UNCHANGED <<dbVars, processing, killed, killing, gate, cycleVars, claims,
                   orphaned>>

\* `finally` releases the domain again, on every path: `if download_domain`.
Final(h) ==
    /\ pc[h] = "final"
    /\ processing' = IF DomainOf[job[h]] = Blank
                     THEN processing
                     ELSE Without(DomainOf[job[h]])
    /\ job' = [job EXCEPT ![h] = None]
    /\ result' = [result EXCEPT ![h] = "none"]
    /\ Goto(h, "idle")
    /\ UNCHANGED <<dbVars, killed, killing, gate, cycleVars, claims, orphaned>>

HandlerStep(h) ==
    \/ Start(h)
    \/ NoDownloader(h)
    \/ \E outcome \in Outcomes : Execute(h, outcome)
    \/ Cancel(h)
    \/ BotBlocked(h)
    \/ Finish(h)
    \/ \E S \in SUBSET Downloads : EnqueueChildren(h, S)
    \/ Release(h)
    \/ Unkill(h)
    \/ Final(h)

-----------------------------------------------------------------------------
(* A worker process dies: the table and the shared memory survive, and with *)
(* them the entries of its handlers in `processing_domains`.  Which call    *)
(* runs in which worker is left out: any part of what runs may die at once. *)

Live(h) == pc[h] \notin {"idle", "lost"} /\ job[h] \in Downloads

Busy == {k \in Dispatchers : claims[k] # {} \/ (k = Perpetual /\ cycle # "sleep")}

WorkerDies(H, K, Q) ==
    /\ claims' = [k \in Dispatchers |-> IF k \in K THEN {} ELSE claims[k]]
    /\ killing' = killing \ Q
    /\ job' = [h \in Handlers |-> IF h \in H THEN None ELSE job[h]]
    /\ pc' = [h \in Handlers |-> IF h \notin H THEN pc[h]
                               ELSE IF \E e \in processing : e[1] = h THEN "lost"
                               ELSE "idle"]
    /\ result' = [h \in Handlers |-> IF h \in H THEN "none" ELSE result[h]]
    /\ orphaned' = orphaned \cup UNION {GivenUp(h) : h \in H}
    /\ IF Perpetual \in K THEN cycle' = "sleep" /\ due' = {} ELSE UNCHANGED cycleVars
    /\ UNCHANGED <<dbVars, processing, killed, gate>>

-----------------------------------------------------------------------------
(* The API server stops or crashes, and starts again.  The table survives; *)
(* shared memory and tasks do not.  start_single_tasks retries every       *)
(* unfinished download, once a refresh has ever been completed.            *)

ServerRestart ==
    /\ status' \in {Renew(Retryable), status}
    /\ processing' = {}
    /\ killed' = {}
    /\ killing' = {}
    /\ gate' = "blocked"
    /\ cycle' = "sleep"
    /\ due' = {}
    /\ claims' = [k \in Dispatchers |-> {}]
    /\ job' = [h \in Handlers |-> None]
    /\ pc' = [h \in Handlers |-> "idle"]
    /\ result' = [h \in Handlers |-> "none"]
    /\ orphaned' = {d \in Downloads : status'[d] = "pending"}
    /\ UNCHANGED recurring

-----------------------------------------------------------------------------

UserStep ==
    \/ \E S \in SUBSET Downloads : CreateDownloads(S)
    \/ \E d \in Editable : RecurringDownload(d)
    \/ \E d \in Editable : UpdateDownload(d)
    \/ \E d \in Downloads : RestartDownload(d)
    \/ RetryDownloads
    \/ \E S \in SUBSET Downloads : DeleteDownloads(S)
    \/ \E S \in SUBSET Downloads : ClearFinished(S)
    \/ \E d \in Killable : KillFlag(d)
    \/ \E d \in Killable : KillCommit(d)

PerpetualStep ==
    \/ ScanRecurring
    \/ RenewRecurring
    \/ ScanDeferred
    \/ RenewDeferred
    \/ DeleteOld
    \/ PerpetualDispatch

DispatchStep ==
    \/ \E k \in Dispatchers : BackgroundDispatch(k)
    \/ \E k \in Dispatchers, d \in Downloads, h \in Handlers :
          Announce(k, d, h) \/ AnnounceFails(k, d, h)

\* These touch the rows but no handler: a row that gets another status is no
\* longer one that was left pending.
OtherStep ==
    /\ \/ UserStep
       \/ \E g \in Gates : SetGate(g)
       \/ PerpetualStep
       \/ DispatchStep
    /\ orphaned' = {d \in orphaned : status'[d] = "pending"}

Next ==
    \/ OtherStep
    \/ \E h \in Handlers : HandlerStep(h)
    \/ \E H \in SUBSET {h \in Handlers : Live(h)}, K \in SUBSET Busy,
          Q \in SUBSET killing : WorkerDies(H, K, Q)
    \/ ServerRestart

\* The event loops run every ready task, and a download ends or is cancelled.
Fairness == \A h \in Handlers : WF_vars(HandlerStep(h))

Spec == Init /\ [][Next]_vars

FairSpec == Spec /\ Fairness


-----------------------------------------------------------------------------
(* Properties                                                              *)

\* An entry of `processing_domains` belongs to a handler that is alive and has a
\* release of that domain ahead of it: no interleaving of claims, deletions, kills
\* and raising transactions leaves a domain taken with nobody to release it,
\* which would block it until the next restart.  Two things do: the death of the
\* handler's worker (or of the dispatch, before the handler exists), and the
\* empty domain, which `finally` does not release.
\* (SharedDownloadData shows what overlapping updates of the list add to that.)
NoLeakedDomain ==
    \A e \in processing :
       \/ Live(e[1]) /\ DomainOf[job[e[1]]] = e[2]
       \/ pc[e[1]] = "lost"
       \/ e[2] = Blank

Working(h, d) == job[h] = d /\ pc[h] \in {"running", "botblocked", "finish"}

\* A row is "pending" only while a handler works on it and will still record an
\* outcome, or after its handler was lost on one of the paths that skip the
\* recording: no downloader or a cancelled task, a transaction that raises (the
\* one that fails the siblings, or the one that records the outcome), the death of
\* a worker, a restart.  So no renewal, retry, deletion, kill or second handler
\* of the same row leaves it pending with nobody on it.
PendingIsOwned ==
    \A d \in Downloads : status[d] = "pending" =>
        d \in orphaned \/ \E h \in Handlers : Working(h, d)

\* The perpetual worker decides what is due in one transaction and changes it in
\* another, and between the two a row may be started, killed, finished or edited.
\* It never takes a row from a handler that has started it.  A failed row it
\* renews only if the row had a frequency when it was read as due (the frequency
\* may be gone by then: that is not checked again), and deletes only in the
\* cleanup, and only if it has none.
RenewalLeavesOthersAlone ==
    [][PerpetualStep => \A d \in Downloads :
          /\ status[d] = "pending" => status'[d] = "pending"
          /\ status[d] = "failed" =>
                \/ status'[d] = "failed"
                \/ status'[d] = "new" /\ cycle = "recurring" /\ d \in due
                \/ status'[d] = "absent" /\ cycle = "cleanup" /\ d \notin recurring]_vars

\* Kills, bot detection and unrecoverable errors fail once-downloads only: a
\* recurring download is never turned into a failed one by any of them.
RecurringNeverFails ==
    [][\A d \in recurring : status'[d] = "failed" => status[d] = "failed"]_vars

Leaked(domain) == \E e \in processing : e[2] = domain /\ ~Live(e[1])

\* A domain that is taken becomes free again, even when the rows of its
\* handlers are deleted, killed or renewed, transactions raise, or the gate closes
\* on the way, unless one of its entries has lost its handler (NoLeakedDomain says
\* how that may happen).
DomainEventuallyReleased ==
    \A domain \in Domains :
       domain \in Processing ~> domain \notin Processing \/ Leaked(domain)

\* What the docstring of DownloadManager says: "Only one download from each
\* domain will be downloaded at a time."
OneDownloadPerDomain ==
    \A g, h \in Handlers :
        /\ pc[g] = "running"
        /\ pc[h] = "running"
        /\ DomainOf[job[g]] = DomainOf[job[h]]
        => g = h

\* What signal_download_download says when a bot is detected: "Fail all
\* pending/new downloads from the same domain."  A recurring one makes it raise.
BotBlockedFailsSiblings ==
    [][\A h \in Handlers :
          pc[h] = "botblocked" /\ pc'[h] \in {"finish", "final"} =>
          \A d \in Siblings(h) : status'[d] = "failed"]_vars

\* What kill_download says: "Fail a Download.  If it is pending, kill the
\* Downloader so the download stops."  A failed once-download is not put back
\* among those that will be tried again on their own.  The code does not keep this.
KilledIsNotDeferred ==
    [][\A d \in Downloads \ recurring :
          status[d] = "failed" => status'[d] # "deferred"]_vars

==============================================================================
