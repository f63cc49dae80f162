# WROLPi in TLA+

WROLPi is a self-hosted library of downloaded videos, archives, books, maps and Zim
files. A Sanic application of several worker processes (`src/main.py`, `src/wrolpi/`)
serves the API, downloads, and keeps files, an SQLite database and YAML configs in
agreement; a small controller (`src/controller/`) mounts disks. This directory holds
TLA+ models of the parts of it that run concurrently or fail half way, the TLC
configurations that check them, and proofs checked by TLAPS.

To check a run: `tlc -workers 2 -config DownloadOverlap.cfg MCDownloadManager`.
To check a proof: `tlapm FileMoves_proofs.tla`. PROJECT.json lists runs, theorems,
mutants, hazards, and for every definition the source lines that it models.

## 1. The system

| Component | Source | State | Operations | Status |
|---|---|---|---|---|
| Download manager | `wrolpi/downloader.py` | table `download` (status, frequency, `next_download`); in shared memory `processing_domains`, `killed_downloads`, `download_progress` | create, renew, claim, announce, handle, kill, delete, retry, disable | modelled, but for what a `Downloader` does and for `download_manager.yaml` |
| Shared download data | `wrolpi/downloader.py`, `wrolpi/contexts.py` | one dictionary of a `multiprocessing.Manager` | read, change, write back | modelled |
| Perpetual loops | `wrolpi/api_utils.py` | event, owner pid, heartbeat | claim, beat, watch, take over, stop | modelled |
| File worker | `wrolpi/files/worker.py` | public queue, private stack, `file_worker_jobs`, busy flag | refresh, move, reorganize, batch, wait, cancel | queues, jobs, moves and reorganizations modelled; the steps of a refresh are not |
| File library | `wrolpi/files/lib.py`, `models.py`, `api.py` | table `file_group`, the disk, `uploaded_files` | move a group's files, bulk updates, upload in chunks, upsert, search | moves and uploads |
| Collections | `wrolpi/collections/` | table `collection` (directory, `file_format`) | move, reorganize, sync | moves and reorganizations |
| Config files | `wrolpi/common.py`, `config_api.py` | YAML with a version, backups, a shared dictionary, whether the import is to be trusted | update, save, dump, import | modelled, but for the database behind some of them |
| Switches | `wrolpi/switches.py` | pending switches with their contexts, an event | activate, take, handle | modelled, with the saves of configs as handlers |
| Events | `wrolpi/events.py`, `root_api.py`, `app/src/Events.js` | a bounded list in shared memory; the time a page asks from | send, read, poll, dispatch | modelled |
| Flags | `wrolpi/flags.py` | events in shared memory | set, clear | the busy flag |
| Startup | `main.py`, `contexts.py` | - | reset shared memory, retry downloads | as a restart of the download manager |
| Inventory | `modules/inventory/`, `MultiFileConfig` of `common.py`, `useInventories` of the app | a file and a shared entity for each, a backup, what each tab shows | create, save, delete, restore, re-import | modelled, but for the food catalog and the migration |
| React app | `app/src/hooks/customHooks.js`, `api.js`, `Events.js` | the state of hooks across requests | upload, poll, persist | the hooks for uploads, events and inventories; the rest fetches and shows |
| Controller: mounts | `controller/lib/reconciler.py`, `fstab*.py`, `mount_*.py` | config, fstab, mount table | reconcile | not modelled |
| Videos, Archive, Zim, Map, Docs, Flasher, Tags, database layer, controller administration | `modules/*`, `wrolpi/tags.py`, `db.py`, ... | tables and files of their own | CRUD, parsing, external tools | not modelled: pure functions, SQL or I/O |

How they meet:

* Every worker process has the shared memory of `shared_ctx`; one of them owns the
  *perpetual loops*, among them the consumer of the file worker's queue and the loop
  that renews and dispatches downloads.
* Any process creates downloads and starts a dispatch in the background. A dispatch
  claims rows in a transaction and sends a signal for each; signal handlers run the
  downloader, record the outcome and release the domain.
* Any process queues file jobs and polls `file_worker_jobs`. `move_collection` does that
  while it holds the busy flag; a batch reorganization does it inside the consumer.
* Moves and reorganizations change files one by one, and rows in transactions; there
  is no log that a restart would read.
* An update of a config changes the shared dictionary and activates a switch; one of
  the loops takes the switches and saves. Requests save and import as well.
* The app in the browser is a part of several protocols: it sends the chunks of a file
  one by one and is told which it should send next; it asks every five seconds for the
  events since its last answer; it shows the edits of an inventory before they are
  saved, and sends the version it had loaded. Several tabs do so at once.

What is hard in it: read-then-write on shared memory by several processes, decisions
taken in one transaction and applied in another, handlers that are cancelled or raise
between two effects, nested handlers that wait in the only consumer, waiters that give
up, and death of the process in between. The file PROJECT.json lists these hazards,
each at its line, with the properties about it.

What makes each part correct:

* *Downloads*: no domain stays taken, no row stays pending with nobody on it, renewals
  do not take a row from a handler that has started since they were decided, a recurring download never fails
  for good, one download for each domain, a killed download stays dead.
* *Shared data*: nothing is left of a handler that has ended, a running one stays listed.
* *Loops*: somebody runs them in the end, and one process only.
* *File jobs*: every job settles, once; nothing is lost or run twice; batches keep
  their order; the busy flag does not stick; a waiter's record agrees with the job.
* *Moves*: rows lead to files, whatever raises or dies; failed moves are undone;
  reorganizations can be asked for again.
* *Configs*: no update stays unsaved without anybody having been told; no save puts an
  older version over a newer file; a switch that is activated is handled after that.
* *Events*: they are in time order, and every page shows every event once it is in the list.
* *Inventories*: no save undoes another; memory, file and tabs agree in the end.
* *Uploads*: what is shown as complete is complete; the form never hangs; no file that
  was there before is replaced unasked.

## 2. The modules

Each model is a state machine whose variables are named like the code's state, with
one action for each transaction, shared-memory access, or stretch of a handler without
an `await`. Comments above actions name what they stand for, and definitions marked
*Mutant* are plausible bugs that no specification uses: with one of them in place of the
definition it changes, some property listed below fails.

### DownloadManager

`status` and `recurring` are the table, `processing`, `killed` the shared lists,
`claims` what a dispatch has committed and not announced, `cycle` and `due` where the
perpetual loop is, and `pc`, `job`, `result` the handlers. `Claim` is the transaction of
`_dispatch_new_downloads`, `Announce` the addition of the domain and the signal after
it (`AnnounceFails` if that signal is not sent); `Start` ... `Final` are the stretches of `signal_download_download`, `Final` being its
`finally`, which does not release the empty domain (`Blank`) of a URL without a scheme. Each transaction may raise, as on a locked
database: a handler that meets this gives its row up (`orphaned`, history). `WorkerDies` ends any part
of what runs, and leaves its entries in the list; which call runs in which worker is not modelled. Times (download window, `next_download`, daily limits) are choices of the
environment. An entry of `processing` carries the handler it belongs to, although the code
keeps domains only, and stays that of its dispatch.

*Properties*: NoLeakedDomain, PendingIsOwned, RenewalLeavesOthersAlone,
RecurringNeverFails, DomainEventuallyReleased; and three that the code promises and
does not keep: OneDownloadPerDomain, BotBlockedFailsSiblings, KilledIsNotDeferred.

### SharedDownloadData

DownloadManager takes an update of the shared dictionary as one step, which the code's updates are not. Here each is a
`Read` and a `Write` in a worker process (`op` holds what was read), for a handler that
adds and deletes its domain, reports progress, and takes back kill requests. Handlers belong to a
worker (`home`) and are lost when that dies, also between the two. When another process has written in between, a write
puts back what it had read: `undone` (history) holds the downloads for which that made a difference. The
properties say that nothing else goes wrong: an ended handler leaves nothing behind (NothingLeftBehind), and a running one is
listed (RunningIsListed), but for those. What DownloadManager proves of its lists therefore holds of the program as long as no
such write comes between. Names that PerpetualOwner has too begin with `Shared`, so that
one module of proofs extends both.

### PerpetualOwner

Processes start, claim the loops, start them (in a second step), beat or watch, block
and wake up, stop and die; `reused` are pids that an unrelated process has taken, `heartbeat`
is stale when it is older than `OWNER_HEARTBEAT_STALE_SECONDS`. The claim is one step: the
code makes it under a lock. `suspect` (history) holds processes that were blocked or
told to stop: OneConsumerUnlessSuspect excepts them, because a blocked owner is
replaced and goes on when it wakes up, though the watchdog's docstring promises a
single consumer. The dispatch of the loops may raise: at startup that ends the process, after a takeover
(`DispatchRaises`) it is logged, and the process goes on beating as the owner; a loop ends when
the dispatch of its next run raises (`LoopEnds`). Such an owner is `Lame`, and nothing repairs it. LoopsKeepRunning says
that but for this the loops come back.

### JobBoard and FileWorker

`public`, `private`, `stack`: the two queues and the handlers under way, innermost
first, since a waiting batch handles other tasks itself. `jobs` is `file_worker_jobs`;
`client`, `directory` are `move_collection` and the directory it writes. A job that
reorganizes the k-th collection of batch b is `<<b, k>>`. `Cancelled`, `Dies`,
`BatchTimesOut`, `MoveGivesUp` and `HandlerRaises` are the failures (a refresh may raise, and so may the revert of a move). `lost` (history) are jobs whose task died
with its consumer; nothing in the code brings those back.

JobBoard is the abstract specification, what the processes see that poll `file_worker_jobs`: a
job is asked for, taken, and settles while it is taken, or is lost with the process that has it. A refresh is taken
twice, for its count and for itself. `Take` says what the nesting of handlers must not break: whoever else
has been taken is a batch that waits, so that one handler works on files at a time. The mapping `Place` reads
the status, the queues and the stack; a drain in the background of a batch instead of its waiting (the
mutant `DrainingInBackground`) breaks it, as does a failed job whose task is still queued. That jobs do settle
in the end is JobsSettle; JobBoard has no fairness.

*Properties*: ImplementsJobBoard, PendingIsHeld, OneTaskPerJob, SettlesOnce, BatchIsSequential,
CompleteBatchIsComplete, OutcomeIsRecorded, JobsSettle, BusyClears; and
MovedFilesAreFound, which fails.

### FileMoves

What `handle_move` and `handle_reorganize` do when FileWorker says that they complete or
fail. `disk` is where each file of a group is; `row` and `session` are the committed rows and
those of the open transaction, per file too, since the row has one directory and a
list of names (`"nowhere"`: the row names a file that does not exist). `todo`, `current`, `moved`,
`pending`, `revert` are the locals of the handlers. A move commits once, at the end, and
reverts its files when anything raises, also after the commit; a reorganization
flushes every `MOVE_CHUNK_SIZE` groups, and what raises drops what it has not flushed.
Jobs may be asked for again after a failure. A move plans when its handler begins (`Begin`), and refuses a plan
with a conflict; a reorganization has the mappings of the rows as they were when it was queued (`Queue`), which may
be out of date when its handler starts (`Start`): the user may have moved or removed files (`ByHand`), and a refresh may have deleted
rows (`RowDeleted`, which does not happen while a handler runs, for the consumer is one). What the handler finds no row for,
a conflict for or no file for, it passes over (`SkipGroup`). A group that is not at its source is taken for moved
(`AdoptGroup`): a reorganization looks for it at the destination, a move does not. `astray` and `split` (history) name groups that a
fault or a change by hand has touched and no handler has repaired; both are cut down to exactly those
faults by the actions `MoveRaises`, `RevertGroup`, `ReorganizeFails`, `Crash` and `ByHand`, and a later commit of the row
takes a group out of `astray`.

*Properties*: RowsAreTrue, ReorganizeRecovers, CompleteMoveIsWhole, FormatIsLast,
RowIsNotAhead; and FailedMoveIsUndone, which fails.

### Switchboard and ConfigSaves

Switchboard is the abstract specification of `switches.py`: the set of switches that
are on and the one that is handled. A switch that is on is handled some time later, one
at a time, and one that is activated during its own handling is handled again.

ConfigSaves is the code. `memory` is the shared dictionary of each `ConfigFile`, `file` what
is on disk, both a version and settings; `imported` is `successful_import`, `saveLock`
is `config_save_lock`, `switches` and `changed` are the shared dictionary and event of the
switches, `proc` what each worker and the owner of the loops are doing. `save` is seven
actions, `Check` ... `Write`, as its refusals, its lock, the version it bumps in memory and
the copy that it writes are separate accesses; `import_config` is four and takes no lock. `Wait`
returns without a change as well, after its second. An update sets `version` too: pages submit the config that
they have fetched, and `update` merges every key, so that a stale page makes the memory older than the file, without the
save lock, whatever the comment on `version` (`common.py` 785) says. A process may die between any two steps in which it has no lock (`Dies`).
`parted`, `disturbed` and `backdated` (history) record what the code does not promise to repair: a save that was refused or
failed, a switch that could not be activated or whose process died, a file that was edited, an import that a save overtook, and
an old version that came while a save held the lock.

Under `pending <- On, handling <- Handled` ConfigSaves implements Switchboard with its
fairness. That is not evident: the event is cleared in `finally`, after the handler, so
that an activation during the handling loses its wake-up; the timeout of the wait is what
makes the refinement hold, and without it (the mutant `WaitForChange`) it fails.

*Properties*: QuietMeansSaved, NewerIsKept, ImplementsSwitchboard.

### EventFeed

`holder`, `pc`, `stamp`, `clock` are the senders, `history` is `events_history`; `feed` is the request that
each page has under way, with the index of the iteration over the shared list: each
use of the list is an access to the manager process, without the lock. `now`, `stored`, `shown` are the state of
`useEventsInterval`, where `stored` is in `localStorage`, so that a reload begins where the last page
had come to. `missed` (history) are the events that slip past a request: stamped before and
appended after the request took its time, or skipped because the oldest was removed in
the middle of the iteration. The code loses them for that page; the properties say that
it loses no others.

*Properties*: TimeOrder, NothingPassedOver, Delivered.

### Inventory

One inventory in `memory`, `file` and `backup`, and in the `view` of each tab. `calls` are the
requests, several of a tab at once; their answers may pass each other. A handler goes
through `Begin`, then one action for each access to the shared dictionary, the lock or a file:
`Acquire`, `Compare`, `Put`, `Write`, `Bump` are `save_inventory` and `_persist_slug`. What an inventory
holds is the set of edits it includes, so that a lost update is a set that loses an
element. `ambiguous`, `drift`, `cut` (history) are the exceptions, set by exactly the
steps that the code does not protect: deletions, creations and imports take no lock, a
failed write leaves the new content in memory under the old version, an inventory that is
created again starts with version 1 again.

*Properties*: NoLostUpdate, ViewIsTrue, MemoryIsFile; and NoClobber, without the
exceptions, which fails.

### Upload

`queue`, `status`, `run` are `useUploadFile` in each tab, `calls` the requests with the closure of
`uploadNextChunk`, `expected` is `uploaded_files` and `disk` the files. `post_upload` is `Lookup`, then one of `StartOver`,
`AskForOther`, `Refuse`, `Accept`, then `Delete` (which awaits a refresh) and `Create`, or `AppendChunk`, then `Store`. `writers` and
`disturbed` (history) tell which runs had a hand in a file, and whether the user removed it
under its upload; a deletion that raises, or a crash of the API between two steps, is no excuse. A request that
is refused as such (`BadRequest`: 400 with another code than `FILE_UPLOAD_FAILED`) settles nothing in `doUpload`, which waits
for ever (`Waits`); UploadsEnd excepts this and nothing else. The files that one drop
selects have different paths, as those of one directory have.

*Properties*: CompleteIsWhole, UploadsEnd, OldFilesAreKept; and ChunksAreTracked, without the
exceptions, which fails.

### How they compose

The modules meet at narrow interfaces, and each states what it takes from the other:
DownloadManager assumes atomic updates, and SharedDownloadData tells what overlapping ones may undo;
FileWorker's consumer is fair because PerpetualOwner brings the loops back, and one at a time as far as
OneConsumerUnlessSuspect goes: that a blocked owner and its successor both consume is not in FileWorker; what a move does
is FileMoves, which FileWorker sees as `Returns("complete")` or `Returns("failed")`, or as its death;
ConfigSaves' owner is fair for the same reason as the consumer of FileWorker. Upload, EventFeed and
Inventory each compose a hook of the app with the handlers it calls and the shared
memory of the workers, in one module, because the protocol is between the two.

## 3. The runs

| Run | Instance | States | Shows |
|---|---|---|---|
| DownloadOverlap | 1 row, 2 dispatchers, 2 handlers, fair | 379 305 | a row that is claimed twice, deleted, killed, renewed, given up: no leak but by a death, release in the end |
| DownloadSiblings | 2 rows, one without a domain, one at times recurring, 1 handler | 419 850 | blocked siblings, child downloads, renewals in two transactions |
| DownloadOnePerDomain | as DownloadOverlap | violated | two dispatches claim one row, two handlers download from one domain |
| SharedWorkers | 2 downloads, 2 processes that may die, symmetry; not beyond states with both downloads in `undone` | 2 051 172 | what overlapping updates undo, and nothing more |
| OwnerTakeover | 3 processes, fair | 485 165 | takeover after crash, hang, reuse of the pid, dispatches that raise |
| FileWorkerJobs | 1 refresh, 1 collection move, batches of 2 and 1 collections, 2 faults, fair | 676 995 | every nesting of two batches and two other jobs; refinement of JobBoard |
| FileMoves | 3 groups of 2 files, chunks of 2, 3 faults or changes by hand | 689 228 | fail, retry, fail again and recover; mappings that are out of date |
| FileMoveUndone | 2 groups, 1 fault | violated | after a revert the other files stay at the destination |
| ConfigSaves | 1 config, 2 workers and the owner, 2 changes, 1 request, 2 faults, fair | 254 194 | saves that overlap updates, imports and each other, deaths, old versions; refinement of Switchboard |
| EventFeed | 2 senders, 1 page, a history of 2, 3 events, 2 faults, fair | 141 831 | what a page is shown, whatever fails between it and the list |
| Inventory | 2 tabs, 2 edits, 3 requests of any kind, 1 fault | 2 793 834 | stale saves, restores and imports that overlap |
| Upload | 2 tabs, 2 files, of 2 chunks, 1 fault, fair | 360 327 | two uploads to one path, lost answers, restarts |

Every bound is a CONSTANT. They are enough because of the shape of each
conflict: a double claim takes two dispatchers and one row; a lost update takes two
processes; a sibling takes two rows, and a URL without a scheme has every other row for one. Two more domains would only run side
by side, for no step of the model relates different domains but the number of slots,
and one slot makes that limit bite. Configs share nothing but the lock and the loop (two configs with one worker and one fault,
and two requests without faults, were checked as well and hold); a save that is overtaken
takes two processes and a save that waits a third, the owner. A history of two and three events make the oldest go
while a page reads. A lost update takes two tabs with one edit each, and the third
request is the delete, restore or import that comes between. A file of two chunks (and the empty one after
them) has a first, a middle and a last; the second tab uploads to one of the paths
that the first is at, or will come to. Three processes let an owner be replaced, and its
successor too. Two batches, one of them with a next collection, let either nest
in the other, with a refresh and a move inside both. Three groups in chunks of two give
a flushed chunk, a chunk to come and a group in hand; three faults give a failure, a
failed revert and a crash in one history, or a group moved by hand between two failures. That several configs do not
keep each other from being saved is not shown by the run: its fairness is of some `Pop`, and the last switch activated is
popped first. `Handlers`, `Killable`, `Editable`, `MaxFaults`, `LoopsCap`, `MaxChanges`,
`MaxRequests`, `MaxEvents`, `MaxCalls`, `MaxVersion`, `MaxRuns`, `MaxTries` and `MaxChunk` bound the instances; nothing that matters happens only when they are
reached, and the proofs do not depend on their values. TLC checks deadlock in the runs of the
download models; `CHECK_DEADLOCK FALSE` is given where the system really stops: all
processes dead, all jobs settled, a move complete, all requests made. The type invariants of
DownloadManager, SharedDownloadData, PerpetualOwner, FileWorker, FileMoves, EventFeed and ConfigSaves are proved and not checked by runs.

**Fairness.** DownloadManager: weak fairness for each step of a handler, which is an
asyncio task; this assumes that a download ends, as it does when `download_timeout` or the timeout of
the Downloader is set, or when the tool it runs ends by itself (the user and the loops are not
assumed to do anything, and the liveness property excepts entries that have lost their handler). PerpetualOwner: strong fairness for the
steps of a process, because an event loop that is at times blocked still runs a ready task, and weak
fairness for the clock (`Silence`). FileWorker: weak fairness for the consumer, whose loop reschedules itself
whatever an iteration raises and is taken over when its process dies (the dispatch of a loop that raises, `Lame` in PerpetualOwner, is
excluded here and for ConfigSaves), and for
the steps of `move_collection` up to its poll. ConfigSaves: weak fairness for the
owner's loop and for each request that was begun; nobody has to make one. EventFeed: for a sender that
has the lock, for a handler and for the timer of a page. Upload: for the handlers and the callbacks of each
tab and file; the user does not have to do anything. Faults are never fair. The liveness properties
(DomainEventuallyReleased, LoopsKeepRunning, JobsSettle, BusyClears, ImplementsSwitchboard, Delivered, UploadsEnd) use nothing else.
UploadsEnd says that an upload ends or waits for the settlement that a 400 without the known code does not bring; it is checked for uploads of one size to a path: with two sizes, an upload that is told to send a chunk past its
end goes on with empty chunks for ever.

**Where the code does not do what it says.** Two runs expect a violation, and
PROJECT.json "findings" quotes the lines: (1) DownloadOnePerDomain: the domain of a claimed
row is taken only after the transaction, so that two dispatches take the same row; (2)
FileMoveUndone: `_revert_move` moves primary files back and forgets the other files of each
group. The modules state further promises that TLC finds broken; each can be seen by putting the
property into the configuration that is named:

| Property | Add to | What happens |
|---|---|---|
| BotBlockedFailsSiblings | DownloadSiblings.cfg | failing the siblings of a blocked download raises on a recurring one (as on a locked database), is rolled back, and loses the outcome of the blocked download |
| KilledIsNotDeferred | DownloadOverlap.cfg | a kill fails the row, and the handler that it cancels defers it again |
| NothingLeftBehind without `undone`, NoLeakedDomain without its exceptions | SharedWorkers.cfg, DownloadSiblings.cfg | a read-modify-write of the shared dictionary, a death, or the empty domain brings or leaves a domain that nobody releases |
| MovedFilesAreFound | FileWorkerJobs.cfg | `wait_for_job` times out after 300 s, and `move_collection` restores the old directory while its job still moves the files |
| NoClobber | Inventory.cfg | an import or a new inventory of the name gives an old version number a new content; the save of a stale tab is then accepted, though `save_inventory` says it cannot be |
| ChunksAreTracked | Upload.cfg, with `Drops <- DropsOfOne`, `MaxRuns = 2`, `MaxFaults = 2` and one tab | a path whose partial file is gone still awaits its next chunk; what is shown as complete lacks the first ones, though `post_upload` says it tracks them |

And some that the models made plain without a property of their own: a file whose upload did not
complete is refused as existing once the API has restarted, though the docstring of `post_upload`
excepts it; an answer 400 with another code than `FILE_UPLOAD_FAILED` settles nothing in `doUpload`; the comment
in `useInventories` says that an error is followed by a fetch, and one that throws is not; a poll
that is refused sets the time of `useEventsInterval` to undefined, after which all events are shown again.

## 4. The proofs

The proofs hold for all values of the constants under the named ASSUMEs of the
modules, which only give types (`DomainOfType`, `PrimaryAssumption`, ...) and the freshness of `None`;
`JobsAssumption` says that the jobs of the four kinds are all different, as their ids are in
the code (a prefix and a uuid), `NoOpIsNoUpdate` that `NoOp` is no update, `DropsAssumption` that the files of a
drop have different paths, `OldAssumption` and `NoneAssumption` that a file that was there before and an absent one
are no chunks. No theorem has a further hypothesis. TLC
evaluates the assumptions in each run.

* `DownloadManager_proofs`: TypeCorrect, NoDomainIsLeaked, PendingAlwaysOwned, RenewalIsSafe, RecurringIsNeverFailed. The types are inductive with
  `HandlerHasJob` (a handler that is not idle has a row); NoLeakedDomain and PendingIsOwned
  are inductive on top of it, which is worth knowing: each keeps itself
  by the order of the steps alone. The two action properties
  follow step by step. The exceptions of NoLeakedDomain and PendingIsOwned (a lost handler, the empty domain, a row
  that was given up) are each set by the one kind of step they name, so the theorems say that there is no other way.
* `SharedContext_proofs`, of SharedDownloadData, for any number of workers: SharedTypeCorrect, EndedLeavesNothing, RunningStaysListed.
  The strengthening says, for each stage of a handler, what of its download is in the dictionary unless a write undid it, and
  that an update under way is one that this stage makes, in the worker the handler runs in: only so does
  the last update of a handler find nothing else of it on its way.
  Of PerpetualOwner: TypeCorrect, OneConsumer. The invariant
  ties a stale heartbeat to an owner that is dead or suspect (`StaleMeansLost`): without
  that, a takeover might happen under a healthy owner.
* `FileWorker_proofs`: TypeCorrect, NoTaskIsDropped, OneTaskForEachJob, JobsSettleOnce,
  BatchesAreSequential, CompleteBatchesAreComplete, OutcomesAreRecorded, JobsAreABoard, OneHandlerWorks. Lemmas give the jobs of a queue after each queue
  operation; OneTaskPerJob and PendingIsHeld are inductive only together, with `AsksOnce`,
  because what a handler puts next must be neither queued nor settled. For the batches `KindInv` says that the step
  of a task tells the kind of its job: only then does nothing but a batch ask for its collections, and
  nothing but a batch complete one. However the handlers nest, the shape of the stack is not needed for these.
  OutcomeIsRecorded follows from `OutcomeInv`, about each stage of a client. JobsAreABoard is the whole refinement of JobBoard:
  for each action one lemma names the move of the board it is, or shows that every job stays where it is. That does need
  the stack (`Nested`: all handlers but the innermost are batches) and that what is lost stays lost (`LostInv`).
* `FileMoves_proofs`: TypeCorrect, RowsStayTrue, ReorganizingRecovers, CompletedMoveIsWhole, FormatComesLast, RowsAreNotAhead. None of the properties is inductive: they speak of jobs that are
  over. The invariant has thirteen parts, one for each place a group may be in - still to do,
  in hand, pending, in the transaction, to be reverted - and `Excused` says when a row may
  differ from the disk for now. There is one lemma for each action. TLC has checked it as an
  invariant of the FileMoves instance as well.

* `EventFeed_proofs`: TypeCorrect, InTimeOrder, NonePassedOver. The order follows from the lock
  and from stamps that are later than all in the list. NothingPassedOver needs an invariant about the
  requests under way: an event that a request has not found is later than its time, ahead of its
  index, or in `risk`.
* `ConfigSaves_proofs`: TypeCorrect, NewerKept, NoUpdateForgotten, SwitchesAreABoard. `LockInv` says who may be at
  the lock, `VersionInv` what the holder knows of the versions; `QuietInv` that a file and a memory that
  differ are *promised* to be saved, by a switch that is on, by a save that comes to the lock, or
  by the holder, and `StaleInv` that settings which came after the holder's copy are promised again.
  SwitchesAreABoard is the safety part of the refinement: initial states map to initial states and every step
  to a step of Switchboard or to a stutter.
* `Inventory_proofs`: TypeCorrect, NoUpdateLost. `LockInv` and `KindsInv` say who may be between the
  comparison of the versions and the release of the lock. `Known` is all that tabs show, wait for
  or have sent; `KnownInv`, as long as no version was ambiguous, that with nobody at the lock
  all of it is behind the memory or includes what the memory includes, and for each place of the
  holder what it may still write. A save that passes the comparison is therefore about the
  newest content. Most steps are `Calm`: they bring the tabs no more than the memory, and one
  lemma (CalmStep) deals with all of them; the four steps of the holder have a lemma each.
  MemoryAndFileAgree needs `DriftInv`: until a drift is recorded only saves overlap (`Apart`), memory and file differ only while some handler is
  `Unsettled`, between the two, and `OnTheWay` says what each handler has found to be so. ViewsAreTrue needs `SeenInv`: while nobody is between memory and version
  (`Rests`), all that a tab shows which has `Heard`, and all that an answer carries, is the memory if it has
  its version; a tab that waits for a save or a fetch, or lost the answer, is not spoken of until it has the next.
* `Upload_proofs`: TypeCorrect, OldFilesStay, CompleteFilesAreWhole. A file that was there before is never appended to (`OldInv`: a
  call that is past the check of its path knows what it found there), without which the types are not
  inductive. `CallsInv` ties requests to the tabs: one for each file and tab, of its last run. `ContentInv` says, of each
  path that one run has to itself, which chunks its file holds at every stage of the call under way: the first ones, in
  order, as far as the tab has come, or one more than it has heard of. `Touches` and `Follows` name what a step of the
  server, and an answer, may change. An earlier model set `disturbed` also when a deletion raises and when the API crashes; the proof
  showed that the property needs neither, and is stronger without them.

Every invariant, every action property and one refinement that a passing run checks is a theorem. Only model-checked: liveness (TLAPS does not
prove it here, nor anything about ENABLED), and so the
fairness half of ImplementsSwitchboard, whose safety half is SwitchesAreABoard. Not proved either are the ends of the
counterexamples in section 3, which TLC finds.

## 5. What is left out

* Data: URLs, paths, names, progress numbers, YAML and SQL text; a downloader is its outcome.
* Files without a row, and files other than the primary that stand in the way of a
  move: `_move_file_group_files` would overwrite them, `build_move_plan_bulk` makes rows
  of the former.
* The database that `import_config` and `dump_config` of some configs read and write; the food catalog of the inventory.
* Deaths of one process: modelled in DownloadManager, SharedDownloadData, PerpetualOwner, FileWorker (the consumer) and ConfigSaves.
  Not modelled are deaths while a lock is held (`config_save_lock`, `switches_lock`, `events_lock`, the claim's lock), which would block
  the others for ever; EventFeed, Inventory and Upload know the restart of all processes only, or none.
* In DownloadManager, updates of the shared dictionary that overlap (SharedDownloadData has them, with a domain for each
  download); in FileWorker, a second consumer beside one that was blocked.
* A tagged file that is uploaded over: `lib.delete` spares it and the write truncates it. Directories,
  tags and the form's validation in uploads.
* A refresh is two tasks that complete or raise; how files are compared, grouped
  and indexed is not modelled.
* A worker that is given the very pid of a dead owner: its watchdog would take itself for the owner, and never start the loops.
* Components listed as not modelled in section 1, with the reason.

## 6. Plan

Done, in this order: DownloadManager, SharedDownloadData, PerpetualOwner, FileWorker, FileMoves, Upload,
EventFeed, Inventory, Switchboard and ConfigSaves, JobBoard; and the proofs of all their safety properties.

Left, were the project to go on:

1. `Refresh` (`files/worker.py`): comparing, upserting and indexing groups while files
   appear and go; the flag of a global refresh.
2. `Reconciler` (`controller/lib`): fstab and mounts follow the config through failures.
3. The configs that mirror tables (tags, channels, downloads), with the entries that an import skips.

Abstract specifications to refine: an atomic move of a plan, implemented by FileMoves
when nothing fails; a lease for each domain, implemented by DownloadManager.

Further proofs: that no event is shown twice; that JobBoard's jobs settle, once TLAPS proves
liveness; the exact leaks of DownloadManager over a dictionary whose updates overlap.
