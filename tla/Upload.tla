------------------------------- MODULE Upload -------------------------------
(***************************************************************************)
(* Uploading files in chunks: the loop of useUploadFile in                 *)
(* app/src/hooks/customHooks.js, of which every browser tab runs at most   *)
(* one, and post_upload in wrolpi/files/api.py, which any worker of the    *)
(* API runs.  What the workers share is the dictionary `uploaded_files' of *)
(* the chunk that each path awaits, and the disk.                          *)
(*                                                                         *)
(* A file of `total' chunks is sent as the chunks 0..total, the last of    *)
(* them empty.  The client sends the chunk it was told to send next, and   *)
(* gives up on a file after too many answers that want another chunk.      *)
(*                                                                         *)
(* Abstracted: a chunk is its number and the run of the loop that sent it; *)
(* the validation of the form, tags, directories and progress bars are     *)
(* left out, and so is the database.  The deletion of the old file spares  *)
(* a tagged one, which is then truncated by the write; here it is deleted. *)
(***************************************************************************)
EXTENDS Naturals, Sequences, Functions

CONSTANTS
    Tabs,        \* browser tabs
    Files,       \* the paths that are uploaded to
    Drops,       \* for each tab, the lists of files that may be dropped there
    Totals,      \* totalChunks, of all the files of one drop
    MaxTries,    \* maxTries
    MaxRuns,     \* bound on the drops in each tab
    MaxChunk,    \* bound on chunk numbers: this one stands for all the higher ones
    MaxFaults,   \* bound on lost connections, crashes and removed files
    Old,         \* the content of a file that is not an upload
    None         \* no file; no chunk awaited

\* The files of one drop have different paths.
ASSUME DropsAssumption ==
    /\ Drops \in [Tabs -> SUBSET (Seq(Files) \ {<<>>})]
    /\ \A t \in Tabs : \A fs \in Drops[t] : IsInjective(fs)
ASSUME BoundsAssumption == {MaxTries, MaxRuns, MaxChunk, MaxFaults} \subseteq Nat
ASSUME TotalsAssumption == Totals \subseteq 0..(MaxChunk - 1)

VARIABLES
    queue,       \* files: those the loop of a tab has not finished, in order
    status,      \* progresses: what a tab shows of each file
    run,         \* the number of drops in a tab so far
    calls,       \* the requests under way, with the closure of each
    expected,    \* uploaded_files: the chunk each path awaits
    disk,        \* the content of each path
    writers,     \* history: the runs that had a hand in what a path holds
    disturbed,   \* history: paths that the user removed and no upload created since
    faults       \* (bound) faults so far

clientVars == <<queue, status, run>>
serverVars == <<expected, disk, writers, disturbed>>
vars == <<clientVars, calls, serverVars, faults>>

Runs == Tabs \X (1..MaxRuns)
Chunks == Runs \X (0..MaxChunk)

ASSUME OldAssumption == Old \notin Chunks
ASSUME NoneAssumption == None \notin Nat \cup {<<Old>>} \cup Seq(Chunks)

Handling == {"sent", "checking", "deleting", "creating", "appending", "storing"}
\* An answer "unknown" is a 400 without the code FILE_UPLOAD_FAILED; once it has
\* been read it is "ignored".
Answers == {"next", "range", "created", "refused", "failed", "unknown", "ignored"}

Calls == [run : Runs, file : Files, chunk : 0..MaxChunk, tries : 0..MaxTries,
          total : Totals, overwrite : BOOLEAN, pc : Handling \cup Answers,
          expected : 0..MaxChunk]

TypeOK ==
    /\ queue \in [Tabs -> Seq(Files)]
    /\ status \in [Tabs -> [Files ->
                    {"none", "pending", "complete", "conflicting", "failed"}]]
    /\ run \in [Tabs -> 0..MaxRuns]
    /\ calls \subseteq Calls
    /\ expected \in [Files -> 0..MaxChunk \cup {None}]
    /\ disk \in [Files -> {None, <<Old>>} \cup Seq(Chunks)]
    /\ writers \in [Files -> SUBSET Runs]
    /\ disturbed \subseteq Files
    /\ faults \in 0..MaxFaults

Init ==
    /\ queue = [t \in Tabs |-> <<>>]
    /\ status = [t \in Tabs |-> [f \in Files |-> "none"]]
    /\ run = [t \in Tabs |-> 0]
    /\ calls = {}
    /\ expected = [f \in Files |-> None]
    /\ disk \in [Files -> {None, <<Old>>}]
    /\ writers = [f \in Files |-> {}]
    /\ disturbed = {}
    /\ faults = 0

InProgress(t) == queue[t] # <<>>
Exists(f) == disk[f] # None
Tracked(f) == expected[f] # None

-----------------------------------------------------------------------------
(* The client                                                              *)

\* The call that the loop of tab t waits for.  A call whose connection was lost,
\* or whose page was left, is nobody's.
IsAwaited(c, t) ==
    /\ InProgress(t)
    /\ c.run = <<t, run[t]>>
    /\ c.file = Head(queue[t])

Abandoned(c) == \A t \in Tabs : ~IsAwaited(c, t)

\* The request uploadNextChunk sends.
Request(r, f, k, n, total, overwrite) ==
    [run |-> r, file |-> f, chunk |-> k, tries |-> n, total |-> total,
     overwrite |-> overwrite, pc |-> "sent", expected |-> 0]

\* Files are dropped; the effect on `files' starts the loop with the first.
Drop(t, fs, total, overwrite) ==
    /\ ~InProgress(t)
    /\ run[t] < MaxRuns
    /\ queue' = [queue EXCEPT ![t] = fs]
    /\ status' = [status EXCEPT ![t] = [f \in Files |->
                    IF \E i \in DOMAIN fs : fs[i] = f THEN "pending" ELSE "none"]]
    /\ run' = [run EXCEPT ![t] = @ + 1]
    /\ calls' = calls \cup
         {Request(<<t, run[t] + 1>>, Head(fs), 0, 0, total, overwrite)}
    /\ UNCHANGED <<serverVars, faults>>

\* The promise of the current file settles; the loop goes on with the next file.
Settle(t, c, outcome, others) ==
    /\ status' = [status EXCEPT ![t][c.file] = outcome]
    /\ queue' = [queue EXCEPT ![t] = Tail(@)]
    /\ calls' = others \cup
         {Request(c.run, f, 0, 0, c.total, c.overwrite) :
             f \in IF Len(queue[t]) > 1 THEN {queue[t][2]} ELSE {}}
    /\ UNCHANGED run

\* Mutant: the file is given up one try too late.
SendNextLate(t, c, k, n) ==
    IF n > MaxTries + 1
    THEN Settle(t, c, "pending", calls \ {c})
    ELSE /\ calls' = (calls \ {c}) \cup
                       {Request(c.run, c.file, k, n, c.total, c.overwrite)}
         /\ UNCHANGED clientVars

\* uploadNextChunk: another chunk, or the file is given up.
SendNext(t, c, k, n) ==
    IF n > MaxTries
    THEN Settle(t, c, "pending", calls \ {c})
    ELSE /\ calls' = (calls \ {c}) \cup
                       {Request(c.run, c.file, k, n, c.total, c.overwrite)}
         /\ UNCHANGED clientVars

\* A 400 with a code that the page does not know is shown, but does not settle the
\* promise: the loop waits on.
Ignore(t, c) ==
    /\ c.pc = "unknown"
    /\ status' = [status EXCEPT ![t][c.file] = "conflicting"]
    /\ calls' = (calls \ {c}) \cup {[c EXCEPT !.pc = "ignored"]}
    /\ UNCHANGED <<queue, run>>

\* Mutant: no answer 400 settles the promise.
ReceiveUnsettled(t, c) ==
    /\ IsAwaited(c, t)
    /\ \/ c.pc = "next" /\ SendNext(t, c, c.expected, 0)
       \/ c.pc = "range" /\ SendNext(t, c, c.expected, c.tries + 1)
       \/ c.pc = "created" /\ Settle(t, c, "complete", calls \ {c})
       \/ /\ c.pc = "refused"
          /\ status' = [status EXCEPT ![t][c.file] = "conflicting"]
          /\ calls' = calls \ {c}
          /\ UNCHANGED <<queue, run>>
       \/ c.pc = "failed" /\ Settle(t, c, "failed", calls \ {c})
       \/ Ignore(t, c)
    /\ UNCHANGED <<serverVars, faults>>

\* onreadystatechange.
Receive(t, c) ==
    /\ IsAwaited(c, t)
    /\ \/ c.pc = "next" /\ SendNext(t, c, c.expected, 0)
       \/ c.pc = "range" /\ SendNext(t, c, c.expected, c.tries + 1)
       \/ c.pc = "created" /\ Settle(t, c, "complete", calls \ {c})
       \/ c.pc = "refused" /\ Settle(t, c, "conflicting", calls \ {c})
       \/ c.pc = "failed" /\ Settle(t, c, "failed", calls \ {c})
       \/ Ignore(t, c)
    /\ UNCHANGED <<serverVars, faults>>

\* The user leaves the page, or loads it again.
Leave(t) ==
    /\ InProgress(t)
    /\ queue' = [queue EXCEPT ![t] = <<>>]
    /\ status' = [status EXCEPT ![t] = [f \in Files |-> "none"]]
    /\ UNCHANGED <<run, calls, serverVars, faults>>

-----------------------------------------------------------------------------
(* post_upload                                                             *)

Becomes(c, d) == calls' = (calls \ {c}) \cup {d}
GoesTo(c, pc) == Becomes(c, [c EXCEPT !.pc = pc])

\* expected_chunk_num is read.
Lookup(c) ==
    /\ c.pc = "sent"
    /\ Becomes(c, [c EXCEPT !.pc = "checking",
                            !.expected = IF Tracked(c.file) THEN expected[c.file] ELSE 0])
    /\ UNCHANGED <<clientVars, serverVars, faults>>

IsRestart(c) == c.chunk = 0 /\ Exists(c.file) /\ Tracked(c.file)

\* Mutant: the first chunk of an upload that is started over is compared with
\* the chunk the earlier upload had come to.
StartOverForgetful(c) ==
    /\ c.pc = "checking"
    /\ IsRestart(c)
    /\ disk' = [disk EXCEPT ![c.file] = None]
    /\ writers' = [writers EXCEPT ![c.file] = {c.run}]
    /\ GoesTo(c, IF c.expected # 0 THEN "range" ELSE "deleting")
    /\ UNCHANGED <<clientVars, expected, disturbed, faults>>

\* The first chunk of a file of which an upload has not finished: it is unlinked.
StartOver(c) ==
    /\ c.pc = "checking"
    /\ IsRestart(c)
    /\ disk' = [disk EXCEPT ![c.file] = None]
    /\ writers' = [writers EXCEPT ![c.file] = {c.run}]
    /\ Becomes(c, [c EXCEPT !.pc = "deleting", !.expected = 0])
    /\ UNCHANGED <<clientVars, expected, disturbed, faults>>

\* Another chunk is wanted.
AskForOther(c) ==
    /\ c.pc = "checking"
    /\ ~IsRestart(c)
    /\ c.expected # c.chunk
    /\ GoesTo(c, "range")
    /\ UNCHANGED <<clientVars, serverVars, faults>>

\* The file exists already.
Refuse(c) ==
    /\ c.pc = "checking"
    /\ ~IsRestart(c)
    /\ c.expected = c.chunk
    /\ c.chunk = 0 /\ Exists(c.file) /\ ~c.overwrite
    /\ GoesTo(c, "refused")
    /\ UNCHANGED <<clientVars, serverVars, faults>>

\* Mutant: an existing file is no obstacle.
AcceptAny(c) ==
    /\ c.pc = "checking"
    /\ ~IsRestart(c)
    /\ c.expected = c.chunk
    /\ GoesTo(c, IF c.chunk = 0 THEN "deleting" ELSE "appending")
    /\ UNCHANGED <<clientVars, serverVars, faults>>

Accept(c) ==
    /\ c.pc = "checking"
    /\ ~IsRestart(c)
    /\ c.expected = c.chunk
    /\ c.chunk = 0 /\ Exists(c.file) => c.overwrite
    /\ GoesTo(c, IF c.chunk = 0 THEN "deleting" ELSE "appending")
    /\ UNCHANGED <<clientVars, serverVars, faults>>

\* lib.delete unlinks what is there and waits for a refresh, which may fail.
Delete(c) ==
    /\ c.pc = "deleting"
    /\ disk' = [disk EXCEPT ![c.file] = None]
    /\ writers' = [writers EXCEPT ![c.file] = {c.run}]
    /\ \/ GoesTo(c, "creating") /\ UNCHANGED faults
       \/ /\ faults < MaxFaults
          /\ faults' = faults + 1
          /\ GoesTo(c, "failed")
    /\ UNCHANGED <<clientVars, expected, disturbed>>

\* The first chunk is written to an empty file.
Create(c) ==
    /\ c.pc = "creating"
    /\ disk' = [disk EXCEPT ![c.file] = <<<<c.run, c.chunk>>>>]
    /\ writers' = [writers EXCEPT ![c.file] = {c.run}]
    /\ disturbed' = disturbed \ {c.file}
    /\ GoesTo(c, "storing")
    /\ UNCHANGED <<clientVars, expected, faults>>

\* Any other is appended to what there is; past the end of its file it is empty.
AppendChunk(c) ==
    /\ c.pc = "appending"
    /\ disk' = [disk EXCEPT ![c.file] =
                   (IF @ = None THEN <<>> ELSE @) \o
                   (IF c.chunk > c.total THEN <<>> ELSE <<<<c.run, c.chunk>>>>)]
    /\ writers' = [writers EXCEPT ![c.file] = @ \cup {c.run}]
    /\ GoesTo(c, "storing")
    /\ UNCHANGED <<clientVars, expected, disturbed, faults>>

After(k) == IF k = MaxChunk THEN k ELSE k + 1

\* The chunk awaited next is stored; after the last one none is.
Store(c) ==
    /\ c.pc = "storing"
    /\ expected' = [expected EXCEPT ![c.file] =
                       IF c.chunk = c.total THEN None ELSE After(c.chunk)]
    /\ writers' = [writers EXCEPT ![c.file] = @ \cup {c.run}]
    /\ Becomes(c, [c EXCEPT !.pc = IF c.chunk = c.total THEN "created" ELSE "next",
                            !.expected = After(c.chunk)])
    /\ UNCHANGED <<clientVars, disk, disturbed, faults>>

\* Nobody reads the answer.
Discard(c) ==
    /\ c.pc \in Answers
    /\ Abandoned(c)
    /\ calls' = calls \ {c}
    /\ UNCHANGED <<clientVars, serverVars, faults>>

Handle(c) ==
    \/ Lookup(c) \/ StartOver(c) \/ AskForOther(c) \/ Refuse(c) \/ Accept(c)
    \/ Delete(c) \/ Create(c) \/ AppendChunk(c) \/ Store(c) \/ Discard(c)

-----------------------------------------------------------------------------
(* What goes wrong                                                         *)

Fault == faults < MaxFaults /\ faults' = faults + 1

\* The client sees the connection fail; the handler goes on.
LoseConnection(t, c) ==
    /\ Fault
    /\ IsAwaited(c, t)
    /\ Settle(t, c, "failed", calls)
    /\ UNCHANGED serverVars

\* The worker dies with the request, or the request never arrives.
Crash(c) ==
    /\ Fault
    /\ c.pc \in Handling
    /\ GoesTo(c, "failed")
    /\ UNCHANGED <<clientVars, serverVars>>

\* The request is refused on its way to post_upload, by the server or what is in
\* front of it.
BadRequest(c) ==
    /\ Fault
    /\ c.pc = "sent"
    /\ GoesTo(c, "unknown")
    /\ UNCHANGED <<clientVars, serverVars>>

\* The API is restarted, and the dictionary is empty again.
Restart ==
    /\ Fault
    /\ expected' = [f \in Files |-> None]
    /\ calls' = {IF c.pc \in Handling THEN [c EXCEPT !.pc = "failed"] ELSE c : c \in calls}
    /\ UNCHANGED <<clientVars, disk, writers, disturbed>>

\* The user removes a file, with the file browser or otherwise.
RemoveFile(f) ==
    /\ Fault
    /\ Exists(f)
    /\ disk' = [disk EXCEPT ![f] = None]
    /\ disturbed' = disturbed \cup {f}
    /\ UNCHANGED <<clientVars, calls, expected, writers>>
-----------------------------------------------------------------------------

Next ==
    \/ \E t \in Tabs, total \in Totals, overwrite \in BOOLEAN : \E fs \in Drops[t] :
          Drop(t, fs, total, overwrite)
    \/ \E t \in Tabs, c \in calls : Receive(t, c)
    \/ \E t \in Tabs : Leave(t)
    \/ \E c \in calls : Lookup(c)
    \/ \E c \in calls : StartOver(c)
    \/ \E c \in calls : AskForOther(c)
    \/ \E c \in calls : Refuse(c)
    \/ \E c \in calls : Accept(c)
    \/ \E c \in calls : Delete(c)
    \/ \E c \in calls : Create(c)
    \/ \E c \in calls : AppendChunk(c)
    \/ \E c \in calls : Store(c)
    \/ \E c \in calls : Discard(c)
    \/ \E t \in Tabs, c \in calls : LoseConnection(t, c)
    \/ \E c \in calls : Crash(c)
    \/ \E c \in calls : BadRequest(c)
    \/ Restart
    \/ \E f \in Files : RemoveFile(f)

\* The event loops of the browser and of the workers run what is ready.
Fairness ==
    \A t \in Tabs, f \in Files :
        /\ WF_vars(\E c \in calls : c.run[1] = t /\ c.file = f /\ Handle(c))
        /\ WF_vars(\E c \in calls : c.file = f /\ Receive(t, c))

Spec == Init /\ [][Next]_vars /\ Fairness

-----------------------------------------------------------------------------
(* Properties                                                              *)

\* All the chunks of a file, in order.
Whole(r, total) == [i \in 1..(total + 1) |-> <<r, i - 1>>]

\* A file that a tab shows as complete holds every chunk of it once and in
\* order, unless another run had a hand in the file, or the user removed what
\* there was of it.  Lost answers, failed deletions and restarts are no excuse.
CompleteIsWhole ==
    \A t \in Tabs, f \in Files :
        /\ status[t][f] = "complete"
        /\ writers[f] = {<<t, run[t]>>}
        /\ f \notin disturbed
        => \E total \in Totals : disk[f] = Whole(<<t, run[t]>>, total)

\* As CompleteIsWhole, whoever disturbed the upload: post_upload `Tracks the
\* number of chunks and will request the correct chunk'.  The code does not keep
\* this.
ChunksAreTracked ==
    \A t \in Tabs, f \in Files :
        /\ status[t][f] = "complete"
        /\ writers[f] = {<<t, run[t]>>}
        /\ Exists(f)
        => \E total \in Totals : disk[f] = Whole(<<t, run[t]>>, total)

\* The loop of a tab waits for a promise that nothing will settle any more.
Waits(t) == \E c \in calls : IsAwaited(c, t) /\ c.pc = "ignored"

\* An upload ends, and the form can be used again, whatever the faults and the
\* other tab do; of uploads to one path, as long as all have the same size.  The
\* exception is an answer 400 that the page does not know: after it the form is
\* stuck until the page is loaded again.
UploadsEnd == \A t \in Tabs : InProgress(t) ~> ~InProgress(t) \/ Waits(t)

\* A file that was there before is replaced only by a run that may overwrite it,
\* or removed by the user.
OldFilesAreKept ==
    [][\A f \in Files :
          disk[f] = <<Old>> /\ disk'[f] # <<Old>> =>
             \/ \E c \in calls : c.file = f /\ c.overwrite /\ c.pc = "deleting"
             \/ RemoveFile(f)]_vars
=============================================================================
