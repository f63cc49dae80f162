------------------------------ MODULE FileMoves ------------------------------
(***************************************************************************)
(* What the two handlers of wrolpi/files/worker.py that move file groups   *)
(* do to the disk and to the `file_group' table: handle_move, and          *)
(* handle_reorganize with the mappings that execute_reorganization builds. *)
(* A group is one row: a primary file, by whose path it is found, and the  *)
(* other files of its list (subtitles, posters).                           *)
(*                                                                         *)
(* A step is one file moved, or one use of the database; anything may      *)
(* raise between two of them, and the server may die.  Moving a file is a  *)
(* rename: it happens or it does not.  The user may move or remove a group *)
(* by hand at any time, and a refresh that runs before the job deletes the *)
(* rows whose primary file it does not find.                               *)
(*                                                                         *)
(* Abstracted: each file has one path it comes from and one it goes to;    *)
(* directories are not modelled, nor are files that have no row, nor files *)
(* other than the primary that stand in the way, which stay where they are. *)
(***************************************************************************)
EXTENDS Naturals, FiniteSets

CONSTANTS
    Groups,      \* the file groups, each one row of `file_group'
    Files,       \* the files each of them has
    Primary,     \* the one at its primary path
    ChunkSize,   \* MOVE_CHUNK_SIZE
    MaxFaults,   \* bound on exceptions, crashes and changes by hand together
    None         \* no group

ASSUME PrimaryAssumption == Primary \in Files
ASSUME ChunkAssumption == ChunkSize \in Nat \ {0}
ASSUME FaultsAssumption == MaxFaults \in Nat
ASSUME NoneAssumption == None \notin Groups

VARIABLES
    task,        \* which handler this is about
    blocked,     \* groups whose destination a foreign file has taken
    disk,        \* where each file is
    row,         \* where the committed rows say each file is
    session,     \* the rows as the open transaction has them
    plan,        \* the groups this job was asked to move
    todo,        \* those it has not come to yet
    current,     \* the group whose files it is moving
    moved,       \* the files of that group it has moved
    pending,     \* chunk_plan, pending_updates: per group, the files to record
    revert,      \* revert_plan
    phase,       \* how far the job is
    format,      \* the file_format recorded for the collection
    astray,      \* history: rows that a fault, or the user, may have left behind
                 \* their primary file
    split,       \* history: groups a fault may have left in two places
    faults       \* (bound) exceptions, crashes and changes by hand so far

jobVars == <<plan, todo, current, moved, pending, revert, phase>>
historyVars == <<astray, split>>
vars == <<task, blocked, disk, row, session, jobVars, format, historyVars, faults>>

Phases == {"idle", "queued", "moving", "flushing", "committed", "reverting",
           "complete", "failed", "crashed"}
Rest == {"idle", "complete", "failed", "crashed"}
Places == {"source", "destination"}
Gone == "gone"                    \* a file that the user has taken away
Rows == [Groups -> [Files -> Places \cup {"nowhere"}]]

TypeOK ==
    /\ task \in {"move", "reorganize"}
    /\ blocked \subseteq Groups
    /\ disk \in [Groups -> [Files -> Places \cup {Gone}]]
    /\ row \in Rows
    /\ session \in Rows
    /\ plan \subseteq Groups
    /\ todo \subseteq Groups
    /\ current \in Groups \cup {None}
    /\ moved \subseteq Files
    /\ pending \in [Groups -> SUBSET Files]
    /\ revert \subseteq Groups
    /\ phase \in Phases
    /\ format \in {"old", "new"}
    /\ astray \subseteq Groups
    /\ split \subseteq Groups
    /\ faults \in 0..MaxFaults

At(g, f) == disk[g][f]
Nothing == [g \in Groups |-> {}]
Pending == {g \in Groups : pending[g] # {}}

\* The user may have moved a group by hand before asking for it to be moved.
Init ==
    /\ task \in {"move", "reorganize"}
    /\ \E premoved \in SUBSET Groups :
          /\ blocked \in SUBSET (Groups \ premoved)
          /\ disk = [g \in Groups |-> [f \in Files |->
                        IF g \in premoved THEN "destination" ELSE "source"]]
          /\ astray = premoved
    /\ row = [g \in Groups |-> [f \in Files |-> "source"]]
    /\ session = row
    /\ plan = {} /\ todo = {} /\ current = None /\ moved = {}
    /\ pending = Nothing /\ revert = {}
    /\ phase = "idle"
    /\ format = "old"
    /\ split = {}
    /\ faults = 0

-----------------------------------------------------------------------------
(* The rows                                                                *)

\* What the update of a chunk makes of the rows: the group is at its destination
\* directory, and so are the files recorded under their new names; the other
\* names of its list are looked for there, and are not found.
Recorded(rows) ==
    [g \in Groups |->
        IF pending[g] = {} THEN rows[g]
        ELSE [f \in Files |-> IF f \in pending[g] THEN "destination" ELSE "nowhere"]]

\* The files of a group for which something is found at the destination, be it a
\* foreign file that has taken the place of the primary one.
Found(g) ==
    {f \in Files : At(g, f) = "destination"}
    \cup (IF g \in blocked THEN {Primary} ELSE {})

\* The rows that still have the old primary path.
Unmoved == {g \in Groups : row[g][Primary] = "source"}

-----------------------------------------------------------------------------
(* The start of a job                                                      *)

\* The sources of a move are found on the disk, so that a group whose primary
\* file is gone from there is in the plan only if its path was given.
Asked(S) ==
    /\ S # {}
    /\ S \subseteq Unmoved
    /\ \A g \in Unmoved \ S : At(g, Primary) # "source"

Conflicts(S) == {g \in S : g \in blocked /\ At(g, Primary) = "source"}

\* The handler makes the plan of a move, the first time or again after a failure.
\* A plan with a conflict is refused.
Begin(S) ==
    /\ task = "move"
    /\ phase \in Rest \ {"complete"}
    /\ Asked(S)
    /\ plan' = S /\ todo' = S /\ moved' = {} /\ revert' = {}
    /\ phase' = IF Conflicts(S) # {} THEN "failed" ELSE "moving"
    /\ UNCHANGED <<task, blocked, disk, row, session, current, pending, format,
                   historyVars, faults>>

\* Mutant: the format is recorded when the job is queued.
QueueFormats ==
    /\ task = "reorganize"
    /\ phase \in Rest \ {"complete"}
    /\ Unmoved # {}
    /\ plan' = Unmoved
    /\ phase' = "queued"
    /\ format' = "new"
    /\ UNCHANGED <<task, blocked, disk, row, session, todo, current, moved, pending,
                   revert, historyVars, faults>>

\* A reorganization is queued with the mappings of the rows as they are now.
Queue ==
    /\ task = "reorganize"
    /\ phase \in Rest \ {"complete"}
    /\ Unmoved # {}
    /\ plan' = Unmoved
    /\ phase' = "queued"
    /\ UNCHANGED <<task, blocked, disk, row, session, todo, current, moved, pending,
                   revert, format, historyVars, faults>>

\* Its handler begins with them later, and fetches the rows that still are there.
Start ==
    /\ phase = "queued"
    /\ todo' = plan
    /\ phase' = "moving"
    /\ UNCHANGED <<task, blocked, disk, row, session, plan, current, moved, pending,
                   revert, format, historyVars, faults>>

\* execute_reorganization finds nothing to move and records the format.
NothingToMove ==
    /\ task = "reorganize"
    /\ phase \in Rest \ {"complete"}
    /\ Unmoved = {}
    /\ format' = "new"
    /\ phase' = "complete"
    /\ UNCHANGED <<task, blocked, disk, row, session, plan, todo, current, moved,
                   pending, revert, historyVars, faults>>

-----------------------------------------------------------------------------
(* One group after the other                                               *)

\* The next group; directories of the plan count too, so a chunk may be short.
NextGroup(g) ==
    /\ phase = "moving"
    /\ current = None
    /\ g \in todo
    /\ task = "move" => Cardinality(Pending) < ChunkSize
    /\ todo' = todo \ {g}

TakeGroup(g) ==
    /\ NextGroup(g)
    /\ row[g][Primary] = "source"
    /\ At(g, Primary) = "source"
    /\ g \notin blocked
    /\ current' = g
    /\ moved' = {}
    /\ UNCHANGED <<task, blocked, disk, row, session, plan, pending, revert, phase,
                   format, historyVars, faults>>

\* A reorganization passes over a group whose row is gone, one whose destination
\* is taken, and one of which there is nothing at either place.
Skipped(g) ==
    /\ task = "reorganize"
    /\ \/ row[g][Primary] # "source"
       \/ At(g, Primary) = "source" /\ g \in blocked
       \/ At(g, Primary) # "source" /\ Primary \notin Found(g)

\* Mutant: a group that is passed over is recorded like one that was moved.
SkipGroupRecords(g) ==
    /\ NextGroup(g)
    /\ Skipped(g)
    /\ pending' = [pending EXCEPT ![g] = Files]
    /\ UNCHANGED <<task, blocked, disk, row, session, plan, current, moved, revert,
                   phase, format, historyVars, faults>>

SkipGroup(g) ==
    /\ NextGroup(g)
    /\ Skipped(g)
    /\ UNCHANGED <<task, blocked, disk, row, session, plan, current, moved, pending,
                   revert, phase, format, historyVars, faults>>

\* Mutant: a group that was moved before is taken for done.
AdoptGroupForgets(g) ==
    /\ NextGroup(g)
    /\ row[g][Primary] = "source"
    /\ At(g, Primary) # "source"
    /\ UNCHANGED <<task, blocked, disk, row, session, plan, current, moved, pending,
                   revert, phase, format, historyVars, faults>>

\* The primary file is not where the row says, and taken for moved before: only
\* the row is updated.  A reorganization looks which files are at the destination;
\* a move does not look at all.
AdoptGroup(g) ==
    /\ NextGroup(g)
    /\ row[g][Primary] = "source"
    /\ At(g, Primary) # "source"
    /\ task = "reorganize" => Primary \in Found(g)
    /\ pending' = [pending EXCEPT ![g] = IF task = "move" THEN Files ELSE Found(g)]
    /\ UNCHANGED <<task, blocked, disk, row, session, plan, current, moved, revert,
                   phase, format, historyVars, faults>>

MoveFile(f) ==
    /\ phase = "moving"
    /\ current # None
    /\ At(current, f) = "source"
    /\ disk' = [disk EXCEPT ![current][f] = "destination"]
    /\ moved' = moved \cup {f}
    /\ UNCHANGED <<task, blocked, row, session, plan, todo, current, pending, revert,
                   phase, format, historyVars, faults>>

\* Mutant: the group is not remembered for the revert.
GroupMovedForgets ==
    /\ phase = "moving"
    /\ current # None
    /\ \A f \in Files : At(current, f) # "source"
    /\ pending' = [pending EXCEPT ![current] = IF task = "move" THEN Files ELSE moved]
    /\ current' = None
    /\ revert' = revert
    /\ phase' = IF task = "reorganize" /\ Cardinality(Pending \cup {current}) >= ChunkSize
                THEN "flushing" ELSE "moving"
    /\ UNCHANGED <<task, blocked, disk, row, session, plan, todo, moved, format,
                   historyVars, faults>>

\* All its files are moved: a move remembers it for the revert, both record it,
\* and a reorganization is due to flush when it has recorded a chunk.
GroupMoved ==
    /\ phase = "moving"
    /\ current # None
    /\ \A f \in Files : At(current, f) # "source"
    /\ pending' = [pending EXCEPT ![current] = IF task = "move" THEN Files ELSE moved]
    /\ current' = None
    /\ revert' = IF task = "move" THEN revert \cup {current} ELSE revert
    /\ phase' = IF task = "reorganize" /\ Cardinality(Pending \cup {current}) >= ChunkSize
                THEN "flushing" ELSE "moving"
    /\ UNCHANGED <<task, blocked, disk, row, session, plan, todo, moved, format,
                   historyVars, faults>>

-----------------------------------------------------------------------------
(* The database                                                            *)

\* A chunk of a move is written in the transaction that the whole move has.
WriteChunk ==
    /\ task = "move"
    /\ phase = "moving"
    /\ current = None
    /\ Pending # {}
    /\ session' = Recorded(session)
    /\ pending' = Nothing
    /\ UNCHANGED <<task, blocked, disk, row, plan, todo, current, moved, revert,
                   phase, format, historyVars, faults>>

\* Mutant: the transaction is committed without the updates of the last chunk.
CommitEarly ==
    /\ task = "move"
    /\ phase = "moving"
    /\ current = None /\ todo = {}
    /\ row' = session
    /\ pending' = Nothing
    /\ astray' = astray \ plan
    /\ phase' = "committed"
    /\ UNCHANGED <<task, blocked, disk, session, plan, todo, current, moved, revert,
                   format, split, faults>>

Commit ==
    /\ task = "move"
    /\ phase = "moving"
    /\ current = None /\ todo = {} /\ Pending = {}
    /\ row' = session
    /\ astray' = astray \ plan
    /\ phase' = "committed"
    /\ UNCHANGED <<task, blocked, disk, session, plan, todo, current, moved, pending,
                   revert, format, split, faults>>

\* Old directories are cleaned up, and what was moved is indexed.
MoveCompletes ==
    /\ task = "move"
    /\ phase = "committed"
    /\ phase' = "complete"
    /\ UNCHANGED <<task, blocked, disk, row, session, plan, todo, current, moved,
                   pending, revert, format, historyVars, faults>>

\* A reorganization commits its updates as they come, and the rest at the end.
Flush ==
    /\ task = "reorganize"
    /\ \/ phase = "flushing" /\ phase' = "moving"
       \/ /\ phase = "moving" /\ current = None /\ todo = {}
          /\ phase' = "committed"
    /\ row' = Recorded(row)
    /\ session' = row'
    /\ astray' = astray \ Pending
    /\ pending' = Nothing
    /\ UNCHANGED <<task, blocked, disk, plan, todo, current, moved, revert, format,
                   split, faults>>

\* The new format is recorded last.
ReorganizeCompletes ==
    /\ task = "reorganize"
    /\ phase = "committed"
    /\ format' = "new"
    /\ phase' = "complete"
    /\ UNCHANGED <<task, blocked, disk, row, session, plan, todo, current, moved,
                   pending, revert, historyVars, faults>>

-----------------------------------------------------------------------------
(* Failures                                                                *)

Fault == faults < MaxFaults /\ faults' = faults + 1

Interrupted == {current} \ {None}
DropWork ==
    /\ session' = row
    /\ todo' = {} /\ current' = None /\ moved' = {}
    /\ pending' = Nothing

\* An exception or, in a move, a cancellation: the transaction is rolled back
\* and the files are moved back, also when the rows were committed before.
MoveRaises ==
    /\ task = "move"
    /\ phase \in {"moving", "committed"}
    /\ Fault
    /\ DropWork
    /\ phase' = "reverting"
    /\ astray' = astray \cup Interrupted \cup (IF phase = "committed" THEN revert ELSE {})
    /\ split' = split \cup Interrupted
    /\ UNCHANGED <<task, blocked, disk, row, plan, revert, format>>

\* _revert_move moves the primary file back, or goes on if that fails too.
RevertGroup(g) ==
    /\ phase = "reverting"
    /\ g \in revert
    /\ revert' = revert \ {g}
    /\ \/ /\ disk' = [disk EXCEPT ![g][Primary] = "source"]
          /\ UNCHANGED <<astray, faults>>
       \/ /\ Fault
          /\ astray' = astray \cup {g}
          /\ UNCHANGED disk
    /\ UNCHANGED <<task, blocked, row, session, plan, todo, current, moved, pending,
                   phase, format, split>>

\* Nothing is left to be moved back.
MoveFails ==
    /\ phase = "reverting"
    /\ revert = {}
    /\ phase' = "failed"
    /\ UNCHANGED <<task, blocked, disk, row, session, plan, todo, current, moved,
                   pending, revert, format, historyVars, faults>>

\* A reorganization is not rolled back, and drops the updates it has not flushed.
ReorganizeFails ==
    /\ task = "reorganize"
    /\ phase \in {"moving", "flushing", "committed"}
    /\ Fault
    /\ DropWork
    /\ phase' = "failed"
    /\ astray' = astray \cup Interrupted \cup Pending
    /\ split' = split \cup Interrupted
    /\ UNCHANGED <<task, blocked, disk, row, plan, revert, format>>

\* The server dies: the transaction is lost, the job is not resumed.
Crash ==
    /\ phase \notin Rest
    /\ Fault
    /\ DropWork
    /\ phase' = "crashed"
    /\ astray' = astray \cup Interrupted \cup Pending
                        \cup (IF phase = "committed" THEN {} ELSE revert)
    /\ split' = split \cup Interrupted
    /\ revert' = {}
    /\ UNCHANGED <<task, blocked, disk, row, plan, format>>

-----------------------------------------------------------------------------
(* What happens besides the job                                            *)

\* The user moves the files of a group, or takes them away.
ByHand(g, place) ==
    /\ phase # "complete"
    /\ g # current
    /\ At(g, Primary) = "source"
    /\ place = "destination" => g \notin blocked
    /\ Fault
    /\ disk' = [disk EXCEPT ![g] =
                   [f \in Files |-> IF At(g, f) = "source" THEN place ELSE At(g, f)]]
    /\ astray' = astray \cup {g}
    /\ UNCHANGED <<task, blocked, row, session, jobVars, format, split>>

\* A refresh deletes the row of a primary file that it does not find.  What it
\* finds elsewhere gets a new row, which no mapping of this job is about.
RowDeleted(g) ==
    /\ phase \in {"idle", "queued", "failed", "crashed"}
    /\ row[g][Primary] \in Places
    /\ disk[g][Primary] # row[g][Primary]
    /\ row' = [row EXCEPT ![g] = [f \in Files |-> "nowhere"]]
    /\ session' = row'
    /\ UNCHANGED <<task, blocked, disk, jobVars, format, historyVars, faults>>

-----------------------------------------------------------------------------

GroupStep(g) ==
    \/ TakeGroup(g)
    \/ SkipGroup(g)
    \/ AdoptGroup(g)
    \/ RevertGroup(g)
    \/ \E place \in {"destination", Gone} : ByHand(g, place)
    \/ RowDeleted(g)

Next ==
    \/ \E S \in SUBSET Groups : Begin(S)
    \/ Queue \/ Start
    \/ NothingToMove
    \/ \E g \in Groups : GroupStep(g)
    \/ \E f \in Files : MoveFile(f)
    \/ GroupMoved
    \/ WriteChunk \/ Commit \/ MoveCompletes
    \/ Flush \/ ReorganizeCompletes
    \/ MoveRaises \/ MoveFails \/ ReorganizeFails
    \/ Crash

Spec == Init /\ [][Next]_vars

-----------------------------------------------------------------------------
(* Properties                                                              *)

\* The group has a row, and its primary file is somewhere.
Known(g) == row[g][Primary] \in Places /\ disk[g][Primary] # Gone

\* Whenever no job is under way, the row of a group leads to its primary file,
\* except after what the handlers do not repair: the group was in the middle of
\* being moved, its update was dropped, its revert failed too, it was reverted
\* after the commit, or the user has moved it.  After a reorganization the row
\* also leads to every other file, unless it was interrupted between the files.
RowsAreTrue ==
    phase \in Rest => \A g \in Groups \ astray : Known(g) =>
        /\ row[g][Primary] = disk[g][Primary]
        /\ task = "reorganize" /\ g \notin split => row[g] = disk[g]

\* However often it failed or died before, and whatever the user has moved since
\* it was queued, a reorganization that completes has found and recorded every
\* primary file that is left: nothing is left behind by its row.
ReorganizeRecovers ==
    task = "reorganize" /\ phase = "complete" =>
        \A g \in Groups : Known(g) => row[g][Primary] = disk[g][Primary]

\* A move that completes has moved or adopted its whole plan: the row of every
\* group is at the destination and so is its primary file, if the user has not
\* taken it away; of a group that was moved, so are all files.
CompleteMoveIsWhole ==
    task = "move" /\ phase = "complete" =>
        /\ \A g \in plan : /\ disk[g][Primary] # "source"
                           /\ row[g][Primary] = "destination"
        /\ \A g \in revert, f \in Files : /\ disk[g][f] = "destination"
                                          /\ row[g][f] = "destination"

\* No row is committed as moved while its primary file is at the source still;
\* nor, by a reorganization, when there is no file at the destination at all.
RowIsNotAhead ==
    [][\A g \in Groups :
          row[g][Primary] = "source" /\ row'[g][Primary] = "destination"
          => /\ disk[g][Primary] # "source"
             /\ task = "reorganize" /\ g \notin blocked
                => disk[g][Primary] = "destination"]_vars

\* When the format of a collection is recorded, the primary files that have a row
\* are all moved, but for those that met a conflict and those that are gone: a
\* reorganization that failed can be asked for again.
FormatIsLast ==
    format = "new" =>
        \A g \in Groups \ blocked : Known(g) => row[g][Primary] = "destination"

\* What _revert_move says: "Revert a failed move operation by moving files back
\* to original locations."  The code moves the primary files back only.
FailedMoveIsUndone ==
    task = "move" /\ phase = "failed" =>
        \A g \in Groups \ (astray \cup split) : Known(g) => row[g] = disk[g]

==============================================================================
