--------------------------- MODULE FileMoves_proofs ---------------------------
(***************************************************************************)
(* Moving and reorganizing file groups, for any groups, files, chunk size  *)
(* and number of faults.  The argument follows each group through a job:   *)
(* it is still to do, being moved, recorded in a pending update, or written *)
(* to the transaction; only then may the rows be committed, and a fault in *)
(* between makes it one of those that the handlers are known to leave.     *)
(***************************************************************************)
EXTENDS FileMoves, TLAPS

Busy == phase \in {"moving", "flushing"}

\* What is there in which phase.
ShapeInv ==
    /\ current # None => phase = "moving"
    /\ phase \in {"queued", "flushing"} => task = "reorganize"
    /\ phase = "reverting" => task = "move"
    /\ ~Busy => \A g \in Groups : pending[g] = {}
    /\ task = "reorganize" => revert = {}
    /\ phase \in {"idle", "failed", "crashed"} => revert = {}

\* The mappings of a queued job cover every row that is to be moved; a group to do
\* has not been touched by this job, though its row may be gone.
TodoInv ==
    /\ phase = "queued" => /\ \A g \in plan : row[g][Primary] # "destination"
                           /\ \A g \in Groups \ plan : row[g][Primary] # "source"
    /\ Busy => \A g \in todo : /\ g \in plan
                               /\ row[g][Primary] # "destination"
                               /\ task = "move" => row[g][Primary] = "source"
                               /\ pending[g] = {}
                               /\ g \notin revert
                               /\ g # current

\* An update is pending for a primary file that is not at the source, and is at
\* the destination, unless it is gone; the whole group is, if it was not split.
PendingInv ==
    \A g \in Groups : pending[g] # {} =>
        /\ g \in plan
        /\ Primary \in pending[g]
        /\ disk[g][Primary] # "source"
        /\ task = "move" => pending[g] = Files
        /\ task = "reorganize" =>
              /\ g \notin blocked => disk[g][Primary] = "destination"
              /\ g \notin split /\ disk[g][Primary] # Gone =>
                    pending[g] = Files /\ \A f \in Files : disk[g][f] = "destination"

\* The group being moved: what is at the destination was moved by this job.
CurrentInv ==
    current # None =>
        /\ current \in plan
        /\ current \notin blocked
        /\ current \notin revert
        /\ pending[current] = {}
        /\ row[current][Primary] = "source"
        /\ disk[current][Primary] # Gone
        /\ disk[current][Primary] = "destination" => Primary \in moved
        /\ task = "reorganize" /\ current \notin split =>
              \A f \in Files : disk[current][f] = "destination" => f \in moved

\* A group is taken away with its primary file, and nothing moves a group whose
\* destination is taken.
DiskInv ==
    /\ \A g \in Groups, f \in Files : disk[g][f] = Gone => disk[g][Primary] = Gone
    /\ \A g \in blocked : disk[g][Primary] # "destination"

\* Reorganizing records no move before it has happened.
RowInv ==
    \A g \in Groups : task = "reorganize" /\ row[g][Primary] = "destination"
                         => disk[g][Primary] # "source"

\* The transaction of a move touches its plan only.
SessionInv ==
    /\ ~(task = "move" /\ phase = "moving") => session = row
    /\ task = "move" /\ phase = "moving" =>
          /\ \A g \in Groups \ plan : session[g] = row[g]
          /\ \A g \in plan : row[g][Primary] = "source"

\* How far a move is with each group of its plan.
PlanInv ==
    /\ task = "move" /\ phase = "moving" =>
          \A g \in plan :
              \/ g \in todo
              \/ g = current
              \/ /\ disk[g][Primary] # "source"
                 /\ \/ pending[g] = Files
                    \/ \A f \in Files : session[g][f] = "destination"
    /\ task = "move" /\ phase \in {"committed", "complete"} =>
          \A g \in plan : /\ disk[g][Primary] # "source"
                          /\ \A f \in Files : row[g][f] = "destination"

RevertInv ==
    \A g \in revert :
        /\ g \in plan
        /\ \A f \in Files : disk[g][f] = "destination"
        /\ phase = "reverting" => g \in astray \/ row[g][Primary] = "source"

\* The groups whose row may differ from the disk for now.
Excused(g) ==
    \/ g = current
    \/ task = "reorganize" /\ pending[g] # {}
    \/ phase \in {"moving", "reverting"} /\ g \in revert

AgreeInv ==
    \A g \in Groups \ astray :
        Known(g) => row[g][Primary] = disk[g][Primary] \/ Excused(g)

\* A reorganization keeps the files of a group together, but for the faults.
WholeInv ==
    task = "reorganize" => \A g \in Groups \ split :
        /\ g # current => \A f \in Files : disk[g][f] = disk[g][Primary]
        /\ g \notin astray /\ Known(g) =>
              row[g] = disk[g] \/ g = current \/ pending[g] # {}

\* How far a reorganization is with the groups it can move.
FormatInv ==
    /\ format = "new" => task = "reorganize"
    /\ task = "reorganize" => \A g \in Groups \ blocked : Known(g) =>
          /\ Busy => \/ row[g][Primary] = "destination"
                     \/ g \in todo
                     \/ g = current
                     \/ pending[g] # {}
          /\ phase \in {"committed", "complete"} \/ format = "new" =>
                row[g][Primary] = "destination"

IInv ==
    /\ TypeOK
    /\ ShapeInv
    /\ TodoInv
    /\ PendingInv
    /\ CurrentInv
    /\ DiskInv
    /\ RowInv
    /\ SessionInv
    /\ PlanInv
    /\ RevertInv
    /\ AgreeInv
    /\ WholeInv
    /\ FormatInv

-----------------------------------------------------------------------------
(* Every step preserves the invariant                                      *)

USE PrimaryAssumption, NoneAssumption, FaultsAssumption
USE DEF At, Busy, Phases, Rest, Places, Gone, Known, Rows, jobVars, historyVars

LEMMA InitInv == Init => IInv
  BY DEF Init, Nothing, IInv, TypeOK, ShapeInv, TodoInv, PendingInv, CurrentInv,
         DiskInv, RowInv, SessionInv, PlanInv, RevertInv, AgreeInv, Excused,
         WholeInv, FormatInv

\* A job starts with nothing pending, nothing to revert and no group in hand.
LEMMA BeginInv ==
  ASSUME IInv, NEW S \in SUBSET Groups, Begin(S)
  PROVE  IInv'
  <1>1. TypeOK'
    BY DEF IInv, TypeOK, ShapeInv, Begin, Asked, Unmoved
  <1> QED
    BY <1>1 DEF IInv, TypeOK, ShapeInv, TodoInv, PendingInv, CurrentInv,
         DiskInv, RowInv, SessionInv, PlanInv, RevertInv, AgreeInv,
         WholeInv, FormatInv, Excused, Begin, Asked, Unmoved

\* The mappings are those of the rows; nothing else changes.
LEMMA QueueInv ==
  ASSUME IInv, Queue
  PROVE  IInv'
  <1>1. TypeOK'
    BY DEF IInv, TypeOK, ShapeInv, Queue, Unmoved
  <1>2. ShapeInv' /\ TodoInv'
    BY DEF IInv, TypeOK, ShapeInv, CurrentInv, TodoInv, PendingInv, Queue,
         Unmoved
  <1>3. PendingInv' /\ CurrentInv'
    BY DEF IInv, TypeOK, ShapeInv, TodoInv, PendingInv, CurrentInv, DiskInv,
         WholeInv, Queue, Unmoved
  <1>4. DiskInv' /\ RowInv' /\ SessionInv'
    BY DEF IInv, TypeOK, ShapeInv, DiskInv, CurrentInv, RevertInv, TodoInv,
         RowInv, PendingInv, SessionInv, Queue, Unmoved
  <1>5. PlanInv' /\ RevertInv'
    BY DEF IInv, TypeOK, ShapeInv, PlanInv, PendingInv, DiskInv, SessionInv,
         RevertInv, CurrentInv, Queue, Unmoved
  <1>6. AgreeInv'
    BY DEF IInv, TypeOK, ShapeInv, AgreeInv, Excused, PendingInv,
         CurrentInv, RowInv, SessionInv, PlanInv, RevertInv, TodoInv,
         DiskInv, Queue, Unmoved
  <1>7. WholeInv' /\ FormatInv'
    BY DEF IInv, TypeOK, ShapeInv, WholeInv, PendingInv, CurrentInv,
         TodoInv, SessionInv, FormatInv, RowInv, DiskInv, Queue, Unmoved
  <1> QED
    BY <1>1, <1>2, <1>3, <1>4, <1>5, <1>6, <1>7 DEF IInv

\* What was queued is to do, as far as it still has rows.
LEMMA StartInv ==
  ASSUME IInv, Start
  PROVE  IInv'
  <1>1. TypeOK'
    BY DEF IInv, TypeOK, ShapeInv, Start
  <1>2. ShapeInv' /\ TodoInv'
    BY DEF IInv, TypeOK, ShapeInv, CurrentInv, TodoInv, PendingInv, Start
  <1>3. PendingInv' /\ CurrentInv'
    BY DEF IInv, TypeOK, ShapeInv, TodoInv, PendingInv, CurrentInv, DiskInv,
         WholeInv, Start
  <1>4. DiskInv' /\ RowInv' /\ SessionInv'
    BY DEF IInv, TypeOK, ShapeInv, DiskInv, CurrentInv, RevertInv, TodoInv,
         RowInv, PendingInv, SessionInv, Start
  <1>5. PlanInv' /\ RevertInv'
    BY DEF IInv, TypeOK, ShapeInv, PlanInv, PendingInv, DiskInv, SessionInv,
         RevertInv, CurrentInv, Start
  <1>6. AgreeInv'
    BY DEF IInv, TypeOK, ShapeInv, AgreeInv, Excused, PendingInv,
         CurrentInv, RowInv, SessionInv, PlanInv, RevertInv, TodoInv,
         DiskInv, Start
  <1>7. WholeInv' /\ FormatInv'
    BY DEF IInv, TypeOK, ShapeInv, WholeInv, PendingInv, CurrentInv,
         TodoInv, SessionInv, FormatInv, RowInv, DiskInv, Start
  <1> QED
    BY <1>1, <1>2, <1>3, <1>4, <1>5, <1>6, <1>7 DEF IInv

\* Every row is at its destination, so the format may be recorded.
LEMMA NothingToMoveInv ==
  ASSUME IInv, NothingToMove
  PROVE  IInv'
  <1>1. TypeOK'
    BY DEF IInv, TypeOK, ShapeInv, NothingToMove, Unmoved
  <1> QED
    BY <1>1 DEF IInv, TypeOK, ShapeInv, TodoInv, PendingInv, CurrentInv,
         DiskInv, RowInv, SessionInv, PlanInv, RevertInv, AgreeInv,
         WholeInv, FormatInv, Excused, NothingToMove, Unmoved

\* A group that was to do has not been touched.
LEMMA TakeGroupInv ==
  ASSUME IInv, NEW g \in Groups, TakeGroup(g)
  PROVE  IInv'
  <1>1. TypeOK'
    BY DEF IInv, TypeOK, ShapeInv, TakeGroup, NextGroup
  <1>2. ShapeInv' /\ TodoInv'
    BY DEF IInv, TypeOK, ShapeInv, CurrentInv, TodoInv, PendingInv,
         TakeGroup, NextGroup
  <1>3. PendingInv' /\ CurrentInv'
    BY DEF IInv, TypeOK, ShapeInv, TodoInv, PendingInv, CurrentInv,
         WholeInv, TakeGroup, NextGroup
  <1>4. DiskInv' /\ RowInv' /\ SessionInv'
    BY DEF IInv, TypeOK, ShapeInv, DiskInv, CurrentInv, RevertInv,
         TodoInv, RowInv, PendingInv, SessionInv, TakeGroup, NextGroup
  <1>5. PlanInv' /\ RevertInv'
    BY DEF IInv, TypeOK, ShapeInv, PlanInv, PendingInv, DiskInv,
         SessionInv, RevertInv, CurrentInv, TakeGroup, NextGroup
  <1>6. AgreeInv'
    <2>1. current = None /\ phase = "moving" /\ AgreeInv
      BY DEF IInv, TakeGroup, NextGroup
    <2>2. UNCHANGED <<task, row, disk, astray, phase, revert, pending>>
      BY DEF TakeGroup, NextGroup
    <2>3. ASSUME NEW x \in Groups \ astray
          PROVE  Known(x) => row[x][Primary] = disk[x][Primary] \/ Excused(x)'
      BY <2>1, <2>2, <2>3 DEF AgreeInv, Excused
    <2> QED
      BY <2>2, <2>3 DEF AgreeInv
  <1>7. WholeInv'
    <2>1. current = None /\ current' = g
      BY DEF IInv, TakeGroup, NextGroup
    <2>2. UNCHANGED <<task, row, disk, astray, split, pending>>
      BY DEF TakeGroup, NextGroup
    <2>3. WholeInv
      BY DEF IInv
    <2> QED
      BY <2>1, <2>2, <2>3 DEF WholeInv
  <1>8. FormatInv'
    <2>1. current = None /\ current' = g /\ todo' = todo \ {g}
      BY DEF IInv, TakeGroup, NextGroup
    <2>2. UNCHANGED <<task, row, disk, blocked, format, phase, pending>>
      BY DEF TakeGroup, NextGroup
    <2>3. FormatInv
      BY DEF IInv
    <2> QED
      BY <2>1, <2>2, <2>3 DEF FormatInv
  <1> QED
    BY <1>1, <1>2, <1>3, <1>4, <1>5, <1>6, <1>7, <1>8 DEF IInv

\* A group that is passed over has no row, or is in the way of a foreign file, or
\* is gone.
LEMMA SkipGroupInv ==
  ASSUME IInv, NEW g \in Groups, SkipGroup(g)
  PROVE  IInv'
  <1>1. TypeOK'
    BY DEF IInv, TypeOK, ShapeInv, SkipGroup, NextGroup
  <1>2. ShapeInv' /\ TodoInv' /\ PendingInv' /\ CurrentInv' /\ DiskInv' /\ RowInv'
    BY DEF IInv, TypeOK, ShapeInv, TodoInv, PendingInv, CurrentInv, DiskInv,
         RowInv, SkipGroup, NextGroup
  <1>3. SessionInv' /\ PlanInv' /\ RevertInv' /\ AgreeInv' /\ WholeInv'
    BY DEF IInv, TypeOK, ShapeInv, SessionInv, PlanInv, RevertInv, AgreeInv,
         WholeInv, Excused, SkipGroup, NextGroup, Skipped
  <1>4. FormatInv'
    <2>1. g \notin blocked /\ Known(g) => row[g][Primary] = "destination"
      BY DEF IInv, TypeOK, SkipGroup, Skipped, Found
    <2>2. UNCHANGED <<task, row, disk, blocked, format, phase, pending, current>>
      BY DEF SkipGroup, NextGroup
    <2>3. FormatInv /\ todo' = todo \ {g}
      BY DEF IInv, SkipGroup, NextGroup
    <2> QED
      BY <2>1, <2>2, <2>3 DEF FormatInv
  <1> QED
    BY <1>1, <1>2, <1>3, <1>4 DEF IInv

\* An untouched group whose primary file is not at the source was astray before.
LEMMA AdoptGroupInv ==
  ASSUME IInv, NEW g \in Groups, AdoptGroup(g)
  PROVE  IInv'
  <1>1. TypeOK'
    BY DEF IInv, TypeOK, ShapeInv, AdoptGroup, NextGroup, Found
  <1>2. ShapeInv' /\ TodoInv'
    BY DEF IInv, TypeOK, ShapeInv, CurrentInv, TodoInv, PendingInv,
         AdoptGroup, NextGroup, Found
  <1>3. PendingInv' /\ CurrentInv'
    BY DEF IInv, TypeOK, ShapeInv, TodoInv, PendingInv, CurrentInv,
         DiskInv, WholeInv, AdoptGroup, NextGroup, Found
  <1>4. DiskInv' /\ RowInv' /\ SessionInv'
    BY DEF IInv, TypeOK, ShapeInv, DiskInv, CurrentInv, RevertInv,
         TodoInv, RowInv, PendingInv, SessionInv, AdoptGroup, NextGroup, Found
  <1>5. PlanInv' /\ RevertInv'
    BY DEF IInv, TypeOK, ShapeInv, PlanInv, PendingInv, DiskInv,
         SessionInv, RevertInv, CurrentInv, AdoptGroup, NextGroup, Found
  <1>6. AgreeInv'
    BY DEF IInv, TypeOK, ShapeInv, AgreeInv, Excused, PendingInv,
         CurrentInv, RowInv, SessionInv, PlanInv, RevertInv, TodoInv,
         AdoptGroup, NextGroup, Found
  <1>7. WholeInv' /\ FormatInv'
    BY DEF IInv, TypeOK, ShapeInv, WholeInv, PendingInv, CurrentInv,
         TodoInv, SessionInv, FormatInv, RowInv, AdoptGroup, NextGroup, Found
  <1> QED
    BY <1>1, <1>2, <1>3, <1>4, <1>5, <1>6, <1>7 DEF IInv

\* The primary file is where the row, rolled back, says.
LEMMA RevertGroupInv ==
  ASSUME IInv, NEW g \in Groups, RevertGroup(g)
  PROVE  IInv'
  <1>1. TypeOK'
    <2>1. [disk EXCEPT ![g][Primary] = "source"]
              \in [Groups -> [Files -> Places \cup {Gone}]]
      BY DEF IInv, TypeOK
    <2>2. disk' \in [Groups -> [Files -> Places \cup {Gone}]]
      BY <2>1 DEF IInv, TypeOK, RevertGroup
    <2> QED
      BY <2>2 DEF IInv, TypeOK, RevertGroup, Fault
  <1>2. ShapeInv' /\ TodoInv'
    BY DEF IInv, TypeOK, ShapeInv, CurrentInv, TodoInv, PendingInv,
         RevertGroup, Fault
  <1>3. PendingInv' /\ CurrentInv'
    BY DEF IInv, TypeOK, ShapeInv, TodoInv, PendingInv, CurrentInv,
         WholeInv, RevertGroup, Fault
  <1>4. RowInv' /\ SessionInv'
    BY DEF IInv, TypeOK, ShapeInv, RowInv, SessionInv, RevertGroup, Fault
  <1>8. DiskInv'
    <2>1. \A f \in Files : disk[g][f] = "destination"
      BY DEF IInv, RevertInv, RevertGroup
    <2>2. DiskInv /\ disk \in [Groups -> [Files -> Places \cup {Gone}]]
      BY DEF IInv, TypeOK
    <2>3. disk' = disk \/ disk' = [disk EXCEPT ![g][Primary] = "source"]
      BY DEF RevertGroup
    <2>4. blocked' = blocked /\ blocked \subseteq Groups
      BY DEF IInv, TypeOK, RevertGroup
    <2> QED
      BY <2>1, <2>2, <2>3, <2>4 DEF DiskInv
  <1>5. PlanInv' /\ RevertInv'
    BY DEF IInv, TypeOK, ShapeInv, PlanInv, PendingInv, DiskInv,
         SessionInv, RevertInv, CurrentInv, RevertGroup, Fault
  <1>6. AgreeInv'
    BY DEF IInv, TypeOK, ShapeInv, AgreeInv, Excused, PendingInv,
         CurrentInv, RowInv, SessionInv, PlanInv, RevertInv, TodoInv,
         RevertGroup, Fault
  <1>7. WholeInv' /\ FormatInv'
    BY DEF IInv, TypeOK, ShapeInv, WholeInv, PendingInv, CurrentInv,
         TodoInv, SessionInv, FormatInv, RowInv, RevertGroup, Fault
  <1> QED
    BY <1>1, <1>2, <1>3, <1>4, <1>5, <1>6, <1>7, <1>8 DEF IInv

\* Only files of the group in hand move, and they are counted.
LEMMA MoveFileInv ==
  ASSUME IInv, NEW f \in Files, MoveFile(f)
  PROVE  IInv'
  <1>1. TypeOK'
    BY DEF IInv, TypeOK, ShapeInv, MoveFile
  <1>2. ShapeInv' /\ TodoInv'
    BY DEF IInv, TypeOK, ShapeInv, CurrentInv, TodoInv, PendingInv, MoveFile
  <1>3. PendingInv' /\ CurrentInv'
    BY DEF IInv, TypeOK, ShapeInv, TodoInv, PendingInv, CurrentInv,
         WholeInv, MoveFile
  <1>4. DiskInv' /\ RowInv' /\ SessionInv'
    BY DEF IInv, TypeOK, ShapeInv, DiskInv, CurrentInv, RevertInv,
         TodoInv, RowInv, PendingInv, SessionInv, MoveFile
  <1>5. PlanInv' /\ RevertInv'
    BY DEF IInv, TypeOK, ShapeInv, PlanInv, PendingInv, DiskInv,
         SessionInv, RevertInv, CurrentInv, MoveFile
  <1>6. AgreeInv'
    BY DEF IInv, TypeOK, ShapeInv, AgreeInv, Excused, PendingInv,
         CurrentInv, RowInv, SessionInv, PlanInv, RevertInv, TodoInv,
         MoveFile
  <1>7. WholeInv' /\ FormatInv'
    BY DEF IInv, TypeOK, ShapeInv, WholeInv, PendingInv, CurrentInv,
         TodoInv, SessionInv, FormatInv, RowInv, MoveFile
  <1> QED
    BY <1>1, <1>2, <1>3, <1>4, <1>5, <1>6, <1>7 DEF IInv

\* The group in hand becomes one to record and, in a move, to revert.
LEMMA GroupMovedInv ==
  ASSUME IInv, GroupMoved
  PROVE  IInv'
  <1>1. TypeOK'
    <2>1. current \in Groups
      BY DEF IInv, TypeOK, GroupMoved
    <2>2. pending' \in [Groups -> SUBSET Files]
      BY <2>1 DEF IInv, TypeOK, GroupMoved
    <2> QED
      BY <2>1, <2>2 DEF IInv, TypeOK, GroupMoved
  <1>2. ShapeInv' /\ TodoInv'
    BY DEF IInv, TypeOK, ShapeInv, CurrentInv, TodoInv, PendingInv,
         GroupMoved
  <1>3. PendingInv' /\ CurrentInv'
    <2> SUFFICES ASSUME NEW g \in Groups, pending'[g] # {}
                 PROVE  /\ g \in plan
                        /\ Primary \in pending'[g]
                        /\ disk[g][Primary] # "source"
                        /\ task = "move" => pending'[g] = Files
                        /\ task = "reorganize" =>
                              /\ g \notin blocked => disk[g][Primary] = "destination"
                              /\ g \notin split /\ disk[g][Primary] # Gone =>
                                    /\ pending'[g] = Files
                                    /\ \A f \in Files : disk[g][f] = "destination"
      BY DEF PendingInv, CurrentInv, GroupMoved
    <2>1. CASE g # current
      BY <2>1 DEF IInv, TypeOK, PendingInv, GroupMoved
    <2>2. CASE g = current
      <3>1. \A f \in Files : disk[g][f] = "destination"
        BY <2>2 DEF IInv, TypeOK, CurrentInv, DiskInv, GroupMoved
      <3>2. task = "reorganize" /\ g \notin split => moved = Files
        BY <2>2, <3>1 DEF IInv, TypeOK, CurrentInv, GroupMoved
      <3> QED
        BY <2>2, <3>1, <3>2 DEF IInv, TypeOK, CurrentInv, GroupMoved
    <2> QED
      BY <2>1, <2>2
  <1>4. DiskInv' /\ RowInv' /\ SessionInv'
    BY DEF IInv, TypeOK, ShapeInv, DiskInv, CurrentInv, RevertInv,
         TodoInv, RowInv, PendingInv, SessionInv, GroupMoved
  <1>5. PlanInv' /\ RevertInv'
    BY DEF IInv, TypeOK, ShapeInv, PlanInv, PendingInv, DiskInv,
         SessionInv, RevertInv, CurrentInv, DiskInv, GroupMoved
  <1>6. AgreeInv'
    BY DEF IInv, TypeOK, ShapeInv, AgreeInv, Excused, PendingInv,
         CurrentInv, RowInv, SessionInv, PlanInv, RevertInv, TodoInv,
         GroupMoved
  <1>7. WholeInv' /\ FormatInv'
    BY DEF IInv, TypeOK, ShapeInv, WholeInv, PendingInv, CurrentInv,
         TodoInv, SessionInv, FormatInv, RowInv, DiskInv, GroupMoved
  <1> QED
    BY <1>1, <1>2, <1>3, <1>4, <1>5, <1>6, <1>7 DEF IInv

\* What was pending is in the transaction.
LEMMA WriteChunkInv ==
  ASSUME IInv, WriteChunk
  PROVE  IInv'
  <1>1. TypeOK'
    BY DEF IInv, TypeOK, ShapeInv, WriteChunk, Recorded, Nothing
  <1>2. ShapeInv' /\ TodoInv'
    BY DEF IInv, TypeOK, ShapeInv, CurrentInv, TodoInv, PendingInv,
         WriteChunk, Recorded, Nothing
  <1>3. PendingInv' /\ CurrentInv'
    BY DEF IInv, TypeOK, ShapeInv, TodoInv, PendingInv, CurrentInv,
         WholeInv, WriteChunk, Recorded, Nothing
  <1>4. DiskInv' /\ RowInv' /\ SessionInv'
    BY DEF IInv, TypeOK, ShapeInv, DiskInv, CurrentInv, RevertInv,
         TodoInv, RowInv, PendingInv, SessionInv, WriteChunk, Recorded,
         Nothing
  <1>5. PlanInv' /\ RevertInv'
    BY DEF IInv, TypeOK, ShapeInv, PlanInv, PendingInv, DiskInv,
         SessionInv, RevertInv, CurrentInv, WriteChunk, Recorded, Nothing
  <1>6. AgreeInv'
    BY DEF IInv, TypeOK, ShapeInv, AgreeInv, Excused, PendingInv,
         CurrentInv, RowInv, SessionInv, PlanInv, RevertInv, TodoInv,
         WriteChunk, Recorded, Nothing
  <1>7. WholeInv' /\ FormatInv'
    BY DEF IInv, TypeOK, ShapeInv, WholeInv, PendingInv, CurrentInv,
         TodoInv, SessionInv, FormatInv, RowInv, WriteChunk, Recorded,
         Nothing
  <1> QED
    BY <1>1, <1>2, <1>3, <1>4, <1>5, <1>6, <1>7 DEF IInv

\* The whole plan is at the destination, and the rows say so.
LEMMA CommitInv ==
  ASSUME IInv, Commit
  PROVE  IInv'
  <1>1. TypeOK'
    BY DEF IInv, TypeOK, ShapeInv, Commit, Pending
  <1>2. ShapeInv' /\ TodoInv'
    BY DEF IInv, TypeOK, ShapeInv, CurrentInv, TodoInv, PendingInv, Commit,
         Pending
  <1>3. PendingInv' /\ CurrentInv'
    BY DEF IInv, TypeOK, ShapeInv, TodoInv, PendingInv, CurrentInv,
         WholeInv, Commit, Pending
  <1>4. DiskInv' /\ RowInv' /\ SessionInv'
    BY DEF IInv, TypeOK, ShapeInv, DiskInv, CurrentInv, RevertInv,
         TodoInv, RowInv, PendingInv, SessionInv, Commit, Pending
  <1>5. PlanInv' /\ RevertInv'
    BY DEF IInv, TypeOK, ShapeInv, PlanInv, PendingInv, DiskInv,
         SessionInv, RevertInv, CurrentInv, Commit, Pending
  <1>6. AgreeInv'
    BY DEF IInv, TypeOK, ShapeInv, AgreeInv, Excused, PendingInv,
         CurrentInv, RowInv, SessionInv, PlanInv, RevertInv, TodoInv,
         Commit, Pending
  <1>7. WholeInv' /\ FormatInv'
    BY DEF IInv, TypeOK, ShapeInv, WholeInv, PendingInv, CurrentInv,
         TodoInv, SessionInv, FormatInv, RowInv, Commit, Pending
  <1> QED
    BY <1>1, <1>2, <1>3, <1>4, <1>5, <1>6, <1>7 DEF IInv

LEMMA MoveCompletesInv ==
  ASSUME IInv, MoveCompletes
  PROVE  IInv'
  <1>1. TypeOK'
    BY DEF IInv, TypeOK, ShapeInv, MoveCompletes
  <1> QED
    BY <1>1 DEF IInv, TypeOK, ShapeInv, TodoInv, PendingInv, CurrentInv,
         DiskInv, RowInv, SessionInv, PlanInv, RevertInv, AgreeInv,
         WholeInv, FormatInv, Excused, MoveCompletes

\* A pending row is right once it is recorded.
LEMMA FlushInv ==
  ASSUME IInv, Flush
  PROVE  IInv'
  <1>1. TypeOK'
    BY DEF IInv, TypeOK, ShapeInv, Flush, Recorded, Nothing, Pending
  <1>2. ShapeInv' /\ TodoInv'
    BY DEF IInv, TypeOK, ShapeInv, CurrentInv, TodoInv, PendingInv, Flush,
         Recorded, Nothing, Pending
  <1>3. PendingInv' /\ CurrentInv'
    BY DEF IInv, TypeOK, ShapeInv, TodoInv, PendingInv, CurrentInv,
         WholeInv, Flush, Recorded, Nothing, Pending
  <1>4. DiskInv' /\ RowInv' /\ SessionInv'
    BY DEF IInv, TypeOK, ShapeInv, DiskInv, CurrentInv, RevertInv,
         TodoInv, RowInv, PendingInv, SessionInv, Flush, Recorded, Nothing,
         Pending
  <1>5. PlanInv' /\ RevertInv'
    BY DEF IInv, TypeOK, ShapeInv, PlanInv, PendingInv, DiskInv,
         SessionInv, RevertInv, CurrentInv, Flush, Recorded, Nothing,
         Pending
  <1>6. AgreeInv'
    BY DEF IInv, TypeOK, ShapeInv, AgreeInv, Excused, PendingInv,
         CurrentInv, RowInv, SessionInv, PlanInv, RevertInv, TodoInv, Flush,
         Recorded, Nothing, Pending
  <1>7. WholeInv' /\ FormatInv'
    BY DEF IInv, TypeOK, ShapeInv, WholeInv, PendingInv, CurrentInv,
         TodoInv, SessionInv, FormatInv, RowInv, Flush, Recorded, Nothing,
         Pending
  <1> QED
    BY <1>1, <1>2, <1>3, <1>4, <1>5, <1>6, <1>7 DEF IInv

LEMMA ReorganizeCompletesInv ==
  ASSUME IInv, ReorganizeCompletes
  PROVE  IInv'
  <1>1. TypeOK'
    BY DEF IInv, TypeOK, ShapeInv, ReorganizeCompletes
  <1> QED
    BY <1>1 DEF IInv, TypeOK, ShapeInv, TodoInv, PendingInv, CurrentInv,
         DiskInv, RowInv, SessionInv, PlanInv, RevertInv, AgreeInv,
         WholeInv, FormatInv, Excused, ReorganizeCompletes

\* The group in hand is split; after the commit the reverted ones go astray.
LEMMA MoveRaisesInv ==
  ASSUME IInv, MoveRaises
  PROVE  IInv'
  <1>1. TypeOK'
    BY DEF IInv, TypeOK, ShapeInv, MoveRaises, Fault, DropWork, Interrupted,
         Nothing
  <1>2. ShapeInv' /\ TodoInv'
    BY DEF IInv, TypeOK, ShapeInv, CurrentInv, TodoInv, PendingInv,
         MoveRaises, Fault, DropWork, Interrupted, Nothing
  <1>3. PendingInv' /\ CurrentInv'
    BY DEF IInv, TypeOK, ShapeInv, TodoInv, PendingInv, CurrentInv,
         WholeInv, MoveRaises, Fault, DropWork, Interrupted, Nothing
  <1>4. DiskInv' /\ RowInv' /\ SessionInv'
    BY DEF IInv, TypeOK, ShapeInv, DiskInv, CurrentInv, RevertInv,
         TodoInv, RowInv, PendingInv, SessionInv, MoveRaises, Fault,
         DropWork, Interrupted, Nothing
  <1>5. PlanInv' /\ RevertInv'
    BY DEF IInv, TypeOK, ShapeInv, PlanInv, PendingInv, DiskInv,
         SessionInv, RevertInv, CurrentInv, MoveRaises, Fault, DropWork,
         Interrupted, Nothing
  <1>6. AgreeInv'
    BY DEF IInv, TypeOK, ShapeInv, AgreeInv, Excused, PendingInv,
         CurrentInv, RowInv, SessionInv, PlanInv, RevertInv, TodoInv,
         MoveRaises, Fault, DropWork, Interrupted, Nothing
  <1>7. WholeInv' /\ FormatInv'
    BY DEF IInv, TypeOK, ShapeInv, WholeInv, PendingInv, CurrentInv,
         TodoInv, SessionInv, FormatInv, RowInv, MoveRaises, Fault,
         DropWork, Interrupted, Nothing
  <1> QED
    BY <1>1, <1>2, <1>3, <1>4, <1>5, <1>6, <1>7 DEF IInv

LEMMA MoveFailsInv ==
  ASSUME IInv, MoveFails
  PROVE  IInv'
  <1>1. TypeOK'
    BY DEF IInv, TypeOK, ShapeInv, MoveFails
  <1> QED
    BY <1>1 DEF IInv, TypeOK, ShapeInv, TodoInv, PendingInv, CurrentInv,
         DiskInv, RowInv, SessionInv, PlanInv, RevertInv, AgreeInv,
         WholeInv, FormatInv, Excused, MoveFails

\* Updates that were pending are dropped.
LEMMA ReorganizeFailsInv ==
  ASSUME IInv, ReorganizeFails
  PROVE  IInv'
  <1>1. TypeOK'
    BY DEF IInv, TypeOK, ShapeInv, ReorganizeFails, Fault, DropWork,
         Interrupted, Nothing, Pending
  <1>2. ShapeInv' /\ TodoInv'
    BY DEF IInv, TypeOK, ShapeInv, CurrentInv, TodoInv, PendingInv,
         ReorganizeFails, Fault, DropWork, Interrupted, Nothing, Pending
  <1>3. PendingInv' /\ CurrentInv'
    BY DEF IInv, TypeOK, ShapeInv, TodoInv, PendingInv, CurrentInv,
         WholeInv, ReorganizeFails, Fault, DropWork, Interrupted, Nothing,
         Pending
  <1>4. DiskInv' /\ RowInv' /\ SessionInv'
    BY DEF IInv, TypeOK, ShapeInv, DiskInv, CurrentInv, RevertInv,
         TodoInv, RowInv, PendingInv, SessionInv, ReorganizeFails, Fault,
         DropWork, Interrupted, Nothing, Pending
  <1>5. PlanInv' /\ RevertInv'
    BY DEF IInv, TypeOK, ShapeInv, PlanInv, PendingInv, DiskInv,
         SessionInv, RevertInv, CurrentInv, ReorganizeFails, Fault,
         DropWork, Interrupted, Nothing, Pending
  <1>6. AgreeInv'
    BY DEF IInv, TypeOK, ShapeInv, AgreeInv, Excused, PendingInv,
         CurrentInv, RowInv, SessionInv, PlanInv, RevertInv, TodoInv,
         ReorganizeFails, Fault, DropWork, Interrupted, Nothing, Pending
  <1>7. WholeInv' /\ FormatInv'
    BY DEF IInv, TypeOK, ShapeInv, WholeInv, PendingInv, CurrentInv,
         TodoInv, SessionInv, FormatInv, RowInv, ReorganizeFails, Fault,
         DropWork, Interrupted, Nothing, Pending
  <1> QED
    BY <1>1, <1>2, <1>3, <1>4, <1>5, <1>6, <1>7 DEF IInv

\* The same of the death of the server.
LEMMA CrashInv ==
  ASSUME IInv, Crash
  PROVE  IInv'
  <1>1. TypeOK'
    BY DEF IInv, TypeOK, ShapeInv, Crash, Fault, DropWork, Interrupted,
         Nothing, Pending
  <1>2. ShapeInv' /\ TodoInv'
    BY DEF IInv, TypeOK, ShapeInv, CurrentInv, TodoInv, PendingInv, Crash,
         Fault, DropWork, Interrupted, Nothing, Pending
  <1>3. PendingInv' /\ CurrentInv'
    BY DEF IInv, TypeOK, ShapeInv, TodoInv, PendingInv, CurrentInv,
         WholeInv, Crash, Fault, DropWork, Interrupted, Nothing, Pending
  <1>4. DiskInv' /\ RowInv' /\ SessionInv'
    BY DEF IInv, TypeOK, ShapeInv, DiskInv, CurrentInv, RevertInv,
         TodoInv, RowInv, PendingInv, SessionInv, Crash, Fault, DropWork,
         Interrupted, Nothing, Pending
  <1>5. PlanInv' /\ RevertInv'
    BY DEF IInv, TypeOK, ShapeInv, PlanInv, PendingInv, DiskInv,
         SessionInv, RevertInv, CurrentInv, Crash, Fault, DropWork,
         Interrupted, Nothing, Pending
  <1>6. AgreeInv'
    BY DEF IInv, TypeOK, ShapeInv, AgreeInv, Excused, PendingInv,
         CurrentInv, RowInv, SessionInv, PlanInv, RevertInv, TodoInv, Crash,
         Fault, DropWork, Interrupted, Nothing, Pending
  <1>7. WholeInv' /\ FormatInv'
    BY DEF IInv, TypeOK, ShapeInv, WholeInv, PendingInv, CurrentInv,
         TodoInv, SessionInv, FormatInv, RowInv, Crash, Fault, DropWork,
         Interrupted, Nothing, Pending
  <1> QED
    BY <1>1, <1>2, <1>3, <1>4, <1>5, <1>6, <1>7 DEF IInv

\* The group goes astray as a whole, and only from the source.
LEMMA ByHandInv ==
  ASSUME IInv, NEW g \in Groups, NEW place \in {"destination", Gone}, ByHand(g, place)
  PROVE  IInv'
  <1>1. TypeOK'
    BY DEF IInv, TypeOK, ShapeInv, ByHand, Fault
  <1>2. ShapeInv' /\ TodoInv'
    BY DEF IInv, TypeOK, ShapeInv, CurrentInv, TodoInv, PendingInv, ByHand,
         Fault
  <1>3. PendingInv' /\ CurrentInv'
    BY DEF IInv, TypeOK, ShapeInv, TodoInv, PendingInv, CurrentInv, DiskInv,
         WholeInv, ByHand, Fault
  <1>4. DiskInv' /\ RowInv' /\ SessionInv'
    BY DEF IInv, TypeOK, ShapeInv, DiskInv, CurrentInv, RevertInv, TodoInv,
         RowInv, PendingInv, SessionInv, ByHand, Fault
  <1>5. PlanInv' /\ RevertInv'
    BY DEF IInv, TypeOK, ShapeInv, PlanInv, PendingInv, DiskInv, SessionInv,
         RevertInv, CurrentInv, ByHand, Fault
  <1>6. AgreeInv'
    BY DEF IInv, TypeOK, ShapeInv, AgreeInv, Excused, PendingInv,
         CurrentInv, RowInv, SessionInv, PlanInv, RevertInv, TodoInv,
         DiskInv, ByHand, Fault
  <1>7. WholeInv' /\ FormatInv'
    BY DEF IInv, TypeOK, ShapeInv, WholeInv, PendingInv, CurrentInv,
         TodoInv, SessionInv, FormatInv, RowInv, DiskInv, ByHand, Fault
  <1> QED
    BY <1>1, <1>2, <1>3, <1>4, <1>5, <1>6, <1>7 DEF IInv

\* A row that is gone is not looked for.
LEMMA RowDeletedInv ==
  ASSUME IInv, NEW g \in Groups, RowDeleted(g)
  PROVE  IInv'
  <1>1. TypeOK'
    BY DEF IInv, TypeOK, ShapeInv, RowDeleted
  <1>2. ShapeInv' /\ TodoInv'
    BY DEF IInv, TypeOK, ShapeInv, CurrentInv, TodoInv, PendingInv,
         RowDeleted
  <1>3. PendingInv' /\ CurrentInv'
    BY DEF IInv, TypeOK, ShapeInv, TodoInv, PendingInv, CurrentInv, DiskInv,
         WholeInv, RowDeleted
  <1>4. DiskInv' /\ RowInv' /\ SessionInv'
    BY DEF IInv, TypeOK, ShapeInv, DiskInv, CurrentInv, RevertInv, TodoInv,
         RowInv, PendingInv, SessionInv, RowDeleted
  <1>5. PlanInv' /\ RevertInv'
    BY DEF IInv, TypeOK, ShapeInv, PlanInv, PendingInv, DiskInv, SessionInv,
         RevertInv, CurrentInv, RowDeleted
  <1>6. AgreeInv'
    BY DEF IInv, TypeOK, ShapeInv, AgreeInv, Excused, PendingInv,
         CurrentInv, RowInv, SessionInv, PlanInv, RevertInv, TodoInv,
         DiskInv, RowDeleted
  <1>7. WholeInv' /\ FormatInv'
    BY DEF IInv, TypeOK, ShapeInv, WholeInv, PendingInv, CurrentInv,
         TodoInv, SessionInv, FormatInv, RowInv, DiskInv, RowDeleted
  <1> QED
    BY <1>1, <1>2, <1>3, <1>4, <1>5, <1>6, <1>7 DEF IInv

LEMMA NextInv == IInv /\ [Next]_vars => IInv'
  <1> SUFFICES ASSUME IInv, [Next]_vars PROVE IInv'
    OBVIOUS
  <1>1. CASE Next
    BY <1>1, BeginInv, NothingToMoveInv, TakeGroupInv, SkipGroupInv, AdoptGroupInv,
       RevertGroupInv, MoveFileInv, GroupMovedInv, WriteChunkInv, CommitInv,
       MoveCompletesInv, FlushInv, ReorganizeCompletesInv, MoveRaisesInv, MoveFailsInv,
       ReorganizeFailsInv, CrashInv, QueueInv, StartInv, ByHandInv, RowDeletedInv
    DEF Next, GroupStep
  <1>2. CASE UNCHANGED vars
    BY <1>2 DEF vars, jobVars, IInv, TypeOK, ShapeInv, TodoInv, PendingInv, CurrentInv,
         DiskInv, RowInv, SessionInv, PlanInv, RevertInv, AgreeInv, Excused,
         WholeInv, FormatInv
  <1> QED
    BY <1>1, <1>2

LEMMA Inductive == Spec => []IInv
  BY InitInv, NextInv, PTL DEF Spec

-----------------------------------------------------------------------------
(* What follows from it                                                    *)

\* Every variable keeps its type.
THEOREM TypeCorrect == Spec => []TypeOK
  <1>1. IInv => TypeOK
    BY DEF IInv
  <1> QED
    BY <1>1, Inductive, PTL

\* When no job is under way, a row that no fault has left behind leads to its
\* primary file, and after a reorganization to all its files.
THEOREM RowsStayTrue == Spec => []RowsAreTrue
  <1>1. IInv => RowsAreTrue
    BY DEF IInv, TypeOK, ShapeInv, AgreeInv, Excused, WholeInv, RowsAreTrue
  <1> QED
    BY <1>1, Inductive, PTL

\* A reorganization that completes leaves no row behind its primary file.
THEOREM ReorganizingRecovers == Spec => []ReorganizeRecovers
  <1>1. IInv => ReorganizeRecovers
    BY DEF IInv, TypeOK, DiskInv, RowInv, FormatInv, ReorganizeRecovers
  <1> QED
    BY <1>1, Inductive, PTL

\* A move that completes has moved and recorded its whole plan.
THEOREM CompletedMoveIsWhole == Spec => []CompleteMoveIsWhole
  <1>1. IInv => CompleteMoveIsWhole
    BY DEF IInv, TypeOK, PlanInv, RevertInv, CompleteMoveIsWhole
  <1> QED
    BY <1>1, Inductive, PTL

\* The new format is recorded when only conflicts, and groups whose row or primary
\* file is gone, are left.
THEOREM FormatComesLast == Spec => []FormatIsLast
  <1>1. IInv => FormatIsLast
    BY DEF IInv, FormatInv, FormatIsLast
  <1> QED
    BY <1>1, Inductive, PTL

\* The rows change in a flush and in a commit only, both after the moves.
THEOREM RowsAreNotAhead == Spec => RowIsNotAhead
  <1> DEFINE NotAhead == \A g \in Groups :
                row[g][Primary] = "source" /\ row'[g][Primary] = "destination"
                => /\ disk[g][Primary] # "source"
                   /\ task = "reorganize" /\ g \notin blocked
                      => disk[g][Primary] = "destination"
  <1>1. IInv /\ [Next]_vars => [NotAhead]_vars
    <2> SUFFICES ASSUME IInv, Next PROVE NotAhead
      BY DEF vars
    <2>1. CASE Commit
      BY <2>1 DEF IInv, TypeOK, SessionInv, PlanInv, ShapeInv, Commit, Pending
    <2>2. CASE Flush
      BY <2>2 DEF IInv, TypeOK, PendingInv, Flush, Recorded
    <2>3. CASE row' = row
      BY <2>3
    <2>4. ASSUME NEW x \in Groups, RowDeleted(x) PROVE NotAhead
      BY <2>4 DEF IInv, TypeOK, RowDeleted
    <2>5. Commit \/ Flush \/ row' = row \/ \E x \in Groups : RowDeleted(x)
      BY DEF Next, GroupStep, Begin, Queue, Start, NothingToMove, TakeGroup, SkipGroup,
             AdoptGroup, ByHand, RevertGroup, MoveFile, GroupMoved, WriteChunk, MoveCompletes,
             ReorganizeCompletes, MoveRaises, MoveFails, ReorganizeFails, Crash
    <2> QED
      BY <2>1, <2>2, <2>3, <2>4, <2>5
  <1> QED
    BY <1>1, Inductive, PTL DEF Spec, RowIsNotAhead

==============================================================================
