------------------------------ MODULE Inventory ------------------------------
(***************************************************************************)
(* One inventory, edited in several browser tabs: useInventories of        *)
(* app/src/hooks/customHooks.js and the modal that imports and restores,   *)
(* the handlers of modules/inventory/api.py, InventoriesConfig of          *)
(* modules/inventory/common.py and MultiFileConfig of wrolpi/common.py.    *)
(* The workers of the API share the entities in a dictionary of a manager  *)
(* process; each has a YAML file, and a copy of what the file was before   *)
(* its last change.                                                        *)
(*                                                                         *)
(* A handler takes one step for each use of the dictionary, a file or the  *)
(* lock of the saves; other workers come between.  Every tab may have      *)
(* several requests under way, and their answers may pass each other.      *)
(*                                                                         *)
(* Abstracted: what an inventory holds is the set of edits it includes.    *)
(* The inventories of other slugs are left out, as are the food catalog,   *)
(* the listing and the preview of backups, the dates of backups, and the   *)
(* operations that nothing calls (replace, rename, save_later).            *)
(***************************************************************************)
EXTENDS Naturals, FiniteSets

CONSTANTS
    Tabs,        \* browser tabs
    Edits,       \* the changes that users make, each of them once
    Kinds,       \* the requests they make
    MaxCalls,    \* bound on requests
    MaxVersion,  \* bound on versions
    MaxFaults,   \* bound on failed writes, lost answers and edits of the file
    None         \* no inventory; nobody

AllKinds == {"fetch", "save", "create", "delete", "reimport", "merge", "overwrite"}

ASSUME KindsAssumption == Kinds \subseteq AllKinds
ASSUME BoundsAssumption == {MaxCalls, MaxFaults} \subseteq Nat /\ MaxVersion \in Nat \ {0}

VARIABLES
    memory,      \* _configs: the entity in the shared dictionary
    file,        \* the entity in its YAML file
    backup,      \* the file of the backup
    lock,        \* config_save_lock: the call that has it
    calls,       \* the requests under way
    view,        \* inventories: what each tab shows
    unused,      \* the edits not made yet
    sent,        \* (bound) the number of requests so far
    ambiguous,   \* history: the same version may have named two contents
    drift,       \* history: memory and file may differ for good
    cut,         \* history: the tabs that lost an answer
    faults       \* (bound) faults so far

stores == <<memory, file, backup>>
historyVars == <<ambiguous, drift, cut>>
vars == <<stores, lock, calls, view, unused, sent, historyVars, faults>>

Entities == [version : 0..MaxVersion, content : SUBSET Edits]
Stored == Entities \cup {None}

ASSUME NoneAssumption == None \notin Nat \cup Entities

Running == {"loading", "locking", "comparing", "putting", "writing",
            "bumping", "popping", "unlinking", "discovering", "reading", "storing",
            "answering"}
Answers == {"ok", "error", "lost"}

\* `version' and `content' are what the request carries, then what the handler
\* has read; `valid' is whether the patch of a save passes the validation.
Calls == [id : 1..MaxCalls, tab : Tabs, kind : AllKinds,
          pc : {"sent"} \cup Running \cup Answers, version : 0..MaxVersion,
          content : SUBSET Edits, valid : BOOLEAN, result : Stored]

TypeOK ==
    /\ memory \in Stored
    /\ file \in Stored
    /\ backup \in Stored
    /\ lock \in 1..MaxCalls \cup {None}
    /\ calls \subseteq Calls
    /\ view \in [Tabs -> Stored]
    /\ unused \subseteq Edits
    /\ sent \in 0..MaxCalls
    /\ ambiguous \in BOOLEAN
    /\ drift \in BOOLEAN
    /\ cut \subseteq Tabs
    /\ faults \in 0..MaxFaults

Entity(v, s) == [version |-> v, content |-> s]

\* The inventory was created some time ago, and every tab has loaded it.
Init ==
    /\ memory = Entity(1, {})
    /\ file = memory
    /\ backup = None
    /\ lock = None
    /\ calls = {}
    /\ view = [t \in Tabs |-> memory]
    /\ unused = Edits
    /\ sent = 0
    /\ ambiguous = FALSE
    /\ drift = FALSE
    /\ cut = {}
    /\ faults = 0

-----------------------------------------------------------------------------
(* The tabs                                                                *)

Request(t, kind, version, content, valid) ==
    [id |-> sent + 1, tab |-> t, kind |-> kind, pc |-> "sent", version |-> version,
     content |-> content, valid |-> valid, result |-> None]

Send(c) ==
    /\ sent < MaxCalls
    /\ c.kind \in Kinds \cup {"fetch"}
    /\ calls' = calls \cup {c}
    /\ sent' = sent + 1
    /\ UNCHANGED <<stores, lock, historyVars, faults>>

\* persistInventory: the patch is shown at once, and sent with the version the
\* tab has.
Persist(t, e, valid) ==
    /\ view[t] # None
    /\ e \in unused
    /\ unused' = unused \ {e}
    /\ view' = [view EXCEPT ![t].content = @ \cup {e}]
    /\ Send(Request(t, "save", view[t].version, view[t].content \cup {e}, valid))

\* Any other request.  An inventory of this name can be added when there is none.
Ask(t, kind) ==
    /\ kind # "save"
    /\ kind = "create" => view[t] = None
    /\ kind \in {"delete", "merge", "overwrite"} => view[t] # None
    /\ Send(Request(t, kind, 0, {}, TRUE))
    /\ UNCHANGED <<view, unused>>

\* fetchInventories.
Refetch(c) ==
    {[c EXCEPT !.kind = "fetch", !.pc = "sent", !.version = 0, !.content = {},
               !.valid = TRUE, !.result = None]}

\* What the tab shows after the answer.  What another request of the tab has
\* removed stays removed.
Shows(c) ==
    LET brings == \/ c.kind = "fetch"
                  \/ c.kind = "save" /\ c.result # None /\ view[c.tab] # None
                  \/ c.kind = "create" /\ c.result # None
    IN  CASE c.pc = "ok" /\ brings -> c.result
          [] c.pc = "ok" /\ c.kind = "delete" -> None
          [] OTHER -> view[c.tab]

\* Mutant: a save that fails is not followed by a fetch.
IsFollowedOnSuccess(c) ==
    c.kind \in {"reimport", "merge", "overwrite"} /\ c.pc = "ok"

\* A save that brought nothing back, a restore and an import are followed by a
\* fetch; a call that throws is not.
IsFollowed(c) ==
    \/ c.kind = "save" /\ (c.pc = "error" \/ (c.pc = "ok" /\ c.result = None))
    \/ c.kind \in {"reimport", "merge", "overwrite"} /\ c.pc = "ok"

Receive(c) ==
    /\ c.pc \in Answers
    /\ view' = [view EXCEPT ![c.tab] = Shows(c)]
    /\ calls' = (calls \ {c}) \cup (IF IsFollowed(c) THEN Refetch(c) ELSE {})
    /\ UNCHANGED <<stores, lock, unused, sent, historyVars, faults>>

-----------------------------------------------------------------------------
(* The handlers                                                            *)

Becomes(c, d) == calls' = (calls \ {c}) \cup {d}
GoesTo(c, pc) == Becomes(c, [c EXCEPT !.pc = pc])

\* The handler ends, and what it had read is gone.
Ends(c, pc, result) ==
    Becomes(c, [c EXCEPT !.pc = pc, !.version = 0, !.content = {}, !.valid = TRUE,
                         !.result = result])
clients == <<view, unused, sent, cut>>

Active == {c \in calls : c.pc \in Running}
Saves == {"save", "merge", "overwrite"}

\* The lookups before the lock; a fetch is answered at once.  Saves wait for
\* each other; nothing else does.  A creation that finds the name taken makes
\* an inventory of another slug.
Begin(c) ==
    /\ c.pc = "sent"
    /\ drift' = (drift \/ /\ c.kind # "fetch"
                          /\ \E d \in Active : /\ d.kind # "fetch"
                                               /\ ~({c.kind, d.kind} \subseteq Saves))
    /\ CASE c.kind = "fetch" -> Ends(c, "ok", memory)
         [] c.kind = "reimport" -> GoesTo(c, "discovering")
         [] c.kind = "create" /\ memory = None -> GoesTo(c, "putting")
         [] c.kind = "delete" /\ memory # None -> GoesTo(c, "popping")
         [] c.kind = "save" /\ memory # None -> GoesTo(c, "locking")
         [] c.kind \in {"merge", "overwrite"} /\ memory # None -> GoesTo(c, "loading")
         [] OTHER -> Ends(c, "error", None)
    /\ UNCHANGED <<stores, lock, clients, ambiguous, faults>>

\* apply_restore: the backup is read before the lock is taken.
Load(c) ==
    /\ c.pc = "loading"
    /\ IF backup = None
       THEN Ends(c, "error", None)
       ELSE Becomes(c, [c EXCEPT !.pc = "locking", !.content = backup.content])
    /\ UNCHANGED <<stores, lock, clients, ambiguous, drift, faults>>

Acquire(c) ==
    /\ c.pc = "locking"
    /\ lock = None
    /\ lock' = c.id
    /\ GoesTo(c, IF c.kind = "create" THEN "writing" ELSE "comparing")
    /\ UNCHANGED <<stores, clients, ambiguous, drift, faults>>

Accepts(c) ==
    /\ memory # None
    /\ c.kind = "save" => c.version = memory.version /\ c.valid

\* Mutant: the versions are not compared.
CompareNothing(c) ==
    /\ c.pc = "comparing"
    /\ IF memory # None /\ c.valid
       THEN /\ Becomes(c, [c EXCEPT !.pc = "putting", !.version = memory.version,
                             !.content = IF c.kind = "merge" THEN @ \cup memory.content
                                         ELSE @])
            /\ UNCHANGED lock
       ELSE Ends(c, "error", None) /\ lock' = None
    /\ UNCHANGED <<stores, clients, ambiguous, drift, faults>>

\* current: a copy of the entity, with the patch or the backup.
Compare(c) ==
    /\ c.pc = "comparing"
    /\ IF Accepts(c)
       THEN /\ Becomes(c, [c EXCEPT !.pc = "putting", !.version = memory.version,
                             !.content = IF c.kind = "merge" THEN @ \cup memory.content
                                         ELSE @])
            /\ UNCHANGED lock
       ELSE Ends(c, "error", None) /\ lock' = None
    /\ UNCHANGED <<stores, clients, ambiguous, drift, faults>>

\* The entity is changed in memory, its version not yet; create begins at 0.
Put(c) ==
    /\ c.pc = "putting"
    /\ memory' = Entity(c.version, c.content)
    /\ ambiguous' = (ambiguous \/ c.kind = "create")
    /\ GoesTo(c, IF c.kind = "create" THEN "locking" ELSE "writing")
    /\ UNCHANGED <<file, backup, lock, clients, drift, faults>>

\* _persist_slug: the file is copied, and replaced under the next version.  When
\* the write fails the memory stays as it is.
Write(c) ==
    /\ c.pc = "writing"
    /\ memory # None => memory.version < MaxVersion
    /\ \/ /\ memory # None
          /\ backup' = IF file = None THEN backup ELSE file
          /\ file' = Entity(memory.version + 1, memory.content)
          /\ Becomes(c, [c EXCEPT !.pc = "bumping", !.result = file'])
          /\ UNCHANGED <<lock, ambiguous, drift, faults>>
       \/ /\ memory # None
          /\ faults < MaxFaults
          /\ faults' = faults + 1
          /\ backup' = IF file = None THEN backup ELSE file
          /\ ambiguous' = TRUE /\ drift' = TRUE
          /\ Ends(c, "error", None) /\ lock' = None
          /\ UNCHANGED file
       \/ /\ memory = None
          /\ Ends(c, "error", None) /\ lock' = None
          /\ UNCHANGED <<file, backup, ambiguous, drift, faults>>
    /\ UNCHANGED <<memory, clients>>

\* Mutant: the version that was written is counted up once more.
BumpTwice(c) ==
    /\ c.pc = "bumping"
    /\ memory' = [c.result EXCEPT !.version = @ + 1]
    /\ lock' = None
    /\ Becomes(c, [c EXCEPT !.pc = "answering", !.version = 0, !.content = {},
                            !.result = None])
    /\ UNCHANGED <<file, backup, clients, ambiguous, drift, faults>>

\* Mutant: the new version is not stored.
BumpFileOnly(c) ==
    /\ c.pc = "bumping"
    /\ lock' = None
    /\ GoesTo(c, "answering")
    /\ UNCHANGED <<stores, clients, ambiguous, drift, faults>>

\* The new version is stored, and the lock released.
Bump(c) ==
    /\ c.pc = "bumping"
    /\ memory' = c.result
    /\ lock' = None
    /\ Becomes(c, [c EXCEPT !.pc = "answering", !.version = 0, !.content = {},
                            !.result = None])
    /\ UNCHANGED <<file, backup, clients, ambiguous, drift, faults>>

Pop(c) ==
    /\ c.pc = "popping"
    /\ memory' = None
    /\ GoesTo(c, "unlinking")
    /\ UNCHANGED <<file, backup, lock, clients, ambiguous, drift, faults>>

Unlink(c) ==
    /\ c.pc = "unlinking"
    /\ file' = None
    /\ Ends(c, "ok", None)
    /\ UNCHANGED <<memory, backup, lock, clients, ambiguous, drift, faults>>

\* reimport: what has no file is dropped.
Discover(c) ==
    /\ c.pc = "discovering"
    /\ memory' = IF file = None THEN None ELSE memory
    /\ GoesTo(c, "reading")
    /\ UNCHANGED <<file, backup, lock, clients, ambiguous, drift, faults>>

\* import_all reads the file and then stores what it read.
Read(c) ==
    /\ c.pc = "reading"
    /\ IF file = None THEN Ends(c, "ok", None)
       ELSE Becomes(c, [c EXCEPT !.pc = "storing", !.result = file])
    /\ UNCHANGED <<stores, lock, clients, ambiguous, drift, faults>>

Store(c) ==
    /\ c.pc = "storing"
    /\ memory' = c.result
    /\ ambiguous' = (ambiguous \/ memory # c.result)
    /\ Ends(c, "ok", None)
    /\ UNCHANGED <<file, backup, lock, clients, drift, faults>>

\* get, after the lock has been released.
Answer(c) ==
    /\ c.pc = "answering"
    /\ Ends(c, "ok", memory)
    /\ UNCHANGED <<stores, lock, clients, ambiguous, drift, faults>>

-----------------------------------------------------------------------------
(* What goes wrong                                                         *)

Fault == faults < MaxFaults /\ faults' = faults + 1

\* The answer is lost, or the API is down: the call throws in the tab.
Lose(c) ==
    /\ Fault
    /\ c.pc \in {"sent", "ok", "error"}
    /\ Ends(c, "lost", None)
    /\ cut' = cut \cup {c.tab}
    /\ UNCHANGED <<stores, lock, view, unused, sent, ambiguous, drift>>

\* Somebody edits the file, and leaves its version as it is.
EditFile(e) ==
    /\ Fault
    /\ file # None
    /\ e \in unused
    /\ unused' = unused \ {e}
    /\ file' = [file EXCEPT !.content = @ \cup {e}]
    /\ drift' = TRUE /\ ambiguous' = TRUE
    /\ UNCHANGED <<memory, backup, lock, calls, view, sent, cut>>

-----------------------------------------------------------------------------

Next ==
    \/ \E t \in Tabs, e \in Edits, valid \in BOOLEAN : Persist(t, e, valid)
    \/ \E t \in Tabs, kind \in Kinds : Ask(t, kind)
    \/ \E c \in calls : Receive(c)
    \/ \E c \in calls : Begin(c)
    \/ \E c \in calls : Load(c)
    \/ \E c \in calls : Acquire(c)
    \/ \E c \in calls : Compare(c)
    \/ \E c \in calls : Put(c)
    \/ \E c \in calls : Write(c)
    \/ \E c \in calls : Bump(c)
    \/ \E c \in calls : Pop(c)
    \/ \E c \in calls : Unlink(c)
    \/ \E c \in calls : Discover(c)
    \/ \E c \in calls : Read(c)
    \/ \E c \in calls : Store(c)
    \/ \E c \in calls : Answer(c)
    \/ \E c \in calls : Lose(c)
    \/ \E e \in Edits : EditFile(e)

Spec == Init /\ [][Next]_vars

-----------------------------------------------------------------------------
(* Properties                                                              *)

Idle == \A c \in calls : c.pc \notin Running

\* A save or a merge that is written.
Written(c) ==
    c.pc = "writing" /\ c.kind \in {"save", "merge"} /\ file # None /\ file' # None

\* No save takes an edit out of the file, whatever the tab that made it had
\* loaded, unless two contents may have had the same version: the inventory was
\* created again, its file was edited, a write failed after the memory had
\* changed, or an import replaced what was in memory.
NoLostUpdate ==
    [][\A c \in calls :
          Written(c) /\ ~ambiguous => file.content \subseteq file'.content]_vars

\* The same without the exceptions: `so a stale client (e.g. a second browser tab)
\* cannot silently clobber a newer save' (save_inventory).  The code does not keep this.
NoClobber ==
    [][\A c \in calls : Written(c) => file.content \subseteq file'.content]_vars

\* A tab that waits for no answer, and has lost none, does not show under the
\* stored version anything but what is stored, though it shows edits before
\* they are saved.
ViewIsTrue ==
    \A t \in Tabs :
        /\ \A c \in calls : c.tab # t
        /\ t \notin cut /\ ~ambiguous /\ lock = None
        /\ view[t] # None /\ memory # None /\ view[t].version = memory.version
        => view[t] = memory

\* When no handler runs, the memory and the file are the same, unless the file
\* was edited, a write failed, or a deletion, a creation or an import ran
\* together with another change.
MemoryIsFile == Idle /\ ~drift => memory = file
=============================================================================
