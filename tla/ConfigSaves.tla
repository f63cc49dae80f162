----------------------------- MODULE ConfigSaves -----------------------------
(***************************************************************************)
(* How a setting reaches its file: ConfigFile of wrolpi/common.py, whose   *)
(* update() changes the dictionary that all workers share and activates a  *)
(* switch, and the worker of wrolpi/switches.py that takes the switches    *)
(* and saves; with the saves and imports that requests make.               *)
(*                                                                         *)
(* A step is one use of the shared dictionary, the switches, a lock or a   *)
(* file.  Activating and taking a switch hold the switches' lock and are   *)
(* one step each.  Every process may come between two steps of another.    *)
(*                                                                         *)
(* Abstracted: the settings of a config are the number of the update or    *)
(* edit that made them.  The database behind some configs is left out, as  *)
(* are backups, validation and the other switches.  The files exist from   *)
(* the start.  The worker takes the latest switch; here any of them.  A    *)
(* process may die, but not while it has a lock: nobody would get that     *)
(* lock again.                                                             *)
(***************************************************************************)
EXTENDS Naturals

CONSTANTS
    Configs,     \* the config files, each with its switch background_save
    Workers,     \* the API workers, that handle requests
    Owner,       \* the process that runs switch_worker
    MaxChanges,  \* bound on updates and edits of the files
    MaxRequests, \* bound on imports and saves by requests
    MaxFaults,   \* bound on failed writes and activations, deaths and restarts
    None         \* nobody; no config

ASSUME NoneAssumption == None \notin Configs \cup Workers \cup {Owner}
ASSUME OwnerAssumption == Owner \notin Workers
ASSUME BoundsAssumption == {MaxChanges, MaxRequests, MaxFaults} \subseteq Nat

VARIABLES
    memory,      \* _config: version and settings, in the shared dictionary
    file,        \* the same in the YAML file
    imported,    \* successful_import, or that import_skipped is not zero
    saveLock,    \* config_save_lock: the process that has it
    switches,    \* the switch of each config: "off", or the context it is on with
    changed,     \* switches_changed
    proc,        \* what each process is doing
    changes,     \* (bound) updates and edits so far
    requests,    \* (bound) imports and saves by requests so far
    faults,      \* (bound) failures, deaths and restarts so far
    parted,      \* history: configs whose file may differ from the memory, because
                 \* a save was refused or failed, its switch was not activated or
                 \* its process died, the file was edited, or an import was
                 \* overtaken by a save
    disturbed,   \* history: since the lock was taken, a file was edited or imported
    backdated    \* history: since then, an update has brought an old version along

stores == <<memory, file, imported>>
signals == <<switches, changed>>
bounds == <<changes, requests, faults>>
ghosts == <<parted, disturbed, backdated>>
vars == <<memory, file, imported, saveLock, switches, changed, proc,
          changes, requests, faults, parted, disturbed, backdated>>

Procs == Workers \cup {Owner}
Data == [version : Nat, settings : 0..MaxChanges]

Imports == {"no", "skipped", "yes"}
Saving == {"checking", "locking", "comparing", "bumping", "copying", "writing"}
Importing == {"reading", "applying", "trusting"}
Phases == {"idle", "woken", "clearing", "updated"} \cup Saving \cup Importing

\* `data' is what the process has read or copied.
Idle == [pc |-> "idle", config |-> None, overwrite |-> FALSE,
         data |-> [version |-> 0, settings |-> 0]]

TypeOK ==
    /\ memory \in [Configs -> Data]
    /\ file \in [Configs -> Data]
    /\ imported \in [Configs -> Imports]
    /\ saveLock \in Procs \cup {None}
    /\ switches \in [Configs -> {"off", "save", "overwrite"}]
    /\ changed \in BOOLEAN
    /\ proc \in [Procs -> [pc : Phases, config : Configs \cup {None},
                           overwrite : BOOLEAN, data : Data]]
    /\ changes \in 0..MaxChanges
    /\ requests \in 0..MaxRequests
    /\ faults \in 0..MaxFaults
    /\ parted \subseteq Configs
    /\ disturbed \in BOOLEAN
    /\ backdated \in BOOLEAN

\* The configs have been read and, where that succeeded, imported, with or without
\* skipping entries.
Init ==
    /\ memory = [c \in Configs |-> [version |-> 1, settings |-> 0]]
    /\ file = memory
    /\ imported \in [Configs -> Imports]
    /\ saveLock = None
    /\ switches = [c \in Configs |-> "off"] /\ changed = FALSE
    /\ proc = [p \in Procs |-> Idle]
    /\ changes = 0 /\ requests = 0 /\ faults = 0
    /\ parted = {} /\ disturbed = FALSE /\ backdated = FALSE

Is(p, pc) == proc[p].pc = pc
Goes(p, pc) == proc' = [proc EXCEPT ![p].pc = pc]
Begins(p, pc, c, overwrite) ==
    proc' = [proc EXCEPT ![p] =
                [Idle EXCEPT !.pc = pc, !.config = c, !.overwrite = overwrite]]

\* A process is done with its request, or the owner with its switch.
Ends(p) ==
    proc' = [proc EXCEPT ![p] =
                [Idle EXCEPT !.pc = IF p = Owner THEN "clearing" ELSE "idle"]]

\* Whether the file and the memory agree on c from now on, or part.
Settle(c) ==
    parted' = IF file'[c].settings = memory'[c].settings THEN parted \ {c}
                                                         ELSE parted \cup {c}

\* A save that is refused or fails, or is never asked for, leaves the file as it is.
GivesUp(p) ==
    /\ parted' = parted \cup {proc[p].config}
    /\ Ends(p)

-----------------------------------------------------------------------------
(* update()                                                                *)

\* Mutant: nothing is turned on while the event is set.
TurnOnUnlessChanged(c, overwrite) ==
    /\ IF changed THEN UNCHANGED switches
       ELSE switches' = [switches EXCEPT ![c] = IF overwrite THEN "overwrite" ELSE "save"]
    /\ changed' = TRUE

TurnOn(c, overwrite) ==
    /\ switches' = [switches EXCEPT ![c] = IF overwrite THEN "overwrite" ELSE "save"]
    /\ changed' = TRUE

\* Every key that the config has is set, its version too.
Set(c, version) ==
    /\ changes < MaxChanges
    /\ changes' = changes + 1
    /\ memory' = [memory EXCEPT ![c] = [version |-> version, settings |-> changes']]

\* Pages send a config back as they have fetched it, but for what was edited: with
\* the version of that time, which may be an old one by now.  config_update_lock
\* keeps two updates apart, but not an update and a save.
Update(w, c, overwrite) ==
    \E version \in 1..memory[c].version :
        /\ Is(w, "idle")
        /\ Set(c, version)
        /\ backdated' = (backdated \/ (saveLock # None /\ version # memory[c].version))
        /\ Begins(w, "updated", c, overwrite)
        /\ UNCHANGED <<file, imported, saveLock, signals, requests, faults, parted,
                       disturbed>>

\* activate_switch replaces the context of a switch that is on.  A request
\* that changes where the Zims are then saves by itself as well.
Activate(w) ==
    /\ Is(w, "updated")
    /\ TurnOn(proc[w].config, proc[w].overwrite)
    /\ \/ Ends(w) /\ UNCHANGED requests
       \/ /\ ~proc[w].overwrite
          /\ requests < MaxRequests
          /\ requests' = requests + 1
          /\ Goes(w, "checking")
    /\ UNCHANGED <<stores, saveLock, changes, faults, ghosts>>

Fault == faults < MaxFaults /\ faults' = faults + 1

\* It has waited for the switches' lock in vain, and raises.
ActivateFails(w) ==
    /\ Is(w, "updated")
    /\ Fault
    /\ GivesUp(w)
    /\ UNCHANGED <<stores, saveLock, signals, changes, requests, disturbed, backdated>>

-----------------------------------------------------------------------------
(* switch_worker                                                           *)

\* Mutant: the worker waits for a change as long as it takes.
WaitForChange ==
    /\ changed
    /\ Is(Owner, "idle")
    /\ Goes(Owner, "woken")
    /\ UNCHANGED <<stores, saveLock, signals, bounds, ghosts>>

\* wait(timeout=1) returns when there was a change, and after a second.
Wait ==
    /\ Is(Owner, "idle")
    /\ Goes(Owner, "woken")
    /\ UNCHANGED <<stores, saveLock, signals, bounds, ghosts>>

Pop(c) ==
    /\ Is(Owner, "woken")
    /\ switches[c] # "off"
    /\ switches' = [switches EXCEPT ![c] = "off"]
    /\ Begins(Owner, "checking", c, switches[c] = "overwrite")
    /\ UNCHANGED <<stores, saveLock, changed, bounds, ghosts>>

PopNothing ==
    /\ Is(Owner, "woken")
    /\ \A c \in Configs : switches[c] = "off"
    /\ Ends(Owner)
    /\ UNCHANGED <<stores, saveLock, signals, bounds, ghosts>>

\* The `finally' clause, also when the save raised.
Clear ==
    /\ Is(Owner, "clearing")
    /\ changed' = FALSE
    /\ Goes(Owner, "idle")
    /\ UNCHANGED <<stores, saveLock, switches, bounds, ghosts>>

-----------------------------------------------------------------------------
(* save(), by a request (dump_config) or for a switch                      *)

Dump(w, c, overwrite) ==
    /\ Is(w, "idle")
    /\ requests < MaxRequests
    /\ requests' = requests + 1
    /\ Begins(w, "checking", c, overwrite)
    /\ UNCHANGED <<stores, saveLock, signals, changes, faults, ghosts>>

\* A config that was not imported, or not all of it, is not saved over its file.
Check(p) ==
    /\ Is(p, "checking")
    /\ IF proc[p].overwrite \/ imported[proc[p].config] = "yes"
       THEN Goes(p, "locking") /\ UNCHANGED parted
       ELSE GivesUp(p)
    /\ UNCHANGED <<stores, saveLock, signals, bounds, disturbed, backdated>>

Lock(p) ==
    /\ Is(p, "locking")
    /\ saveLock = None
    /\ saveLock' = p
    /\ disturbed' = FALSE /\ backdated' = FALSE
    /\ Goes(p, "comparing")
    /\ UNCHANGED <<stores, signals, bounds, parted>>

IsNewer(c) == file[c].version > memory[c].version

\* Mutant: the versions are not compared under the lock.
CompareNothing(p) ==
    /\ Is(p, "comparing")
    /\ Goes(p, "bumping")
    /\ UNCHANGED <<stores, saveLock, signals, bounds, ghosts>>

\* Under the lock the file's version is read: a newer file is left alone.
Compare(p) ==
    /\ Is(p, "comparing")
    /\ IF IsNewer(proc[p].config) /\ ~proc[p].overwrite
       THEN GivesUp(p) /\ saveLock' = None
       ELSE Goes(p, "bumping") /\ UNCHANGED <<parted, saveLock>>
    /\ UNCHANGED <<stores, signals, bounds, disturbed, backdated>>

Bump(p) ==
    /\ Is(p, "bumping")
    /\ memory' = [memory EXCEPT ![proc[p].config].version = @ + 1]
    /\ Goes(p, "copying")
    /\ UNCHANGED <<file, imported, saveLock, signals, bounds, ghosts>>

Copy(p) ==
    /\ Is(p, "copying")
    /\ proc' = [proc EXCEPT ![p].pc = "writing", ![p].data = memory[proc[p].config]]
    /\ UNCHANGED <<stores, saveLock, signals, bounds, ghosts>>

\* The file is replaced by a rename, all or nothing.  Settings that came
\* after the copy have a switch of their own, and do not part the two.
Write(p) ==
    LET c == proc[p].config IN
    /\ Is(p, "writing")
    /\ file' = [file EXCEPT ![c] = proc[p].data]
    /\ imported' = [imported EXCEPT ![c] = IF @ = "skipped" THEN @ ELSE "yes"]
    /\ parted' = IF memory[c].settings = proc[p].data.settings THEN parted \ {c}
                 ELSE IF disturbed THEN parted \cup {c} ELSE parted
    /\ saveLock' = None
    /\ Ends(p)
    /\ UNCHANGED <<memory, signals, bounds, disturbed, backdated>>

WriteFails(p) ==
    /\ Is(p, "writing")
    /\ Fault
    /\ GivesUp(p)
    /\ saveLock' = None
    /\ UNCHANGED <<stores, signals, changes, requests, disturbed, backdated>>

-----------------------------------------------------------------------------
(* import_config(), by a request; it takes no lock                         *)

Import(w, c) ==
    /\ Is(w, "idle")
    /\ requests < MaxRequests
    /\ requests' = requests + 1
    /\ imported' = [imported EXCEPT ![c] = "no"]
    /\ Begins(w, "reading", c, FALSE)
    /\ UNCHANGED <<memory, file, saveLock, signals, changes, faults, ghosts>>

Read(w) ==
    /\ Is(w, "reading")
    /\ proc' = [proc EXCEPT ![w].pc = "applying", ![w].data = file[proc[w].config]]
    /\ UNCHANGED <<stores, saveLock, signals, bounds, ghosts>>

Apply(w) ==
    /\ Is(w, "applying")
    /\ memory' = [memory EXCEPT ![proc[w].config] = proc[w].data]
    /\ UNCHANGED file
    /\ Settle(proc[w].config)
    /\ disturbed' = TRUE
    /\ Goes(w, "trusting")
    /\ UNCHANGED <<imported, saveLock, signals, bounds, backdated>>

\* All entries were imported, or one was skipped, or one raised.
Trust(w) ==
    /\ Is(w, "trusting")
    /\ \/ \E trust \in {"yes", "skipped"} :
             imported' = [imported EXCEPT ![proc[w].config] = trust]
       \/ UNCHANGED imported
    /\ Ends(w)
    /\ UNCHANGED <<memory, file, saveLock, signals, bounds, ghosts>>

-----------------------------------------------------------------------------
(* The maintainer, who edits a file or copies a newer one; deaths          *)

EditFile(c) ==
    /\ changes < MaxChanges
    /\ changes' = changes + 1
    /\ \E newer \in {0, 1} :
          file' = [file EXCEPT ![c] = [version |-> @.version + newer,
                                       settings |-> changes']]
    /\ parted' = parted \cup {c}
    /\ disturbed' = TRUE
    /\ UNCHANGED <<memory, imported, saveLock, signals, proc, requests, faults,
                   backdated>>

\* One process dies, and what it was about to do is not done: it had changed the
\* settings, it had taken the switch, or it was asked to save.  It is replaced by
\* another, and so is the owner of the loop.
Dies(p) ==
    /\ ~Is(p, "idle")
    /\ saveLock # p
    /\ Fault
    /\ parted' = IF proc[p].pc \in {"updated"} \cup Saving
                 THEN parted \cup {proc[p].config} ELSE parted
    /\ proc' = [proc EXCEPT ![p] = Idle]
    /\ UNCHANGED <<stores, saveLock, signals, changes, requests, disturbed, backdated>>

\* All of them die: the switches and all that was in memory are gone.
Restart ==
    /\ Fault
    /\ memory' = file
    /\ imported' \in [Configs -> Imports]
    /\ saveLock' = None
    /\ switches' = [c \in Configs |-> "off"] /\ changed' = FALSE
    /\ proc' = [p \in Procs |-> Idle]
    /\ parted' = {} /\ disturbed' = FALSE /\ backdated' = FALSE
    /\ UNCHANGED <<file, changes, requests>>

-----------------------------------------------------------------------------
SaveStep(p) ==
    \/ Check(p)
    \/ Lock(p)
    \/ Compare(p)
    \/ Bump(p)
    \/ Copy(p)
    \/ Write(p)
    \/ WriteFails(p)

\* What the owner's loop does next.
OwnerStep ==
    \/ Wait
    \/ \E c \in Configs : Pop(c)
    \/ PopNothing
    \/ Clear
    \/ SaveStep(Owner)

\* What a worker does next in a request that it has begun.
WorkerStep(w) ==
    \/ Activate(w)
    \/ ActivateFails(w)
    \/ SaveStep(w)
    \/ Read(w)
    \/ Apply(w)
    \/ Trust(w)

Request(w) ==
    \E c \in Configs :
        \/ \E overwrite \in BOOLEAN : Update(w, c, overwrite) \/ Dump(w, c, overwrite)
        \/ Import(w, c)

Next ==
    \/ OwnerStep
    \/ \E w \in Workers : Request(w) \/ WorkerStep(w)
    \/ \E c \in Configs : EditFile(c)
    \/ \E p \in Procs : Dies(p)
    \/ Restart

\* The owner's loop goes on (see PerpetualOwner) and requests come to an end.
Fairness ==
    /\ WF_vars(OwnerStep)
    /\ \A w \in Workers : WF_vars(WorkerStep(w))

Spec == Init /\ [][Next]_vars /\ Fairness

-----------------------------------------------------------------------------
(* Properties                                                              *)

On == {c \in Configs : switches[c] # "off"}
Handled == IF proc[Owner].pc \in Saving THEN proc[Owner].config ELSE None

SB == INSTANCE Switchboard WITH Switches <- Configs, pending <- On, handling <- Handled

\* The loop with its event, its timeout and its `finally' is a switchboard:
\* every switch that is activated is handled, also one that is activated
\* between the taking of another and the clearing of the event.
ImplementsSwitchboard == SB!Spec

\* When no switch is on and nobody is at work on a config, its file has the
\* settings that the workers see, unless a save was refused or failed, its switch
\* could not be activated, its process died, the file was edited, or an import was
\* overtaken: no update is merely forgotten.
QuietMeansSaved ==
    \A c \in Configs :
        (switches[c] = "off" /\ \A p \in Procs : proc[p].config # c)
            => c \in parted \/ file[c].settings = memory[c].settings

\* A save without `overwrite' never replaces a file by an older version or
\* another of the same: not even a file that became newer while the save was
\* waiting for the lock.  What happens once the lock is held is out of the save's
\* hands: the file is edited, another is imported, or an update, which needs no
\* lock, brings along the version that its page fetched long ago.
NewerIsKept ==
    [][\A p \in Procs :
          (Write(p) /\ ~proc[p].overwrite /\ ~disturbed /\ ~backdated)
              => file'[proc[p].config].version > file[proc[p].config].version]_vars
=============================================================================
