-------------------------- MODULE ConfigSaves_proofs --------------------------
(***************************************************************************)
(* Proofs about ConfigSaves: types, that a plain save replaces a file only *)
(* by a newer version, that the switches and their loop are steps of a     *)
(* Switchboard, and that no update is merely forgotten.  The invariants    *)
(* say who may be at the lock and what its holder has read.                *)
(***************************************************************************)
EXTENDS ConfigSaves, TLAPS

Busy == {"updated"} \cup Saving \cup Importing
States == [pc : Phases, config : Configs \cup {None}, overwrite : BOOLEAN, data : Data]

\* Who is at work is at work on a config, and only the owner takes switches.
WorkInv ==
    /\ \A p \in Procs : proc[p].pc \in Busy => proc[p].config \in Configs
    /\ \A p \in Procs : proc[p].pc \notin Busy => proc[p].config = None
    /\ proc[Owner].pc \in {"idle", "woken", "clearing"} \cup Saving
    /\ \A w \in Workers : proc[w].pc \notin {"woken", "clearing"}

IType == TypeOK /\ WorkInv

StoresType == memory \in [Configs -> Data] /\ file \in [Configs -> Data]
FlagsType ==
    /\ imported \in [Configs -> Imports]
    /\ changed \in BOOLEAN
    /\ disturbed \in BOOLEAN
    /\ backdated \in BOOLEAN
SignalsType ==
    /\ saveLock \in Procs \cup {None}
    /\ switches \in [Configs -> {"off", "save", "overwrite"}]
    /\ parted \subseteq Configs
BoundsType ==
    /\ changes \in 0..MaxChanges
    /\ requests \in 0..MaxRequests
    /\ faults \in 0..MaxFaults

LEMMA TypeParts ==
    TypeOK <=> /\ proc \in [Procs -> States] /\ StoresType /\ FlagsType
               /\ SignalsType /\ BoundsType
  BY DEF TypeOK, States, StoresType, FlagsType, SignalsType, BoundsType

LEMMA IdleType == Idle \in States
  BY BoundsAssumption DEF Idle, States, Data, Phases

LEMMA InitType == Init => IType
<1> SUFFICES ASSUME Init PROVE IType
  OBVIOUS
<1>1. [version |-> 1, settings |-> 0] \in Data
  BY BoundsAssumption DEF Data
<1>2. proc \in [Procs -> States]
  BY IdleType DEF Init
<1>3. StoresType /\ SignalsType /\ BoundsType
  BY <1>1, BoundsAssumption DEF Init, StoresType, SignalsType, BoundsType
<1>4. FlagsType
  BY DEF Init, FlagsType
<1>5. TypeOK
  BY <1>2, <1>3, <1>4, TypeParts
<1>6. WorkInv
  BY DEF Init, WorkInv, Idle, Procs, Busy, Saving, Importing
<1>7. QED
  BY <1>5, <1>6 DEF IType

\* What a step does to one process, the others being as they were.
Others(p) == \A q \in Procs \ {p} : proc'[q] = proc[q]

LEMMA GoesType ==
    ASSUME IType, NEW p \in Procs, NEW q \in Phases, Goes(p, q)
    PROVE  /\ proc' \in [Procs -> States] /\ Others(p)
           /\ proc'[p].pc = q /\ proc'[p].config = proc[p].config
           /\ proc'[p].overwrite = proc[p].overwrite /\ proc'[p].data = proc[p].data
<1>1. proc \in [Procs -> States]
  BY DEF IType, TypeOK, States
<1>2. [proc[p] EXCEPT !.pc = q] \in States
  BY <1>1 DEF States
<1>3. proc' = [proc EXCEPT ![p] = [proc[p] EXCEPT !.pc = q]]
  BY DEF Goes
<1>4. proc' \in [Procs -> States] /\ Others(p) /\ proc'[p] = [proc[p] EXCEPT !.pc = q]
  BY <1>1, <1>2, <1>3 DEF Others
<1>5. QED
  BY <1>1, <1>4 DEF States

LEMMA BeginsType ==
    ASSUME IType, NEW p \in Procs, NEW q \in Phases, NEW c \in Configs,
           NEW overwrite \in BOOLEAN, Begins(p, q, c, overwrite)
    PROVE  /\ proc' \in [Procs -> States] /\ Others(p)
           /\ proc'[p].pc = q /\ proc'[p].config = c
           /\ proc'[p].overwrite = overwrite
<1> DEFINE s == [Idle EXCEPT !.pc = q, !.config = c, !.overwrite = overwrite]
<1>1. proc \in [Procs -> States]
  BY DEF IType, TypeOK, States
<1>2. s \in States
  BY IdleType DEF States
<1>3. s.pc = q /\ s.config = c /\ s.overwrite = overwrite
  BY DEF Idle
<1>4. proc' = [proc EXCEPT ![p] = s]
  BY DEF Begins
<1> HIDE DEF s
<1>5. QED
  BY <1>1, <1>2, <1>3, <1>4 DEF Others

LEMMA EndsType ==
    ASSUME IType, NEW p \in Procs, Ends(p)
    PROVE  /\ proc' \in [Procs -> States] /\ Others(p)
           /\ proc'[p].pc = IF p = Owner THEN "clearing" ELSE "idle"
           /\ proc'[p].config = None
<1> DEFINE s == [Idle EXCEPT !.pc = IF p = Owner THEN "clearing" ELSE "idle"]
<1>1. proc \in [Procs -> States]
  BY DEF IType, TypeOK, States
<1>2. s \in States
  BY IdleType DEF States, Phases
<1>3. s.pc = (IF p = Owner THEN "clearing" ELSE "idle") /\ s.config = None
  BY DEF Idle
<1>4. proc' = [proc EXCEPT ![p] = s]
  BY DEF Ends
<1> HIDE DEF s
<1>5. QED
  BY <1>1, <1>2, <1>3, <1>4 DEF Others

LEMMA DiesType ==
    ASSUME IType, NEW p \in Procs, Dies(p)
    PROVE  /\ proc' \in [Procs -> States] /\ Others(p)
           /\ proc'[p].pc = "idle" /\ proc'[p].config = None
<1>1. proc \in [Procs -> States]
  BY DEF IType, TypeOK, States
<1>2. Idle \in States /\ Idle.pc = "idle" /\ Idle.config = None
  BY IdleType DEF Idle
<1>3. proc' = [proc EXCEPT ![p] = Idle]
  BY DEF Dies
<1>4. QED
  BY <1>1, <1>2, <1>3, Zenon DEF Others

\* The steps of Next, sorted by who makes them.
LEMMA NextSteps ==
    ASSUME Next
    PROVE  \/ \E w \in Workers, c \in Configs, o \in BOOLEAN : Update(w, c, o) \/ Dump(w, c, o)
           \/ \E w \in Workers, c \in Configs : Import(w, c)
           \/ \E w \in Workers : Activate(w) \/ Read(w) \/ Apply(w) \/ Trust(w)
           \/ \E w \in Workers : ActivateFails(w)
           \/ \E p \in Procs : Dies(p)
           \/ Wait \/ PopNothing \/ Clear \/ \E c \in Configs : Pop(c)
           \/ \E p \in Procs : SaveStep(p)
           \/ \E c \in Configs : EditFile(c)
           \/ Restart
<1>1. Workers \subseteq Procs /\ Owner \in Procs
  BY DEF Procs
<1>2. QED
  BY <1>1 DEF Next, OwnerStep, WorkerStep, Request

LEMMA StoresStep ==
    ASSUME IType, Next
    PROVE  StoresType'
<1>0. /\ memory \in [Configs -> Data] /\ file \in [Configs -> Data]
      /\ proc \in [Procs -> States] /\ changes \in 0..MaxChanges
      /\ \A p \in Procs : proc[p].data \in Data
      /\ Workers \subseteq Procs
  BY TypeParts DEF IType, StoresType, BoundsType, States, Procs
<1>1. ASSUME NEW w \in Workers, NEW c \in Configs, NEW o \in BOOLEAN, Update(w, c, o)
      PROVE  StoresType'
  <2>1. PICK v \in 1..memory[c].version : Set(c, v)
    BY <1>1 DEF Update
  <2>2. changes' \in 0..MaxChanges /\ v \in Nat /\ file' = file
    BY <1>0, <1>1, <2>1, BoundsAssumption DEF Update, Set
  <2>3. [version |-> v, settings |-> changes'] \in Data
    BY <2>2 DEF Data
  <2>4. memory' = [memory EXCEPT ![c] = [version |-> v, settings |-> changes']]
    BY <2>1 DEF Set
  <2>5. QED
    BY <1>0, <2>2, <2>3, <2>4 DEF StoresType
<1>2. ASSUME NEW w \in Workers, Apply(w) PROVE StoresType'
  BY <1>0, <1>2 DEF Apply, StoresType
<1>3. ASSUME NEW p \in Procs, Bump(p) PROVE StoresType'
  <2> DEFINE c == proc[p].config
  <2>1. c \in Configs
    BY <1>3 DEF Bump, Is, IType, WorkInv, Busy, Saving
  <2> HIDE DEF c
  <2>2. [memory[c] EXCEPT !.version = memory[c].version + 1] \in Data
    BY <1>0, <2>1 DEF Data
  <2>3. memory' = [memory EXCEPT ![c] = [memory[c] EXCEPT !.version = memory[c].version + 1]]
    BY <1>3 DEF Bump, c
  <2>4. QED
    BY <1>0, <1>3, <2>2, <2>3 DEF Bump, StoresType
<1>4. ASSUME NEW p \in Procs, Write(p) PROVE StoresType'
  BY <1>0, <1>4 DEF Write, StoresType
<1>5. ASSUME NEW c \in Configs, EditFile(c) PROVE StoresType'
  <2>1. PICK v \in {0, 1} :
           file' = [file EXCEPT ![c] = [version |-> file[c].version + v, settings |-> changes']]
    BY <1>5 DEF EditFile
  <2>2. [version |-> file[c].version + v, settings |-> changes'] \in Data
    BY <1>0, <1>5, BoundsAssumption DEF EditFile, Data
  <2>3. QED
    BY <1>0, <1>5, <2>1, <2>2 DEF EditFile, StoresType
<1>6. Restart => StoresType'
  BY <1>0 DEF Restart, StoresType
<1>7. ASSUME UNCHANGED <<memory, file>> PROVE StoresType'
  BY <1>0, <1>7 DEF StoresType
<1>8. ASSUME NEW w \in Workers, NEW c \in Configs, NEW o \in BOOLEAN,
             Dump(w, c, o) \/ Import(w, c) \/ Activate(w) \/ Read(w) \/ Trust(w)
             \/ Wait \/ PopNothing \/ Clear \/ Pop(c)
      PROVE  UNCHANGED <<memory, file>>
  BY <1>8 DEF Dump, Import, Activate, Read, Trust, Wait, PopNothing, Clear, Pop, stores
<1>9. ASSUME NEW p \in Procs, Check(p) \/ Lock(p) \/ Compare(p) \/ Copy(p) \/ WriteFails(p)
      PROVE  UNCHANGED <<memory, file>>
  BY <1>9 DEF Check, Lock, Compare, Copy, WriteFails, stores
<1>10. Wait \/ PopNothing \/ Clear \/ (\E c \in Configs : Pop(c)) => UNCHANGED <<memory, file>>
  BY DEF Wait, PopNothing, Clear, Pop, stores
<1>11. ASSUME NEW w \in Workers, Activate(w) \/ Read(w) \/ Trust(w)
       PROVE  UNCHANGED <<memory, file>>
  BY <1>11 DEF Activate, Read, Trust, stores
<1>12. ASSUME NEW w \in Workers, ActivateFails(w) PROVE UNCHANGED <<memory, file>>
  BY <1>12 DEF ActivateFails, stores
<1>13. ASSUME NEW p \in Procs, Dies(p) PROVE UNCHANGED <<memory, file>>
  BY <1>13 DEF Dies, stores
<1>14. QED
  BY NextSteps, <1>1, <1>2, <1>3, <1>4, <1>5, <1>6, <1>7, <1>8, <1>9, <1>10, <1>11, <1>12, <1>13
     DEF SaveStep

LEMMA FlagsStep ==
    ASSUME IType, Next
    PROVE  FlagsType'
<1>0. /\ imported \in [Configs -> Imports] /\ changed \in BOOLEAN
      /\ disturbed \in BOOLEAN /\ backdated \in BOOLEAN
      /\ {"no", "skipped", "yes"} \subseteq Imports
  BY TypeParts DEF IType, FlagsType, Imports
<1>1. imported' \in [Configs -> Imports]
  <2>1. ASSUME NEW w \in Workers, Trust(w) PROVE imported' \in [Configs -> Imports]
    BY <1>0, <2>1 DEF Trust
  <2>2. ASSUME NEW p \in Procs, Write(p) PROVE imported' \in [Configs -> Imports]
    BY <1>0, <2>2 DEF Write
  <2>3. (\E w \in Workers : \E c \in Configs : Import(w, c)) \/ Restart
           => imported' \in [Configs -> Imports]
    BY <1>0 DEF Import, Restart
  <2>4. QED
    BY <1>0, NextSteps, <2>1, <2>2, <2>3
       DEF Update, Dump, Activate, ActivateFails, Dies, Read, Apply, Wait, PopNothing, Clear, Pop,
           SaveStep, Check, Lock, Compare, Bump, Copy, WriteFails, EditFile, stores
<1>2. changed' \in BOOLEAN
  BY <1>0, NextSteps
     DEF Update, Dump, Import, Activate, ActivateFails, Dies, TurnOn, Read, Apply, Trust, Wait,
         PopNothing, Clear, Pop, SaveStep, Check, Lock, Compare, Bump, Copy, Write, WriteFails,
         EditFile, Restart, signals
<1>3. disturbed' \in BOOLEAN
  BY <1>0, NextSteps
     DEF Update, Dump, Import, Activate, ActivateFails, Dies, Read, Apply, Trust, Wait, PopNothing,
         Clear, Pop, SaveStep, Check, Lock, Compare, Bump, Copy, Write, WriteFails, EditFile,
         Restart, ghosts
<1>4. backdated' \in BOOLEAN
  <2>1. ASSUME NEW w \in Workers, NEW c \in Configs, NEW o \in BOOLEAN, Update(w, c, o)
        PROVE  backdated' \in BOOLEAN
    BY <2>1, Zenon DEF Update
  <2>2. QED
    BY <1>0, NextSteps, <2>1
       DEF Dump, Import, Activate, ActivateFails, Dies, Read, Apply, Trust, Wait, PopNothing,
           Clear, Pop, SaveStep, Check, Lock, Compare, Bump, Copy, Write, WriteFails, EditFile,
           Restart, ghosts
<1>5. QED
  BY <1>1, <1>2, <1>3, <1>4 DEF FlagsType

LEMMA SignalsStep ==
    ASSUME IType, Next
    PROVE  SignalsType'
<1>0. /\ saveLock \in Procs \cup {None}
      /\ switches \in [Configs -> {"off", "save", "overwrite"}]
      /\ parted \subseteq Configs
      /\ Workers \subseteq Procs
      /\ \A p \in Procs : proc[p].pc \in Busy => proc[p].config \in Configs
  BY TypeParts DEF IType, SignalsType, WorkInv, Procs
<1>1. saveLock' \in Procs \cup {None}
  BY <1>0, NextSteps
     DEF Update, Dump, Import, Activate, ActivateFails, Dies, Read, Apply, Trust, Wait, PopNothing, Clear, Pop, SaveStep,
         Check, Lock, Compare, Bump, Copy, Write, WriteFails, EditFile, Restart
<1>2. switches' \in [Configs -> {"off", "save", "overwrite"}]
  BY <1>0, NextSteps
     DEF Update, Dump, Import, Activate, ActivateFails, Dies, TurnOn, Read, Apply, Trust, Wait, PopNothing, Clear, Pop,
         SaveStep, Check, Lock, Compare, Bump, Copy, Write, WriteFails, EditFile, Restart, signals
<1>3. ASSUME NEW p \in Procs, SaveStep(p) PROVE parted' \subseteq Configs
  <2>1. CASE Check(p) \/ Compare(p) \/ WriteFails(p)
    BY <1>0, <2>1 DEF Check, Compare, WriteFails, GivesUp, Is, Busy, Saving
  <2>2. CASE Write(p)
    BY <1>0, <2>2 DEF Write, Is, Busy, Saving
  <2>3. CASE Lock(p) \/ Bump(p) \/ Copy(p)
    BY <1>0, <2>3 DEF Lock, Bump, Copy, ghosts
  <2>4. QED
    BY <1>3, <2>1, <2>2, <2>3 DEF SaveStep
<1>4. ASSUME NEW w \in Workers, Apply(w) PROVE parted' \subseteq Configs
  BY <1>0, <1>4 DEF Apply, Settle, Is, Busy, Importing
<1>5. (\E c \in Configs : EditFile(c)) \/ Restart => parted' \subseteq Configs
  BY <1>0 DEF EditFile, Restart
<1>6. Wait \/ PopNothing \/ Clear \/ (\E c \in Configs : Pop(c)) => parted' = parted
  BY DEF Wait, PopNothing, Clear, Pop, ghosts
<1>7. ASSUME NEW w \in Workers, NEW c \in Configs, NEW o \in BOOLEAN,
             Update(w, c, o) \/ Dump(w, c, o)
      PROVE  parted' = parted
  BY <1>7 DEF Update, Dump, ghosts
<1>8. ASSUME NEW w \in Workers, Activate(w) \/ Read(w) \/ Trust(w) \/ \E c \in Configs : Import(w, c)
      PROVE  parted' = parted
  BY <1>8 DEF Activate, Read, Trust, Import, ghosts
<1>9. ASSUME NEW w \in Workers, ActivateFails(w) PROVE parted' \subseteq Configs
  BY <1>0, <1>9 DEF ActivateFails, GivesUp, Is, Busy
<1>10. ASSUME NEW p \in Procs, Dies(p) PROVE parted' \subseteq Configs
  BY <1>0, <1>10 DEF Dies, Busy
<1>11. parted' \subseteq Configs
  BY <1>0, NextSteps, <1>3, <1>4, <1>5, <1>6, <1>7, <1>8, <1>9, <1>10
<1>12. QED
  BY <1>1, <1>2, <1>11 DEF SignalsType

LEMMA BoundsStep ==
    ASSUME IType, Next
    PROVE  BoundsType'
<1>0. /\ changes \in 0..MaxChanges /\ requests \in 0..MaxRequests /\ faults \in 0..MaxFaults
      /\ MaxChanges \in Nat /\ MaxRequests \in Nat /\ MaxFaults \in Nat
  BY TypeParts, BoundsAssumption DEF IType, BoundsType
<1> DEFINE Counts(n, m, limit) == m = n \/ (n < limit /\ m = n + 1)
<1>1. ASSUME NEW n \in Nat, NEW limit \in Nat, n \in 0..limit, NEW m, Counts(n, m, limit)
      PROVE  m \in 0..limit
  BY <1>1
<1>2. ASSUME NEW w \in Workers, NEW c \in Configs, NEW o \in BOOLEAN,
             Update(w, c, o) \/ Dump(w, c, o)
      PROVE  Counts(changes, changes', MaxChanges) /\ Counts(requests, requests', MaxRequests)
             /\ faults' = faults
  BY <1>2 DEF Update, Set, Dump
<1>3. ASSUME NEW w \in Workers, Activate(w) \/ Read(w) \/ Apply(w) \/ Trust(w)
                                \/ \E c \in Configs : Import(w, c)
      PROVE  changes' = changes /\ Counts(requests, requests', MaxRequests) /\ faults' = faults
  BY <1>3 DEF Activate, Read, Apply, Trust, Import, bounds
<1>4. Wait \/ PopNothing \/ Clear \/ (\E c \in Configs : Pop(c))
         => UNCHANGED <<changes, requests, faults>>
  BY DEF Wait, PopNothing, Clear, Pop, bounds
<1>5. ASSUME NEW p \in Procs, SaveStep(p)
      PROVE  changes' = changes /\ requests' = requests /\ Counts(faults, faults', MaxFaults)
  BY <1>5 DEF SaveStep, Check, Lock, Compare, Bump, Copy, Write, WriteFails, Fault, bounds
<1>6. ASSUME NEW c \in Configs, EditFile(c)
      PROVE  Counts(changes, changes', MaxChanges) /\ requests' = requests /\ faults' = faults
  BY <1>6 DEF EditFile
<1>7. Restart => changes' = changes /\ requests' = requests /\ Counts(faults, faults', MaxFaults)
  BY DEF Restart, Fault
<1>a. ASSUME NEW p \in Procs, ActivateFails(p) \/ Dies(p)
      PROVE  changes' = changes /\ requests' = requests /\ Counts(faults, faults', MaxFaults)
  BY <1>a DEF ActivateFails, Dies, Fault
<1>8. /\ Counts(changes, changes', MaxChanges)
      /\ Counts(requests, requests', MaxRequests)
      /\ Counts(faults, faults', MaxFaults)
  BY NextSteps, <1>2, <1>3, <1>4, <1>5, <1>6, <1>7, <1>a DEF Procs
<1>9. QED
  <2> HIDE DEF Counts
  <2>1. changes \in Nat /\ requests \in Nat /\ faults \in Nat
    BY <1>0
  <2>2. QED
    BY <1>0, <1>1, <1>8, <2>1 DEF BoundsType

LEMMA ProcStep ==
    ASSUME IType, Next
    PROVE  proc' \in [Procs -> States]
<1>0. /\ memory \in [Configs -> Data] /\ file \in [Configs -> Data]
      /\ proc \in [Procs -> States] /\ Workers \subseteq Procs /\ Owner \in Procs
      /\ \A p \in Procs : proc[p].pc \in Busy => proc[p].config \in Configs
  BY TypeParts DEF IType, StoresType, WorkInv, Procs
<1>1. ASSUME NEW w \in Workers, NEW c \in Configs, NEW o \in BOOLEAN, Update(w, c, o) \/ Dump(w, c, o)
      PROVE  proc' \in [Procs -> States]
  BY <1>0, <1>1, BeginsType DEF Update, Dump, Phases, Saving
<1>2. ASSUME NEW w \in Workers, NEW c \in Configs, Import(w, c) \/ Pop(c)
      PROVE  proc' \in [Procs -> States]
  BY <1>0, <1>2, BeginsType DEF Import, Pop, Phases, Saving, Importing
<1>3. ASSUME NEW w \in Workers, Activate(w) \/ Apply(w) \/ Trust(w)
      PROVE  proc' \in [Procs -> States]
  BY <1>0, <1>3, GoesType, EndsType DEF Activate, Apply, Trust, Phases, Saving, Importing
<1>4. ASSUME NEW w \in Workers, Read(w) PROVE proc' \in [Procs -> States]
  <2>1. file[proc[w].config] \in Data
    BY <1>0, <1>4 DEF Read, Is, Busy, Importing
  <2>2. QED
    BY <1>0, <1>4, <2>1 DEF Read, States, Phases, Importing
<1>5. Wait \/ Clear => proc' \in [Procs -> States]
  BY <1>0, GoesType DEF Wait, Clear, Phases
<1>6. PopNothing => proc' \in [Procs -> States]
  BY <1>0, EndsType DEF PopNothing
<1>7. ASSUME NEW p \in Procs, Copy(p) PROVE proc' \in [Procs -> States]
  <2>1. memory[proc[p].config] \in Data
    BY <1>0, <1>7 DEF Copy, Is, Busy, Saving
  <2>2. QED
    BY <1>0, <1>7, <2>1 DEF Copy, States, Phases, Saving
<1>8. ASSUME NEW p \in Procs, Check(p) \/ Lock(p) \/ Compare(p) \/ Bump(p) \/ Write(p) \/ WriteFails(p)
      PROVE  proc' \in [Procs -> States]
  BY <1>0, <1>8, GoesType, EndsType
     DEF Check, Lock, Compare, Bump, Write, WriteFails, GivesUp, Phases, Saving
<1>9. (\E c \in Configs : EditFile(c)) \/ Restart => proc' \in [Procs -> States]
  BY <1>0, IdleType DEF EditFile, Restart
<1>10. ASSUME NEW c \in Configs, Pop(c) PROVE proc' \in [Procs -> States]
  <2>1. (switches[c] = "overwrite") \in BOOLEAN
    OBVIOUS
  <2>2. QED
    BY <1>0, <1>10, <2>1, BeginsType DEF Pop, Phases, Saving
<1>11. ASSUME NEW p \in Procs, ActivateFails(p) \/ Dies(p) PROVE proc' \in [Procs -> States]
  BY <1>0, <1>11, EndsType, DiesType DEF ActivateFails, GivesUp
<1>12. QED
  BY <1>0, NextSteps, <1>1, <1>2, <1>3, <1>4, <1>5, <1>6, <1>7, <1>8, <1>9, <1>10, <1>11 DEF SaveStep

\* A step of one process that leaves it in a proper state.
LEMMA WorkFrame ==
    ASSUME IType, NEW p \in Procs, Others(p),
           proc'[p].pc \in Busy => proc'[p].config \in Configs,
           proc'[p].pc \notin Busy => proc'[p].config = None,
           p = Owner => proc'[p].pc \in {"idle", "woken", "clearing"} \cup Saving,
           p \in Workers => proc'[p].pc \notin {"woken", "clearing"}
    PROVE  WorkInv'
<1>1. WorkInv /\ Workers \subseteq Procs /\ Owner \in Procs
  BY DEF IType, Procs
<1>2. QED
  BY <1>1 DEF WorkInv, Others

LEMMA WorkStep ==
    ASSUME IType, Next
    PROVE  WorkInv'
<1>0. /\ proc \in [Procs -> States] /\ Workers \subseteq Procs /\ Owner \in Procs
      /\ Owner \notin Workers /\ WorkInv
  BY TypeParts, OwnerAssumption DEF IType, Procs
<1>a. /\ \A q \in Saving : q \in Busy /\ q \in Phases /\ q \notin {"woken", "clearing", "idle"}
      /\ \A q \in Importing : q \in Busy /\ q \in Phases /\ q \notin {"woken", "clearing", "idle"}
      /\ "updated" \in Busy /\ {"idle", "woken", "clearing", "updated"} \subseteq Phases
      /\ "idle" \notin Busy /\ "woken" \notin Busy /\ "clearing" \notin Busy
      /\ \A q \in Importing : q \notin Saving
  BY DEF Busy, Saving, Importing, Phases
<1>1. ASSUME NEW p \in Procs, Ends(p) PROVE WorkInv'
  BY <1>0, <1>1, <1>a, EndsType, WorkFrame
<1>2. ASSUME NEW p \in Procs, NEW q \in Saving, proc[p].pc \in Saving \cup {"updated"}, Goes(p, q)
      PROVE  WorkInv'
  <2>1. proc[p].config \in Configs
    BY <1>0, <1>2, <1>a DEF WorkInv
  <2>2. QED
    BY <1>0, <1>2, <1>a, <2>1, GoesType, WorkFrame
<1>3. ASSUME NEW p \in Procs, SaveStep(p) PROVE WorkInv'
  <2>1. CASE Check(p) \/ Compare(p) \/ Write(p) \/ WriteFails(p)
    <3>1. \/ Ends(p)
          \/ \E q \in Saving : Goes(p, q) /\ proc[p].pc \in Saving
      BY <2>1 DEF Check, Compare, Write, WriteFails, GivesUp, Is, Saving
    <3>2. QED
      BY <1>1, <1>2, <3>1
  <2>2. CASE Lock(p) \/ Bump(p)
    BY <1>2, <2>2 DEF Lock, Bump, Is, Saving
  <2>3. CASE Copy(p)
    <3>1. proc[p].config \in Configs
      BY <1>0, <1>a, <2>3 DEF Copy, Is, WorkInv, Saving
    <3>2. Others(p) /\ proc'[p].pc = "writing" /\ proc'[p].config = proc[p].config
      BY <1>0, <2>3 DEF Copy, Others, States
    <3>3. "writing" \in Saving
      BY DEF Saving
    <3>4. QED
      BY <1>0, <1>a, <3>1, <3>2, <3>3, WorkFrame
  <2>4. QED
    BY <1>3, <2>1, <2>2, <2>3 DEF SaveStep
<1>4. ASSUME NEW w \in Workers, NEW c \in Configs, NEW o \in BOOLEAN, NEW q \in Busy,
             Begins(w, q, c, o)
      PROVE  WorkInv'
  BY <1>0, <1>4, <1>a, BeginsType, WorkFrame DEF Busy
<1>5. ASSUME NEW w \in Workers, NEW c \in Configs, NEW o \in BOOLEAN,
             Update(w, c, o) \/ Dump(w, c, o) \/ Import(w, c)
      PROVE  WorkInv'
  <2>1. "checking" \in Busy /\ "reading" \in Busy /\ FALSE \in BOOLEAN
    BY DEF Busy, Saving, Importing
  <2>2. QED
    BY <1>4, <1>5, <1>a, <2>1 DEF Update, Dump, Import
<1>6. ASSUME NEW w \in Workers, Activate(w) PROVE WorkInv'
  <2>1. "checking" \in Saving
    BY DEF Saving
  <2>2. QED
    BY <1>0, <1>1, <1>2, <1>6, <2>1 DEF Activate, Is
<1>7. ASSUME NEW w \in Workers, Read(w) \/ Apply(w) PROVE WorkInv'
  <2>1. /\ Others(w) /\ proc'[w].pc \in Importing /\ proc'[w].config = proc[w].config
        /\ proc[w].pc \in Importing
    <3>1. CASE Read(w)
      BY <1>0, <3>1 DEF Read, Others, Is, Importing, States
    <3>2. CASE Apply(w)
      BY <1>0, <3>2 DEF Apply, Goes, Others, Is, Importing, States
    <3>3. QED
      BY <1>7, <3>1, <3>2
  <2>2. proc[w].config \in Configs
    BY <1>0, <1>a, <2>1 DEF WorkInv
  <2>3. QED
    BY <1>0, <1>a, <2>1, <2>2, WorkFrame
<1>8. ASSUME NEW w \in Workers, Trust(w) PROVE WorkInv'
  BY <1>0, <1>1, <1>8 DEF Trust
<1>9. Wait \/ Clear => WorkInv'
  <2>1. SUFFICES ASSUME Wait \/ Clear PROVE WorkInv'
    OBVIOUS
  <2>2. \E q \in {"woken", "idle"} : Goes(Owner, q) /\ proc[Owner].pc \in {"idle", "clearing"}
    BY <2>1 DEF Wait, Clear, Is
  <2>3. proc[Owner].config = None
    BY <1>0, <1>a, <2>2 DEF WorkInv
  <2>4. QED
    BY <1>0, <1>a, <2>2, <2>3, GoesType, WorkFrame
<1>10. PopNothing => WorkInv'
  BY <1>0, <1>1 DEF PopNothing
<1>11. ASSUME NEW c \in Configs, Pop(c) PROVE WorkInv'
  <2>1. PICK o \in BOOLEAN : Begins(Owner, "checking", c, o)
    BY <1>11, Zenon DEF Pop
  <2>2. "checking" \in Saving
    BY DEF Saving
  <2>3. QED
    BY <1>0, <1>a, <2>1, <2>2, BeginsType, WorkFrame
<1>12. (\E c \in Configs : EditFile(c)) => WorkInv'
  BY <1>0 DEF EditFile, WorkInv
<1>13. Restart => WorkInv'
  <2>1. SUFFICES ASSUME Restart PROVE WorkInv'
    OBVIOUS
  <2>2. \A p \in Procs : proc'[p].pc = "idle" /\ proc'[p].config = None
    BY <2>1 DEF Restart, Idle
  <2>3. QED
    BY <1>0, <1>a, <2>2 DEF WorkInv
<1>14. ASSUME NEW w \in Workers, ActivateFails(w) PROVE WorkInv'
  BY <1>0, <1>1, <1>14 DEF ActivateFails, GivesUp
<1>15. ASSUME NEW p \in Procs, Dies(p) PROVE WorkInv'
  BY <1>0, <1>a, <1>15, DiesType, WorkFrame
<1>16. QED
  BY NextSteps, <1>3, <1>5, <1>6, <1>7, <1>8, <1>9, <1>10, <1>11, <1>12, <1>13, <1>14, <1>15

LEMMA NextType == IType /\ [Next]_vars => IType'
<1>1. ASSUME IType, Next PROVE IType'
  <2>1. TypeOK'
    BY <1>1, StoresStep, FlagsStep, SignalsStep, BoundsStep, ProcStep, TypeParts
       DEF TypeOK, States, StoresType, FlagsType, SignalsType, BoundsType
  <2>2. QED
    BY <1>1, <2>1, WorkStep DEF IType
<1>2. ASSUME IType, UNCHANGED vars PROVE IType'
  BY <1>2 DEF IType, TypeOK, WorkInv, vars
<1>3. QED
  BY <1>1, <1>2

\* The variables stay within their types.
THEOREM TypeCorrect == Spec => []TypeOK
<1>1. IType => TypeOK
  BY DEF IType
<1>2. QED
  BY InitType, NextType, <1>1, PTL DEF Spec
-----------------------------------------------------------------------------
(* The lock, and the versions of a save that has it.                       *)

Held == {"comparing", "bumping", "copying", "writing"}

LockInv == \A p \in Procs : proc[p].pc \in Held => saveLock = p

\* The file of a save is not newer than what the save goes by.
Ahead(p) ==
    LET c == proc[p].config IN
    /\ proc[p].pc = "bumping" => file[c].version =< memory[c].version
    /\ proc[p].pc = "copying" => file[c].version < memory[c].version
    /\ proc[p].pc = "writing" => file[c].version < proc[p].data.version

VersionInv == \A p \in Procs : ~proc[p].overwrite /\ ~disturbed /\ ~backdated => Ahead(p)

\* Steps that are not part of a save with the lock leave those that are alone.
LEMMA HeldFrame ==
    ASSUME IType, LockInv, Next,
           \A p \in Procs : ~(Lock(p) \/ Compare(p) \/ Bump(p) \/ Copy(p) \/ Write(p) \/ WriteFails(p)),
           ~Restart
    PROVE  /\ saveLock' = saveLock
           /\ \A q \in Procs : \/ proc'[q] = proc[q]
                               \/ proc[q].pc \notin Held /\ proc'[q].pc \notin Held
<1>0. /\ proc \in [Procs -> States] /\ Workers \subseteq Procs /\ Owner \in Procs
      /\ WorkInv
  BY TypeParts DEF IType, Procs
<1>1. ASSUME NEW p \in Procs, proc[p].pc \notin Held, proc'[p].pc \notin Held, Others(p)
      PROVE  \A q \in Procs : \/ proc'[q] = proc[q]
                              \/ proc[q].pc \notin Held /\ proc'[q].pc \notin Held
  BY <1>1 DEF Others
<1>a. "checking" \in Phases /\ "locking" \in Phases /\ "woken" \in Phases /\ "idle" \in Phases
      /\ "updated" \in Phases /\ "reading" \in Phases /\ "trusting" \in Phases
  BY DEF Phases, Saving, Importing
<1>2. ASSUME NEW w \in Workers, NEW c \in Configs, NEW o \in BOOLEAN,
             Update(w, c, o) \/ Dump(w, c, o) \/ Import(w, c)
      PROVE  /\ saveLock' = saveLock
             /\ Others(w) /\ proc[w].pc \notin Held /\ proc'[w].pc \notin Held
  <2>1. \E q \in {"updated", "checking", "reading"}, v \in BOOLEAN : Begins(w, q, c, v)
    BY <1>2, Zenon DEF Update, Dump, Import
  <2>2. proc[w].pc = "idle" /\ saveLock' = saveLock
    BY <1>2 DEF Update, Dump, Import, Is
  <2>3. QED
    BY <1>0, <1>a, <2>1, <2>2, BeginsType DEF Held
<1>3. ASSUME NEW w \in Workers, Activate(w) \/ ActivateFails(w) \/ Apply(w) \/ Trust(w)
      PROVE  /\ saveLock' = saveLock
             /\ Others(w) /\ proc[w].pc \notin Held /\ proc'[w].pc \notin Held
  <2>1. Ends(w) \/ \E q \in {"checking", "trusting"} : Goes(w, q)
    BY <1>3 DEF Activate, ActivateFails, GivesUp, Apply, Trust
  <2>2. proc[w].pc \in {"updated", "applying", "trusting"} /\ saveLock' = saveLock
    BY <1>3 DEF Activate, ActivateFails, Apply, Trust, Is
  <2>3. QED
    BY <1>0, <1>a, <2>1, <2>2, GoesType, EndsType DEF Held
<1>4. ASSUME NEW w \in Workers, Read(w)
      PROVE  /\ saveLock' = saveLock
             /\ Others(w) /\ proc[w].pc \notin Held /\ proc'[w].pc \notin Held
  BY <1>0, <1>4 DEF Read, Is, Others, States, Held
<1>5. ASSUME Wait \/ PopNothing \/ Clear \/ \E c \in Configs : Pop(c)
      PROVE  /\ saveLock' = saveLock
             /\ Others(Owner) /\ proc[Owner].pc \notin Held /\ proc'[Owner].pc \notin Held
  <2>1. proc[Owner].pc \in {"idle", "woken", "clearing"} /\ saveLock' = saveLock
    BY <1>5 DEF Wait, PopNothing, Clear, Pop, Is
  <2>2. \/ Ends(Owner)
        \/ \E q \in {"woken", "idle"} : Goes(Owner, q)
        \/ \E c \in Configs, v \in BOOLEAN : Begins(Owner, "checking", c, v)
    BY <1>5, Zenon DEF Wait, PopNothing, Clear, Pop
  <2>3. QED
    BY <1>0, <1>a, <2>1, <2>2, GoesType, EndsType, BeginsType DEF Held
<1>6. ASSUME NEW p \in Procs, Check(p)
      PROVE  /\ saveLock' = saveLock
             /\ Others(p) /\ proc[p].pc \notin Held /\ proc'[p].pc \notin Held
  <2>1. Goes(p, "locking") \/ Ends(p)
    BY <1>6 DEF Check, GivesUp
  <2>2. proc[p].pc = "checking" /\ saveLock' = saveLock
    BY <1>6 DEF Check, Is
  <2>3. QED
    BY <1>0, <1>a, <2>1, <2>2, GoesType, EndsType DEF Held
<1>7. ASSUME NEW c \in Configs, EditFile(c) PROVE proc' = proc /\ saveLock' = saveLock
  BY <1>7 DEF EditFile
<1>8. ASSUME NEW p \in Procs, Dies(p)
      PROVE  /\ saveLock' = saveLock
             /\ Others(p) /\ proc[p].pc \notin Held /\ proc'[p].pc \notin Held
  <2>1. proc[p].pc \notin Held /\ saveLock' = saveLock
    BY <1>8 DEF Dies, LockInv
  <2>2. QED
    BY <1>8, <2>1, DiesType DEF Held
<1>9. QED
  BY <1>0, <1>1, <1>2, <1>3, <1>4, <1>5, <1>6, <1>7, <1>8, NextSteps DEF SaveStep

\* The holder of the lock goes on under it, or ends and releases it.
LEMMA HolderStep ==
    ASSUME IType, LockInv, NEW p \in Procs,
           Compare(p) \/ Bump(p) \/ Copy(p) \/ Write(p) \/ WriteFails(p)
    PROVE  /\ proc[p].pc \in Held /\ Others(p)
           /\ \A q \in Procs \ {p} : proc[q].pc \notin Held /\ proc'[q].pc \notin Held
           /\ \/ saveLock' = saveLock
              \/ proc'[p].pc \notin Held
<1>0. proc \in [Procs -> States]
  BY TypeParts DEF IType
<1>1. proc[p].pc \in Held
  BY DEF Compare, Bump, Copy, Write, WriteFails, Is, Held
<1>2. \A q \in Procs \ {p} : proc[q].pc \notin Held
  BY <1>1 DEF LockInv
<1>3. Others(p) /\ (saveLock' = saveLock \/ proc'[p].pc \notin Held)
  <2>1. CASE Ends(p)
    BY <2>1, EndsType DEF Held
  <2>2. CASE saveLock' = saveLock /\ (\E q \in Phases : Goes(p, q))
    BY <2>2, GoesType
  <2>3. CASE Copy(p)
    BY <1>0, <2>3 DEF Copy, Others
  <2>4. {"bumping", "copying"} \subseteq Phases
    BY DEF Phases, Saving
  <2>5. QED
    BY <2>1, <2>2, <2>3, <2>4 DEF Compare, Bump, Write, WriteFails, GivesUp
<1>4. QED
  BY <1>1, <1>2, <1>3 DEF Others

LEMMA LockStep == IType /\ LockInv /\ [Next]_vars => LockInv'
<1> SUFFICES ASSUME IType, LockInv, [Next]_vars PROVE LockInv'
  OBVIOUS
<1>0. None \notin Procs
  BY NoneAssumption DEF Procs
<1>1. ASSUME NEW p \in Procs, Lock(p) PROVE LockInv'
  <2>1. \A q \in Procs : proc[q].pc \notin Held
    BY <1>0, <1>1 DEF Lock, LockInv
  <2>2. Others(p) /\ saveLock' = p
    BY <1>1, GoesType DEF Lock, Phases, Saving
  <2>3. QED
    BY <2>1, <2>2 DEF LockInv, Others
<1>2. ASSUME NEW p \in Procs, Compare(p) \/ Bump(p) \/ Copy(p) \/ Write(p) \/ WriteFails(p)
      PROVE  LockInv'
  BY <1>2, HolderStep DEF LockInv, Others
<1>3. Restart => LockInv'
  <2>1. Restart => \A p \in Procs : proc'[p].pc = "idle"
    BY DEF Restart, Idle
  <2>2. QED
    BY <2>1 DEF LockInv, Held
<1>4. CASE UNCHANGED vars
  BY <1>4 DEF vars, LockInv
<1>5. CASE Next
  BY <1>1, <1>2, <1>3, <1>5, HeldFrame DEF LockInv
<1>6. QED
  BY <1>4, <1>5

LEMMA VersionStep == IType /\ LockInv /\ VersionInv /\ [Next]_vars => VersionInv'
<1> SUFFICES ASSUME IType, LockInv, VersionInv, [Next]_vars PROVE VersionInv'
  OBVIOUS
<1>0. /\ proc \in [Procs -> States] /\ Workers \subseteq Procs /\ Owner \in Procs
      /\ memory \in [Configs -> Data] /\ file \in [Configs -> Data]
      /\ \A p \in Procs : proc[p].pc \in Held => proc[p].config \in Configs
      /\ \A c \in Configs : memory[c].version \in Nat /\ file[c].version \in Nat
  BY TypeParts DEF IType, Procs, WorkInv, StoresType, Held, Busy, Saving, Data
<1>1. ASSUME NEW p \in Procs, Lock(p) PROVE VersionInv'
  <2>1. Others(p) /\ proc'[p].pc = "comparing"
    BY <1>1, GoesType DEF Lock, Phases, Saving
  <2>2. \A q \in Procs : proc[q].pc \notin Held
    BY <1>1, NoneAssumption DEF Lock, LockInv, Procs
  <2>3. QED
    BY <2>1, <2>2 DEF VersionInv, Ahead, Others, Held
<1>2. ASSUME NEW p \in Procs, Compare(p) \/ Bump(p) \/ Copy(p) \/ Write(p) \/ WriteFails(p)
      PROVE  VersionInv'
  <2> DEFINE c == proc[p].config
  <2>1. /\ c \in Configs /\ proc[p].pc \in Held
        /\ \A q \in Procs \ {p} : proc'[q].pc \notin Held
    BY <1>0, <1>2, HolderStep
  <2>2. SUFFICES ASSUME ~proc'[p].overwrite, ~disturbed', ~backdated', proc'[p].pc \in Held
                     PROVE  Ahead(p)'
    BY <2>1 DEF VersionInv, Ahead, Held
  <2>3. ~Ends(p) /\ ~Write(p) /\ ~WriteFails(p)
    BY <2>2, EndsType DEF Held, Write, WriteFails, GivesUp
  <2>4. CASE Compare(p)
    <3>1. Goes(p, "bumping") /\ ~(IsNewer(c) /\ ~proc[p].overwrite) /\ UNCHANGED stores
      BY <2>3, <2>4 DEF Compare, GivesUp
    <3>2. proc'[p].config = c /\ proc'[p].pc = "bumping" /\ ~proc[p].overwrite
      BY <2>2, <3>1, GoesType DEF Phases, Saving
    <3>3. file[c].version =< memory[c].version
      BY <1>0, <2>1, <3>1, <3>2 DEF IsNewer
    <3>4. QED
      BY <3>1, <3>2, <3>3 DEF Ahead, stores
  <2>5. CASE Bump(p)
    <3>1. /\ proc'[p].config = c /\ proc'[p].pc = "copying"
          /\ proc'[p].overwrite = proc[p].overwrite
      BY <2>5, GoesType DEF Bump, Phases, Saving
    <3>2. file[c].version =< memory[c].version
      BY <2>2, <2>5, <3>1 DEF VersionInv, Ahead, Bump, Is, ghosts
    <3>3. file' = file /\ memory'[c].version = memory[c].version + 1
      BY <1>0, <2>1, <2>5 DEF Bump, Data
    <3>4. file'[c].version < memory'[c].version
      BY <1>0, <2>1, <3>2, <3>3
    <3>5. QED
      BY <3>1, <3>4 DEF Ahead
  <2>6. CASE Copy(p)
    <3>1. /\ proc'[p].config = c /\ proc'[p].pc = "writing"
          /\ proc'[p].data = memory[c]
      BY <1>0, <2>6 DEF Copy, States
    <3>2. proc'[p].overwrite = proc[p].overwrite
      BY <1>0, <2>6 DEF Copy, States
    <3>3. file[c].version < memory[c].version
      BY <2>2, <2>6, <3>2 DEF VersionInv, Ahead, Copy, Is, ghosts
    <3>4. QED
      BY <2>6, <3>1, <3>3 DEF Ahead, Copy, stores
  <2>7. QED
    BY <1>2, <2>3, <2>4, <2>5, <2>6
<1>3. Restart => VersionInv'
  <2>1. Restart => \A p \in Procs : proc'[p].pc = "idle"
    BY DEF Restart, Idle
  <2>2. QED
    BY <2>1 DEF VersionInv, Ahead
<1>4. CASE UNCHANGED vars
  BY <1>4 DEF vars, VersionInv, Ahead
<1>5. ASSUME Next, ~Restart,
             \A p \in Procs : ~(Lock(p) \/ Compare(p) \/ Bump(p) \/ Copy(p) \/ Write(p) \/ WriteFails(p))
      PROVE  VersionInv'
  <2> DEFINE Same ==
        /\ disturbed' = disturbed /\ backdated' = backdated /\ file' = file
        /\ \A c \in Configs : memory'[c].version = memory[c].version
  <2>1. ASSUME NEW w \in Workers, NEW c \in Configs, NEW o \in BOOLEAN, Update(w, c, o)
        PROVE  backdated' \/ Same \/ \A q \in Procs : proc[q].pc \notin Held
    <3>1. PICK v \in 1..memory[c].version :
             /\ Set(c, v)
             /\ backdated' = (backdated \/ (saveLock # None /\ v # memory[c].version))
             /\ UNCHANGED <<file, disturbed>>
      BY <2>1 DEF Update
    <3>2. CASE saveLock = None
      BY <3>2, NoneAssumption DEF LockInv, Procs
    <3>3. CASE v # memory[c].version /\ saveLock # None
      BY <3>1, <3>3
    <3>4. CASE v = memory[c].version
      <4>1. \A d \in Configs : memory'[d].version = memory[d].version
        BY <1>0, <3>1, <3>4 DEF Set, Data
      <4>2. backdated' = backdated
        BY <1>0, <3>1, <3>4, TypeParts DEF IType, FlagsType
      <4>3. QED
        BY <3>1, <4>1, <4>2
    <3>5. QED
      BY <3>2, <3>3, <3>4
  <2>2. ASSUME NEW w \in Workers, NEW c \in Configs, NEW o \in BOOLEAN,
               Dump(w, c, o) \/ Import(w, c)
        PROVE  Same
    BY <2>2 DEF Dump, Import, ghosts, stores
  <2>3. ASSUME NEW w \in Workers, Activate(w) \/ ActivateFails(w) \/ Read(w) \/ Trust(w)
        PROVE  Same
    BY <2>3 DEF Activate, ActivateFails, Read, Trust, ghosts, stores
  <2>4. (\E w \in Workers : Apply(w)) \/ (\E c \in Configs : EditFile(c)) => disturbed'
    BY DEF Apply, EditFile
  <2>5. Wait \/ PopNothing \/ Clear \/ (\E c \in Configs : Pop(c)) => Same
    BY DEF Wait, PopNothing, Clear, Pop, ghosts, stores
  <2>6. ASSUME NEW p \in Procs, Check(p) \/ Dies(p) PROVE Same
    BY <2>6 DEF Check, Dies, stores
  <2>7. disturbed' \/ backdated' \/ Same \/ \A q \in Procs : proc[q].pc \notin Held
    <3> HIDE DEF Same
    <3>1. QED
      BY <1>5, <2>1, <2>2, <2>3, <2>4, <2>5, <2>6, NextSteps DEF SaveStep
  <2>8. \A q \in Procs : \/ proc'[q] = proc[q]
                         \/ proc[q].pc \notin Held /\ proc'[q].pc \notin Held
    BY <1>5, HeldFrame
  <2>9. CASE Same
    BY <1>0, <2>8, <2>9 DEF VersionInv, Ahead, Held
  <2>10. CASE \A q \in Procs : proc[q].pc \notin Held
    <3>1. \A q \in Procs : proc'[q].pc \notin Held
      BY <2>8, <2>10
    <3>2. QED
      BY <3>1 DEF VersionInv, Ahead, Held
  <2>11. CASE disturbed' \/ backdated'
    BY <2>11 DEF VersionInv
  <2>12. QED
    BY <2>7, <2>9, <2>10, <2>11
<1>6. QED
  BY <1>1, <1>2, <1>3, <1>4, <1>5

\* No save without `overwrite' replaces a newer version by an older one, unless
\* something has been done to the file or the version since the lock was taken.
THEOREM NewerKept == Spec => NewerIsKept
<1>1. Init => LockInv /\ VersionInv
  BY DEF Init, LockInv, VersionInv, Ahead, Idle, Held
<1>2. ASSUME IType, VersionInv, NEW p \in Procs, Write(p), ~proc[p].overwrite, ~disturbed,
             ~backdated
      PROVE  file'[proc[p].config].version > file[proc[p].config].version
  <2> DEFINE c == proc[p].config
  <2>1. c \in Configs /\ file \in [Configs -> Data] /\ proc[p].data \in Data
    BY <1>2, TypeParts DEF IType, WorkInv, Write, Is, Busy, Saving, StoresType, States
  <2>2. file'[c] = proc[p].data
    BY <1>2, <2>1 DEF Write
  <2>3. file[c].version < proc[p].data.version
    BY <1>2 DEF VersionInv, Ahead, Write, Is
  <2>4. file[c].version \in Nat /\ proc[p].data.version \in Nat
    BY <2>1 DEF Data
  <2>5. QED
    BY <2>2, <2>3, <2>4
<1>3. IType /\ VersionInv /\ [Next]_vars =>
          [\A p \in Procs :
              (Write(p) /\ ~proc[p].overwrite /\ ~disturbed /\ ~backdated)
                  => file'[proc[p].config].version > file[proc[p].config].version]_vars
  BY <1>2
<1>4. QED
  BY InitType, NextType, LockStep, VersionStep, <1>1, <1>3, PTL DEF Spec, NewerIsKept
-----------------------------------------------------------------------------
(* The owner's loop is a switchboard.                                      *)

LEMMA WorkersLeaveOwner ==
    ASSUME NEW w \in Workers, Others(w)
    PROVE  proc'[Owner] = proc[Owner]
  BY OwnerAssumption DEF Others, Procs

LEMMA SwitchboardStep ==
    ASSUME IType, Next
    PROVE  [SB!Next]_SB!vars
<1>0. /\ proc \in [Procs -> States] /\ Workers \subseteq Procs /\ Owner \in Procs
      /\ switches \in [Configs -> {"off", "save", "overwrite"}]
      /\ \A p \in Procs : proc[p].pc \in Busy => proc[p].config \in Configs
      /\ None \notin Configs
  BY TypeParts, NoneAssumption DEF IType, Procs, WorkInv, SignalsType
<1>a. {"checking", "locking", "comparing", "bumping", "copying", "writing"} \subseteq Phases
      /\ {"idle", "woken", "clearing", "updated", "reading", "trusting"} \subseteq Phases
  BY DEF Phases, Saving, Importing
<1>1. ASSUME switches' = switches, proc'[Owner] = proc[Owner] PROVE [SB!Next]_SB!vars
  BY <1>1 DEF SB!vars, On, Handled
<1>2. ASSUME NEW w \in Workers, NEW c \in Configs, NEW o \in BOOLEAN,
             Update(w, c, o) \/ Dump(w, c, o) \/ Import(w, c)
      PROVE  switches' = switches /\ proc'[Owner] = proc[Owner]
  <2>1. \E q \in {"updated", "checking", "reading"}, v \in BOOLEAN : Begins(w, q, c, v)
    BY <1>2, Zenon DEF Update, Dump, Import
  <2>2. Others(w)
    BY <1>0, <1>a, <2>1, BeginsType
  <2>3. switches' = switches
    BY <1>2 DEF Update, Dump, Import, signals
  <2>4. QED
    BY <2>2, <2>3, WorkersLeaveOwner
<1>3. ASSUME NEW w \in Workers, Activate(w) PROVE [SB!Next]_SB!vars
  <2>1. Others(w)
    BY <1>0, <1>3, <1>a, GoesType, EndsType DEF Activate
  <2>2. proc'[Owner] = proc[Owner]
    BY <2>1, WorkersLeaveOwner
  <2>3. proc[w].config \in Configs
    BY <1>0, <1>3 DEF Activate, Is, Busy
  <2>4. On' = On \cup {proc[w].config}
    BY <1>0, <1>3, <2>3 DEF Activate, TurnOn, On
  <2>5. SB!Activate(proc[w].config)
    BY <2>2, <2>4 DEF SB!Activate, Handled
  <2>6. QED
    BY <2>3, <2>5 DEF SB!Next
<1>4. ASSUME NEW w \in Workers, Read(w) \/ Apply(w) \/ Trust(w)
      PROVE  switches' = switches /\ proc'[Owner] = proc[Owner]
  <2>1. CASE Read(w)
    BY <1>0, <2>1, OwnerAssumption DEF Read, signals
  <2>2. CASE Apply(w) \/ Trust(w)
    <3>1. Others(w)
      BY <1>0, <1>a, <2>2, GoesType, EndsType DEF Apply, Trust
    <3>2. QED
      BY <2>2, <3>1, WorkersLeaveOwner DEF Apply, Trust, signals
  <2>3. QED
    BY <1>4, <2>1, <2>2
<1>5. Wait \/ PopNothing \/ Clear => [SB!Next]_SB!vars
  <2>1. SUFFICES ASSUME Wait \/ PopNothing \/ Clear PROVE [SB!Next]_SB!vars
    OBVIOUS
  <2>2. switches' = switches /\ proc[Owner].pc \in {"idle", "woken", "clearing"}
    BY <2>1 DEF Wait, PopNothing, Clear, signals, Is
  <2>3. proc'[Owner].pc \in {"idle", "woken", "clearing"}
    BY <1>0, <1>a, <2>1, GoesType, EndsType DEF Wait, PopNothing, Clear
  <2>4. Handled = None /\ Handled' = None
    BY <2>2, <2>3 DEF Handled, Saving
  <2>5. QED
    BY <2>2, <2>4 DEF SB!vars, On
<1>6. ASSUME NEW c \in Configs, Pop(c) PROVE [SB!Next]_SB!vars
  <2>1. PICK o \in BOOLEAN : Begins(Owner, "checking", c, o)
    BY <1>6, Zenon DEF Pop
  <2>2. Handled = None /\ Handled' = c
    BY <1>0, <1>6, <1>a, <2>1, BeginsType DEF Pop, Is, Handled, Saving
  <2>3. c \in On /\ On' = On \ {c}
    BY <1>0, <1>6 DEF Pop, On
  <2>4. SB!Take(c)
    BY <2>2, <2>3 DEF SB!Take
  <2>5. QED
    BY <2>4 DEF SB!Next
<1>7. ASSUME NEW p \in Procs, SaveStep(p) PROVE [SB!Next]_SB!vars
  <2>1. switches' = switches
    BY <1>7 DEF SaveStep, Check, Lock, Compare, Bump, Copy, Write, WriteFails, signals
  <2>2. /\ Others(p) /\ proc[p].pc \in Saving
        /\ \/ proc'[p].pc \in Saving /\ proc'[p].config = proc[p].config
           \/ Ends(p)
    <3>1. proc[p].pc \in Saving
      BY <1>7 DEF SaveStep, Check, Lock, Compare, Bump, Copy, Write, WriteFails, Is, Saving
    <3>2. \/ Ends(p) \/ Copy(p)
          \/ \E q \in {"locking", "comparing", "bumping", "copying"} : Goes(p, q)
      BY <1>7 DEF SaveStep, Check, Lock, Compare, Bump, Write, WriteFails, GivesUp
    <3>3. CASE Copy(p)
      BY <1>0, <3>1, <3>3 DEF Copy, Others, Saving, States
    <3>4. QED
      BY <1>a, <3>1, <3>2, <3>3, GoesType, EndsType DEF Saving
  <2>3. CASE p # Owner
    <3>1. proc'[Owner] = proc[Owner]
      BY <1>0, <2>2, <2>3 DEF Others
    <3>2. QED
      BY <1>1, <2>1, <3>1
  <2>4. CASE p = Owner /\ ~Ends(p)
    <3>1. Handled' = Handled
      BY <2>2, <2>4 DEF Handled
    <3>2. QED
      BY <2>1, <3>1 DEF SB!vars, On
  <2>5. CASE p = Owner /\ Ends(p)
    <3>1. Handled = proc[Owner].config /\ proc[Owner].config \in Configs
      BY <1>0, <2>2, <2>5 DEF Handled, Busy
    <3>2. Handled' = None
      BY <2>5, EndsType DEF Handled, Saving
    <3>3. SB!Finish
      BY <1>0, <2>1, <3>1, <3>2 DEF SB!Finish, On
    <3>4. QED
      BY <3>3 DEF SB!Next
  <2>6. QED
    BY <2>3, <2>4, <2>5
<1>8. ASSUME NEW c \in Configs, EditFile(c) PROVE [SB!Next]_SB!vars
  BY <1>1, <1>8 DEF EditFile, signals
<1>9. Restart => [SB!Next]_SB!vars
  <2>1. SUFFICES ASSUME Restart PROVE [SB!Next]_SB!vars
    OBVIOUS
  <2>2. On' = {} /\ Handled' = None
    BY <1>0, <2>1 DEF Restart, On, Handled, Idle, Saving
  <2>3. QED
    BY <2>2 DEF SB!Next, SB!Forget
<1>10. ASSUME NEW w \in Workers, ActivateFails(w) PROVE [SB!Next]_SB!vars
  <2>1. Others(w) /\ switches' = switches
    BY <1>0, <1>10, EndsType DEF ActivateFails, GivesUp, signals
  <2>2. QED
    BY <1>1, <2>1, WorkersLeaveOwner
<1>11. ASSUME NEW p \in Procs, Dies(p) PROVE [SB!Next]_SB!vars
  <2>1. switches' = switches /\ Others(p) /\ proc'[p].pc = "idle"
    BY <1>11, DiesType DEF Dies, signals
  <2>2. CASE p # Owner
    BY <1>0, <1>1, <2>1, <2>2 DEF Others
  <2>3. CASE p = Owner
    <3>1. Handled' = None /\ On' = On
      BY <2>1, <2>3 DEF Handled, Saving, On
    <3>2. CASE Handled = None
      BY <3>1, <3>2 DEF SB!vars
    <3>3. CASE Handled # None
      BY <3>1, <3>3 DEF SB!Next, SB!Finish
    <3>4. QED
      BY <3>2, <3>3
  <2>4. QED
    BY <2>2, <2>3
<1>12. QED
  BY <1>1, <1>2, <1>3, <1>4, <1>5, <1>6, <1>7, <1>8, <1>9, <1>10, <1>11, NextSteps

\* Whatever the workers do, the switches and the owner's loop take the steps
\* of a switchboard.  (Its liveness is checked by TLC.)
THEOREM SwitchesAreABoard == Spec => SB!Init /\ [][SB!Next]_SB!vars
<1>1. ASSUME Init PROVE SB!Init
  <2>1. On = {} /\ Handled = None
    BY <1>1 DEF Init, On, Handled, Idle, Saving, Procs
  <2>2. QED
    BY <2>1 DEF SB!Init
<1>2. IType /\ [Next]_vars => [SB!Next]_SB!vars
  <2>1. UNCHANGED vars => UNCHANGED SB!vars
    BY DEF vars, SB!vars, On, Handled
  <2>2. QED
    BY <2>1, SwitchboardStep
<1>3. QED
  BY InitType, NextType, <1>1, <1>2, PTL DEF Spec
-----------------------------------------------------------------------------
(* Whatever makes a file and the memory differ is promised to be saved.    *)

Differs(c) == file[c].settings # memory[c].settings

\* A switch is on, or somebody will come to the lock.
Coming(p, c) == proc[p].config = c /\ proc[p].pc \in {"updated", "checking", "locking"}
Promised(c) == switches[c] # "off" \/ \E p \in Procs : Coming(p, c)

\* The holder of the lock will write the settings as they are.
Writes(p, c) ==
    /\ proc[p].config = c
    /\ \/ proc[p].pc \in {"comparing", "bumping", "copying"}
       \/ proc[p].pc = "writing" /\ proc[p].data.settings = memory[c].settings

QuietInv ==
    \A c \in Configs :
        c \notin parted /\ Differs(c) => Promised(c) \/ \E p \in Procs : Writes(p, c)

\* Settings that came after the copy are promised to be saved again.
Stale(p, c) ==
    /\ proc[p].config = c
    /\ proc[p].pc = "writing"
    /\ proc[p].data.settings # memory[c].settings
StaleInv ==
    \A p \in Procs, c \in Configs :
        Stale(p, c) /\ ~disturbed /\ c \notin parted => Promised(c)

HoldersStep(p) == Lock(p) \/ Compare(p) \/ Bump(p) \/ Copy(p) \/ Write(p) \/ WriteFails(p)

\* A promise stays one, until the lock is taken or the save gives up.
LEMMA PromiseStep ==
    ASSUME IType, Next, ~Restart, NEW c \in Configs, Promised(c)
    PROVE  Promised(c)' \/ c \in parted' \/ \E p \in Procs : Lock(p) /\ proc[p].config = c
<1>0. /\ proc \in [Procs -> States] /\ Workers \subseteq Procs /\ Owner \in Procs
      /\ switches \in [Configs -> {"off", "save", "overwrite"}]
      /\ \A p \in Procs : proc[p].pc \in Busy => proc[p].config \in Configs
  BY TypeParts DEF IType, Procs, WorkInv, SignalsType
<1>a. "checking" \in Phases /\ "locking" \in Phases
  BY DEF Phases, Saving
<1>1. CASE switches[c] # "off"
  <2>1. ASSUME Pop(c) PROVE Promised(c)'
    <3>1. PICK o \in BOOLEAN : Begins(Owner, "checking", c, o)
      BY <2>1, Zenon DEF Pop
    <3>2. proc'[Owner].config = c /\ proc'[Owner].pc = "checking"
      BY <1>0, <1>a, <3>1, BeginsType
    <3>3. QED
      BY <1>0, <3>2 DEF Promised, Coming
  <2>2. ASSUME NEW d \in Configs, d # c, Pop(d) PROVE switches'[c] = switches[c]
    BY <1>0, <2>2 DEF Pop
  <2>3. ASSUME NEW w \in Workers, Activate(w) PROVE switches'[c] # "off"
    BY <1>0, <1>1, <2>3 DEF Activate, TurnOn
  <2>4. ASSUME NEW w \in Workers, NEW d \in Configs, NEW o \in BOOLEAN,
               Update(w, d, o) \/ Dump(w, d, o) \/ Import(w, d)
        PROVE  switches' = switches
    BY <2>4 DEF Update, Dump, Import, signals
  <2>5. ASSUME NEW p \in Procs, Read(p) \/ Apply(p) \/ Trust(p) \/ ActivateFails(p) \/ Dies(p)
        PROVE  switches' = switches
    BY <2>5 DEF Read, Apply, Trust, ActivateFails, Dies, signals
  <2>6. ASSUME NEW p \in Procs, SaveStep(p) PROVE switches' = switches
    BY <2>6 DEF SaveStep, Check, Lock, Compare, Bump, Copy, Write, WriteFails, signals
  <2>7. Wait \/ PopNothing \/ Clear \/ (\E d \in Configs : EditFile(d)) => switches' = switches
    BY DEF Wait, PopNothing, Clear, EditFile, signals
  <2>8. Promised(c)' \/ switches'[c] # "off"
    BY <1>0, <1>1, <2>1, <2>2, <2>3, <2>4, <2>5, <2>6, <2>7, NextSteps
  <2>9. QED
    BY <2>8 DEF Promised
<1>2. ASSUME NEW p \in Procs, Coming(p, c)
      PROVE  Promised(c)' \/ c \in parted' \/ \E q \in Procs : Lock(q) /\ proc[q].config = c
  <2>1. CASE proc'[p] = proc[p]
    BY <1>2, <2>1 DEF Promised, Coming
  <2>2. CASE Check(p)
    <3>1. CASE GivesUp(p)
      BY <1>2, <3>1 DEF GivesUp, Coming
    <3>2. CASE Goes(p, "locking")
      <4>1. proc'[p].config = c /\ proc'[p].pc = "locking"
        BY <1>2, <1>a, <3>2, GoesType DEF Coming
      <4>2. QED
        BY <4>1 DEF Promised, Coming
    <3>3. QED
      BY <2>2, <3>1, <3>2 DEF Check
  <2>3. CASE Lock(p)
    BY <1>2, <2>3 DEF Coming
  <2>4. CASE Activate(p)
    <3>1. switches'[c] # "off"
      BY <1>0, <1>2, <2>4 DEF Activate, TurnOn, Coming
    <3>2. QED
      BY <3>1 DEF Promised
  <2>5. CASE ActivateFails(p) \/ Dies(p)
    BY <1>2, <2>5 DEF ActivateFails, GivesUp, Dies, Coming, Saving
  <2>6. proc'[p] = proc[p] \/ Check(p) \/ Lock(p) \/ Activate(p) \/ ActivateFails(p) \/ Dies(p)
    <3>1. proc[p].pc \in {"updated", "checking", "locking"}
      BY <1>2 DEF Coming
    <3>2. ASSUME NEW w \in Workers, NEW d \in Configs, NEW o \in BOOLEAN,
                 Update(w, d, o) \/ Dump(w, d, o) \/ Import(w, d)
          PROVE  proc'[p] = proc[p]
      BY <1>0, <3>1, <3>2 DEF Update, Dump, Import, Begins, Is
    <3>3. ASSUME NEW w \in Workers, Activate(w) \/ Read(w) \/ Apply(w) \/ Trust(w)
          PROVE  proc'[p] = proc[p] \/ Activate(p)
      BY <1>0, <3>1, <3>3 DEF Activate, Read, Apply, Trust, Ends, Goes, Is
    <3>4. ASSUME NEW q \in Procs, SaveStep(q)
          PROVE  proc'[p] = proc[p] \/ Check(p) \/ Lock(p)
      <4>1. CASE q = p
        BY <3>1, <3>4, <4>1 DEF SaveStep, Compare, Bump, Copy, Write, WriteFails, Is
      <4>2. CASE q # p
        BY <1>0, <3>4, <4>2 DEF SaveStep, Check, Lock, Compare, Bump, Copy, Write, WriteFails,
                                GivesUp, Goes, Ends
      <4>3. QED
        BY <4>1, <4>2
    <3>5. Wait \/ PopNothing \/ Clear \/ (\E d \in Configs : Pop(d)) => proc'[p] = proc[p]
      BY <1>0, <3>1 DEF Wait, PopNothing, Clear, Pop, Begins, Ends, Goes, Is
    <3>6. (\E d \in Configs : EditFile(d)) => proc'[p] = proc[p]
      BY DEF EditFile
    <3>7. ASSUME NEW q \in Procs, ActivateFails(q) \/ Dies(q), q # p PROVE proc'[p] = proc[p]
      BY <1>0, <3>7, EndsType, DiesType DEF ActivateFails, GivesUp, Others
    <3>8. QED
      BY <1>0, <3>2, <3>3, <3>4, <3>5, <3>6, <3>7, NextSteps
  <2>7. QED
    BY <2>1, <2>2, <2>3, <2>4, <2>5, <2>6
<1>3. QED
  BY <1>1, <1>2 DEF Promised

\* The two agree or differ on c as before.
Unmoved(c) ==
    /\ file'[c].settings = file[c].settings
    /\ memory'[c].settings = memory[c].settings
    /\ c \in parted => c \in parted'
    /\ disturbed => disturbed'

\* What a step outside the lock does to a config: nothing, or a promise, or
\* an edit or import that tells the two apart.
LEMMA OpenStep ==
    ASSUME IType, Next, ~Restart, \A p \in Procs : ~HoldersStep(p), NEW c \in Configs
    PROVE  \/ Unmoved(c)
           \/ Promised(c)'
           \/ (disturbed' /\ (c \in parted' \/ ~Differs(c)'))
<1>0. /\ proc \in [Procs -> States] /\ Workers \subseteq Procs
      /\ memory \in [Configs -> Data] /\ file \in [Configs -> Data]
      /\ \A p \in Procs : proc[p].pc \in Busy => proc[p].config \in Configs
  BY TypeParts DEF IType, Procs, WorkInv, StoresType
<1>1. ASSUME NEW w \in Workers, NEW d \in Configs, NEW o \in BOOLEAN, Update(w, d, o)
      PROVE  Unmoved(c) \/ Promised(c)'
  <2>1. CASE d = c
    <3>1. proc'[w].config = c /\ proc'[w].pc = "updated"
      BY <1>0, <1>1, <2>1, BeginsType DEF Update, Phases
    <3>2. QED
      BY <1>0, <3>1 DEF Promised, Coming
  <2>2. CASE d # c
    <3>1. PICK new : memory' = [memory EXCEPT ![d] = new]
      BY <1>1, Zenon DEF Update, Set
    <3>2. memory'[c] = memory[c] /\ file' = file /\ UNCHANGED <<parted, disturbed>>
      BY <1>0, <1>1, <2>2, <3>1 DEF Update
    <3>3. QED
      BY <3>2 DEF Unmoved
  <2>3. QED
    BY <2>1, <2>2
<1>2. ASSUME NEW w \in Workers, NEW d \in Configs, NEW o \in BOOLEAN, Dump(w, d, o) \/ Import(w, d)
      PROVE  Unmoved(c)
  <2>1. CASE Dump(w, d, o)
    <3>1. UNCHANGED <<memory, file, parted, disturbed>>
      BY <2>1 DEF Dump, stores, ghosts
    <3>2. QED
      BY <3>1 DEF Unmoved
  <2>2. CASE Import(w, d)
    <3>1. UNCHANGED <<memory, file, parted, disturbed>>
      BY <2>2 DEF Import, ghosts
    <3>2. QED
      BY <3>1 DEF Unmoved
  <2>3. QED
    BY <1>2, <2>1, <2>2
<1>3. ASSUME NEW w \in Workers, Activate(w) \/ Read(w) \/ Trust(w) PROVE Unmoved(c)
  BY <1>3 DEF Activate, Read, Trust, Unmoved, stores, ghosts
<1>4. ASSUME NEW w \in Workers, Apply(w)
      PROVE  Unmoved(c) \/ (disturbed' /\ (c \in parted' \/ ~Differs(c)'))
  <2>1. /\ file' = file /\ disturbed'
        /\ memory' = [memory EXCEPT ![proc[w].config] = proc[w].data]
        /\ Settle(proc[w].config)
    BY <1>4 DEF Apply
  <2>2. CASE proc[w].config = c
    <3>1. file'[c].settings = memory'[c].settings \/ c \in parted'
      BY <2>1, <2>2 DEF Settle
    <3>2. QED
      BY <2>1, <3>1 DEF Differs
  <2>3. CASE proc[w].config # c
    <3>1. c \in parted => c \in parted'
      BY <2>1, <2>3 DEF Settle
    <3>2. memory'[c] = memory[c]
      BY <1>0, <2>1, <2>3
    <3>3. QED
      BY <2>1, <3>1, <3>2 DEF Unmoved
  <2>4. QED
    BY <2>2, <2>3
<1>5. ASSUME NEW d \in Configs, EditFile(d)
      PROVE  Unmoved(c) \/ (disturbed' /\ c \in parted')
  <2>1. disturbed' /\ parted' = parted \cup {d} /\ memory' = memory
    BY <1>5 DEF EditFile
  <2>2. CASE d = c
    BY <2>1, <2>2
  <2>3. CASE d # c
    <3>1. PICK new : file' = [file EXCEPT ![d] = new]
      BY <1>5, Zenon DEF EditFile
    <3>2. file'[c] = file[c]
      BY <1>0, <2>3, <3>1
    <3>3. QED
      BY <2>1, <3>2 DEF Unmoved
  <2>4. QED
    BY <2>2, <2>3
<1>6. Wait \/ PopNothing \/ Clear \/ (\E d \in Configs : Pop(d)) => Unmoved(c)
  BY DEF Wait, PopNothing, Clear, Pop, Unmoved, stores, ghosts
<1>7. ASSUME NEW p \in Procs, Check(p) PROVE Unmoved(c)
  BY <1>7 DEF Check, GivesUp, Unmoved, stores
<1>8. ASSUME NEW p \in Procs, ActivateFails(p) \/ Dies(p) PROVE Unmoved(c)
  BY <1>8 DEF ActivateFails, GivesUp, Dies, Unmoved, stores
<1>9. QED
  BY <1>0, <1>1, <1>2, <1>3, <1>4, <1>5, <1>6, <1>7, <1>8, NextSteps DEF SaveStep, HoldersStep

\* What a step under the lock does to a config that it is not about.
LEMMA HolderUnmoved ==
    ASSUME IType, NEW p \in Procs, HoldersStep(p), NEW c \in Configs, c # proc[p].config
    PROVE  /\ file'[c] = file[c] /\ memory'[c] = memory[c]
           /\ c \in parted => c \in parted'
<1>1. memory \in [Configs -> Data] /\ file \in [Configs -> Data]
  BY TypeParts DEF IType, StoresType
<1>2. QED
  BY <1>1 DEF HoldersStep, Lock, Compare, Bump, Copy, Write, WriteFails, GivesUp, stores, ghosts

LEMMA QuietHolder ==
    ASSUME IType, LockInv, QuietInv, StaleInv, NEW p \in Procs, HoldersStep(p), Next, ~Restart
    PROVE  QuietInv'
<1>a. PICK d \in Configs : d = proc[p].config
  BY DEF IType, WorkInv, HoldersStep, Lock, Compare, Bump, Copy, Write,
         WriteFails, Is, Busy, Saving
<1>0. /\ proc \in [Procs -> States] /\ proc[p].config = d
      /\ memory \in [Configs -> Data] /\ file \in [Configs -> Data]
  BY <1>a, TypeParts DEF IType, StoresType
<1>1. \A q \in Procs \ {p} : proc[q].pc \notin Held
  <2>1. CASE Lock(p)
    BY <2>1, NoneAssumption DEF Lock, LockInv, Procs
  <2>2. QED
    BY <2>1, HolderStep DEF HoldersStep
<1>2. \A q \in Procs : Lock(q) => q = p
  <2>1. ASSUME NEW q \in Procs, Lock(q), q # p PROVE FALSE
    <3>1. saveLock = None /\ saveLock' = q
      BY <2>1 DEF Lock
    <3>2. ~Lock(p)
      BY <2>1, <3>1 DEF Lock
    <3>3. saveLock = p
      BY <3>2, HolderStep DEF HoldersStep, LockInv
    <3>4. QED
      BY <3>1, <3>3, NoneAssumption DEF Procs
  <2>2. QED
    BY <2>1
<1>3. ASSUME NEW c \in Configs, c # d, c \notin parted', Differs(c)' PROVE Promised(c)'
  <2>1. c \notin parted /\ Differs(c)
    BY <1>0, <1>3, HolderUnmoved DEF Differs
  <2>2. Promised(c)
    <3>1. \A q \in Procs : ~Writes(q, c)
      BY <1>0, <1>1, <1>3 DEF Writes, Held
    <3>2. QED
      BY <2>1, <3>1 DEF QuietInv
  <2>3. \A q \in Procs : ~(Lock(q) /\ proc[q].config = c)
    BY <1>0, <1>2, <1>3
  <2>4. QED
    BY <1>3, <2>2, <2>3, PromiseStep
<1>4. ASSUME d \notin parted', Differs(d)'
      PROVE  Promised(d)' \/ \E q \in Procs : Writes(q, d)'
  <2>1. CASE Lock(p)
    <3>1. proc'[p].config = d /\ proc'[p].pc = "comparing"
      BY <1>0, <2>1, GoesType DEF Lock, Phases, Saving
    <3>2. QED
      BY <3>1 DEF Writes
  <2>2. CASE Compare(p)
    <3>1. Goes(p, "bumping")
      BY <1>0, <1>4, <2>2 DEF Compare, GivesUp
    <3>2. proc'[p].config = d /\ proc'[p].pc = "bumping"
      BY <1>0, <3>1, GoesType DEF Phases, Saving
    <3>3. QED
      BY <3>2 DEF Writes
  <2>3. CASE Bump(p)
    <3>1. proc'[p].config = d /\ proc'[p].pc = "copying"
      BY <1>0, <2>3, GoesType DEF Bump, Phases, Saving
    <3>2. QED
      BY <3>1 DEF Writes
  <2>4. CASE Copy(p)
    <3>1. proc'[p].config = d /\ proc'[p].pc = "writing" /\ proc'[p].data = memory[d]
      BY <1>0, <2>4 DEF Copy, States
    <3>2. memory' = memory
      BY <2>4 DEF Copy, stores
    <3>3. QED
      BY <3>1, <3>2 DEF Writes
  <2>5. CASE Write(p)
    <3>1. file'[d] = proc[p].data /\ memory' = memory
      BY <1>0, <2>5 DEF Write
    <3>2. proc[p].data.settings # memory[d].settings
      BY <1>4, <3>1 DEF Differs
    <3>a. parted' = IF memory[d].settings = proc[p].data.settings THEN parted \ {d}
                    ELSE IF disturbed THEN parted \cup {d} ELSE parted
      BY <1>0, <2>5 DEF Write
    <3>3. ~disturbed /\ d \notin parted
      BY <1>4, <3>2, <3>a
    <3>4. Promised(d)
      BY <1>0, <2>5, <3>2, <3>3 DEF StaleInv, Stale, Write, Is
    <3>5. ~Lock(p)
      BY <2>5 DEF Write, Lock, Is
    <3>6. \A q \in Procs : ~Lock(q)
      BY <1>2, <3>5
    <3>7. QED
      BY <1>4, <3>4, <3>6, PromiseStep
  <2>6. CASE WriteFails(p)
    BY <1>0, <1>4, <2>6 DEF WriteFails, GivesUp
  <2>7. QED
    BY <2>1, <2>2, <2>3, <2>4, <2>5, <2>6 DEF HoldersStep
<1>5. ASSUME NEW c \in Configs, c \notin parted', Differs(c)'
      PROVE  Promised(c)' \/ \E q \in Procs : Writes(q, c)'
  <2>1. CASE c = d
    BY <1>4, <1>5, <2>1
  <2>2. CASE c # d
    BY <1>3, <1>5, <2>2
  <2>3. QED
    BY <2>1, <2>2
<1>6. QED
  BY <1>5 DEF QuietInv

LEMMA StaleHolder ==
    ASSUME IType, LockInv, NEW p \in Procs, HoldersStep(p)
    PROVE  StaleInv'
<1>0. proc \in [Procs -> States]
  BY TypeParts DEF IType
<1>1. CASE Copy(p)
  <2>1. \A q \in Procs \ {p} : proc'[q].pc # "writing"
    BY <1>1, HolderStep DEF Held
  <2>2. proc'[p].config = proc[p].config /\ proc'[p].data = memory[proc[p].config]
    BY <1>0, <1>1 DEF Copy, States
  <2>3. memory' = memory
    BY <1>1 DEF Copy, stores
  <2>4. QED
    BY <2>1, <2>2, <2>3 DEF StaleInv, Stale
<1>2. CASE Lock(p)
  <2>1. \A q \in Procs : proc[q].pc \notin Held
    BY <1>2, NoneAssumption DEF Lock, LockInv, Procs
  <2>2. Others(p) /\ proc'[p].pc = "comparing"
    BY <1>2, GoesType DEF Lock, Phases, Saving
  <2>3. QED
    BY <2>1, <2>2 DEF StaleInv, Stale, Others, Held
<1>3. CASE Compare(p) \/ Bump(p) \/ Write(p) \/ WriteFails(p)
  <2>1. \A q \in Procs \ {p} : proc'[q].pc # "writing"
    BY <1>3, HolderStep DEF Held
  <2>2. proc'[p].pc # "writing"
    <3>1. Ends(p) \/ Goes(p, "bumping") \/ Goes(p, "copying")
      BY <1>3 DEF Compare, Bump, Write, WriteFails, GivesUp
    <3>2. QED
      BY <3>1, GoesType, EndsType DEF Phases, Saving
  <2>3. QED
    BY <2>1, <2>2 DEF StaleInv, Stale
<1>4. QED
  BY <1>1, <1>2, <1>3 DEF HoldersStep

LEMMA QuietStep ==
    IType /\ LockInv /\ QuietInv /\ StaleInv /\ [Next]_vars => QuietInv' /\ StaleInv'
<1> SUFFICES ASSUME IType, LockInv, QuietInv, StaleInv, [Next]_vars
             PROVE  QuietInv' /\ StaleInv'
  OBVIOUS
<1>1. CASE UNCHANGED vars
  BY <1>1 DEF vars, QuietInv, StaleInv, Stale, Promised, Coming, Writes, Differs
<1>2. CASE Restart
  <2>1. memory' = file /\ file' = file /\ \A p \in Procs : proc'[p].pc = "idle"
    BY <1>2 DEF Restart, Idle
  <2>2. QED
    BY <2>1 DEF QuietInv, StaleInv, Stale, Differs
<1>3. ASSUME NEW p \in Procs, HoldersStep(p), Next, ~Restart PROVE QuietInv' /\ StaleInv'
  BY <1>3, QuietHolder, StaleHolder
<1>4. ASSUME Next, ~Restart, \A p \in Procs : ~HoldersStep(p) PROVE QuietInv' /\ StaleInv'
  <2>1. \A q \in Procs : \/ proc'[q] = proc[q]
                         \/ proc[q].pc \notin Held /\ proc'[q].pc \notin Held
    BY <1>4, HeldFrame DEF HoldersStep
  <2>2. \A p \in Procs : ~Lock(p)
    BY <1>4 DEF HoldersStep
  <2>3. ASSUME NEW c \in Configs, c \notin parted', Differs(c)'
        PROVE  Promised(c)' \/ \E p \in Procs : Writes(p, c)'
    <3>1. CASE Unmoved(c)
      <4>1. c \notin parted /\ Differs(c)
        BY <2>3, <3>1 DEF Unmoved, Differs
      <4>2. CASE Promised(c)
        BY <1>4, <2>2, <2>3, <4>2, PromiseStep
      <4>3. ASSUME NEW p \in Procs, Writes(p, c) PROVE Writes(p, c)'
        <5>1. proc'[p] = proc[p]
          BY <2>1, <4>3 DEF Writes, Held
        <5>2. QED
          BY <3>1, <4>3, <5>1 DEF Writes, Unmoved
      <4>4. QED
        BY <4>1, <4>2, <4>3 DEF QuietInv
    <3>2. QED
      BY <1>4, <2>3, <3>1, OpenStep
  <2>4. ASSUME NEW p \in Procs, NEW c \in Configs, Stale(p, c)', ~disturbed', c \notin parted'
        PROVE  Promised(c)'
    <3>1. proc'[p] = proc[p]
      BY <2>1, <2>4 DEF Stale, Held
    <3>2. CASE Unmoved(c)
      <4>1. Stale(p, c) /\ ~disturbed /\ c \notin parted
        BY <2>4, <3>1, <3>2 DEF Stale, Unmoved
      <4>2. Promised(c)
        BY <4>1 DEF StaleInv
      <4>3. QED
        BY <1>4, <2>2, <2>4, <4>2, PromiseStep
    <3>3. QED
      BY <1>4, <2>4, <3>2, OpenStep
  <2>5. QuietInv'
    BY <2>3 DEF QuietInv
  <2>6. StaleInv'
    BY <2>4 DEF StaleInv
  <2>7. QED
    BY <2>5, <2>6
<1>5. QED
  BY <1>1, <1>2, <1>3, <1>4

\* An update is saved, or a save of it was refused or failed, its switch could not
\* be activated, the process that should have saved it died, or the file was
\* edited or imported in between: none is merely forgotten.
THEOREM NoUpdateForgotten == Spec => []QuietMeansSaved
<1>1. ASSUME Init PROVE LockInv /\ QuietInv /\ StaleInv
  <2>1. file = memory /\ \A p \in Procs : proc[p].pc = "idle"
    BY <1>1 DEF Init, Idle
  <2>2. QED
    BY <2>1 DEF LockInv, QuietInv, StaleInv, Stale, Differs, Held
<1>2. QuietInv => QuietMeansSaved
  BY DEF QuietInv, QuietMeansSaved, Promised, Coming, Writes, Differs
<1>3. QED
  BY InitType, NextType, LockStep, QuietStep, <1>1, <1>2, PTL DEF Spec
=============================================================================
