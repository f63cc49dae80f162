-------------------------- MODULE Inventory_proofs --------------------------
(***************************************************************************)
(* Safety of the inventories for every number of tabs, edits and requests: *)
(* the types, that no save undoes another, that memory and file agree when *)
(* nothing is under way, and that what a tab shows as saved is true.       *)
(*                                                                         *)
(* The last two need what a step of a handler may lead to (Leads), so that *)
(* each of the three invariants RolesInv, DriftInv and SeenInv has one     *)
(* lemma for each of its stages and not one for each action.               *)
(***************************************************************************)
EXTENDS Inventory, TLAPS

Pcs == {"sent"} \cup Running \cup Answers

\* A handler between the comparison of the versions and the release of the lock.
\* A creation changes the memory before it takes the lock.
Midway(c) == c.pc \in {"writing", "bumping"} \/ (c.pc = "putting" /\ c.kind # "create")

-----------------------------------------------------------------------------
(* Types                                                                   *)

\* What a handler writes into its call.
LEMMA CallType ==
    ASSUME NEW c \in Calls, NEW pc \in Pcs, NEW v \in 0..MaxVersion,
           NEW s \in SUBSET Edits, NEW ok \in BOOLEAN, NEW r \in Stored, NEW k \in AllKinds
    PROVE  /\ [c EXCEPT !.pc = pc] \in Calls
           /\ [c EXCEPT !.pc = pc, !.content = s] \in Calls
           /\ [c EXCEPT !.pc = pc, !.result = r] \in Calls
           /\ [c EXCEPT !.pc = pc, !.version = v, !.content = s] \in Calls
           /\ [c EXCEPT !.pc = pc, !.version = v, !.content = s, !.result = r] \in Calls
           /\ [c EXCEPT !.pc = pc, !.version = v, !.content = s, !.valid = ok,
                        !.result = r] \in Calls
           /\ [c EXCEPT !.kind = k, !.pc = pc, !.version = v, !.content = s, !.valid = ok,
                        !.result = r] \in Calls
  BY DEF Calls, Pcs

LEMMA EndsType ==
    ASSUME TypeOK, NEW c \in calls, NEW pc \in Pcs, NEW r \in Stored, Ends(c, pc, r)
    PROVE  calls' \subseteq Calls
  <1>1. c \in Calls /\ 0 \in 0..MaxVersion /\ {} \in SUBSET Edits /\ TRUE \in BOOLEAN
    BY BoundsAssumption DEF TypeOK
  <1>2. [c EXCEPT !.pc = pc, !.version = 0, !.content = {}, !.valid = TRUE,
                  !.result = r] \in Calls
    <2>1. c.kind \in AllKinds
      BY <1>1 DEF Calls
    <2> QED
      BY <1>1, <2>1, CallType
  <1> QED
    BY <1>2 DEF Ends, Becomes, TypeOK

LEMMA GoesType ==
    ASSUME TypeOK, NEW c \in calls, NEW pc \in Pcs, GoesTo(c, pc)
    PROVE  calls' \subseteq Calls
  <1>1. c \in Calls
    BY DEF TypeOK
  <1>2. [c EXCEPT !.pc = pc] \in Calls
    BY <1>1 DEF Calls, Pcs
  <1> QED
    BY <1>2 DEF GoesTo, Becomes, TypeOK

LEMMA InitType == Init => TypeOK
  <1> SUFFICES ASSUME Init PROVE TypeOK
    OBVIOUS
  <1>1. Entity(1, {}) \in Stored /\ None \in Stored
    BY BoundsAssumption DEF Entity, Stored, Entities
  <1>2. view \in [Tabs -> Stored]
    BY <1>1 DEF Init
  <1>3. 0 \in 0..MaxCalls /\ 0 \in 0..MaxFaults
    BY BoundsAssumption
  <1> QED
    BY <1>1, <1>2, <1>3 DEF Init, TypeOK

LEMMA SendType ==
    ASSUME TypeOK, NEW c, c \in Calls, Send(c)
    PROVE  calls' \subseteq Calls /\ sent' \in 0..MaxCalls
  BY BoundsAssumption DEF Send, TypeOK

LEMMA RequestType ==
    ASSUME TypeOK, sent < MaxCalls, NEW t \in Tabs, NEW kind \in AllKinds,
           NEW v \in 0..MaxVersion, NEW s \in SUBSET Edits, NEW valid \in BOOLEAN
    PROVE  Request(t, kind, v, s, valid) \in Calls
  BY BoundsAssumption DEF Request, Calls, TypeOK, Stored

LEMMA TabsType ==
    ASSUME TypeOK,
           \/ \E t \in Tabs, e \in Edits, valid \in BOOLEAN : Persist(t, e, valid)
           \/ \E t \in Tabs, kind \in Kinds : Ask(t, kind)
           \/ \E c \in calls : Receive(c)
           \/ \E e \in Edits : EditFile(e)
    PROVE  TypeOK'
  <1> USE DEF stores, historyVars
  <1>1. ASSUME NEW t \in Tabs, NEW e \in Edits, NEW valid \in BOOLEAN, Persist(t, e, valid)
        PROVE  TypeOK'
    <2>1. view[t] \in Entities
      BY <1>1 DEF Persist, TypeOK, Stored
    <2>2. /\ view[t].version \in 0..MaxVersion /\ view[t].content \cup {e} \in SUBSET Edits
          /\ [view[t] EXCEPT !.content = @ \cup {e}] \in Stored
      BY <2>1 DEF Entities, Stored
    <2>3. "save" \in AllKinds /\ sent < MaxCalls
      BY <1>1 DEF AllKinds, Persist, Send
    <2>4. calls' \subseteq Calls /\ sent' \in 0..MaxCalls
      BY <1>1, <2>2, <2>3, RequestType, SendType DEF Persist
    <2>5. view' \in [Tabs -> Stored] /\ unused' \subseteq Edits
      BY <1>1, <2>2 DEF Persist, TypeOK
    <2> QED
      BY <1>1, <2>4, <2>5 DEF Persist, Send, TypeOK
  <1>2. ASSUME NEW t \in Tabs, NEW kind \in Kinds, Ask(t, kind) PROVE TypeOK'
    <2>1. kind \in AllKinds /\ sent < MaxCalls /\ 0 \in 0..MaxVersion
      BY <1>2, KindsAssumption, BoundsAssumption DEF Ask, Send
    <2>2. calls' \subseteq Calls /\ sent' \in 0..MaxCalls
      BY <1>2, <2>1, RequestType, SendType DEF Ask
    <2> QED
      BY <1>2, <2>2 DEF Ask, Send, TypeOK
  <1>3. ASSUME NEW c \in calls, Receive(c) PROVE TypeOK'
    <2>1. c \in Calls /\ c.tab \in Tabs /\ c.result \in Stored /\ None \in Stored
      BY DEF TypeOK, Calls, Stored
    <2>2. Shows(c) \in Stored
      BY <2>1 DEF Shows, TypeOK
    <2>3. Refetch(c) \subseteq Calls
      <3>1. /\ 0 \in 0..MaxVersion /\ {} \in SUBSET Edits /\ TRUE \in BOOLEAN
            /\ "fetch" \in AllKinds /\ "sent" \in Pcs
        BY BoundsAssumption DEF AllKinds, Pcs
      <3> QED
        BY <2>1, <3>1 DEF Refetch, Calls
    <2>4. calls' \subseteq Calls
      BY <1>3, <2>3 DEF Receive, TypeOK
    <2>5. view' \in [Tabs -> Stored]
      BY <1>3, <2>2 DEF Receive, TypeOK
    <2> QED
      BY <1>3, <2>4, <2>5 DEF Receive, TypeOK
  <1>4. ASSUME NEW e \in Edits, EditFile(e) PROVE TypeOK'
    <2>1. file' \in Stored
      BY <1>4 DEF EditFile, TypeOK, Stored, Entities
    <2>2. faults' \in 0..MaxFaults
      BY <1>4, BoundsAssumption DEF EditFile, Fault, TypeOK
    <2> QED
      BY <1>4, <2>1, <2>2 DEF EditFile, TypeOK
  <1> QED
    BY <1>1, <1>2, <1>3, <1>4

LEMMA LookupType ==
    ASSUME TypeOK, NEW c \in calls,
           Begin(c) \/ Load(c) \/ Acquire(c) \/ Compare(c) \/ Answer(c) \/ Read(c) \/ Lose(c)
    PROVE  TypeOK'
  <1> USE DEF stores, historyVars, clients
  <1>0. /\ c \in Calls /\ c.id \in 1..MaxCalls /\ c.tab \in Tabs /\ c.content \subseteq Edits
        /\ None \in Stored /\ c.version \in 0..MaxVersion
        /\ memory \in Stored /\ file \in Stored
    BY DEF TypeOK, Calls, Stored
  <1>p. {"ok", "error", "lost", "discovering", "putting", "popping", "locking", "loading",
         "writing", "comparing", "storing", "answering"} \subseteq Pcs
    BY DEF Pcs, Running, Answers
  <1>1. CASE Begin(c)
    <2>1. calls' \subseteq Calls
      <3>1. \/ Ends(c, "ok", memory) \/ Ends(c, "error", None)
            \/ GoesTo(c, "discovering") \/ GoesTo(c, "putting") \/ GoesTo(c, "popping")
            \/ GoesTo(c, "locking") \/ GoesTo(c, "loading")
        BY <1>1, Zenon DEF Begin
      <3> QED
        BY <1>0, <1>p, <3>1, EndsType, GoesType
    <2>2. drift' \in BOOLEAN
      BY <1>1, Zenon DEF Begin
    <2> QED
      BY <1>1, <2>1, <2>2 DEF Begin, TypeOK
  <1>2. CASE Load(c)
    <2>1. calls' \subseteq Calls
      <3>1. CASE Ends(c, "error", None)
        BY <1>0, <1>p, <3>1, EndsType
      <3>2. CASE backup # None
                 /\ Becomes(c, [c EXCEPT !.pc = "locking", !.content = backup.content])
        <4>1. backup.content \in SUBSET Edits
          BY <3>2 DEF TypeOK, Stored, Entities
        <4>2. [c EXCEPT !.pc = "locking", !.content = backup.content] \in Calls
          BY <1>0, <1>p, <4>1 DEF Calls, Pcs
        <4> QED
          BY <3>2, <4>2 DEF Becomes, TypeOK
      <3> QED
        BY <1>2, <3>1, <3>2 DEF Load
    <2> QED
      BY <1>2, <2>1 DEF Load, TypeOK
  <1>3. CASE Acquire(c)
    <2>1. calls' \subseteq Calls
      BY <1>3, <1>p, GoesType DEF Acquire
    <2> QED
      BY <1>0, <1>3, <2>1 DEF Acquire, TypeOK
  <1>4. CASE Compare(c)
    <2>1. calls' \subseteq Calls
      <3>1. CASE Accepts(c)
        <4> DEFINE s == IF c.kind = "merge" THEN c.content \cup memory.content ELSE c.content
                   d == [c EXCEPT !.pc = "putting", !.version = memory.version,
                                  !.content = s]
        <4>1. memory.version \in 0..MaxVersion /\ memory.content \subseteq Edits
          BY <3>1, <1>0 DEF Accepts, Stored, Entities
        <4>2. s \in SUBSET Edits
          BY <1>0, <4>1
        <4> HIDE DEF s
        <4>3. d \in Calls
          BY <1>0, <1>p, <4>1, <4>2 DEF Calls, Pcs
        <4>4. Becomes(c, d)
          BY <1>4, <3>1, <1>0 DEF Compare, Calls, s
        <4> QED
          BY <4>3, <4>4 DEF Becomes, TypeOK
      <3>2. CASE ~Accepts(c)
        BY <1>0, <1>p, <1>4, <3>2, EndsType DEF Compare
      <3> QED
        BY <3>1, <3>2
    <2>2. lock' \in 1..MaxCalls \cup {None}
      BY <1>4 DEF Compare, TypeOK
    <2> QED
      BY <1>4, <2>1, <2>2 DEF Compare, TypeOK
  <1>5. CASE Answer(c)
    BY <1>0, <1>p, <1>5, EndsType DEF Answer, TypeOK
  <1>6. CASE Read(c)
    <2>1. calls' \subseteq Calls
      <3>1. CASE Ends(c, "ok", None)
        BY <1>0, <1>p, <3>1, EndsType
      <3>2. CASE Becomes(c, [c EXCEPT !.pc = "storing", !.result = file])
        <4>1. [c EXCEPT !.pc = "storing", !.result = file] \in Calls
          BY <1>0, <1>p DEF Calls, Pcs
        <4> QED
          BY <3>2, <4>1 DEF Becomes, TypeOK
      <3> QED
        BY <1>6, <3>1, <3>2 DEF Read
    <2> QED
      BY <1>6, <2>1 DEF Read, TypeOK
  <1>7. CASE Lose(c)
    <2>1. calls' \subseteq Calls
      BY <1>0, <1>p, <1>7, EndsType DEF Lose
    <2>2. faults' \in 0..MaxFaults
      BY <1>7, BoundsAssumption DEF Lose, Fault, TypeOK
    <2> QED
      BY <1>0, <1>7, <2>1, <2>2 DEF Lose, TypeOK
  <1> QED
    BY <1>1, <1>2, <1>3, <1>4, <1>5, <1>6, <1>7

LEMMA ChangeType ==
    ASSUME TypeOK, NEW c \in calls,
           Put(c) \/ Write(c) \/ Bump(c) \/ Pop(c) \/ Unlink(c) \/ Discover(c) \/ Store(c)
    PROVE  TypeOK'
  <1> USE DEF stores, historyVars, clients
  <1>0. /\ c \in Calls /\ c.content \subseteq Edits /\ c.result \in Stored
        /\ None \in Stored /\ c.version \in 0..MaxVersion
        /\ memory \in Stored /\ file \in Stored /\ backup \in Stored
    BY DEF TypeOK, Calls, Stored
  <1>p. {"ok", "error", "writing", "locking", "bumping", "answering", "unlinking",
         "reading"} \subseteq Pcs
    BY DEF Pcs, Running, Answers
  <1>1. CASE Put(c)
    <2>1. calls' \subseteq Calls
      BY <1>p, <1>1, GoesType DEF Put
    <2>2. memory' \in Stored /\ ambiguous' \in BOOLEAN
      BY <1>0, <1>1 DEF Put, Entity, Stored, Entities, TypeOK
    <2> QED
      BY <1>1, <2>1, <2>2 DEF Put, TypeOK
  <1>2. CASE Write(c)
    <2> DEFINE d == [c EXCEPT !.pc = "bumping", !.result = file']
    <2>1. CASE memory = None /\ Ends(c, "error", None)
      <3>1. calls' \subseteq Calls
        BY <1>0, <1>p, <2>1, EndsType
      <3> QED
        BY <1>2, <2>1, <3>1 DEF Write, TypeOK
    <2>2. CASE memory # None /\ Becomes(c, d) /\ file' = Entity(memory.version + 1, memory.content)
               /\ (backup' = IF file = None THEN backup ELSE file)
               /\ UNCHANGED <<lock, ambiguous, drift, faults>>
      <3>1. file' \in Stored
        BY <1>0, <1>2, <2>2, BoundsAssumption DEF Write, Stored, Entities, Entity
      <3>2. d \in Calls
        BY <1>0, <1>p, <3>1 DEF Calls, Pcs
      <3>3. calls' \subseteq Calls
        BY <2>2, <3>2 DEF Becomes, TypeOK
      <3> QED
        BY <1>0, <1>2, <2>2, <3>1, <3>3 DEF Write, TypeOK
    <2>3. CASE /\ memory # None /\ faults < MaxFaults /\ faults' = faults + 1
               /\ (backup' = IF file = None THEN backup ELSE file)
               /\ ambiguous' = TRUE /\ drift' = TRUE
               /\ Ends(c, "error", None) /\ lock' = None
               /\ UNCHANGED file
      <3>1. calls' \subseteq Calls
        BY <1>0, <1>p, <2>3, EndsType
      <3>2. faults' \in 0..MaxFaults
        BY <2>3, BoundsAssumption DEF TypeOK
      <3> QED
        BY <1>0, <1>2, <2>3, <3>1, <3>2 DEF Write, TypeOK
    <2> QED
      BY <1>2, <2>1, <2>2, <2>3 DEF Write
  <1>3. CASE Bump(c)
    <2> DEFINE d == [c EXCEPT !.pc = "answering", !.version = 0, !.content = {},
                              !.result = None]
    <2>1. d \in Calls
      <3>1. "answering" \in Pcs /\ 0 \in 0..MaxVersion /\ {} \in SUBSET Edits
        BY <1>p, BoundsAssumption
      <3> QED
        BY <1>0, <3>1 DEF Calls, Pcs
    <2>2. calls' \subseteq Calls
      BY <1>3, <2>1 DEF Bump, Becomes, TypeOK
    <2> QED
      BY <1>0, <1>3, <2>2 DEF Bump, TypeOK
  <1>4. CASE Pop(c)
    BY <1>0, <1>p, <1>4, GoesType DEF Pop, TypeOK
  <1>5. CASE Unlink(c)
    BY <1>0, <1>p, <1>5, EndsType DEF Unlink, TypeOK
  <1>6. CASE Discover(c)
    <2>1. calls' \subseteq Calls
      BY <1>p, <1>6, GoesType DEF Discover
    <2> QED
      BY <1>0, <1>6, <2>1 DEF Discover, TypeOK
  <1>7. CASE Store(c)
    <2>1. calls' \subseteq Calls
      BY <1>0, <1>p, <1>7, EndsType DEF Store
    <2>2. ambiguous' \in BOOLEAN
      BY <1>7, Zenon DEF Store
    <2> QED
      BY <1>0, <1>7, <2>1, <2>2 DEF Store, TypeOK
  <1> QED
    BY <1>1, <1>2, <1>3, <1>4, <1>5, <1>6, <1>7

LEMMA NextType == TypeOK /\ [Next]_vars => TypeOK'
  <1> SUFFICES ASSUME TypeOK, [Next]_vars PROVE TypeOK'
    OBVIOUS
  <1>1. CASE UNCHANGED vars
    BY <1>1 DEF vars, stores, historyVars, TypeOK
  <1>2. CASE Next
    BY <1>2, TabsType, LookupType, ChangeType DEF Next
  <1> QED
    BY <1>1, <1>2

\* Every variable keeps its type.
THEOREM TypeCorrect == Spec => []TypeOK
  BY InitType, NextType, PTL DEF Spec

-----------------------------------------------------------------------------
(* The lock                                                                *)

Holds(c) == c.pc = "comparing" \/ Midway(c)

LockInv ==
    /\ \A c \in calls : c.id <= sent
    /\ \A c, d \in calls : c.id = d.id => c = d
    /\ \A c \in calls : Holds(c) => lock = c.id

\* Which requests come to which step; after its first change of the memory a
\* creation has made the versions ambiguous.
KindsInv ==
    \A c \in calls :
        /\ c.pc = "loading" => c.kind \in {"merge", "overwrite"}
        /\ c.pc = "comparing" => c.kind \in Saves
        /\ c.pc \in {"locking", "putting", "writing", "bumping"} =>
               c.kind \in Saves \cup {"create"}
        /\ c.kind = "create" /\ c.pc \in {"locking", "writing", "bumping"} => ambiguous

LEMMA OneHolder ==
    ASSUME TypeOK, LockInv, NEW c \in calls, NEW d \in calls, Holds(c), Holds(d)
    PROVE  c = d
  BY DEF LockInv

\* A call goes on: it may keep, take or release the lock, or have none.
LEMMA LockStep ==
    ASSUME TypeOK, LockInv, NEW c \in calls, NEW d, Becomes(c, d), d.id = c.id, sent' = sent,
           Holds(d) => lock' = c.id,
           lock' # lock => lock = None \/ Holds(c)
    PROVE  LockInv'
  <1>1. c \in Calls /\ \A e \in calls : e.id \in Nat
    BY BoundsAssumption DEF TypeOK, Calls
  <1>2. calls' = (calls \ {c}) \cup {d}
    BY DEF Becomes
  <1>3. \A e \in calls' : e.id <= sent'
    BY <1>1, <1>2 DEF LockInv
  <1>4. \A e, f \in calls' : e.id = f.id => e = f
    BY <1>1, <1>2 DEF LockInv
  <1>5. ASSUME NEW e \in calls \ {c}, Holds(e) PROVE lock' = e.id
    <2>1. lock = e.id /\ lock # None
      BY <1>1, <1>5, NoneAssumption DEF LockInv
    <2>2. ~Holds(c)
      BY <1>5, OneHolder
    <2> QED
      BY <2>1, <2>2
  <1>6. \A e \in calls' : Holds(e) => lock' = e.id
    BY <1>2, <1>5
  <1> QED
    BY <1>3, <1>4, <1>6 DEF LockInv, Holds, Midway

LEMMA LockTabs ==
    ASSUME TypeOK, LockInv,
           \/ \E t \in Tabs, e \in Edits, valid \in BOOLEAN : Persist(t, e, valid)
           \/ \E t \in Tabs, kind \in Kinds : Ask(t, kind)
           \/ \E c \in calls : Receive(c)
           \/ \E e \in Edits : EditFile(e)
           \/ UNCHANGED vars
    PROVE  LockInv'
  <1>1. \A e \in calls : e.id \in Nat
    BY BoundsAssumption DEF TypeOK, Calls
  <1>2. ASSUME NEW c, c.id = sent + 1, c.pc = "sent", Send(c) PROVE LockInv'
    <2>1. calls' = calls \cup {c} /\ sent' = sent + 1 /\ lock' = lock /\ sent \in Nat
      BY <1>2, BoundsAssumption DEF Send, TypeOK
    <2>2. ~Holds(c)
      BY <1>2 DEF Holds, Midway
    <2>3. \A e \in calls : e.id # c.id
      BY <1>1, <1>2, <2>1 DEF LockInv
    <2> QED
      BY <1>1, <1>2, <2>1, <2>2, <2>3 DEF LockInv, Holds, Midway
  <1>3. ASSUME NEW t, NEW kind, NEW v, NEW x, NEW valid, Send(Request(t, kind, v, x, valid))
        PROVE  LockInv'
    BY <1>2, <1>3 DEF Request
  <1>4. ASSUME NEW c \in calls, Receive(c) PROVE LockInv'
    <2>1. calls' = (calls \ {c}) \/ \E d \in Refetch(c) : Becomes(c, d)
      BY <1>4 DEF Receive, Refetch, Becomes
    <2>2. CASE calls' = calls \ {c}
      BY <1>4, <2>2 DEF Receive, LockInv, Holds, Midway
    <2>3. ASSUME NEW d \in Refetch(c), Becomes(c, d) PROVE LockInv'
      <3>1. d.id = c.id /\ d.pc = "sent"
        BY <2>3 DEF Refetch, TypeOK, Calls
      <3> QED
        BY <1>4, <2>3, <3>1, LockStep DEF Receive, Holds, Midway
    <2> QED
      BY <2>1, <2>2, <2>3
  <1>5. CASE (\E e \in Edits : EditFile(e)) \/ UNCHANGED vars
    BY <1>5 DEF EditFile, vars, LockInv, Holds, Midway
  <1> QED
    BY <1>3, <1>4, <1>5 DEF Persist, Ask

\* What the last step of a handler leaves of its call.
Ended(c, pc, r) ==
    [c EXCEPT !.pc = pc, !.version = 0, !.content = {}, !.valid = TRUE, !.result = r]

LEMMA EndsHere ==
    ASSUME TypeOK, NEW c \in calls, NEW pc \in {"ok", "error", "lost"}, NEW r
    PROVE  /\ Ended(c, pc, r).id = c.id /\ Ended(c, pc, r).pc = pc
           /\ Ended(c, pc, r).kind = c.kind /\ Ended(c, pc, r).result = r
           /\ ~Holds(Ended(c, pc, r))
  BY DEF Ended, TypeOK, Calls, Holds, Midway

LEMMA LockHandlers ==
    ASSUME TypeOK, LockInv, KindsInv, NEW c \in calls,
           \/ Begin(c) \/ Load(c) \/ Acquire(c) \/ Compare(c) \/ Put(c) \/ Write(c)
           \/ Bump(c) \/ Pop(c) \/ Unlink(c) \/ Discover(c) \/ Read(c) \/ Store(c)
           \/ Answer(c) \/ Lose(c)
    PROVE  LockInv'
  <1> USE DEF clients, stores
  <1>0. c \in Calls
    BY DEF TypeOK
  <1>1. ASSUME NEW pc \in {"ok", "error", "lost"}, NEW r, Ends(c, pc, r), sent' = sent,
               lock' # lock => Holds(c)
        PROVE  LockInv'
    <2>1. Ended(c, pc, r).id = c.id /\ ~Holds(Ended(c, pc, r))
      BY EndsHere
    <2>2. Becomes(c, Ended(c, pc, r))
      BY <1>1 DEF Ends, Ended
    <2> QED
      BY <1>1, <2>1, <2>2, LockStep
  <1>2. ASSUME NEW pc, GoesTo(c, pc), sent' = sent,
               pc \in {"comparing", "writing"} => lock' = c.id,
               pc \notin {"bumping"},
               pc = "putting" => c.kind = "create",
               lock' # lock => lock = None
        PROVE  LockInv'
    <2> DEFINE d == [c EXCEPT !.pc = pc]
    <2>1. d.id = c.id /\ d.pc = pc /\ d.kind = c.kind
      BY <1>0 DEF Calls
    <2>2. Holds(d) => lock' = c.id
      BY <1>2, <2>1 DEF Holds, Midway
    <2> QED
      BY <1>2, <2>1, <2>2, LockStep DEF GoesTo
  <1>3. CASE Begin(c)
    <2>1. sent' = sent /\ lock' = lock
      BY <1>3 DEF Begin
    <2>2. \/ Ends(c, "ok", memory) \/ Ends(c, "error", None)
          \/ GoesTo(c, "discovering") \/ (GoesTo(c, "putting") /\ c.kind = "create")
          \/ GoesTo(c, "popping") \/ GoesTo(c, "locking") \/ GoesTo(c, "loading")
      BY <1>3, Zenon DEF Begin
    <2> QED
      BY <1>1, <1>2, <2>1, <2>2
  <1>4. CASE Load(c)
    <2> DEFINE d == [c EXCEPT !.pc = "locking", !.content = backup.content]
    <2>1. d.id = c.id /\ ~Holds(d)
      BY <1>0 DEF Calls, Holds, Midway
    <2> QED
      BY <1>1, <1>4, <2>1, LockStep DEF Load
  <1>5. CASE Acquire(c)
    BY <1>2, <1>5 DEF Acquire
  <1>6. CASE Compare(c)
    <2>1. Holds(c) /\ lock = c.id /\ sent' = sent
      BY <1>6 DEF Compare, Holds, LockInv
    <2>2. CASE Ends(c, "error", None)
      BY <1>1, <2>1, <2>2
    <2>3. CASE lock' = lock /\ \E v, s : Becomes(c, [c EXCEPT !.pc = "putting", !.version = v,
                                                        !.content = s])
      <3>1. PICK v, s : Becomes(c, [c EXCEPT !.pc = "putting", !.version = v, !.content = s])
        BY <2>3
      <3>2. [c EXCEPT !.pc = "putting", !.version = v, !.content = s].id = c.id
        BY <1>0 DEF Calls
      <3> QED
        BY <2>1, <2>3, <3>1, <3>2, LockStep
    <2> QED
      BY <1>6, <2>2, <2>3 DEF Compare
  <1>7. CASE Put(c)
    <2>1. CASE c.kind = "create"
      BY <1>2, <1>7, <2>1 DEF Put
    <2>2. CASE c.kind # "create"
      <3>1. lock = c.id
        BY <1>7, <2>2 DEF Put, LockInv, Holds, Midway
      <3> QED
        BY <1>2, <1>7, <2>2, <3>1 DEF Put
    <2> QED
      BY <2>1, <2>2
  <1>8. CASE Write(c)
    <2>1. Holds(c) /\ lock = c.id /\ sent' = sent
      BY <1>8 DEF Write, Holds, Midway, LockInv
    <2>2. CASE Ends(c, "error", None)
      BY <1>1, <2>1, <2>2
    <2>3. CASE lock' = lock /\ Becomes(c, [c EXCEPT !.pc = "bumping", !.result = file'])
      <3>1. [c EXCEPT !.pc = "bumping", !.result = file'].id = c.id
        BY <1>0 DEF Calls
      <3> QED
        BY <2>1, <2>3, <3>1, LockStep
    <2> QED
      BY <1>8, <2>2, <2>3 DEF Write
  <1>9. CASE Bump(c)
    <2> DEFINE d == [c EXCEPT !.pc = "answering", !.version = 0, !.content = {},
                              !.result = None]
    <2>1. Holds(c) /\ sent' = sent /\ Becomes(c, d)
      BY <1>9 DEF Bump, Holds, Midway
    <2>2. d.id = c.id /\ ~Holds(d)
      BY <1>0 DEF Calls, Holds, Midway
    <2> QED
      BY <2>1, <2>2, LockStep
  <1>10. CASE Pop(c) \/ Discover(c)
    BY <1>2, <1>10 DEF Pop, Discover
  <1>11. CASE Unlink(c) \/ Store(c) \/ Answer(c) \/ Lose(c)
    BY <1>1, <1>11 DEF Unlink, Store, Answer, Lose
  <1>12. CASE Read(c)
    <2> DEFINE d == [c EXCEPT !.pc = "storing", !.result = file]
    <2>1. d.id = c.id /\ ~Holds(d)
      BY <1>0 DEF Calls, Holds, Midway
    <2> QED
      BY <1>1, <1>12, <2>1, LockStep DEF Read
  <1> QED
    BY <1>3, <1>4, <1>5, <1>6, <1>7, <1>8, <1>9, <1>10, <1>11, <1>12

LEMMA NextLock == TypeOK /\ LockInv /\ KindsInv /\ [Next]_vars => LockInv'
  BY LockTabs, LockHandlers DEF Next

-----------------------------------------------------------------------------
(* The kinds of requests                                                   *)

KindOK(c) ==
    /\ c.pc = "loading" => c.kind \in {"merge", "overwrite"}
    /\ c.pc = "comparing" => c.kind \in Saves
    /\ c.pc \in {"locking", "putting", "writing", "bumping"} =>
           c.kind \in Saves \cup {"create"}
    /\ c.kind = "create" /\ c.pc \in {"locking", "writing", "bumping"} => ambiguous'

LEMMA NextAmbiguous == TypeOK /\ [Next]_vars => (ambiguous => ambiguous')
  <1> SUFFICES ASSUME TypeOK, [Next]_vars, ambiguous PROVE ambiguous'
    OBVIOUS
  <1> USE DEF clients, stores, historyVars
  <1>1. ASSUME NEW c \in calls,
               \/ Receive(c) \/ Begin(c) \/ Load(c) \/ Acquire(c) \/ Compare(c) \/ Put(c)
               \/ Write(c) \/ Bump(c) \/ Pop(c) \/ Unlink(c) \/ Discover(c) \/ Read(c)
               \/ Store(c) \/ Answer(c) \/ Lose(c)
        PROVE  ambiguous'
    BY <1>1, Zenon DEF Receive, Begin, Load, Acquire, Compare, Put, Write, Bump, Pop, Unlink,
                Discover, Read, Store, Answer, Lose
  <1>2. ASSUME NEW t, NEW e, NEW valid, Persist(t, e, valid) \/ Ask(t, e) PROVE ambiguous'
    BY <1>2 DEF Persist, Ask, Send
  <1>3. CASE (\E e \in Edits : EditFile(e)) \/ UNCHANGED vars
    BY <1>3 DEF EditFile, vars
  <1> QED
    BY <1>1, <1>2, <1>3 DEF Next

LEMMA KindsStep ==
    ASSUME TypeOK, KindsInv, ambiguous => ambiguous',
           NEW S, calls' \subseteq calls \cup S, \A d \in S : KindOK(d)
    PROVE  KindsInv'
  BY DEF KindsInv, KindOK

LEMMA NextKinds == TypeOK /\ KindsInv /\ [Next]_vars => KindsInv'
  <1> SUFFICES ASSUME TypeOK, KindsInv, [Next]_vars PROVE KindsInv'
    OBVIOUS
  <1> USE DEF clients, stores, historyVars
  <1>0. ambiguous => ambiguous'
    BY NextAmbiguous
  <1>1. ASSUME NEW d, KindOK(d), calls' \subseteq calls \cup {d} PROVE KindsInv'
    BY <1>0, <1>1 DEF KindsInv, KindOK
  <1>2. ASSUME NEW c \in calls, NEW pc \in {"ok", "error", "lost"}, NEW r, Ends(c, pc, r)
        PROVE  KindsInv'
    <2>1. Ended(c, pc, r).pc \in {"ok", "error", "lost"}
      BY EndsHere
    <2>2. calls' \subseteq calls \cup {Ended(c, pc, r)}
      BY <1>2 DEF Ends, Ended, Becomes
    <2> QED
      BY <1>1, <2>1, <2>2 DEF KindOK
  <1>3. ASSUME NEW c \in calls, NEW d, Becomes(c, d), d.kind = c.kind, KindOK(d)
        PROVE  KindsInv'
    BY <1>1, <1>3 DEF Becomes
  <1>4. ASSUME NEW c \in calls, NEW pc \in Pcs, GoesTo(c, pc),
               pc = "loading" => c.kind \in {"merge", "overwrite"},
               pc = "comparing" => c.kind \in Saves,
               pc \in {"locking", "putting", "writing", "bumping"} =>
                   c.kind \in Saves \cup {"create"},
               c.kind = "create" /\ pc \in {"locking", "writing", "bumping"} => ambiguous'
        PROVE  KindsInv'
    <2> DEFINE d == [c EXCEPT !.pc = pc]
    <2>1. d.pc = pc /\ d.kind = c.kind
      BY DEF TypeOK, Calls
    <2> HIDE DEF d
    <2>2. KindOK(d)
      BY <1>4, <2>1 DEF KindOK
    <2>3. Becomes(c, d)
      BY <1>4 DEF GoesTo, d
    <2> QED
      BY <1>3, <2>1, <2>2, <2>3
  <1>p. Running \subseteq Pcs
    BY DEF Pcs
  <1>5. ASSUME NEW c \in calls, Receive(c) PROVE KindsInv'
    <2>1. \A d \in Refetch(c) : KindOK(d)
      BY DEF Refetch, KindOK, TypeOK, Calls
    <2>2. calls' \subseteq calls \cup Refetch(c)
      BY <1>5 DEF Receive
    <2> QED
      BY <1>0, <2>1, <2>2, KindsStep
  <1>6. ASSUME NEW c \in calls, Begin(c) PROVE KindsInv'
    <2>1. \/ Ends(c, "ok", memory) \/ Ends(c, "error", None)
          \/ GoesTo(c, "discovering") \/ (GoesTo(c, "putting") /\ c.kind = "create")
          \/ GoesTo(c, "popping") \/ (GoesTo(c, "locking") /\ c.kind = "save")
          \/ (GoesTo(c, "loading") /\ c.kind \in {"merge", "overwrite"})
      BY <1>6, Zenon DEF Begin
    <2>2. {"discovering", "putting", "popping", "locking", "loading"} \subseteq Pcs
      BY DEF Pcs, Running
    <2> QED
      BY <1>2, <1>4, <2>1, <2>2 DEF Saves
  <1>7. ASSUME NEW c \in calls, Load(c) PROVE KindsInv'
    <2> DEFINE d == [c EXCEPT !.pc = "locking", !.content = backup.content]
    <2>1. d.pc = "locking" /\ d.kind = c.kind /\ c.kind \in Saves
      BY <1>7 DEF Load, KindsInv, TypeOK, Calls, Saves
    <2> HIDE DEF d
    <2>2. KindOK(d)
      BY <2>1 DEF KindOK, Saves
    <2>3. Becomes(c, d) \/ Ends(c, "error", None)
      BY <1>7 DEF Load, d
    <2> QED
      BY <1>2, <1>3, <2>1, <2>2, <2>3
  <1>8. ASSUME NEW c \in calls, Acquire(c) PROVE KindsInv'
    <2>1. /\ c.kind \in Saves \cup {"create"}
          /\ c.kind = "create" => ambiguous
      BY <1>8 DEF Acquire, KindsInv
    <2> QED
      BY <1>0, <1>4, <1>8, <2>1 DEF Acquire, Saves, Pcs, Running
  <1>9. ASSUME NEW c \in calls, Compare(c) PROVE KindsInv'
    <2>1. c.kind \in Saves
      BY <1>9 DEF Compare, KindsInv
    <2>2. ASSUME NEW v, NEW s, Becomes(c, [c EXCEPT !.pc = "putting", !.version = v,
                                              !.content = s])
          PROVE  KindsInv'
      <3> DEFINE d == [c EXCEPT !.pc = "putting", !.version = v, !.content = s]
      <3>1. d.pc = "putting" /\ d.kind = c.kind
        BY DEF TypeOK, Calls
      <3>2. Becomes(c, d)
        BY <2>2
      <3> HIDE DEF d
      <3>3. KindOK(d)
        BY <2>1, <3>1 DEF KindOK, Saves
      <3> QED
        BY <1>3, <3>1, <3>2, <3>3
    <2> QED
      BY <1>2, <1>9, <2>2 DEF Compare
  <1>10. ASSUME NEW c \in calls, Put(c) PROVE KindsInv'
    <2>1. c.kind \in Saves \cup {"create"} /\ (c.kind = "create" => ambiguous')
      BY <1>10 DEF Put, KindsInv
    <2>2. "locking" \in Pcs /\ "writing" \in Pcs
      BY DEF Pcs, Running
    <2> QED
      BY <1>4, <1>10, <2>1, <2>2 DEF Put
  <1>11. ASSUME NEW c \in calls, Write(c) PROVE KindsInv'
    <2>1. c.kind \in Saves \cup {"create"} /\ (c.kind = "create" => ambiguous')
      BY <1>0, <1>11 DEF Write, KindsInv
    <2> DEFINE d == [c EXCEPT !.pc = "bumping", !.result = file']
    <2>2. d.pc = "bumping" /\ d.kind = c.kind
      BY DEF TypeOK, Calls
    <2>3. Becomes(c, d) \/ Ends(c, "error", None)
      BY <1>11 DEF Write
    <2> HIDE DEF d
    <2>4. KindOK(d)
      BY <2>1, <2>2 DEF KindOK
    <2> QED
      BY <1>2, <1>3, <2>2, <2>3, <2>4
  <1>12. ASSUME NEW c \in calls, Bump(c) PROVE KindsInv'
    <2> DEFINE d == [c EXCEPT !.pc = "answering", !.version = 0, !.content = {},
                              !.result = None]
    <2>1. d.pc = "answering" /\ d.kind = c.kind
      BY DEF TypeOK, Calls
    <2>2. Becomes(c, d)
      BY <1>12 DEF Bump
    <2> HIDE DEF d
    <2> QED
      BY <1>3, <2>1, <2>2 DEF KindOK
  <1>13. ASSUME NEW c \in calls, Pop(c) \/ Discover(c) PROVE KindsInv'
    <2>1. GoesTo(c, "unlinking") \/ GoesTo(c, "reading")
      BY <1>13 DEF Pop, Discover
    <2>2. "unlinking" \in Pcs /\ "reading" \in Pcs
      BY DEF Pcs, Running
    <2> QED
      BY <1>4, <2>1, <2>2
  <1>14. ASSUME NEW c \in calls, Unlink(c) \/ Store(c) \/ Answer(c) \/ Lose(c) PROVE KindsInv'
    BY <1>2, <1>14 DEF Unlink, Store, Answer, Lose
  <1>15. ASSUME NEW c \in calls, Read(c) PROVE KindsInv'
    <2> DEFINE d == [c EXCEPT !.pc = "storing", !.result = file]
    <2>1. d.pc = "storing" /\ d.kind = c.kind
      BY DEF TypeOK, Calls
    <2>2. Becomes(c, d) \/ Ends(c, "ok", None)
      BY <1>15 DEF Read
    <2> HIDE DEF d
    <2> QED
      BY <1>2, <1>3, <2>1, <2>2 DEF KindOK
  <1>16. ASSUME NEW t, NEW kind, NEW v, NEW x, NEW valid, Send(Request(t, kind, v, x, valid))
         PROVE  KindsInv'
    BY <1>1, <1>16 DEF Request, Send, KindOK
  <1>17. CASE (\E e \in Edits : EditFile(e)) \/ UNCHANGED vars
    BY <1>0, <1>17 DEF EditFile, vars, KindsInv
  <1> QED
    BY <1>5, <1>6, <1>7, <1>8, <1>9, <1>10, <1>11, <1>12, <1>13, <1>14, <1>15, <1>16, <1>17
    DEF Next, Persist, Ask

-----------------------------------------------------------------------------
(* What the tabs know                                                      *)

\* What a request of a tab will bring to it, or carries from it.
Claims(c) ==
    (IF c.pc = "ok" THEN {c.result} ELSE {})
    \cup (IF c.kind = "save" /\ c.pc \in {"sent", "locking", "comparing"}
          THEN {Entity(c.version, c.content)} ELSE {})

Known == {k \in {view[t] : t \in Tabs} \cup UNION {Claims(c) : c \in calls} : k # None}

\* Whatever has the version of x includes what x includes; nothing is later.
Behind(K, x) ==
    \A k \in K : \/ k.version < x.version
                 \/ k.version = x.version /\ x.content \subseteq k.content
UpTo(K, v) == \A k \in K : k.version <= v

\* While nobody has the lock after its comparison.
RestInv ==
    memory # None /\ (\A c \in calls : ~Midway(c)) =>
        file \in {None, memory} /\ Behind(Known, memory)

PutInv ==
    \A c \in calls : c.pc = "putting" /\ c.kind # "create" =>
        /\ memory # None => memory.version = c.version
        /\ file # None /\ c.kind # "overwrite" => file.content \subseteq c.content
        /\ UpTo(Known, c.version)

WriteInv ==
    \A c \in calls : c.pc = "writing" /\ memory # None =>
        /\ file # None /\ c.kind # "overwrite" => file.content \subseteq memory.content
        /\ UpTo(Known, memory.version)

\* The version that was written is known to nobody yet.
BumpInv ==
    \A c \in calls : c.pc = "bumping" =>
        /\ c.result # None
        /\ file \in {None, c.result}
        /\ memory # None => memory.version < c.result.version
        /\ \A k \in Known : k.version < c.result.version

KnownInv == ~ambiguous => RestInv /\ PutInv /\ WriteInv /\ BumpInv

LEMMA KnownType == TypeOK => Known \subseteq Entities
  <1> SUFFICES ASSUME TypeOK, NEW k \in Known PROVE k \in Entities
    OBVIOUS
  <1>1. ASSUME NEW t \in Tabs, k = view[t] PROVE k \in Entities
    BY <1>1 DEF Known, TypeOK, Stored
  <1>2. ASSUME NEW c \in calls, k \in Claims(c) PROVE k \in Entities
    BY <1>2 DEF Known, Claims, TypeOK, Calls, Stored, Entity, Entities
  <1> QED
    BY <1>1, <1>2 DEF Known

LEMMA InitKnown == Init => LockInv /\ KindsInv /\ KnownInv
  <1> SUFFICES ASSUME Init PROVE LockInv /\ KindsInv /\ KnownInv
    OBVIOUS
  <1>1. calls = {} /\ memory = Entity(1, {}) /\ file = memory
    BY DEF Init
  <1>2. \A k \in Known : k = memory
    BY <1>1 DEF Known, Init
  <1>3. RestInv
    BY <1>1, <1>2 DEF RestInv, Behind, Entity
  <1> QED
    BY <1>1, <1>3 DEF LockInv, KindsInv, KnownInv, PutInv, WriteInv, BumpInv

\* A step that brings the tabs no more than the memory.
Calm ==
    /\ memory' \in {memory, None} /\ file' \in {file, None}
    /\ \A c : c \in calls' /\ Midway(c) <=> c \in calls /\ Midway(c)
    /\ \A k \in Known' :
          \/ k = memory
          \/ \E n \in Known : n.version = k.version /\ n.content \subseteq k.content

LEMMA CalmStep ==
    ASSUME TypeOK, TypeOK', KnownInv, ambiguous => ambiguous', ~ambiguous' => Calm
    PROVE  KnownInv'
  <1> SUFFICES ASSUME ~ambiguous' PROVE (RestInv /\ PutInv /\ WriteInv /\ BumpInv)'
    BY DEF KnownInv
  <1>1. RestInv /\ PutInv /\ WriteInv /\ BumpInv /\ Calm
    BY DEF KnownInv
  <1>2. (memory # None => memory \in Entities) /\ Known \subseteq Entities
    BY KnownType DEF TypeOK, Stored
  <1>3. \A v \in Nat : UpTo(Known, v) /\ (memory # None => memory.version <= v)
                       => UpTo(Known', v)
    <2> SUFFICES ASSUME NEW v \in Nat, UpTo(Known, v), memory # None => memory.version <= v,
                        NEW k \in Known'
                 PROVE  k.version <= v
      BY DEF UpTo
    <2>1. k # None
      BY DEF Known
    <2> QED
      BY <1>1, <2>1 DEF Calm, UpTo
  <1>4. RestInv'
    <2> SUFFICES ASSUME memory' # None, \A c \in calls' : ~Midway(c)
                 PROVE  file' \in {None, memory'} /\ Behind(Known', memory')
      BY DEF RestInv, Midway
    <2>1. memory' = memory /\ \A c \in calls : ~Midway(c)
      BY <1>1 DEF Calm
    <2>2. file \in {None, memory} /\ Behind(Known, memory)
      BY <1>1, <2>1 DEF RestInv
    <2>3. file' \in {None, memory}
      BY <1>1, <2>2 DEF Calm
    <2>4. ASSUME NEW k \in Known'
          PROVE  \/ k.version < memory.version
                 \/ k.version = memory.version /\ memory.content \subseteq k.content
      <3>1. CASE k = memory
        BY <3>1
      <3>2. ASSUME NEW n \in Known, n.version = k.version, n.content \subseteq k.content
            PROVE  \/ k.version < memory.version
                   \/ k.version = memory.version /\ memory.content \subseteq k.content
        BY <2>2, <3>2 DEF Behind
      <3> QED
        BY <1>1, <3>1, <3>2 DEF Calm
    <2> QED
      BY <2>1, <2>3, <2>4 DEF Behind
  <1>5. ASSUME NEW c \in calls', Midway(c) PROVE c \in calls
    BY <1>1, <1>5 DEF Calm
  <1>6. PutInv'
    <2> SUFFICES ASSUME NEW c \in calls', c.pc = "putting", c.kind # "create"
                 PROVE  /\ memory' # None => memory'.version = c.version
                        /\ file' # None /\ c.kind # "overwrite" =>
                              file'.content \subseteq c.content
                        /\ UpTo(Known', c.version)
      BY DEF PutInv
    <2>1. c \in calls /\ c.version \in Nat
      BY <1>5 DEF Midway, TypeOK, Calls
    <2>2. /\ memory # None => memory.version = c.version
          /\ file # None /\ c.kind # "overwrite" => file.content \subseteq c.content
          /\ UpTo(Known, c.version)
      BY <1>1, <2>1 DEF PutInv
    <2>3. UpTo(Known', c.version)
      BY <1>3, <2>1, <2>2
    <2> QED
      BY <1>1, <2>2, <2>3 DEF Calm
  <1>7. WriteInv'
    <2> SUFFICES ASSUME NEW c \in calls', c.pc = "writing", memory' # None
                 PROVE  /\ file' # None /\ c.kind # "overwrite" =>
                              file'.content \subseteq memory'.content
                        /\ UpTo(Known', memory'.version)
      BY DEF WriteInv
    <2>1. c \in calls /\ memory' = memory /\ memory # None /\ memory.version \in Nat
      BY <1>1, <1>2, <1>5 DEF Midway, Calm, Entities
    <2>2. /\ file # None /\ c.kind # "overwrite" => file.content \subseteq memory.content
          /\ UpTo(Known, memory.version)
      BY <1>1, <2>1 DEF WriteInv
    <2>3. UpTo(Known', memory.version)
      BY <1>3, <2>1, <2>2
    <2> QED
      BY <1>1, <2>1, <2>2, <2>3 DEF Calm
  <1>8. BumpInv'
    <2> SUFFICES ASSUME NEW c \in calls', c.pc = "bumping"
                 PROVE  /\ c.result # None
                        /\ file' \in {None, c.result}
                        /\ memory' # None => memory'.version < c.result.version
                        /\ \A k \in Known' : k.version < c.result.version
      BY DEF BumpInv
    <2>1. c \in calls
      BY <1>5 DEF Midway
    <2>2. /\ c.result # None /\ file \in {None, c.result}
          /\ memory # None => memory.version < c.result.version
          /\ \A k \in Known : k.version < c.result.version
      BY <1>1, <2>1 DEF BumpInv
    <2>3. ASSUME NEW k \in Known' PROVE k.version < c.result.version
      <3>1. k # None
        BY DEF Known
      <3> QED
        BY <1>1, <2>2, <3>1 DEF Calm
    <2> QED
      BY <1>1, <2>2, <2>3 DEF Calm
  <1> QED
    BY <1>4, <1>6, <1>7, <1>8

\* What is known after some calls were replaced.
LEMMA KnownStep ==
    ASSUME NEW S, calls' \subseteq calls \cup S, view' = view, NEW k \in Known'
    PROVE  k \in Known \/ (k # None /\ \E d \in S : k \in Claims(d))
  BY DEF Known, Claims

LEMMA CalmCall ==
    ASSUME TypeOK, NEW c \in calls, NEW d, Becomes(c, d), ~Midway(c), ~Midway(d), view' = view,
           memory' \in {memory, None}, file' \in {file, None},
           \A k \in Claims(d) : k = None \/ k = memory \/ k \in Claims(c)
    PROVE  Calm
  <1>1. calls' = (calls \ {c}) \cup {d}
    BY DEF Becomes
  <1>2. \A e : e \in calls' /\ Midway(e) <=> e \in calls /\ Midway(e)
    BY <1>1
  <1>3. ASSUME NEW k \in Known' PROVE k = memory \/ k \in Known
    <2>1. calls' \subseteq calls \cup {d}
      BY <1>1
    <2>2. k \in Known \/ (k # None /\ k \in Claims(d))
      <3>1. k \in Known \/ (k # None /\ \E e \in {d} : k \in Claims(e))
        BY <2>1, KnownStep, Zenon
      <3> QED
        BY <3>1
    <2> QED
      BY <2>2 DEF Known
  <1> QED
    BY <1>2, <1>3 DEF Calm

LEMMA TabsAreCalm ==
    ASSUME TypeOK,
           \/ \E t \in Tabs, e \in Edits, valid \in BOOLEAN : Persist(t, e, valid)
           \/ \E t \in Tabs, kind \in Kinds : Ask(t, kind)
           \/ \E c \in calls : Receive(c)
           \/ UNCHANGED vars
    PROVE  Calm
  <1> USE DEF stores, historyVars
  <1>1. ASSUME NEW t \in Tabs, NEW e \in Edits, NEW valid \in BOOLEAN, Persist(t, e, valid)
        PROVE  Calm
    <2> DEFINE v == view[t].version
               x == view[t].content \cup {e}
               r == Request(t, "save", v, x, valid)
    <2>1. /\ view[t] # None /\ view[t] \in Entities /\ memory' = memory /\ file' = file
          /\ calls' = calls \cup {r} /\ view' = [view EXCEPT ![t].content = @ \cup {e}]
      BY <1>1 DEF Persist, Send, TypeOK, Stored
    <2>2. r.pc = "sent" /\ r.version = v /\ r.content = x
      BY DEF Request
    <2>3. view[t] \in Known
      BY <2>1 DEF Known
    <2>4. view'[t].version = v /\ view'[t].content = x
      BY <2>1 DEF TypeOK, Entities
    <2> HIDE DEF r
    <2>5. Claims(r) \subseteq {Entity(v, x)}
      BY <2>2 DEF Claims
    <2>6. ASSUME NEW k \in Known'
          PROVE  \E n \in Known : n.version = k.version /\ n.content \subseteq k.content
      <3>1. CASE \E u \in Tabs : k = view'[u]
        <4>1. PICK u \in Tabs : k = view'[u]
          BY <3>1
        <4>2. CASE u = t
          BY <2>3, <2>4, <4>1, <4>2
        <4>3. CASE u # t
          <5>1. k = view[u] /\ k # None
            BY <2>1, <4>1, <4>3 DEF TypeOK, Known
          <5>2. k \in Known
            BY <5>1 DEF Known
          <5> QED
            BY <5>2
        <4> QED
          BY <4>2, <4>3
      <3>2. CASE \E c \in calls : k \in Claims(c)
        <4>1. k # None
          BY DEF Known
        <4>2. k \in Known
          BY <3>2, <4>1 DEF Known
        <4> QED
          BY <4>2
      <3>3. CASE k \in Claims(r)
        BY <2>3, <2>5, <3>3 DEF Entity
      <3>4. \/ \E u \in Tabs : k = view'[u]
            \/ \E c \in calls' : k \in Claims(c)
        BY DEF Known, Claims
      <3> QED
        BY <2>1, <3>1, <3>2, <3>3, <3>4
    <2>7. ~Midway(r)
      BY <2>2 DEF Midway
    <2> QED
      BY <2>1, <2>6, <2>7 DEF Calm
  <1>2. ASSUME NEW t \in Tabs, NEW kind \in Kinds, Ask(t, kind) PROVE Calm
    <2> DEFINE r == Request(t, kind, 0, {}, TRUE)
    <2>1. /\ kind # "save" /\ memory' = memory /\ file' = file /\ view' = view
          /\ calls' = calls \cup {r}
      BY <1>2 DEF Ask, Send
    <2>2. r.pc = "sent" /\ r.kind = kind
      BY DEF Request
    <2> HIDE DEF r
    <2>3. Claims(r) = {} /\ ~Midway(r)
      BY <2>1, <2>2 DEF Claims, Midway
    <2>4. ASSUME NEW k \in Known' PROVE k \in Known
      <3>0. calls' \subseteq calls \cup {r} /\ view' = view
        BY <2>1
      <3>1. k \in Known \/ \E d \in {r} : k \in Claims(d)
        BY <3>0, KnownStep, Zenon
      <3> QED
        BY <2>3, <3>1
    <2> QED
      BY <2>1, <2>3, <2>4 DEF Calm
  <1>3. ASSUME NEW c \in calls, Receive(c) PROVE Calm
    <2>1. /\ memory' = memory /\ file' = file /\ c.pc \in Answers
          /\ view' = [view EXCEPT ![c.tab] = Shows(c)]
          /\ calls' \subseteq (calls \ {c}) \cup Refetch(c) /\ calls \ {c} \subseteq calls'
      BY <1>3 DEF Receive
    <2>2. \A d \in Refetch(c) : Claims(d) = {} /\ ~Midway(d)
      BY DEF Refetch, Claims, Midway, TypeOK, Calls
    <2>3. \/ Shows(c) = view[c.tab] \/ Shows(c) = None
          \/ c.pc = "ok" /\ Shows(c) = c.result
      BY DEF Shows
    <2>4. ASSUME NEW k \in Known' PROVE k \in Known
      <3>1. k # None
        BY DEF Known
      <3>2. ASSUME NEW u \in Tabs, k = view'[u] PROVE k \in Known
        <4>1. k \in {view[u], None} \/ (c.pc = "ok" /\ k = c.result)
          BY <2>1, <2>3, <3>2 DEF TypeOK
        <4>2. CASE k = view[u]
          BY <3>1, <4>2 DEF Known
        <4>3. CASE c.pc = "ok" /\ k = c.result
          <5>1. k \in Claims(c)
            BY <4>3 DEF Claims
          <5> QED
            BY <3>1, <5>1 DEF Known
        <4> QED
          BY <3>1, <4>1, <4>2, <4>3
      <3>3. ASSUME NEW d \in calls', k \in Claims(d) PROVE k \in Known
        <4>1. d \in calls
          BY <2>1, <2>2, <3>3
        <4> QED
          BY <3>1, <3>3, <4>1 DEF Known
      <3>4. \/ \E u \in Tabs : k = view'[u]
            \/ \E d \in calls' : k \in Claims(d)
        BY DEF Known, Claims
      <3> QED
        BY <3>2, <3>3, <3>4
    <2>5. ~Midway(c)
      BY <2>1 DEF Midway, Answers
    <2> QED
      BY <2>1, <2>2, <2>4, <2>5 DEF Calm
  <1>4. CASE UNCHANGED vars
    <2>1. Known' = Known
      BY <1>4 DEF vars, Known, Claims
    <2> QED
      BY <1>4, <2>1 DEF vars, Calm
  <1> QED
    BY <1>1, <1>2, <1>3, <1>4

LEMMA EndedClaims ==
    ASSUME TypeOK, NEW c \in calls, NEW pc \in {"ok", "error", "lost"}, NEW r
    PROVE  \A k \in Claims(Ended(c, pc, r)) : pc = "ok" /\ k = r
  BY EndsHere DEF Claims

\* The steps of handlers that have not got past the comparison.
LEMMA HandlersAreCalm ==
    ASSUME TypeOK, KindsInv, ambiguous => ambiguous', ~ambiguous', NEW c \in calls,
           \/ Begin(c) \/ Load(c) \/ Acquire(c) \/ (Compare(c) /\ ~Accepts(c))
           \/ (Put(c) /\ c.kind = "create") \/ Pop(c) \/ Unlink(c) \/ Discover(c) \/ Read(c)
           \/ Store(c) \/ Answer(c) \/ Lose(c)
    PROVE  Calm
  <1> USE DEF clients, stores
  <1>0. c \in Calls
    BY DEF TypeOK
  <1>1. ASSUME NEW pc \in {"ok", "error", "lost"}, NEW r, Ends(c, pc, r), ~Midway(c),
               view' = view, memory' \in {memory, None}, file' \in {file, None},
               r \in {None, memory}
        PROVE  Calm
    <2>1. Becomes(c, Ended(c, pc, r)) /\ ~Midway(Ended(c, pc, r))
      BY <1>1, EndsHere DEF Ends, Ended, Holds
    <2>2. \A k \in Claims(Ended(c, pc, r)) : k = None \/ k = memory
      BY <1>1, EndedClaims
    <2> QED
      BY <1>1, <2>1, <2>2, CalmCall
  <1>2. ASSUME NEW pc \in {"discovering", "putting", "popping", "loading", "unlinking",
                           "reading", "locking", "comparing"},
               GoesTo(c, pc), ~Midway(c), pc = "putting" => c.kind = "create",
               pc \in {"locking", "comparing"} /\ c.kind = "save" =>
                   c.pc \in {"sent", "locking"},
               view' = view, memory' \in {memory, None}, file' \in {file, None}
        PROVE  Calm
    <2> DEFINE d == [c EXCEPT !.pc = pc]
    <2>1. /\ d.pc = pc /\ d.kind = c.kind /\ d.version = c.version /\ d.content = c.content
          /\ Becomes(c, d)
      BY <1>0, <1>2 DEF Calls, GoesTo
    <2> HIDE DEF d
    <2>2. ~Midway(d)
      BY <1>2, <2>1 DEF Midway
    <2>3. Claims(d) \subseteq Claims(c)
      BY <1>2, <2>1 DEF Claims
    <2> QED
      BY <1>2, <2>1, <2>2, <2>3, CalmCall
  <1>3. CASE Begin(c)
    <2>1. /\ view' = view /\ memory' = memory /\ file' = file
          /\ c.pc = "sent" /\ ~Midway(c)
      BY <1>3 DEF Begin, Midway
    <2>2. \/ Ends(c, "ok", memory) \/ Ends(c, "error", None)
          \/ GoesTo(c, "discovering") \/ (GoesTo(c, "putting") /\ c.kind = "create")
          \/ GoesTo(c, "popping") \/ GoesTo(c, "locking") \/ GoesTo(c, "loading")
      BY <1>3, Zenon DEF Begin
    <2>3. CASE Ends(c, "ok", memory) \/ Ends(c, "error", None)
      BY <1>1, <2>1, <2>3
    <2> QED
      BY <1>2, <2>1, <2>2, <2>3
  <1>4. CASE Load(c)
    <2> DEFINE d == [c EXCEPT !.pc = "locking", !.content = backup.content]
    <2>1. /\ view' = view /\ memory' = memory /\ file' = file
          /\ ~Midway(c) /\ c.kind # "save"
          /\ Ends(c, "error", None) \/ Becomes(c, d)
      BY <1>4 DEF Load, Midway, KindsInv
    <2>2. d.pc = "locking" /\ d.kind = c.kind
      BY <1>0 DEF Calls
    <2>3. Claims(d) = {} /\ ~Midway(d)
      BY <2>1, <2>2 DEF Claims, Midway
    <2> HIDE DEF d
    <2> QED
      BY <1>1, <2>1, <2>3, CalmCall
  <1>5. CASE Acquire(c)
    <2>1. /\ view' = view /\ memory' = memory /\ file' = file /\ c.pc = "locking"
          /\ ~Midway(c)
      BY <1>5 DEF Acquire, Midway
    <2>2. c.kind # "create"
      BY <2>1 DEF KindsInv
    <2>3. GoesTo(c, "comparing")
      BY <1>5, <2>2 DEF Acquire
    <2> QED
      BY <1>2, <2>1, <2>3
  <1>6. CASE Compare(c) /\ ~Accepts(c)
    <2>1. /\ view' = view /\ memory' = memory /\ file' = file /\ ~Midway(c)
          /\ Ends(c, "error", None)
      BY <1>6 DEF Compare, Midway
    <2> QED
      BY <1>1, <2>1
  <1>7. CASE Put(c) /\ c.kind = "create"
    BY <1>7 DEF Put
  <1>8. CASE Pop(c) \/ Discover(c)
    <2>1. /\ view' = view /\ memory' \in {memory, None} /\ file' = file /\ ~Midway(c)
          /\ GoesTo(c, "unlinking") \/ GoesTo(c, "reading")
      BY <1>8 DEF Pop, Discover, Midway
    <2> QED
      BY <1>2, <2>1
  <1>9. CASE Unlink(c) \/ Answer(c) \/ Lose(c)
    <2>1. /\ view' = view /\ memory' = memory /\ file' \in {file, None} /\ ~Midway(c)
          /\ Ends(c, "ok", None) \/ Ends(c, "ok", memory) \/ Ends(c, "lost", None)
      BY <1>9 DEF Unlink, Answer, Lose, Midway
    <2> QED
      BY <1>1, <2>1
  <1>10. CASE Store(c)
    <2>1. memory = c.result
      BY <1>10 DEF Store
    <2>2. view' = view /\ memory' = memory /\ file' = file /\ ~Midway(c) /\ Ends(c, "ok", None)
      BY <1>10, <2>1 DEF Store, Midway
    <2> QED
      BY <1>1, <2>2
  <1>11. CASE Read(c)
    <2> DEFINE d == [c EXCEPT !.pc = "storing", !.result = file]
    <2>1. /\ view' = view /\ memory' = memory /\ file' = file /\ ~Midway(c)
          /\ Ends(c, "ok", None) \/ Becomes(c, d)
      BY <1>11 DEF Read, Midway
    <2>2. d.pc = "storing"
      BY <1>0 DEF Calls
    <2> HIDE DEF d
    <2>3. Claims(d) = {} /\ ~Midway(d)
      BY <2>2 DEF Claims, Midway
    <2> QED
      BY <1>1, <2>1, <2>3, CalmCall
  <1> QED
    BY <1>3, <1>4, <1>5, <1>6, <1>7, <1>8, <1>9, <1>10, <1>11

-----------------------------------------------------------------------------
(* From the comparison to the release of the lock                          *)

\* Only the one who has the lock is midway.
LEMMA OthersRest ==
    ASSUME TypeOK, LockInv, NEW c \in calls, Holds(c), NEW d, Becomes(c, d)
    PROVE  \A e \in calls' : e = d \/ ~Holds(e)
  BY OneHolder DEF Becomes

\* A holder that goes on brings the tabs nothing.
LEMMA HolderKnown ==
    ASSUME NEW c \in calls, NEW d, Becomes(c, d), view' = view, Claims(d) = {}
    PROVE  Known' \subseteq Known
  <1> SUFFICES ASSUME NEW k \in Known' PROVE k \in Known
    OBVIOUS
  <1>1. calls' \subseteq calls \cup {d}
    BY DEF Becomes
  <1>2. k \in Known \/ \E e \in {d} : k \in Claims(e)
    BY <1>1, KnownStep, Zenon
  <1> QED
    BY <1>2

LEMMA CompareKnown ==
    ASSUME TypeOK, LockInv, KindsInv, KnownInv, NEW c \in calls, Compare(c), Accepts(c)
    PROVE  KnownInv'
  <1> SUFFICES ASSUME ~ambiguous' PROVE (RestInv /\ PutInv /\ WriteInv /\ BumpInv)'
    BY DEF KnownInv
  <1> DEFINE x == IF c.kind = "merge" THEN c.content \cup memory.content ELSE c.content
             d == [c EXCEPT !.pc = "putting", !.version = memory.version, !.content = x]
  <1>0. c \in Calls /\ c.pc = "comparing" /\ c.kind \in Saves /\ Holds(c)
    BY DEF TypeOK, Compare, KindsInv, Holds
  <1>1. /\ Becomes(c, d) /\ memory' = memory /\ file' = file /\ view' = view
        /\ ambiguous' = ambiguous
    BY <1>0 DEF Compare, stores, clients, Calls
  <1>2. d.pc = "putting" /\ d.kind = c.kind /\ d.version = memory.version /\ d.content = x
    BY <1>0 DEF Calls
  <1>3. /\ memory # None /\ memory \in Entities
        /\ c.kind = "save" => c.version = memory.version
    BY DEF Accepts, TypeOK, Stored
  <1> HIDE DEF d
  <1>4. Known' \subseteq Known
    BY <1>0, <1>1, <1>2, HolderKnown DEF Claims
  <1>5. \A e \in calls' : e = d \/ ~Holds(e)
    BY <1>0, <1>1, OthersRest
  <1>6. \A e \in calls : ~Midway(e)
    <2>1. ASSUME NEW e \in calls, Midway(e) PROVE FALSE
      <3>1. e = c
        BY <1>0, <2>1, OneHolder DEF Holds
      <3> QED
        BY <1>0, <2>1, <3>1 DEF Midway
    <2> QED
      BY <2>1
  <1>7. file \in {None, memory} /\ Behind(Known, memory)
    BY <1>1, <1>3, <1>6 DEF KnownInv, RestInv
  <1>8. c.kind # "overwrite" => memory.content \subseteq x
    <2>1. CASE c.kind = "merge"
      BY <2>1
    <2>2. CASE c.kind = "save"
      <3>1. Entity(c.version, c.content) \in Claims(c)
        BY <1>0, <2>2 DEF Claims
      <3>2. Entity(c.version, c.content) \in Entities
        BY <1>0 DEF Calls, Entity, Entities
      <3>3. Entity(c.version, c.content) \in Known
        BY <3>1, <3>2, NoneAssumption DEF Known
      <3>4. Entity(c.version, c.content).version = memory.version
        BY <1>3, <2>2 DEF Entity
      <3>5. memory.content \subseteq Entity(c.version, c.content).content
        BY <1>3, <1>7, <3>3, <3>4 DEF Behind, Entities
      <3>6. x = c.content
        BY <2>2
      <3> QED
        BY <3>5, <3>6 DEF Entity
    <2> QED
      BY <1>0, <2>1, <2>2 DEF Saves
  <1> HIDE DEF x
  <1>9. UpTo(Known', memory.version)
    <2>1. \A k \in Known : k.version <= memory.version
      BY <1>3, <1>7, KnownType DEF Behind, Entities
    <2> QED
      BY <1>4, <2>1 DEF UpTo
  <1>10. RestInv'
    <2>1. d \in calls' /\ Midway(d)
      BY <1>0, <1>1, <1>2 DEF Becomes, Midway, Saves
    <2> QED
      BY <2>1 DEF RestInv, Midway
  <1>11. PutInv'
    <2> SUFFICES ASSUME NEW e \in calls', e.pc = "putting", e.kind # "create"
                 PROVE  /\ memory' # None => memory'.version = e.version
                        /\ file' # None /\ e.kind # "overwrite" =>
                              file'.content \subseteq e.content
                        /\ UpTo(Known', e.version)
      BY DEF PutInv
    <2>1. e = d
      BY <1>5 DEF Holds, Midway
    <2> QED
      BY <1>1, <1>2, <1>7, <1>8, <1>9, <2>1
  <1>12. WriteInv' /\ BumpInv'
    <2>1. \A e \in calls' : e.pc \notin {"writing", "bumping"}
      BY <1>2, <1>5 DEF Holds, Midway
    <2> QED
      BY <2>1 DEF WriteInv, BumpInv
  <1> QED
    BY <1>10, <1>11, <1>12

LEMMA PutKnown ==
    ASSUME TypeOK, LockInv, KindsInv, KnownInv, NEW c \in calls, Put(c), c.kind # "create"
    PROVE  KnownInv'
  <1> SUFFICES ASSUME ~ambiguous' PROVE (RestInv /\ PutInv /\ WriteInv /\ BumpInv)'
    BY DEF KnownInv
  <1> DEFINE d == [c EXCEPT !.pc = "writing"]
  <1>0. c \in Calls /\ c.pc = "putting" /\ Holds(c)
    BY DEF TypeOK, Put, Holds, Midway
  <1>1. /\ Becomes(c, d) /\ memory' = Entity(c.version, c.content) /\ file' = file
        /\ view' = view /\ ambiguous' = ambiguous
    BY DEF Put, GoesTo, clients, TypeOK
  <1>2. d.pc = "writing" /\ d.kind = c.kind
    BY <1>0 DEF Calls
  <1> HIDE DEF d
  <1>3. Known' \subseteq Known
    BY <1>1, <1>2, HolderKnown DEF Claims
  <1>4. \A e \in calls' : e = d \/ ~Holds(e)
    BY <1>0, <1>1, OthersRest
  <1>5. /\ file # None /\ c.kind # "overwrite" => file.content \subseteq c.content
        /\ UpTo(Known, c.version)
    BY <1>0, <1>1 DEF KnownInv, PutInv
  <1>6. memory'.version = c.version /\ memory'.content = c.content
    BY <1>1 DEF Entity
  <1>7. RestInv'
    <2>1. d \in calls' /\ Midway(d)
      BY <1>1, <1>2 DEF Becomes, Midway
    <2> QED
      BY <2>1 DEF RestInv, Midway
  <1>8. PutInv' /\ BumpInv'
    <2>1. \A e \in calls' : e.pc # "bumping" /\ (e.pc = "putting" => e.kind = "create")
      BY <1>2, <1>4 DEF Holds, Midway
    <2> QED
      BY <2>1 DEF PutInv, BumpInv
  <1>9. WriteInv'
    <2> SUFFICES ASSUME NEW e \in calls', e.pc = "writing"
                 PROVE  /\ file' # None /\ e.kind # "overwrite" =>
                              file'.content \subseteq memory'.content
                        /\ UpTo(Known', memory'.version)
      BY DEF WriteInv
    <2>1. e = d
      BY <1>4 DEF Holds, Midway
    <2>2. UpTo(Known', c.version)
      BY <1>3, <1>5 DEF UpTo
    <2> QED
      BY <1>1, <1>2, <1>5, <1>6, <2>1, <2>2
  <1> QED
    BY <1>7, <1>8, <1>9

LEMMA WriteKnown ==
    ASSUME TypeOK, TypeOK', LockInv, KindsInv, KnownInv, NEW c \in calls, Write(c)
    PROVE  KnownInv'
  <1> SUFFICES ASSUME ~ambiguous' PROVE (RestInv /\ PutInv /\ WriteInv /\ BumpInv)'
    BY DEF KnownInv
  <1> DEFINE d == [c EXCEPT !.pc = "bumping", !.result = file']
  <1>0. c \in Calls /\ c.pc = "writing" /\ Holds(c)
    BY DEF TypeOK, Write, Holds, Midway
  <1>1. view' = view /\ memory' = memory /\ ambiguous' = ambiguous
    BY DEF Write, clients
  <1>2. CASE memory = None
    <2> DEFINE f == Ended(c, "error", None)
    <2>1. Becomes(c, f)
      BY <1>2 DEF Write, Ends, Ended
    <2>2. f.pc = "error"
      BY EndsHere
    <2> HIDE DEF f
    <2>3. \A e \in calls' : e = f \/ ~Holds(e)
      BY <1>0, <2>1, OthersRest
    <2>4. \A e \in calls' : e.pc # "bumping" /\ (e.pc = "putting" => e.kind = "create")
      BY <2>2, <2>3 DEF Holds, Midway
    <2> QED
      BY <1>1, <1>2, <2>4 DEF RestInv, PutInv, WriteInv, BumpInv
  <1>3. CASE memory # None
    <2>1. Becomes(c, d) /\ file' = Entity(memory.version + 1, memory.content)
      BY <1>3 DEF Write
    <2>2. d.pc = "bumping" /\ d.result = file'
      BY <1>0 DEF Calls
    <2> HIDE DEF d
    <2>3. Known' \subseteq Known
      BY <1>1, <2>1, <2>2, HolderKnown DEF Claims
    <2>4. \A e \in calls' : e = d \/ ~Holds(e)
      BY <1>0, <2>1, OthersRest
    <2>5. /\ UpTo(Known, memory.version) /\ memory \in Entities
          /\ file'.version = memory.version + 1
      BY <1>0, <1>1, <1>3, <2>1 DEF KnownInv, WriteInv, Entity, TypeOK, Stored
    <2>6. file' # None
      <3>0. memory.version \in 0..MaxVersion /\ memory.content \in SUBSET Edits
        BY <2>5 DEF Entities
      <3>1. memory.version + 1 \in 0..MaxVersion
        BY <1>3, <3>0, BoundsAssumption DEF Write
      <3>2. file' \in Entities
        BY <2>1, <3>0, <3>1 DEF Entity, Entities
      <3> QED
        BY <3>2, NoneAssumption
    <2>7. RestInv'
      <3>1. d \in calls' /\ Midway(d)
        BY <2>1, <2>2 DEF Becomes, Midway
      <3> QED
        BY <3>1 DEF RestInv, Midway
    <2>8. PutInv' /\ WriteInv'
      <3>1. \A e \in calls' : e.pc # "writing" /\ (e.pc = "putting" => e.kind = "create")
        BY <2>2, <2>4 DEF Holds, Midway
      <3> QED
        BY <3>1 DEF PutInv, WriteInv
    <2>9. \A k \in Known' : k.version < memory.version + 1
      BY <2>3, <2>5, KnownType DEF UpTo, Entities
    <2>10. BumpInv'
      <3> SUFFICES ASSUME NEW e \in calls', e.pc = "bumping"
                   PROVE  /\ e.result # None /\ file' \in {None, e.result}
                          /\ memory' # None => memory'.version < e.result.version
                          /\ \A k \in Known' : k.version < e.result.version
        BY DEF BumpInv
      <3>1. e.result = file'
        BY <2>2, <2>4 DEF Holds, Midway
      <3>2. memory.version \in Nat
        BY <2>5 DEF Entities
      <3> QED
        BY <1>1, <2>5, <2>6, <2>9, <3>1, <3>2
    <2> QED
      BY <2>7, <2>8, <2>10
  <1> QED
    BY <1>2, <1>3

LEMMA BumpKnown ==
    ASSUME TypeOK, LockInv, KindsInv, KnownInv, NEW c \in calls, Bump(c)
    PROVE  KnownInv'
  <1> SUFFICES ASSUME ~ambiguous' PROVE (RestInv /\ PutInv /\ WriteInv /\ BumpInv)'
    BY DEF KnownInv
  <1> DEFINE d == [c EXCEPT !.pc = "answering", !.version = 0, !.content = {},
                            !.result = None]
  <1>0. c \in Calls /\ c.pc = "bumping" /\ Holds(c)
    BY DEF TypeOK, Bump, Holds, Midway
  <1>1. /\ Becomes(c, d) /\ memory' = c.result /\ file' = file /\ view' = view
        /\ ambiguous' = ambiguous
    BY DEF Bump, clients
  <1>2. d.pc = "answering"
    BY <1>0 DEF Calls
  <1> HIDE DEF d
  <1>3. Known' \subseteq Known
    BY <1>1, <1>2, HolderKnown DEF Claims
  <1>4. \A e \in calls' : ~Midway(e)
    BY <1>0, <1>1, <1>2, OthersRest DEF Holds, Midway
  <1>5. /\ file \in {None, c.result}
        /\ \A k \in Known : k.version < c.result.version
    BY <1>0, <1>1 DEF KnownInv, BumpInv
  <1>6. RestInv'
    BY <1>1, <1>3, <1>5 DEF RestInv, Behind
  <1>7. PutInv' /\ WriteInv' /\ BumpInv'
    BY <1>4 DEF PutInv, WriteInv, BumpInv, Midway
  <1> QED
    BY <1>6, <1>7

LEMMA NextKnown ==
    TypeOK /\ LockInv /\ KindsInv /\ KnownInv /\ [Next]_vars => KnownInv'
  <1> SUFFICES ASSUME TypeOK, LockInv, KindsInv, KnownInv, [Next]_vars PROVE KnownInv'
    OBVIOUS
  <1>1. TypeOK' /\ (ambiguous => ambiguous')
    BY NextType, NextAmbiguous
  <1>2. ASSUME ~ambiguous' => Calm PROVE KnownInv'
    BY <1>1, <1>2, CalmStep
  <1>3. CASE \/ \E t \in Tabs, e \in Edits, valid \in BOOLEAN : Persist(t, e, valid)
             \/ \E t \in Tabs, kind \in Kinds : Ask(t, kind)
             \/ \E c \in calls : Receive(c)
             \/ UNCHANGED vars
    BY <1>2, <1>3, TabsAreCalm
  <1>4. ASSUME NEW c \in calls,
               \/ Begin(c) \/ Load(c) \/ Acquire(c) \/ (Compare(c) /\ ~Accepts(c))
               \/ (Put(c) /\ c.kind = "create") \/ Pop(c) \/ Unlink(c) \/ Discover(c)
               \/ Read(c) \/ Store(c) \/ Answer(c) \/ Lose(c)
        PROVE  KnownInv'
    BY <1>1, <1>2, <1>4, HandlersAreCalm
  <1>5. ASSUME NEW c \in calls,
               \/ (Compare(c) /\ Accepts(c)) \/ (Put(c) /\ c.kind # "create")
               \/ Write(c) \/ Bump(c)
        PROVE  KnownInv'
    BY <1>1, <1>5, CompareKnown, PutKnown, WriteKnown, BumpKnown
  <1>6. CASE \E e \in Edits : EditFile(e)
    BY <1>6 DEF EditFile, KnownInv
  <1> QED
    BY <1>3, <1>4, <1>5, <1>6, Zenon DEF Next

LEMMA AllKnown == Spec => [](TypeOK /\ LockInv /\ KindsInv /\ KnownInv)
  <1>1. Init => TypeOK /\ LockInv /\ KindsInv /\ KnownInv
    BY InitType, InitKnown
  <1>2. TypeOK /\ LockInv /\ KindsInv /\ KnownInv /\ [Next]_vars
        => (TypeOK /\ LockInv /\ KindsInv /\ KnownInv)'
    BY NextType, NextLock, NextKinds, NextKnown
  <1> QED
    BY <1>1, <1>2, PTL DEF Spec

\* Nothing but the write itself replaces the file while a save is at its write.
LEMMA KeepsUpdates ==
    ASSUME TypeOK, LockInv, KindsInv, KnownInv, [Next]_vars, NEW c \in calls, Written(c),
           ~ambiguous
    PROVE  file.content \subseteq file'.content
  <1> USE DEF stores
  <1>0. c.pc = "writing" /\ c.kind \in {"save", "merge"} /\ file # None /\ file' # None
    BY DEF Written
  <1>1. ASSUME NEW d \in calls, Write(d) PROVE file.content \subseteq file'.content
    <2>1. d = c
      BY <1>0, <1>1, OneHolder DEF Write, Holds, Midway
    <2>2. CASE file' = file
      BY <2>2
    <2>3. CASE memory # None /\ file' = Entity(memory.version + 1, memory.content)
      <3>1. file.content \subseteq memory.content
        BY <1>0, <2>3 DEF KnownInv, WriteInv
      <3> QED
        BY <2>3, <3>1 DEF Entity
    <2> QED
      BY <1>1, <2>2, <2>3 DEF Write
  <1>2. ASSUME NEW e \in Edits, EditFile(e) PROVE file.content \subseteq file'.content
    <2>1. file \in Entities
      BY <1>0 DEF TypeOK, Stored
    <2> QED
      BY <1>2, <2>1 DEF EditFile, Entities
  <1>3. ASSUME NEW d \in calls,
               \/ Receive(d) \/ Begin(d) \/ Load(d) \/ Acquire(d) \/ Compare(d) \/ Put(d)
               \/ Bump(d) \/ Pop(d) \/ Unlink(d) \/ Discover(d) \/ Read(d) \/ Store(d)
               \/ Answer(d) \/ Lose(d)
        PROVE  file' \in {file, None}
    BY <1>3, Zenon DEF Receive, Begin, Load, Acquire, Compare, Put, Bump, Pop, Unlink,
                       Discover, Read, Store, Answer, Lose
  <1>4. ASSUME NEW t, NEW e, NEW valid, Persist(t, e, valid) \/ Ask(t, e) PROVE file' = file
    BY <1>4 DEF Persist, Ask, Send
  <1>5. CASE UNCHANGED vars
    BY <1>5 DEF vars
  <1> QED
    BY <1>0, <1>1, <1>2, <1>3, <1>4, <1>5 DEF Next

\* No save takes an edit out of the file, while no version has named two contents.
THEOREM NoUpdateLost == Spec => NoLostUpdate
  <1>1. TypeOK /\ LockInv /\ KindsInv /\ KnownInv /\ [Next]_vars =>
          [\A c \in calls :
              Written(c) /\ ~ambiguous => file.content \subseteq file'.content]_vars
    BY KeepsUpdates
  <1> QED
    BY <1>1, AllKnown, PTL DEF Spec, NoLostUpdate

-----------------------------------------------------------------------------
(* Where a step of a handler leads                                         *)

\* What a step of the handler of c makes of the call, with what the proofs
\* below need of its guard.
Leads(c, d) ==
    \/ /\ Begin(c)
       /\ \/ c.kind = "fetch" /\ d.pc = "ok" /\ d.result = memory
          \/ c.kind # "fetch" /\ d.pc = "error"
          \/ c.kind = "reimport" /\ d.pc = "discovering"
          \/ c.kind = "create" /\ d.pc = "putting"
          \/ c.kind = "delete" /\ d.pc = "popping"
          \/ c.kind = "save" /\ memory # None /\ d.pc = "locking"
          \/ c.kind \in {"merge", "overwrite"} /\ memory # None /\ d.pc = "loading"
    \/ Load(c) /\ d.pc \in {"error", "locking"}
    \/ Acquire(c) /\ d.pc = (IF c.kind = "create" THEN "writing" ELSE "comparing")
    \/ Compare(c) /\ (d.pc = "error" \/ (d.pc = "putting" /\ memory # None))
    \/ Put(c) /\ d.pc = (IF c.kind = "create" THEN "locking" ELSE "writing")
    \/ /\ Write(c)
       /\ \/ /\ memory # None /\ d.pc = "bumping" /\ d.result = file'
             /\ file' = Entity(memory.version + 1, memory.content)
          \/ d.pc = "error" /\ (memory = None \/ (ambiguous' /\ drift'))
    \/ Bump(c) /\ d.pc = "answering"
    \/ Pop(c) /\ d.pc = "unlinking"
    \/ Unlink(c) /\ d.pc = "ok" /\ d.result = None
    \/ Discover(c) /\ d.pc = "reading"
    \/ /\ Read(c)
       /\ \/ d.pc = "ok" /\ d.result = None
          \/ d.pc = "storing" /\ d.result = file
    \/ Store(c) /\ d.pc = "ok" /\ d.result = None
    \/ Answer(c) /\ d.pc = "ok" /\ d.result = memory
    \/ Lose(c) /\ d.pc = "lost"

Handles(c) ==
    \/ Begin(c) \/ Load(c) \/ Acquire(c) \/ Compare(c) \/ Put(c) \/ Write(c) \/ Bump(c)
    \/ Pop(c) \/ Unlink(c) \/ Discover(c) \/ Read(c) \/ Store(c) \/ Answer(c) \/ Lose(c)

\* Which step is whose.
LEMMA StepsAt ==
    ASSUME NEW c
    PROVE  /\ Begin(c) => c.pc = "sent"
           /\ Load(c) => c.pc = "loading"
           /\ Acquire(c) => c.pc = "locking"
           /\ Compare(c) => c.pc = "comparing"
           /\ Put(c) => c.pc = "putting"
           /\ Write(c) => c.pc = "writing"
           /\ Bump(c) => c.pc = "bumping"
           /\ Pop(c) => c.pc = "popping"
           /\ Unlink(c) => c.pc = "unlinking"
           /\ Discover(c) => c.pc = "discovering"
           /\ Read(c) => c.pc = "reading"
           /\ Store(c) => c.pc = "storing"
           /\ Answer(c) => c.pc = "answering"
           /\ Lose(c) => c.pc \in {"sent", "ok", "error"}
  BY DEF Begin, Load, Acquire, Compare, Put, Write, Bump, Pop, Unlink, Discover, Read, Store,
         Answer, Lose

\* The same request, further on.
Same(c, d) == Becomes(c, d) /\ d.tab = c.tab /\ d.kind = c.kind

LEMMA HandlersLead ==
    ASSUME TypeOK, NEW c \in calls, Handles(c)
    PROVE  \E d : Same(c, d) /\ Leads(c, d)
  <1>0. c \in Calls
    BY DEF TypeOK
  <1>1. ASSUME NEW pc, GoesTo(c, pc)
        PROVE  \E d : Same(c, d) /\ d.pc = pc
    <2> DEFINE d == [c EXCEPT !.pc = pc]
    <2>1. d.tab = c.tab /\ d.kind = c.kind /\ d.pc = pc
      BY <1>0 DEF Calls
    <2>2. Becomes(c, d)
      BY <1>1 DEF GoesTo
    <2> HIDE DEF d
    <2> QED
      BY <2>1, <2>2 DEF Same
  <1>2. ASSUME NEW pc, NEW r, Ends(c, pc, r)
        PROVE  \E d : Same(c, d) /\ d.pc = pc /\ d.result = r
    <2> DEFINE d == Ended(c, pc, r)
    <2>1. d.tab = c.tab /\ d.kind = c.kind /\ d.pc = pc /\ d.result = r
      BY <1>0 DEF Calls, Ended
    <2>2. Becomes(c, d)
      BY <1>2 DEF Ends, Ended
    <2> HIDE DEF d
    <2> QED
      BY <2>1, <2>2 DEF Same
  <1>3. CASE Begin(c)
    <2>1. \/ c.kind = "fetch" /\ Ends(c, "ok", memory)
          \/ c.kind # "fetch" /\ Ends(c, "error", None)
          \/ c.kind = "reimport" /\ GoesTo(c, "discovering")
          \/ c.kind = "create" /\ GoesTo(c, "putting")
          \/ c.kind = "delete" /\ GoesTo(c, "popping")
          \/ c.kind = "save" /\ memory # None /\ GoesTo(c, "locking")
          \/ c.kind \in {"merge", "overwrite"} /\ memory # None /\ GoesTo(c, "loading")
      BY <1>3, Zenon DEF Begin
    <2> QED
      BY <1>1, <1>2, <1>3, <2>1 DEF Leads
  <1>4. CASE Load(c)
    <2>1. CASE Ends(c, "error", None)
      BY <1>2, <1>4, <2>1 DEF Leads
    <2>2. CASE Becomes(c, [c EXCEPT !.pc = "locking", !.content = backup.content])
      <3> DEFINE d == [c EXCEPT !.pc = "locking", !.content = backup.content]
      <3>1. d.tab = c.tab /\ d.kind = c.kind /\ d.pc = "locking"
        BY <1>0 DEF Calls
      <3>2. Becomes(c, d)
        BY <2>2
      <3> HIDE DEF d
      <3> QED
        BY <1>4, <3>1, <3>2 DEF Same, Leads
    <2> QED
      BY <1>4, <2>1, <2>2 DEF Load
  <1>5. CASE Acquire(c)
    <2>1. GoesTo(c, IF c.kind = "create" THEN "writing" ELSE "comparing")
      BY <1>5 DEF Acquire
    <2> QED
      BY <1>1, <1>5, <2>1 DEF Leads
  <1>6. CASE Compare(c)
    <2>1. CASE Ends(c, "error", None)
      BY <1>2, <1>6, <2>1 DEF Leads
    <2>2. ASSUME memory # None,
                 NEW v, NEW s, Becomes(c, [c EXCEPT !.pc = "putting", !.version = v,
                                                    !.content = s])
          PROVE  \E d : Same(c, d) /\ Leads(c, d)
      <3> DEFINE d == [c EXCEPT !.pc = "putting", !.version = v, !.content = s]
      <3>1. d.tab = c.tab /\ d.kind = c.kind /\ d.pc = "putting"
        BY <1>0 DEF Calls
      <3>2. Becomes(c, d)
        BY <2>2
      <3> HIDE DEF d
      <3> QED
        BY <1>6, <2>2, <3>1, <3>2 DEF Same, Leads
    <2> QED
      BY <1>6, <2>1, <2>2 DEF Compare, Accepts
  <1>7. CASE Put(c)
    <2>1. GoesTo(c, IF c.kind = "create" THEN "locking" ELSE "writing")
      BY <1>7 DEF Put
    <2> QED
      BY <1>1, <1>7, <2>1 DEF Leads
  <1>8. CASE Write(c)
    <2>1. CASE /\ memory # None /\ Becomes(c, [c EXCEPT !.pc = "bumping", !.result = file'])
               /\ file' = Entity(memory.version + 1, memory.content)
      <3> DEFINE d == [c EXCEPT !.pc = "bumping", !.result = file']
      <3>1. d.tab = c.tab /\ d.kind = c.kind /\ d.pc = "bumping" /\ d.result = file'
        BY <1>0 DEF Calls
      <3>2. Becomes(c, d)
        BY <2>1
      <3> HIDE DEF d
      <3> QED
        BY <1>8, <2>1, <3>1, <3>2 DEF Same, Leads
    <2>2. CASE Ends(c, "error", None) /\ (memory = None \/ (ambiguous' /\ drift'))
      BY <1>2, <1>8, <2>2 DEF Leads
    <2> QED
      BY <1>8, <2>1, <2>2 DEF Write
  <1>9. CASE Bump(c)
    <2> DEFINE d == [c EXCEPT !.pc = "answering", !.version = 0, !.content = {},
                              !.result = None]
    <2>1. d.tab = c.tab /\ d.kind = c.kind /\ d.pc = "answering"
      BY <1>0 DEF Calls
    <2>2. Becomes(c, d)
      BY <1>9 DEF Bump
    <2> HIDE DEF d
    <2> QED
      BY <1>9, <2>1, <2>2 DEF Same, Leads
  <1>10. CASE Pop(c) \/ Discover(c)
    BY <1>1, <1>10 DEF Leads, Pop, Discover
  <1>11. CASE Unlink(c) \/ Store(c) \/ Answer(c) \/ Lose(c)
    BY <1>2, <1>11 DEF Leads, Unlink, Store, Answer, Lose
  <1>12. CASE Read(c)
    <2>1. CASE Ends(c, "ok", None)
      BY <1>2, <1>12, <2>1 DEF Leads
    <2>2. CASE Becomes(c, [c EXCEPT !.pc = "storing", !.result = file])
      <3> DEFINE d == [c EXCEPT !.pc = "storing", !.result = file]
      <3>1. d.tab = c.tab /\ d.kind = c.kind /\ d.pc = "storing" /\ d.result = file
        BY <1>0 DEF Calls
      <3>2. Becomes(c, d)
        BY <2>2
      <3> HIDE DEF d
      <3> QED
        BY <1>12, <3>1, <3>2 DEF Same, Leads
    <2> QED
      BY <1>12, <2>1, <2>2 DEF Read
  <1> QED
    BY <1>3, <1>4, <1>5, <1>6, <1>7, <1>8, <1>9, <1>10, <1>11, <1>12 DEF Handles

\* The steps of the tabs change neither the inventory nor a handler.
Visits ==
    \/ \E t \in Tabs, e \in Edits, valid \in BOOLEAN : Persist(t, e, valid)
    \/ \E t \in Tabs, kind \in Kinds : Ask(t, kind)
    \/ \E c \in calls : Receive(c)
    \/ UNCHANGED vars

LEMMA NextIs ==
    [Next]_vars => Visits \/ (\E c \in calls : Handles(c)) \/ \E e \in Edits : EditFile(e)
  BY DEF Next, Visits, Handles

\* Which requests come to the other steps; whose answer is lost is known.
RoleOf(c) ==
    /\ c.kind = "fetch" => c.pc \in {"sent", "ok", "lost"}
    /\ c.pc \in {"popping", "unlinking"} => c.kind = "delete"
    /\ c.pc \in {"discovering", "reading", "storing"} => c.kind = "reimport"
    /\ c.pc = "answering" => c.kind \in Saves \cup {"create"}

RolesInv == \A c \in calls : RoleOf(c) /\ (c.pc = "lost" => c.tab \in cut)

\* A visit adds and takes away requests that no handler works on.
LEMMA VisitsOnly ==
    ASSUME TypeOK, Visits
    PROVE  /\ memory' = memory /\ file' = file /\ cut' = cut
           /\ ambiguous' = ambiguous /\ drift' = drift
           /\ \A d \in calls' \ calls : d.pc = "sent"
           /\ \A c \in calls \ calls' : c.pc \in Answers
  <1> USE DEF stores, historyVars
  <1>1. ASSUME NEW t, NEW kind, NEW v, NEW x, NEW valid, Send(Request(t, kind, v, x, valid))
        PROVE  /\ memory' = memory /\ file' = file /\ cut' = cut
               /\ ambiguous' = ambiguous /\ drift' = drift
               /\ \A d \in calls' \ calls : d.pc = "sent"
               /\ \A c \in calls \ calls' : c.pc \in Answers
    BY <1>1 DEF Send, Request
  <1>2. ASSUME NEW c \in calls, Receive(c)
        PROVE  /\ memory' = memory /\ file' = file /\ cut' = cut
               /\ ambiguous' = ambiguous /\ drift' = drift
               /\ \A d \in calls' \ calls : d.pc = "sent"
               /\ \A e \in calls \ calls' : e.pc \in Answers
    <2>1. \A d \in Refetch(c) : d.pc = "sent"
      BY DEF Refetch, TypeOK, Calls
    <2> QED
      BY <1>2, <2>1 DEF Receive
  <1>3. CASE UNCHANGED vars
    BY <1>3 DEF vars
  <1> QED
    BY <1>1, <1>2, <1>3 DEF Visits, Persist, Ask

LEMMA NextRoles == TypeOK /\ KindsInv /\ RolesInv /\ [Next]_vars => RolesInv'
  <1> SUFFICES ASSUME TypeOK, KindsInv, RolesInv, [Next]_vars PROVE RolesInv'
    OBVIOUS
  <1>1. CASE Visits
    BY <1>1, VisitsOnly DEF RolesInv, RoleOf
  <1>2. ASSUME NEW c \in calls, Handles(c) PROVE RolesInv'
    <2>1. PICK d : Same(c, d) /\ Leads(c, d)
      BY <1>2, HandlersLead
    <2>2. cut \subseteq cut'
      BY <1>2 DEF Handles, Begin, Load, Acquire, Compare, Put, Write, Bump, Pop, Unlink, Discover,
                  Read, Store, Answer, Lose, clients
    <2>3. RoleOf(c) /\ d.kind = c.kind /\ d.tab = c.tab
      BY <2>1 DEF RolesInv, Same
    <2>4. d.pc = "lost" => d.tab \in cut'
      BY <2>1, <2>3 DEF Leads, Lose
    <2>5. RoleOf(d)
      BY <2>1, <2>3, StepsAt DEF Leads, RoleOf, KindsInv, Saves
    <2> QED
      BY <2>1, <2>2, <2>4, <2>5 DEF RolesInv, Same, Becomes
  <1>3. CASE \E e \in Edits : EditFile(e)
    BY <1>3 DEF EditFile, RolesInv
  <1> QED
    BY <1>1, <1>2, <1>3, NextIs

-----------------------------------------------------------------------------
(* Memory and file                                                         *)

\* The memory and the file may differ while such a step is to come.
Unsettled(c) ==
    \/ c.pc \in {"writing", "bumping", "unlinking"}
    \/ c.pc = "locking" /\ c.kind = "create"

OnTheWay(c) ==
    /\ c.pc \in {"loading", "locking", "comparing", "writing"} => memory # None
    /\ c.pc = "putting" /\ c.kind # "create" => memory # None
    /\ c.pc = "bumping" => file = c.result /\ file # None
    /\ c.pc = "unlinking" => memory = None
    /\ c.pc = "storing" => c.result = file

\* Only saves run together.
Apart == \A c, d \in Active : c # d => {c.kind, d.kind} \subseteq Saves

DriftInv ==
    ~drift =>
        /\ Apart
        /\ (\A c \in Active : ~Unsettled(c)) => memory = file
        /\ \A c \in Active : OnTheWay(c)

LEMMA ActiveStep ==
    ASSUME NEW c \in calls, NEW d, Becomes(c, d)
    PROVE  /\ Active' = {e \in calls \ {c} : e.pc \in Running}
                            \cup (IF d.pc \in Running THEN {d} ELSE {})
           /\ \A e \in Active' : e = d \/ (e \in Active /\ e # c)
  BY DEF Active, Becomes

\* A step that leaves both as they are.
LEMMA DriftStays ==
    ASSUME DriftInv, ~drift, NEW c \in calls, NEW d, Same(c, d), memory' = memory, file' = file,
           c \in Active \/ (\A e \in Active : d.pc \in Running => {c.kind, e.kind} \subseteq Saves),
           c \in Active => (Unsettled(c) => d.pc \in Running /\ Unsettled(d)),
           d.pc \in Running => OnTheWay(d)
    PROVE  DriftInv'
  <1>1. /\ \A e \in Active' : e = d \/ (e \in Active /\ e # c)
        /\ \A e \in Active : e = c \/ e \in Active'
        /\ d.pc \in Running => d \in Active'
        /\ d \in Active' => d.pc \in Running
    BY ActiveStep DEF Active, Same, Becomes
  <1>2. d.kind = c.kind
    BY DEF Same
  <1>3. Apart'
    BY <1>1, <1>2 DEF DriftInv, Apart
  <1>4. (\A e \in Active' : ~Unsettled(e)) => memory' = file'
    BY <1>1 DEF DriftInv
  <1>5. \A e \in Active' : OnTheWay(e)'
    BY <1>1 DEF DriftInv, OnTheWay
  <1> QED
    BY <1>3, <1>4, <1>5 DEF DriftInv, Unsettled

\* A handler that is not of a save runs alone.
LEMMA Alone ==
    ASSUME Apart, NEW c \in Active, c.kind \notin Saves, NEW e \in Active
    PROVE  e = c
  BY DEF Apart

\* The last step of the one change under way leaves the two alike.
LEMMA DriftSettles ==
    ASSUME DriftInv, ~drift, NEW c \in Active, NEW d, Same(c, d), ~Unsettled(d),
           d.pc \notin Running \/ d.pc \in {"answering", "reading"},
           memory' = file',
           \A e \in Active : e = c \/ OnTheWay(e)'
    PROVE  DriftInv'
  <1>1. \A e \in Active' : e = d \/ (e \in Active /\ e # c)
    BY ActiveStep DEF Active, Same
  <1>2. c \in Active /\ d.kind = c.kind
    BY DEF Same
  <1>3. Apart'
    BY <1>1, <1>2 DEF DriftInv, Apart
  <1>4. \A e \in Active' : OnTheWay(e)'
    <2>1. d.pc \in Running => OnTheWay(d)'
      BY DEF OnTheWay, Running
    <2>2. d \in Active' => d.pc \in Running
      BY DEF Active
    <2> QED
      BY <1>1, <2>1, <2>2
  <1> QED
    BY <1>3, <1>4 DEF DriftInv

\* A step to a place where the two may differ.
LEMMA DriftOpens ==
    ASSUME DriftInv, ~drift, NEW c \in Active, NEW d, Same(c, d), d.pc \in Running, Unsettled(d),
           OnTheWay(d)', \A e \in Active : e = c \/ OnTheWay(e)'
    PROVE  DriftInv'
  <1>1. /\ \A e \in Active' : e = d \/ (e \in Active /\ e # c)
        /\ d \in Active'
    BY ActiveStep DEF Active, Same, Becomes
  <1>2. d.kind = c.kind
    BY DEF Same
  <1>3. Apart'
    BY <1>1, <1>2 DEF DriftInv, Apart
  <1>4. \A e \in Active' : OnTheWay(e)'
    BY <1>1
  <1>5. ~(\A e \in Active' : ~Unsettled(e))
    BY <1>1
  <1> QED
    BY <1>3, <1>4, <1>5 DEF DriftInv, Unsettled

\* The content of a write is an inventory.
LEMMA WrittenIsEntity ==
    ASSUME TypeOK, NEW c \in calls, Write(c), memory # None,
           file' = Entity(memory.version + 1, memory.content)
    PROVE  file' # None
  <1>1. memory.version \in 0..MaxVersion /\ memory.content \in SUBSET Edits
    BY DEF TypeOK, Stored, Entities
  <1>2. memory.version + 1 \in 0..MaxVersion
    BY <1>1, BoundsAssumption DEF Write
  <1>3. file' \in Entities
    BY <1>1, <1>2 DEF Entity, Entities
  <1> QED
    BY <1>3, NoneAssumption

LEMMA BeginDrift ==
    ASSUME TypeOK, KindsInv, RolesInv, DriftInv, NEW c \in calls, Begin(c), NEW d, Same(c, d),
           Leads(c, d)
    PROVE  DriftInv'
  <1> SUFFICES ASSUME ~drift' PROVE DriftInv'
    BY DEF DriftInv
  <1>1. /\ c.pc = "sent" /\ memory' = memory /\ file' = file /\ ~drift
        /\ c.kind # "fetch" => \A e \in Active : e.kind = "fetch" \/ {c.kind, e.kind} \subseteq Saves
    BY Zenon DEF Begin, stores
  <1>2. \A e \in Active : e.kind # "fetch"
    BY DEF Active, RolesInv, RoleOf, Running
  <1>3. \/ d.pc \notin Running
        \/ c.kind # "fetch" /\ d.pc \in {"locking", "loading"} /\ memory # None
           /\ c.kind # "create"
        \/ c.kind # "fetch" /\ d.pc \in {"discovering", "popping"}
        \/ c.kind = "create" /\ d.pc = "putting"
    BY <1>1, StepsAt DEF Leads, Running
  <1>4. d.kind = c.kind /\ c \notin Active
    BY <1>1 DEF Same, Active, Running
  <1>5. d.pc \in Running => OnTheWay(d)
    BY <1>3, <1>4 DEF OnTheWay
  <1>6. \A e \in Active : d.pc \in Running => {c.kind, e.kind} \subseteq Saves
    BY <1>1, <1>2, <1>3
  <1> QED
    BY <1>1, <1>4, <1>5, <1>6, DriftStays

\* The steps that touch neither the memory nor the file.
LEMMA LooksDrift ==
    ASSUME TypeOK, KindsInv, RolesInv, DriftInv, NEW c \in calls, NEW d, Same(c, d),
           \/ Load(c) /\ d.pc \in {"error", "locking"}
           \/ Acquire(c) /\ c.kind # "create" /\ d.pc = "comparing"
           \/ Compare(c) /\ (d.pc = "error" \/ (d.pc = "putting" /\ memory # None))
           \/ Read(c) /\ (d.pc = "ok" \/ (d.pc = "storing" /\ d.result = file))
           \/ Answer(c) /\ d.pc = "ok"
           \/ Lose(c) /\ d.pc = "lost"
    PROVE  DriftInv'
  <1> SUFFICES ASSUME ~drift' PROVE DriftInv'
    BY DEF DriftInv
  <1>1. memory' = memory /\ file' = file /\ ~drift
    BY DEF Load, Compare, Acquire, Read, Answer, Lose, stores
  <1>2. d.kind = c.kind
    BY DEF Same
  <1>3. CASE Lose(c) /\ d.pc = "lost"
    <2>1. d.pc \notin Running /\ c \notin Active
      BY <1>3 DEF Lose, Active, Running
    <2> QED
      BY <1>1, <2>1, DriftStays
  <1>4. CASE ~(Lose(c) /\ d.pc = "lost")
    <2>1. c \in Active
      BY <1>4, StepsAt DEF Active, Running
    <2>2. OnTheWay(c) /\ ~Unsettled(c)
      BY <1>1, <1>4, <2>1, StepsAt DEF DriftInv, Unsettled
    <2>3. c.kind = "create" => c.pc \notin {"loading", "comparing"}
      BY DEF KindsInv, Saves
    <2>4. d.pc \in Running => OnTheWay(d)
      BY <1>2, <1>4, <2>2, <2>3, StepsAt DEF OnTheWay, Running
    <2> QED
      BY <1>1, <2>1, <2>2, <2>4, DriftStays
  <1> QED
    BY <1>3, <1>4

\* The steps of saves and creations that write.
LEMMA SavesDrift ==
    ASSUME TypeOK, TypeOK', LockInv, KindsInv, RolesInv, DriftInv, NEW c \in calls, NEW d,
           Same(c, d),
           \/ Acquire(c) /\ c.kind = "create" /\ d.pc = "writing"
           \/ Put(c) /\ d.pc = (IF c.kind = "create" THEN "locking" ELSE "writing")
           \/ /\ Write(c)
              /\ \/ /\ memory # None /\ d.pc = "bumping" /\ d.result = file'
                    /\ file' = Entity(memory.version + 1, memory.content)
                 \/ d.pc = "error" /\ (memory = None \/ (ambiguous' /\ drift'))
           \/ Bump(c) /\ d.pc = "answering"
    PROVE  DriftInv'
  <1> SUFFICES ASSUME ~drift' PROVE DriftInv'
    BY DEF DriftInv
  <1>0. ~drift
    BY DEF Acquire, Put, Write, Bump
  <1>1. c \in Active /\ c.pc \in {"locking", "putting", "writing", "bumping"}
    BY StepsAt DEF Active, Running
  <1>2. OnTheWay(c) /\ Apart /\ d.kind = c.kind
    BY <1>0, <1>1 DEF DriftInv, Same
  <1>3. c.kind \in Saves \/ c.kind = "create"
    BY <1>1 DEF KindsInv
  <1>4. \A e \in Active : e = c \/ (e.kind \in Saves /\ c.kind \in Saves)
    BY <1>1, <1>2 DEF Apart
  <1>5. \A e \in Active : e = c \/ (OnTheWay(e) /\ e.pc \notin {"unlinking", "storing"})
    BY <1>0, <1>4 DEF DriftInv, RolesInv, RoleOf, Active, Saves
  <1>6. c.kind \in Saves /\ c.pc \in {"putting", "writing", "bumping"} =>
            \A e \in Active : e = c \/ e.pc # "bumping"
    <2>1. c.kind \in Saves /\ c.pc \in {"putting", "writing", "bumping"} => Holds(c)
      BY DEF Holds, Midway, Saves
    <2>2. \A e \in Active : e.pc = "bumping" => e \in calls /\ Holds(e)
      BY DEF Holds, Midway, Active
    <2> QED
      BY <2>1, <2>2, OneHolder
  <1>7. \A e \in Active : e = c \/ e.pc # "bumping" \/ c.pc = "locking"
    BY <1>1, <1>3, <1>4, <1>6
  <1>8. CASE Acquire(c) /\ c.kind = "create" /\ d.pc = "writing"
    <2>1. memory' = memory /\ file' = file /\ memory # None
      BY <1>2, <1>8 DEF Acquire, OnTheWay, stores
    <2>2. OnTheWay(d) /\ d.pc \in Running /\ Unsettled(d)
      BY <1>8, <2>1 DEF OnTheWay, Running, Unsettled
    <2> QED
      BY <1>0, <1>1, <2>1, <2>2, DriftStays
  <1>9. CASE Put(c) /\ d.pc = (IF c.kind = "create" THEN "locking" ELSE "writing")
    <2>1. file' = file /\ memory' # None /\ c.pc = "putting"
      <3>1. Entity(c.version, c.content) \in Entities
        BY DEF TypeOK, Calls, Entity, Entities
      <3> QED
        BY <1>9, <3>1, NoneAssumption DEF Put
    <2>2. OnTheWay(d)' /\ d.pc \in Running /\ Unsettled(d)
      BY <1>2, <1>9, <2>1 DEF OnTheWay, Running, Unsettled
    <2>3. \A e \in Active : e = c \/ OnTheWay(e)'
      BY <1>5, <1>7, <2>1 DEF OnTheWay
    <2> QED
      BY <1>0, <1>1, <2>2, <2>3, DriftOpens
  <1>10. CASE /\ Write(c) /\ memory # None /\ d.pc = "bumping" /\ d.result = file'
              /\ file' = Entity(memory.version + 1, memory.content)
    <2>1. memory' = memory /\ file' # None /\ c.pc = "writing"
      BY <1>10, WrittenIsEntity DEF Write
    <2>2. OnTheWay(d)' /\ d.pc \in Running /\ Unsettled(d)
      BY <1>10, <2>1 DEF OnTheWay, Running, Unsettled
    <2>3. \A e \in Active : e = c \/ OnTheWay(e)'
      BY <1>5, <1>7, <2>1 DEF OnTheWay
    <2> QED
      BY <1>0, <1>1, <2>2, <2>3, DriftOpens
  <1>11. CASE Write(c) /\ d.pc = "error" /\ (memory = None \/ (ambiguous' /\ drift'))
    BY <1>2, <1>11, StepsAt DEF OnTheWay
  <1>12. CASE Bump(c) /\ d.pc = "answering"
    <2>1. memory' = file' /\ file' = file /\ memory' # None /\ c.pc = "bumping"
      BY <1>2, <1>12 DEF Bump, OnTheWay
    <2>2. ~Unsettled(d)
      BY <1>12 DEF Unsettled
    <2>3. \A e \in Active : e = c \/ OnTheWay(e)'
      BY <1>5, <1>7, <2>1 DEF OnTheWay
    <2> QED
      BY <1>0, <1>1, <1>12, <2>1, <2>2, <2>3, DriftSettles
  <1> QED
    BY <1>8, <1>9, <1>10, <1>11, <1>12

\* Deletions and imports.
LEMMA SolesDrift ==
    ASSUME TypeOK, RolesInv, DriftInv, NEW c \in calls, NEW d, Same(c, d),
           \/ Pop(c) /\ d.pc = "unlinking"
           \/ Unlink(c) /\ d.pc = "ok"
           \/ Discover(c) /\ d.pc = "reading"
           \/ Store(c) /\ d.pc = "ok"
    PROVE  DriftInv'
  <1> SUFFICES ASSUME ~drift' PROVE DriftInv'
    BY DEF DriftInv
  <1>0. ~drift
    BY DEF Pop, Unlink, Discover, Store
  <1>1. c \in Active /\ c.pc \in {"popping", "unlinking", "discovering", "storing"}
    BY StepsAt DEF Active, Running
  <1>2. c.kind \notin Saves
    BY <1>1 DEF RolesInv, RoleOf, Saves
  <1>3. OnTheWay(c) /\ \A e \in Active : e = c
    BY <1>0, <1>1, <1>2, Alone DEF DriftInv
  <1>4. ~Unsettled(c) => memory = file
    BY <1>0, <1>3 DEF DriftInv
  <1>5. CASE Pop(c) /\ d.pc = "unlinking"
    <2>1. OnTheWay(d)' /\ d.pc \in Running /\ Unsettled(d)
      BY <1>5 DEF OnTheWay, Running, Unsettled, Pop
    <2> QED
      BY <1>0, <1>1, <1>3, <2>1, DriftOpens
  <1>6. CASE Unlink(c) /\ d.pc = "ok"
    <2>1. memory' = file' /\ ~Unsettled(d) /\ d.pc \notin Running
      BY <1>3, <1>6 DEF Unlink, OnTheWay, Unsettled, Running
    <2> QED
      BY <1>0, <1>1, <1>3, <2>1, DriftSettles
  <1>7. CASE Discover(c) /\ d.pc = "reading"
    <2>1. memory = file
      BY <1>4, <1>7 DEF Discover, Unsettled
    <2>2. memory' = file' /\ ~Unsettled(d)
      BY <1>7, <2>1 DEF Discover, Unsettled
    <2> QED
      BY <1>0, <1>1, <1>3, <1>7, <2>2, DriftSettles
  <1>8. CASE Store(c) /\ d.pc = "ok"
    <2>1. memory' = file' /\ ~Unsettled(d) /\ d.pc \notin Running
      BY <1>3, <1>8 DEF Store, OnTheWay, Unsettled, Running
    <2> QED
      BY <1>0, <1>1, <1>3, <2>1, DriftSettles
  <1> QED
    BY <1>5, <1>6, <1>7, <1>8

LEMMA NextDrift ==
    TypeOK /\ LockInv /\ KindsInv /\ RolesInv /\ DriftInv /\ [Next]_vars => DriftInv'
  <1> SUFFICES ASSUME TypeOK, LockInv, KindsInv, RolesInv, DriftInv, [Next]_vars
               PROVE  DriftInv'
    OBVIOUS
  <1>1. CASE Visits
    <2>1. Active' = Active
      BY <1>1, VisitsOnly DEF Active, Running, Answers
    <2> QED
      BY <1>1, <2>1, VisitsOnly DEF DriftInv, Apart, OnTheWay
  <1>2. ASSUME NEW c \in calls, Handles(c) PROVE DriftInv'
    <2>1. PICK d : Same(c, d) /\ Leads(c, d)
      BY <1>2, HandlersLead
    <2>2. TypeOK'
      BY NextType
    <2>3. CASE Begin(c)
      BY <2>1, <2>3, BeginDrift
    <2> QED
      BY <2>1, <2>2, <2>3, LooksDrift, SavesDrift, SolesDrift DEF Leads
  <1>3. CASE \E e \in Edits : EditFile(e)
    BY <1>3 DEF EditFile, DriftInv
  <1> QED
    BY <1>1, <1>2, <1>3, NextIs

-----------------------------------------------------------------------------
(* What the tabs show                                                      *)

\* A tab that waits for no save and no fetch has heard from the API of what
\* it shows, unless it lost an answer.
Heard(t) == t \notin cut /\ \A c \in calls : c.tab = t => c.kind \notin {"save", "fetch"}

Seen == {k \in {view[t] : t \in {u \in Tabs : Heard(u)}}
              \cup {c.result : c \in {d \in calls : d.pc = "ok"}} : k # None}

Rests == \A c \in calls : ~Midway(c)

\* Nobody has seen anything but the memory under its version.
SeenInv ==
    ~ambiguous /\ memory # None /\ Rests =>
        \A k \in Seen : k.version = memory.version => k = memory

LEMMA SeenIsKnown == Seen \subseteq Known
  BY DEF Seen, Known, Claims

LEMMA InitMore == Init => RolesInv /\ DriftInv /\ SeenInv
  <1> SUFFICES ASSUME Init PROVE RolesInv /\ DriftInv /\ SeenInv
    OBVIOUS
  <1>1. calls = {} /\ file = memory /\ \A t \in Tabs : view[t] = memory
    BY DEF Init
  <1>2. \A k \in Seen : k = memory
    BY <1>1 DEF Seen
  <1> QED
    BY <1>1, <1>2 DEF RolesInv, DriftInv, Apart, Active, SeenInv

\* A step that shows nobody more than the memory.
LEMMA SeenStays ==
    ASSUME SeenInv, ambiguous => ambiguous', memory' \in {memory, None}, Rests' => Rests,
           \A k \in Seen' : k \in Seen \/ k = memory
    PROVE  SeenInv'
  BY DEF SeenInv

LEMMA SeenCall ==
    ASSUME NEW c \in calls, NEW d, Same(c, d), view' = view, cut \subseteq cut',
           d.pc = "ok" => d.result \in {None, memory}
    PROVE  \A k \in Seen' : k \in Seen \/ k = memory
  <1>1. /\ \A e \in calls' : e = d \/ e \in calls
        /\ \A e \in calls : e = c \/ e \in calls'
        /\ d \in calls' /\ d.tab = c.tab /\ d.kind = c.kind
    BY DEF Same, Becomes
  <1>2. \A t \in Tabs : Heard(t)' => Heard(t)
    BY <1>1 DEF Heard
  <1>3. ASSUME NEW t \in Tabs, Heard(t)', view[t] # None PROVE view[t] \in Seen
    BY <1>2, <1>3 DEF Seen
  <1>4. ASSUME NEW e \in calls', e.pc = "ok", e.result # None
        PROVE  e.result \in Seen \/ e.result = memory
    <2>1. CASE e = d
      BY <1>4, <2>1
    <2>2. CASE e \in calls
      BY <1>4, <2>2 DEF Seen
    <2> QED
      BY <1>1, <2>1, <2>2
  <1> SUFFICES ASSUME NEW k \in Seen' PROVE k \in Seen \/ k = memory
    OBVIOUS
  <1>5. /\ k # None
        /\ \/ \E t \in Tabs : Heard(t)' /\ k = view[t]
           \/ \E e \in calls' : e.pc = "ok" /\ k = e.result
    BY DEF Seen
  <1> QED
    BY <1>3, <1>4, <1>5

LEMMA VisitsSeen ==
    ASSUME TypeOK, RolesInv, Visits
    PROVE  \A k \in Seen' : k \in Seen
  <1> USE DEF stores, historyVars
  <1>0. cut' = cut /\ \A e \in calls' : e.pc = "ok" => e \in calls
    BY VisitsOnly
  <1>1. ASSUME NEW k \in Seen',
               \A t \in Tabs : Heard(t)' /\ k = view'[t] => k \in Seen
        PROVE  k \in Seen
    <2>1. /\ k # None
          /\ \/ \E t \in Tabs : Heard(t)' /\ k = view'[t]
             \/ \E e \in calls' : e.pc = "ok" /\ k = e.result
      BY DEF Seen
    <2> QED
      BY <1>0, <1>1, <2>1 DEF Seen
  <1>2. ASSUME NEW t \in Tabs, NEW k \in Seen', Heard(t), view[t] = k PROVE k \in Seen
    BY <1>2 DEF Seen
  <1>3. ASSUME NEW t \in Tabs, NEW e \in Edits, NEW valid \in BOOLEAN, Persist(t, e, valid),
               NEW k \in Seen', NEW u \in Tabs, Heard(u)', k = view'[u]
        PROVE  k \in Seen
    <2> DEFINE r == Request(t, "save", view[t].version, view[t].content \cup {e}, valid)
    <2>1. calls' = calls \cup {r} /\ view' = [view EXCEPT ![t].content = @ \cup {e}]
      BY <1>3 DEF Persist, Send
    <2>2. r.tab = t /\ r.kind = "save"
      BY DEF Request
    <2> HIDE DEF r
    <2>3. u # t
      BY <1>3, <2>1, <2>2 DEF Heard
    <2>4. view'[u] = view[u] /\ Heard(u)
      BY <1>0, <1>3, <2>1, <2>3 DEF Heard, TypeOK
    <2> QED
      BY <1>2, <1>3, <2>4
  <1>4. ASSUME NEW t \in Tabs, NEW kind \in Kinds, Ask(t, kind),
               NEW k \in Seen', NEW u \in Tabs, Heard(u)', k = view'[u]
        PROVE  k \in Seen
    <2>1. view' = view /\ calls \subseteq calls'
      BY <1>4 DEF Ask, Send
    <2>2. Heard(u)
      BY <1>0, <1>4, <2>1 DEF Heard
    <2> QED
      BY <1>2, <1>4, <2>1, <2>2
  <1>5. ASSUME NEW c \in calls, Receive(c),
               NEW k \in Seen', NEW u \in Tabs, Heard(u)', k = view'[u]
        PROVE  k \in Seen
    <2>1. /\ view' = [view EXCEPT ![c.tab] = Shows(c)] /\ c.pc \in Answers
          /\ calls' = (calls \ {c}) \cup (IF IsFollowed(c) THEN Refetch(c) ELSE {})
      BY <1>5 DEF Receive
    <2>2. CASE u # c.tab
      <3>1. view'[u] = view[u] /\ Heard(u)
        BY <1>0, <1>5, <2>1, <2>2 DEF Heard, TypeOK
      <3> QED
        BY <1>2, <1>5, <3>1
    <2>3. CASE u = c.tab
      <3>1. k = Shows(c) /\ k # None
        BY <1>5, <2>1, <2>3 DEF TypeOK, Seen
      <3>2. ~IsFollowed(c)
        <4> DEFINE r == [c EXCEPT !.kind = "fetch", !.pc = "sent", !.version = 0, !.content = {},
                                  !.valid = TRUE, !.result = None]
        <4>1. r.tab = c.tab /\ r.kind = "fetch"
          BY DEF TypeOK, Calls
        <4>2. Refetch(c) = {r}
          BY DEF Refetch
        <4> HIDE DEF r
        <4> QED
          BY <1>5, <2>1, <2>3, <4>1, <4>2 DEF Heard
      <3>3. c.pc # "lost"
        BY <1>0, <1>5, <2>3 DEF Heard, RolesInv
      <3>4. CASE c.pc = "ok" /\ k = c.result
        BY <3>1, <3>4 DEF Seen
      <3>5. CASE c.kind \in {"save", "fetch"}
        <4>1. c.pc = "ok" /\ (c.kind = "save" => c.result # None)
          BY <2>1, <3>2, <3>3, <3>5 DEF IsFollowed, RolesInv, RoleOf, Answers
        <4>2. c.kind = "save" /\ view[c.tab] = None => Shows(c) = None
          BY <4>1 DEF Shows
        <4>3. c.kind = "fetch" \/ view[c.tab] # None => Shows(c) = c.result
          BY <3>5, <4>1 DEF Shows
        <4> QED
          BY <3>1, <3>4, <3>5, <4>1, <4>2, <4>3
      <3>6. CASE c.kind \notin {"save", "fetch"} /\ ~(c.pc = "ok" /\ k = c.result)
        <4>1. k = view[u]
          BY <2>3, <3>1, <3>6 DEF Shows
        <4>2. Heard(u)
          BY <1>0, <1>5, <2>1, <2>3, <3>6 DEF Heard
        <4> QED
          BY <1>2, <4>1, <4>2
      <3> QED
        BY <3>4, <3>5, <3>6
    <2> QED
      BY <2>2, <2>3
  <1>6. CASE UNCHANGED vars
    BY <1>6 DEF vars, Seen, Heard
  <1> QED
    BY <1>1, <1>3, <1>4, <1>5, <1>6 DEF Visits

LEMMA HandlersSeen ==
    ASSUME TypeOK, LockInv, KindsInv, KnownInv, SeenInv, ambiguous => ambiguous',
           NEW c \in calls, NEW d, Same(c, d), Leads(c, d), Handles(c)
    PROVE  SeenInv'
  <1> SUFFICES ASSUME ~ambiguous' PROVE SeenInv'
    BY DEF SeenInv
  <1> USE DEF clients, stores
  <1>1. /\ view' = view /\ cut \subseteq cut'
        /\ \A e \in calls : e = c \/ e \in calls'
        /\ d \in calls' /\ d.kind = c.kind
    BY DEF Handles, Begin, Load, Acquire, Compare, Put, Write, Bump, Pop, Unlink, Discover,
           Read, Store, Answer, Lose, Same, Becomes
  <1>2. ASSUME memory' \in {memory, None}, ~Midway(c), d.pc = "ok" => d.result \in {None, memory}
        PROVE  SeenInv'
    <2>1. Rests' => Rests
      BY <1>1, <1>2 DEF Rests, Midway
    <2> QED
      BY <1>1, <1>2, <2>1, SeenCall, SeenStays
  <1>3. ASSUME Midway(d) PROVE SeenInv'
    BY <1>1, <1>3 DEF SeenInv, Rests, Midway
  <1>4. CASE Begin(c) /\ (d.pc = "ok" => d.result = memory)
    BY <1>2, <1>4 DEF Begin, Midway
  <1>5. CASE Load(c) \/ Pop(c) \/ Discover(c)
    <2>1. memory' \in {memory, None} /\ ~Midway(c)
      BY <1>5 DEF Load, Pop, Discover, Midway
    <2>2. CASE d.pc # "ok"
      BY <1>2, <2>1, <2>2
    <2>3. CASE d.pc = "ok"
      BY <1>5, <2>3, StepsAt DEF Leads
    <2> QED
      BY <2>2, <2>3
  <1>6. CASE Acquire(c) /\ d.pc = (IF c.kind = "create" THEN "writing" ELSE "comparing")
    <2>1. c.kind # "create" => memory' = memory /\ ~Midway(c) /\ d.pc = "comparing"
      BY <1>6 DEF Acquire, Midway
    <2>2. c.kind = "create" => Midway(d)
      BY <1>6 DEF Midway
    <2> QED
      BY <1>2, <1>3, <2>1, <2>2
  <1>7. CASE Compare(c) /\ d.pc = "error"
    BY <1>2, <1>7 DEF Compare, Midway
  <1>8. CASE Compare(c) /\ d.pc = "putting"
    <2>1. d.kind # "create"
      BY <1>1, <1>8 DEF Compare, KindsInv, Saves
    <2> QED
      BY <1>3, <1>8, <2>1 DEF Midway
  <1>9. CASE Put(c) /\ d.pc = (IF c.kind = "create" THEN "locking" ELSE "writing")
    BY <1>3, <1>9 DEF Put, Midway
  <1>10. CASE Write(c) /\ d.pc = "bumping"
    BY <1>3, <1>10 DEF Midway
  <1>11. CASE Write(c) /\ (memory = None \/ (ambiguous' /\ drift'))
    BY <1>11 DEF Write, SeenInv
  <1>12. CASE Bump(c) /\ d.pc = "answering"
    <2>1. /\ c.pc = "bumping" /\ memory' = c.result
          /\ memory # None => memory.version < c.result.version
          /\ \A k \in Known : k.version < c.result.version
      BY <1>12 DEF Bump, KnownInv, BumpInv
    <2>2. \A k \in Seen' : k \in Known \/ k = memory
      BY <1>1, <1>12, SeenCall, SeenIsKnown
    <2>3. \A k \in Seen' : k.version < memory'.version
      <3>1. \A k \in Seen' : k # None
        BY DEF Seen
      <3> QED
        BY <2>1, <2>2, <3>1
    <2>4. memory' # None => memory' \in Entities
      BY <2>1 DEF TypeOK, Calls, Stored
    <2> QED
      BY <2>3, <2>4 DEF SeenInv, Entities
  <1>13. CASE Unlink(c) /\ d.result = None
    BY <1>2, <1>13 DEF Unlink, Midway
  <1>14. CASE Read(c) /\ (d.result = None \/ d.pc = "storing")
    BY <1>2, <1>14 DEF Read, Midway
  <1>15. CASE Store(c) /\ d.result = None
    BY <1>2, <1>15 DEF Store, Midway
  <1>16. CASE Answer(c) /\ d.result = memory
    BY <1>2, <1>16 DEF Answer, Midway
  <1>17. CASE Lose(c) /\ d.pc = "lost"
    BY <1>2, <1>17 DEF Lose, Midway
  <1> QED
    BY <1>4, <1>5, <1>6, <1>7, <1>8, <1>9, <1>10, <1>11, <1>12, <1>13, <1>14, <1>15, <1>16, <1>17
    DEF Leads

LEMMA NextSeen ==
    TypeOK /\ LockInv /\ KindsInv /\ KnownInv /\ RolesInv /\ SeenInv /\ [Next]_vars => SeenInv'
  <1> SUFFICES ASSUME TypeOK, LockInv, KindsInv, KnownInv, RolesInv, SeenInv, [Next]_vars
               PROVE  SeenInv'
    OBVIOUS
  <1>0. ambiguous => ambiguous'
    BY NextAmbiguous
  <1>1. CASE Visits
    <2>1. \A k \in Seen' : k \in Seen
      BY <1>1, VisitsSeen
    <2>2. Rests' => Rests
      BY <1>1, VisitsOnly DEF Rests, Midway, Answers
    <2>3. memory' = memory
      BY <1>1, VisitsOnly
    <2> QED
      BY <1>0, <2>1, <2>2, <2>3, SeenStays
  <1>2. ASSUME NEW c \in calls, Handles(c) PROVE SeenInv'
    <2>1. PICK d : Same(c, d) /\ Leads(c, d)
      BY <1>2, HandlersLead
    <2> QED
      BY <1>0, <1>2, <2>1, HandlersSeen
  <1>3. CASE \E e \in Edits : EditFile(e)
    BY <1>3 DEF EditFile, SeenInv
  <1> QED
    BY <1>1, <1>2, <1>3, NextIs

LEMMA AllSeen == Spec => [](TypeOK /\ LockInv /\ RolesInv /\ DriftInv /\ SeenInv)
  <1>1. Init => RolesInv /\ DriftInv /\ SeenInv
    BY InitMore
  <1>2. TypeOK /\ LockInv /\ KindsInv /\ KnownInv /\ RolesInv /\ DriftInv /\ SeenInv /\ [Next]_vars
        => RolesInv' /\ DriftInv' /\ SeenInv'
    BY NextRoles, NextDrift, NextSeen
  <1> QED
    BY <1>1, <1>2, AllKnown, PTL DEF Spec

\* With no handler at work the memory and the file are the same, unless what
\* the code does not protect ran together.
THEOREM MemoryAndFileAgree == Spec => []MemoryIsFile
  <1>1. DriftInv => MemoryIsFile
    BY DEF DriftInv, MemoryIsFile, Idle, Active
  <1> QED
    BY <1>1, AllSeen, PTL

\* A tab that waits for nothing and has lost no answer shows the stored
\* inventory, or one of an earlier version.
THEOREM ViewsAreTrue == Spec => []ViewIsTrue
  <1>1. TypeOK /\ LockInv /\ SeenInv => ViewIsTrue
    <2> SUFFICES ASSUME TypeOK, LockInv, SeenInv, NEW t \in Tabs,
                        \A c \in calls : c.tab # t, t \notin cut, ~ambiguous, lock = None,
                        view[t] # None, memory # None, view[t].version = memory.version
                 PROVE  view[t] = memory
      BY DEF ViewIsTrue
    <2>1. Rests
      <3>1. \A c \in calls : c.id # None
        BY NoneAssumption, BoundsAssumption DEF TypeOK, Calls
      <3> QED
        BY <3>1 DEF LockInv, Rests, Holds
    <2>2. view[t] \in Seen
      BY DEF Seen, Heard
    <2> QED
      BY <2>1, <2>2 DEF SeenInv
  <1> QED
    BY <1>1, AllSeen, PTL
=============================================================================
