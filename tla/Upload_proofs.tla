----------------------------- MODULE Upload_proofs -----------------------------
(***************************************************************************)
(* Uploads, for any tabs, files, sizes, tries and faults: what is shown as *)
(* complete is complete, and only a call that may overwrite deletes a file *)
(* that was there before.                                                  *)
(*                                                                         *)
(* The argument for the first.  A run has one call for a file, awaited or  *)
(* not (CallsInv), so that the history variable `writers' tells when the   *)
(* file is the work of one call after the other.  As long as it is, what   *)
(* is on disk are the first chunks, and the call under way is about the    *)
(* next of them or starts over (ContentInv).  A step of another run is a   *)
(* hand in the file, and one of the same run is a step of that call        *)
(* (CallStep).                                                             *)
(***************************************************************************)
EXTENDS Upload, TLAPS

USE BoundsAssumption

NotOld(f) == disk[f] # <<Old>>

OldFile(f) == Tracked(f) => NotOld(f) /\ writers[f] # {}

OldCall(c) ==
    /\ \/ c.pc \in {"appending", "storing"}
       \/ c.pc = "checking" /\ c.expected > 0
       => NotOld(c.file) /\ writers[c.file] # {}
    /\ c.pc = "creating" => NotOld(c.file)
    /\ c.pc = "deleting" => c.overwrite \/ NotOld(c.file)

\* Nothing is appended to a file that was there before, and only a call that may
\* overwrite is about to delete it.
OldInv ==
    /\ \A f \in Files : OldFile(f)
    /\ \A c \in calls : OldCall(c)

-----------------------------------------------------------------------------
(* What a step does to the calls                                           *)

\* Call d comes in place of c, of the same run for the same file.
Follows(c, d) ==
    /\ d.run = c.run /\ d.file = c.file
    /\ d.total = c.total /\ d.overwrite = c.overwrite
    /\ Becomes(c, d)

LEMMA TypeOfParts ==
  ASSUME TypeOK
  PROVE  /\ \A c \in calls : /\ c.run \in Runs /\ c.file \in Files /\ c.chunk \in 0..MaxChunk
                             /\ c.tries \in 0..MaxTries /\ c.total \in Totals
                             /\ c.overwrite \in BOOLEAN /\ c.pc \in Handling \cup Answers
                             /\ c.expected \in 0..MaxChunk
         /\ \A f \in Files : disk[f] = None \/ disk[f] = <<Old>> \/ disk[f] \in Seq(Chunks)
         /\ \A f \in Files : writers[f] \subseteq Runs
  BY DEF TypeOK, Calls

LEMMA RequestType ==
  ASSUME NEW r \in Runs, NEW f \in Files, NEW k \in 0..MaxChunk, NEW n \in 0..MaxTries,
         NEW total \in Totals, NEW overwrite \in BOOLEAN
  PROVE  Request(r, f, k, n, total, overwrite) \in Calls
  BY DEF Request, Calls, Handling

LEMMA BecomesType ==
  ASSUME TypeOK, NEW c, NEW d \in Calls, Becomes(c, d)
  PROVE  calls' \subseteq Calls
  BY DEF TypeOK, Becomes

LEMMA GoesToType ==
  ASSUME TypeOK, NEW c \in calls, NEW pc \in Handling \cup Answers, GoesTo(c, pc)
  PROVE  calls' \subseteq Calls
  <1>1. [c EXCEPT !.pc = pc] \in Calls
    BY DEF TypeOK, Calls
  <1> QED
    BY <1>1, BecomesType DEF GoesTo

LEMMA UpdateType ==
  ASSUME TypeOK, NEW c \in calls, NEW pc \in Handling \cup Answers, NEW e \in 0..MaxChunk,
         Becomes(c, [c EXCEPT !.pc = pc, !.expected = e])
  PROVE  calls' \subseteq Calls
  <1>1. [c EXCEPT !.pc = pc, !.expected = e] \in Calls
    BY DEF TypeOK, Calls
  <1> QED
    BY <1>1, BecomesType

LEMMA AfterType ==
  ASSUME NEW k \in 0..MaxChunk
  PROVE  After(k) \in 0..MaxChunk
  BY DEF After

LEMMA TailOf ==
  ASSUME NEW S, NEW s \in Seq(S), s # <<>>
  PROVE  /\ Head(s) = s[1] /\ Head(s) \in S
         /\ Len(s) \in Nat /\ Len(s) >= 1
         /\ Tail(s) \in Seq(S) /\ Len(Tail(s)) = Len(s) - 1
         /\ \A i \in 1..(Len(s) - 1) : Tail(s)[i] = s[i + 1]
         /\ \A i \in 1..Len(s) : s[i] \in S
         /\ DOMAIN s = 1..Len(s) /\ DOMAIN Tail(s) = 1..(Len(s) - 1)
  OBVIOUS

-----------------------------------------------------------------------------
(* Types                                                                   *)

\* One call of a client's loop answered, or its connection lost.
LEMMA SettleType ==
  ASSUME TypeOK, NEW t \in Tabs, NEW c \in calls, IsAwaited(c, t),
         NEW outcome \in {"pending", "complete", "conflicting", "failed"},
         NEW others, others \subseteq calls, Settle(t, c, outcome, others)
  PROVE  /\ queue' \in [Tabs -> Seq(Files)] /\ run' \in [Tabs -> 0..MaxRuns]
         /\ status' \in [Tabs -> [Files ->
                {"none", "pending", "complete", "conflicting", "failed"}]]
         /\ calls' \subseteq Calls
  <1>1. queue[t] \in Seq(Files) /\ queue[t] # <<>>
    BY DEF TypeOK, IsAwaited, InProgress
  <1>2. Tail(queue[t]) \in Seq(Files)
    BY <1>1, TailOf
  <1>3. \A f \in IF Len(queue[t]) > 1 THEN {queue[t][2]} ELSE {} :
            Request(c.run, f, 0, 0, c.total, c.overwrite) \in Calls
    <2>1. Len(queue[t]) > 1 => queue[t][2] \in Files
      BY <1>1, TailOf
    <2> QED
      BY <2>1, TypeOfParts, RequestType
  <1> QED
    BY <1>2, <1>3, TypeOfParts DEF Settle, TypeOK

LEMMA ReceiveType ==
  ASSUME TypeOK, NEW t \in Tabs, NEW c \in calls, Receive(t, c)
  PROVE  TypeOK'
  <1>1. CASE /\ calls' = calls \/ \E k \in 0..MaxChunk, n \in 0..MaxTries :
                   Becomes(c, Request(c.run, c.file, k, n, c.total, c.overwrite))
             /\ UNCHANGED clientVars
    <2>1. calls' \subseteq Calls
      BY <1>1, TypeOfParts, RequestType, BecomesType DEF TypeOK
    <2> QED
      BY <1>1, <2>1 DEF TypeOK, Receive, clientVars, serverVars
  <1>2. CASE \E outcome \in {"pending", "complete", "conflicting", "failed"} :
                Settle(t, c, outcome, calls \ {c})
    BY <1>2, SettleType DEF TypeOK, Receive, serverVars
  <1>3. c.expected \in 0..MaxChunk /\ c.tries \in 0..MaxTries
    BY TypeOfParts
  <1>4. ASSUME NEW n \in {0, c.tries + 1}, SendNext(t, c, c.expected, n)
        PROVE  TypeOK'
    <2>1. CASE n > MaxTries
      BY <1>2, <1>4, <2>1 DEF SendNext
    <2>2. CASE ~(n > MaxTries)
      BY <1>1, <1>3, <1>4, <2>2 DEF SendNext, Becomes
    <2> QED
      BY <2>1, <2>2
  <1>5. CASE Ignore(t, c)
    <2>1. [c EXCEPT !.pc = "ignored"] \in Calls
      BY DEF TypeOK, Calls, Answers
    <2> QED
      BY <1>5, <2>1, TypeOfParts DEF Ignore, TypeOK, Receive, serverVars
  <1> QED
    BY <1>2, <1>4, <1>5 DEF Receive

LEMMA DropType ==
  ASSUME TypeOK, NEW t \in Tabs, NEW total \in Totals, NEW overwrite \in BOOLEAN,
         NEW fs \in Drops[t], Drop(t, fs, total, overwrite)
  PROVE  TypeOK'
  <1>1. fs \in Seq(Files) /\ Head(fs) \in Files
    BY DropsAssumption, TailOf
  <1>2. run[t] + 1 \in 1..MaxRuns /\ <<t, run[t] + 1>> \in Runs
    BY DEF Drop, TypeOK, Runs
  <1>3. Request(<<t, run[t] + 1>>, Head(fs), 0, 0, total, overwrite) \in Calls
    BY <1>1, <1>2, RequestType
  <1> QED
    BY <1>1, <1>2, <1>3 DEF Drop, TypeOK, serverVars

\* The steps of post_upload.
LEMMA HandleType ==
  ASSUME TypeOK, OldInv, NEW c \in calls, Handle(c) \/ Crash(c) \/ BadRequest(c)
  PROVE  TypeOK'
  <1> USE DEF clientVars, serverVars, Handling, Answers
  <1>p. /\ c.run \in Runs /\ c.file \in Files /\ c.chunk \in 0..MaxChunk
        /\ After(c.chunk) \in 0..MaxChunk
    BY TypeOfParts, AfterType
  <1>1. CASE Lookup(c)
    <2>1. (IF Tracked(c.file) THEN expected[c.file] ELSE 0) \in 0..MaxChunk
      BY <1>p DEF TypeOK, Tracked
    <2>2. calls' \subseteq Calls
      BY <1>1, <2>1, UpdateType DEF Lookup
    <2> QED
      BY <1>1, <2>2 DEF Lookup, TypeOK
  <1>2. CASE StartOver(c)
    <2>1. calls' \subseteq Calls
      <3>1. 0 \in 0..MaxChunk
        OBVIOUS
      <3> QED
        BY <1>2, <3>1, UpdateType DEF StartOver
    <2> QED
      BY <1>2, <1>p, <2>1 DEF StartOver, TypeOK
  <1>3. CASE AskForOther(c) \/ Refuse(c) \/ Accept(c)
    <2>1. calls' \subseteq Calls
      BY <1>3, GoesToType DEF AskForOther, Refuse, Accept
    <2> QED
      BY <1>3, <2>1 DEF AskForOther, Refuse, Accept, TypeOK
  <1>4. CASE Delete(c)
    <2>1. calls' \subseteq Calls
      BY <1>4, GoesToType DEF Delete
    <2> QED
      BY <1>4, <1>p, <2>1 DEF Delete, TypeOK
  <1>5. CASE Create(c)
    <2>1. <<<<c.run, c.chunk>>>> \in Seq(Chunks)
      <3>1. <<c.run, c.chunk>> \in Chunks
        BY <1>p DEF Chunks
      <3> QED
        BY <3>1
    <2>2. calls' \subseteq Calls
      BY <1>5, GoesToType DEF Create
    <2> QED
      BY <1>5, <1>p, <2>1, <2>2 DEF Create, TypeOK
  <1>6. CASE AppendChunk(c)
    <2>1. disk' \in [Files -> {None, <<Old>>} \cup Seq(Chunks)]
      <3> DEFINE before == IF disk[c.file] = None THEN <<>> ELSE disk[c.file]
                 new == IF c.chunk > c.total THEN <<>> ELSE <<<<c.run, c.chunk>>>>
      <3>1. before \in Seq(Chunks)
        <4>1. disk[c.file] # <<Old>>
          BY <1>6 DEF AppendChunk, OldInv, OldCall, NotOld
        <4> QED
          BY <4>1, <1>p DEF TypeOK
      <3>2. new \in Seq(Chunks)
        <4>1. <<c.run, c.chunk>> \in Chunks
          BY <1>p DEF Chunks
        <4>2. <<>> \in Seq(Chunks) /\ <<<<c.run, c.chunk>>>> \in Seq(Chunks)
          BY <4>1
        <4> QED
          BY <4>2
      <3>3. before \o new \in Seq(Chunks)
        BY <3>1, <3>2
      <3>4. disk' = [disk EXCEPT ![c.file] = before \o new]
        BY <1>6 DEF AppendChunk
      <3> HIDE DEF before, new
      <3> QED
        BY <3>3, <3>4 DEF TypeOK
    <2>2. calls' \subseteq Calls
      BY <1>6, GoesToType DEF AppendChunk
    <2> QED
      BY <1>6, <1>p, <2>1, <2>2 DEF AppendChunk, TypeOK
  <1>7. CASE Store(c)
    <2>1. calls' \subseteq Calls
      BY <1>7, <1>p, UpdateType DEF Store
    <2> QED
      BY <1>7, <1>p, <2>1 DEF Store, TypeOK
  <1>8. CASE Discard(c)
    BY <1>8 DEF Discard, TypeOK
  <1>9. CASE Crash(c) \/ BadRequest(c)
    <2>1. calls' \subseteq Calls
      BY <1>9, GoesToType DEF Crash, BadRequest
    <2> QED
      BY <1>9, <1>p, <2>1 DEF Crash, BadRequest, Fault, TypeOK
  <1> QED
    BY <1>1, <1>2, <1>3, <1>4, <1>5, <1>6, <1>7, <1>8, <1>9 DEF Handle

LEMMA NextType == TypeOK /\ OldInv /\ [Next]_vars => TypeOK'
  <1> SUFFICES ASSUME TypeOK, OldInv, [Next]_vars PROVE TypeOK'
    OBVIOUS
  <1> USE DEF clientVars, serverVars
  <1>1. ASSUME NEW t \in Tabs, Leave(t) PROVE TypeOK'
    BY <1>1 DEF Leave, TypeOK
  <1>2. ASSUME NEW t \in Tabs, NEW c \in calls, LoseConnection(t, c) PROVE TypeOK'
    BY <1>2, SettleType DEF LoseConnection, Fault, TypeOK
  <1>3. CASE Restart
    <2>1. \A c \in calls : [c EXCEPT !.pc = "failed"] \in Calls
      BY DEF TypeOK, Calls, Answers
    <2>2. calls' \subseteq Calls
      BY <1>3, <2>1 DEF Restart, TypeOK
    <2> QED
      BY <1>3, <2>2 DEF Restart, Fault, TypeOK
  <1>4. ASSUME NEW f \in Files, RemoveFile(f) PROVE TypeOK'
    BY <1>4 DEF RemoveFile, Fault, TypeOK
  <1>5. CASE UNCHANGED vars
    BY <1>5 DEF vars, TypeOK
  <1> QED
    BY <1>1, <1>2, <1>3, <1>4, <1>5, DropType, ReceiveType, HandleType DEF Next, Handle

LEMMA InitType == Init => TypeOK
  <1> SUFFICES ASSUME Init PROVE TypeOK
    OBVIOUS
  <1>1. queue \in [Tabs -> Seq(Files)]
    BY DEF Init
  <1>2. disk \in [Files -> {None, <<Old>>} \cup Seq(Chunks)]
    BY DEF Init
  <1> QED
    BY <1>1, <1>2 DEF Init, TypeOK
-----------------------------------------------------------------------------
(* Files that were there before                                            *)

\* What is on disk does not become old, and nobody's hand in it is forgotten.
OldStays ==
    \A f \in Files : /\ NotOld(f) => NotOld(f)'
                     /\ writers[f] # {} => writers'[f] # {}

LEMMA OldStep ==
  ASSUME TypeOK, OldInv, OldStays,
         \A f \in Files : expected'[f] = expected[f] \/ OldFile(f)',
         \A c \in calls' : c \in calls \/ OldCall(c)'
  PROVE  OldInv'
  <1>1. ASSUME NEW f \in Files PROVE OldFile(f)'
    BY DEF OldInv, OldStays, OldFile, Tracked
  <1>2. ASSUME NEW c \in calls, c \in calls' PROVE OldCall(c)'
    <2>1. c.file \in Files /\ OldCall(c)
      BY TypeOfParts DEF OldInv
    <2> QED
      BY <2>1 DEF OldStays, OldCall
  <1> QED
    BY <1>1, <1>2 DEF OldInv

LEMMA RequestOld ==
  ASSUME NEW r, NEW f, NEW k, NEW n, NEW total, NEW overwrite
  PROVE  OldCall(Request(r, f, k, n, total, overwrite))'
  BY DEF OldCall, Request

\* A call that leaves the server as it is.
LEMMA QuietOld ==
  ASSUME TypeOK, OldInv, UNCHANGED serverVars,
         \A c \in calls' : c \in calls \/ OldCall(c)'
  PROVE  OldInv'
  BY OldStep DEF serverVars, OldStays, NotOld

LEMMA HandleOld ==
  ASSUME TypeOK, OldInv, NEW c \in calls, Handle(c) \/ Crash(c) \/ BadRequest(c)
  PROVE  OldInv'
  <1> USE DEF clientVars, serverVars, Becomes, GoesTo
  <1>p. /\ c \in Calls /\ c.file \in Files /\ c.run \in Runs /\ c.chunk \in 0..MaxChunk
        /\ OldCall(c) /\ OldFile(c.file)
        /\ disk[c.file] = None \/ disk[c.file] = <<Old>> \/ disk[c.file] \in Seq(Chunks)
    BY TypeOfParts DEF OldInv, TypeOK
  <1>1. CASE Lookup(c)
    <2>0. PICK e : e = IF Tracked(c.file) THEN expected[c.file] ELSE 0
      OBVIOUS
    <2> DEFINE d == [c EXCEPT !.pc = "checking", !.expected = e]
    <2>1. e > 0 => NotOld(c.file)' /\ writers'[c.file] # {}
      BY <1>1, <1>p, <2>0 DEF Lookup, OldFile, NotOld
    <2>2. d.pc = "checking" /\ d.expected = e /\ d.file = c.file
      BY <1>p DEF Calls
    <2>3. calls' = (calls \ {c}) \cup {d} /\ UNCHANGED serverVars
      BY <1>1, <2>0 DEF Lookup
    <2> HIDE DEF d
    <2>4. OldCall(d)'
      BY <2>1, <2>2 DEF OldCall
    <2> QED
      BY <2>3, <2>4, QuietOld
  <1>2. CASE StartOver(c)
    <2>1. OldStays /\ NotOld(c.file)'
      BY <1>2, <1>p, NoneAssumption DEF StartOver, OldStays, NotOld, TypeOK
    <2>2. OldCall([c EXCEPT !.pc = "deleting", !.expected = 0])'
      BY <1>p, <2>1 DEF OldCall, NotOld, Calls
    <2> QED
      BY <1>2, <2>1, <2>2, OldStep DEF StartOver
  <1>3. CASE AskForOther(c)
    <2>1. OldCall([c EXCEPT !.pc = "range"])'
      BY <1>p DEF OldCall, Calls
    <2> QED
      BY <1>3, <2>1, QuietOld DEF AskForOther
  <1>4. CASE Refuse(c)
    <2>1. OldCall([c EXCEPT !.pc = "refused"])'
      BY <1>p DEF OldCall, Calls
    <2> QED
      BY <1>4, <2>1, QuietOld DEF Refuse
  <1>5. CASE Accept(c)
    <2>1. OldCall([c EXCEPT !.pc = IF c.chunk = 0 THEN "deleting" ELSE "appending"])'
      <3>1. CASE c.chunk = 0
        BY <1>5, <1>p, <3>1, NoneAssumption DEF Accept, Exists, OldCall, NotOld, Calls
      <3>2. CASE c.chunk # 0
        BY <1>5, <1>p, <3>2 DEF Accept, OldCall, NotOld, Calls
      <3> QED
        BY <3>1, <3>2
    <2> QED
      BY <1>5, <2>1, QuietOld DEF Accept
  <1>6. CASE Delete(c)
    <2>1. OldStays /\ NotOld(c.file)'
      BY <1>6, <1>p, NoneAssumption DEF Delete, OldStays, NotOld, TypeOK
    <2>2. OldCall([c EXCEPT !.pc = "creating"])' /\ OldCall([c EXCEPT !.pc = "failed"])'
      BY <1>p, <2>1 DEF OldCall, NotOld, Calls
    <2> QED
      BY <1>6, <2>1, <2>2, OldStep DEF Delete
  <1>7. CASE Create(c)
    <2>1. <<c.run, c.chunk>> # Old
      BY <1>p, OldAssumption DEF Chunks
    <2>2. disk'[c.file] = <<<<c.run, c.chunk>>>>
      BY <1>7, <1>p DEF Create, TypeOK
    <2>3. NotOld(c.file)'
      BY <2>1, <2>2 DEF NotOld
    <2>4. OldStays /\ writers'[c.file] # {}
      BY <1>7, <1>p, <2>3 DEF Create, OldStays, NotOld, TypeOK
    <2>5. OldCall([c EXCEPT !.pc = "storing"])'
      BY <1>p, <2>3, <2>4 DEF OldCall, NotOld, Calls
    <2> QED
      BY <1>7, <2>4, <2>5, OldStep DEF Create
  <1>8. CASE AppendChunk(c)
    <2> DEFINE before == IF disk[c.file] = None THEN <<>> ELSE disk[c.file]
               new == IF c.chunk > c.total THEN <<>> ELSE <<<<c.run, c.chunk>>>>
    <2>1. NotOld(c.file) /\ writers[c.file] # {}
      BY <1>8, <1>p DEF AppendChunk, OldCall
    <2>2. NotOld(c.file)'
      <3>1. before \in Seq(Chunks) /\ new \in Seq(Chunks)
        <4>1. before \in Seq(Chunks)
          BY <2>1, <1>p DEF NotOld
        <4>2. <<c.run, c.chunk>> \in Chunks
          BY <1>p DEF Chunks
        <4>3. new \in Seq(Chunks)
          BY <4>2
        <4> QED
          BY <4>1, <4>3
      <3>2. before \o new \in Seq(Chunks)
        BY <3>1
      <3>3. disk'[c.file] = before \o new
        BY <1>8, <1>p DEF AppendChunk, TypeOK
      <3>4. <<Old>> \notin Seq(Chunks)
        <4> SUFFICES ASSUME <<Old>> \in Seq(Chunks) PROVE FALSE
          OBVIOUS
        <4>1. <<Old>>[1] \in Chunks
          OBVIOUS
        <4> QED
          BY <4>1, OldAssumption
      <3> HIDE DEF before, new
      <3> QED
        BY <3>2, <3>3, <3>4 DEF NotOld
    <2>3. OldStays /\ writers'[c.file] # {}
      BY <1>8, <1>p, <2>1, <2>2 DEF AppendChunk, OldStays, NotOld, TypeOK
    <2>4. OldCall([c EXCEPT !.pc = "storing"])'
      BY <1>p, <2>2, <2>3 DEF OldCall, NotOld, Calls
    <2> QED
      BY <1>8, <2>3, <2>4, OldStep DEF AppendChunk
  <1>9. CASE Store(c)
    <2>1. OldStays /\ NotOld(c.file) /\ writers'[c.file] # {}
      BY <1>9, <1>p DEF Store, OldStays, NotOld, OldCall, TypeOK
    <2>2. OldFile(c.file)'
      BY <1>9, <2>1 DEF Store, OldFile, NotOld
    <2>3. \A f \in Files : expected'[f] = expected[f] \/ OldFile(f)'
      BY <1>9, <2>2 DEF Store, TypeOK
    <2>4. OldCall([c EXCEPT !.pc = IF c.chunk = c.total THEN "created" ELSE "next",
                            !.expected = After(c.chunk)])'
      BY <1>p DEF OldCall, Calls
    <2> QED
      BY <1>9, <2>1, <2>3, <2>4, OldStep DEF Store
  <1>10. CASE Discard(c)
    BY <1>10, QuietOld DEF Discard
  <1>11. CASE Crash(c)
    <2>1. OldCall([c EXCEPT !.pc = "failed"])'
      BY <1>p DEF OldCall, Calls
    <2> QED
      BY <1>11, <2>1, QuietOld DEF Crash
  <1>12. CASE BadRequest(c)
    <2>1. OldCall([c EXCEPT !.pc = "unknown"])'
      BY <1>p DEF OldCall, Calls
    <2> QED
      BY <1>12, <2>1, QuietOld DEF BadRequest
  <1> QED
    BY <1>1, <1>2, <1>3, <1>4, <1>5, <1>6, <1>7, <1>8, <1>9, <1>10, <1>11, <1>12 DEF Handle

LEMMA NextOld == TypeOK /\ OldInv /\ [Next]_vars => OldInv'
  <1> SUFFICES ASSUME TypeOK, OldInv, [Next]_vars PROVE OldInv'
    OBVIOUS
  <1>1. ASSUME NEW t \in Tabs, NEW total, NEW overwrite, NEW fs, Drop(t, fs, total, overwrite)
        PROVE  OldInv'
    BY <1>1, QuietOld, RequestOld DEF Drop
  <1>2. ASSUME NEW t \in Tabs, NEW c \in calls, NEW outcome, NEW others, others \subseteq calls,
               Settle(t, c, outcome, others), UNCHANGED serverVars
        PROVE  OldInv'
    BY <1>2, QuietOld, RequestOld DEF Settle
  <1>3. ASSUME NEW t \in Tabs, NEW c \in calls, Receive(t, c) \/ LoseConnection(t, c)
        PROVE  OldInv'
    <2>1. ASSUME NEW k, NEW n, SendNext(t, c, k, n), UNCHANGED serverVars PROVE OldInv'
      <3>1. CASE n > MaxTries
        BY <1>2, <2>1, <3>1 DEF SendNext
      <3>2. CASE ~(n > MaxTries)
        BY <2>1, <3>2, QuietOld, RequestOld DEF SendNext
      <3> QED
        BY <3>1, <3>2
    <2>2. CASE Ignore(t, c) /\ UNCHANGED serverVars
      <3>1. OldCall([c EXCEPT !.pc = "ignored"])'
        BY DEF OldCall, TypeOK, Calls
      <3> QED
        BY <2>2, <3>1, QuietOld DEF Ignore
    <2> QED
      BY <1>2, <1>3, <2>1, <2>2 DEF Receive, LoseConnection
  <1>4. ASSUME NEW t \in Tabs, Leave(t) PROVE OldInv'
    BY <1>4, QuietOld DEF Leave
  <1>5. CASE Restart
    <2>1. \A c \in calls : OldCall([c EXCEPT !.pc = "failed"])'
      BY DEF OldCall, TypeOK, Calls
    <2>2. \A c \in calls' : c \in calls \/ OldCall(c)'
      BY <1>5, <2>1 DEF Restart
    <2>3. OldStays /\ \A f \in Files : OldFile(f)'
      BY <1>5 DEF Restart, OldStays, NotOld, OldFile, Tracked
    <2> QED
      BY <2>2, <2>3, OldStep
  <1>6. ASSUME NEW f \in Files, RemoveFile(f) PROVE OldInv'
    <2>1. OldStays
      BY <1>6, NoneAssumption DEF RemoveFile, OldStays, NotOld, TypeOK
    <2> QED
      BY <1>6, <2>1, OldStep DEF RemoveFile
  <1>7. CASE UNCHANGED vars
    BY <1>7, QuietOld DEF vars
  <1> QED
    BY <1>1, <1>3, <1>4, <1>5, <1>6, <1>7, HandleOld DEF Next, Handle

LEMMA InitOld == Init => OldInv
  BY DEF Init, OldInv, OldFile, OldCall, Tracked

LEMMA TypeOld == Spec => [](TypeOK /\ OldInv)
  <1>1. Init => TypeOK /\ OldInv
    BY InitType, InitOld
  <1>2. TypeOK /\ OldInv /\ [Next]_vars => (TypeOK /\ OldInv)'
    BY NextType, NextOld
  <1> QED
    BY <1>1, <1>2, PTL DEF Spec

\* Every variable keeps its type; what is appended to is never a file that was
\* there before.
THEOREM TypeCorrect == Spec => []TypeOK
  BY TypeOld, PTL

\* Only a call that may overwrite deletes a file that was there before.
THEOREM OldFilesStay == Spec => OldFilesAreKept
  <1> DEFINE Kept == \A f \in Files :
                        disk[f] = <<Old>> /\ disk'[f] # <<Old>> =>
                           \/ \E c \in calls : c.file = f /\ c.overwrite /\ c.pc = "deleting"
                           \/ RemoveFile(f)
  <1>1. TypeOK /\ OldInv /\ [Next]_vars => [Kept]_vars
    <2> SUFFICES ASSUME TypeOK, OldInv, Next, NEW f \in Files,
                        disk[f] = <<Old>>, disk'[f] # <<Old>>, ~RemoveFile(f)
                 PROVE  \E c \in calls : c.file = f /\ c.overwrite /\ c.pc = "deleting"
      BY DEF Kept
    <2>1. ~\E g \in Files : RemoveFile(g)
      BY DEF RemoveFile, TypeOK
    <2>2. PICK c \in calls : StartOver(c) \/ Delete(c) \/ Create(c) \/ AppendChunk(c)
      BY <2>1 DEF Next, Drop, Receive, Leave, Lookup, AskForOther, Refuse, Accept, Store,
         Discard, LoseConnection, Crash, BadRequest, Restart, serverVars
    <2>3. c.file = f /\ OldCall(c) /\ OldFile(c.file)
      BY <2>2, TypeOfParts DEF StartOver, Delete, Create, AppendChunk, TypeOK, OldInv
    <2>4. Delete(c)
      BY <2>2, <2>3 DEF StartOver, IsRestart, Create, AppendChunk, OldFile, OldCall, NotOld
    <2> QED
      BY <2>3, <2>4 DEF Delete, OldCall, NotOld
  <1> QED
    BY <1>1, TypeOld, PTL DEF Spec, OldFilesAreKept

-----------------------------------------------------------------------------
(* Runs, calls and what the tabs show                                      *)

RunOf(t) == <<t, run[t]>>

\* A run has at most one call for a file, awaited or left behind.
OneCall == \A c, d \in calls : c.run = d.run /\ c.file = d.file => c = d

KnownRuns ==
    /\ \A c \in calls : c.run[2] <= run[c.run[1]]
    /\ \A f \in Files : \A r \in writers[f] : r[2] <= run[r[1]]

\* The run of a tab has not begun with the files that wait in its queue.
NotBegun ==
    \A t \in Tabs : \A i \in 2..Len(queue[t]) :
        /\ \A c \in calls : c.run = RunOf(t) => c.file # queue[t][i]
        /\ RunOf(t) \notin writers[queue[t][i]]

\* A file is shown as complete when the run is done with it.
ShownLast ==
    \A t \in Tabs :
        /\ \A i \in DOMAIN queue[t] : status[t][queue[t][i]] # "complete"
        /\ \A c \in calls : c.run = RunOf(t) => status[t][c.file] # "complete"

CallsInv ==
    /\ OneCall
    /\ KnownRuns
    /\ \A t \in Tabs : IsInjective(queue[t])
    /\ NotBegun
    /\ ShownLast

\* The step of a call leaves its mark, if any, on the file of that call.
MarksOnly(c) ==
    \A f \in Files : \A r \in writers'[f] : r \in writers[f] \/ (r = c.run /\ f = c.file)

\* The tabs go on as before, and show nothing else as complete.
Waiting ==
    /\ UNCHANGED <<queue, run>>
    /\ \A t \in Tabs, f \in Files : status'[t][f] = "complete" => status[t][f] = "complete"

LEMMA FollowsCalls ==
  ASSUME TypeOK, CallsInv, NEW c \in calls, NEW d, Follows(c, d), Waiting, MarksOnly(c)
  PROVE  CallsInv'
  <1>1. UNCHANGED <<queue, run>>
    BY DEF Waiting
  <1>2. \A e \in calls' : e \in calls \/ (e = d /\ e.run = c.run /\ e.file = c.file)
    BY DEF Follows, Becomes
  <1>3. OneCall'
    BY DEF CallsInv, OneCall, Follows, Becomes
  <1>4. KnownRuns'
    BY <1>1, <1>2 DEF CallsInv, KnownRuns, MarksOnly
  <1>5. NotBegun'
    <2> SUFFICES ASSUME NEW t \in Tabs, NEW i \in 2..Len(queue[t])
                 PROVE  /\ \A e \in calls' : e.run = RunOf(t) => e.file # queue[t][i]
                        /\ RunOf(t) \notin writers'[queue[t][i]]
      BY <1>1 DEF NotBegun, RunOf
    <2>1. queue[t][i] \in Files
      BY DEF TypeOK
    <2> QED
      BY <1>2, <2>1 DEF CallsInv, NotBegun, MarksOnly
  <1>6. ShownLast'
    <2> SUFFICES ASSUME NEW t \in Tabs
                 PROVE  /\ \A i \in DOMAIN queue[t] : status'[t][queue[t][i]] # "complete"
                        /\ \A e \in calls' : e.run = RunOf(t) => status'[t][e.file] # "complete"
      BY <1>1 DEF ShownLast, RunOf
    <2>1. /\ \A i \in DOMAIN queue[t] : queue[t][i] \in Files
          /\ \A e \in calls : e.file \in Files
      BY TypeOfParts DEF TypeOK
    <2> QED
      BY <1>2, <2>1 DEF CallsInv, ShownLast, Waiting
  <1> QED
    BY <1>1, <1>3, <1>4, <1>5, <1>6 DEF CallsInv

LEMMA SettleCalls ==
  ASSUME TypeOK, CallsInv, NEW t \in Tabs, NEW c \in calls, IsAwaited(c, t),
         NEW outcome, NEW others, others \subseteq calls,
         outcome = "complete" => others = calls \ {c},
         Settle(t, c, outcome, others), UNCHANGED writers
  PROVE  CallsInv'
  <1> DEFINE q == queue[t]
  <1>q. /\ q \in Seq(Files) /\ q # <<>> /\ c.file = q[1] /\ c.run = RunOf(t)
        /\ Len(q) \in Nat /\ Len(q) >= 1 /\ DOMAIN q = 1..Len(q)
        /\ \A i \in 1..Len(q) : q[i] \in Files
        /\ Len(Tail(q)) = Len(q) - 1 /\ DOMAIN Tail(q) = 1..(Len(q) - 1)
        /\ \A i \in 1..(Len(q) - 1) : Tail(q)[i] = q[i + 1]
    BY TailOf DEF TypeOK, IsAwaited, InProgress, RunOf
  <1>i. \A i, j \in 1..Len(q) : q[i] = q[j] => i = j
    BY <1>q DEF CallsInv, IsInjective
  <1>1. /\ queue' = [queue EXCEPT ![t] = Tail(q)] /\ queue'[t] = Tail(q)
        /\ \A u \in Tabs : u # t => queue'[u] = queue[u] /\ status'[u] = status[u]
        /\ status'[t][c.file] = outcome
        /\ \A f \in Files : f # c.file => status'[t][f] = status[t][f]
        /\ run' = run
    BY <1>q DEF Settle, TypeOK
  <1>2. \A e \in calls' :
            \/ e \in others
            \/ /\ Len(q) > 1 /\ e.run = RunOf(t) /\ e.file = q[2]
               /\ e = Request(c.run, q[2], 0, 0, c.total, c.overwrite)
    BY <1>q DEF Settle, Request
  <1>3. OneCall'
    <2>1. Len(q) > 1 => \A e \in others : e.run = RunOf(t) => e.file # q[2]
      BY DEF CallsInv, NotBegun
    <2> QED
      BY <1>2, <2>1 DEF CallsInv, OneCall
  <1>4. KnownRuns'
    BY <1>1, <1>2, <1>q DEF CallsInv, KnownRuns
  <1>5. \A u \in Tabs : IsInjective(queue[u])'
    BY <1>1, <1>q, <1>i DEF CallsInv, IsInjective
  <1>6. NotBegun'
    <2> SUFFICES ASSUME NEW u \in Tabs, NEW i \in 2..Len(queue'[u])
                 PROVE  /\ \A e \in calls' : e.run = RunOf(u) => e.file # queue'[u][i]
                        /\ RunOf(u) \notin writers[queue'[u][i]]
      BY <1>1 DEF NotBegun, RunOf
    <2>1. CASE u = t
      <3>1. i + 1 \in 2..Len(q) /\ queue'[u][i] = q[i + 1]
        <4>1. queue'[u] = Tail(q) /\ i \in 2..(Len(q) - 1)
          BY <1>1, <1>q, <2>1
        <4>2. Tail(q)[i] = q[i + 1] /\ i + 1 \in 2..Len(q)
          BY <1>q, <4>1
        <4> QED
          BY <4>1, <4>2
      <3>2. Len(q) > 1 => q[2] # q[i + 1]
        BY <1>i, <3>1
      <3> QED
        BY <1>2, <2>1, <3>1, <3>2 DEF CallsInv, NotBegun
    <2>2. CASE u # t
      BY <1>1, <1>2, <2>2 DEF CallsInv, NotBegun, RunOf
    <2> QED
      BY <2>1, <2>2
  <1>7. ShownLast'
    <2> SUFFICES ASSUME NEW u \in Tabs
                 PROVE  /\ \A i \in DOMAIN queue'[u] : status'[u][queue'[u][i]] # "complete"
                        /\ \A e \in calls' : e.run = RunOf(u) => status'[u][e.file] # "complete"
      BY <1>1 DEF ShownLast, RunOf
    <2>1. CASE u = t
      <3>1. \A i \in 2..Len(q) : q[i] \in Files /\ q[i] # c.file /\ status'[t][q[i]] # "complete"
        BY <1>1, <1>q, <1>i DEF CallsInv, ShownLast
      <3>2. \A i \in DOMAIN queue'[u] : status'[u][queue'[u][i]] # "complete"
        <4>1. ASSUME NEW i \in 1..(Len(q) - 1) PROVE status'[t][Tail(q)[i]] # "complete"
          <5>1. Tail(q)[i] = q[i + 1] /\ i + 1 \in 2..Len(q)
            BY <1>q
          <5> QED
            BY <3>1, <5>1
        <4>2. queue'[t] = Tail(q) /\ DOMAIN Tail(q) = 1..(Len(q) - 1)
          BY <1>1, <1>q
        <4> HIDE DEF q
        <4>3. \A i \in DOMAIN queue'[t] : status'[t][queue'[t][i]] # "complete"
          BY <4>1, <4>2
        <4> QED
          BY <2>1, <4>3
      <3>3. ASSUME NEW e \in calls', e.run = RunOf(t) PROVE status'[t][e.file] # "complete"
        <4>1. CASE e \in others
          <5>1. e.file \in Files /\ status[t][e.file] # "complete"
            BY <3>3, <4>1, TypeOfParts DEF CallsInv, ShownLast
          <5>2. e.file = c.file => e = c
            BY <1>q, <3>3, <4>1 DEF CallsInv, OneCall
          <5> QED
            BY <1>1, <4>1, <5>1, <5>2
        <4>2. CASE Len(q) > 1 /\ e.file = q[2]
          BY <3>1, <4>2
        <4> QED
          BY <1>2, <4>1, <4>2
      <3> QED
        BY <2>1, <3>2, <3>3
    <2>2. CASE u # t
      BY <1>1, <1>2, <2>2 DEF CallsInv, ShownLast, RunOf
    <2> QED
      BY <2>1, <2>2
  <1> QED
    BY <1>3, <1>4, <1>5, <1>6, <1>7 DEF CallsInv

LEMMA DropCalls ==
  ASSUME TypeOK, CallsInv, NEW t \in Tabs, NEW total \in Totals, NEW overwrite \in BOOLEAN,
         NEW fs \in Drops[t], Drop(t, fs, total, overwrite)
  PROVE  CallsInv'
  <1> DEFINE new == Request(<<t, run[t] + 1>>, Head(fs), 0, 0, total, overwrite)
  <1>f. /\ fs \in Seq(Files) /\ IsInjective(fs) /\ Len(fs) \in Nat /\ DOMAIN fs = 1..Len(fs)
        /\ Head(fs) = fs[1] /\ Len(fs) >= 1 /\ \A i \in 1..Len(fs) : fs[i] \in Files
    BY DropsAssumption, TailOf
  <1>1. /\ queue'[t] = fs /\ run'[t] = run[t] + 1 /\ run[t] \in Nat
        /\ \A u \in Tabs : u # t => /\ queue'[u] = queue[u] /\ status'[u] = status[u]
                                    /\ run'[u] = run[u]
        /\ \A i \in 1..Len(fs) : status'[t][fs[i]] = "pending"
        /\ UNCHANGED writers
    BY <1>f DEF Drop, TypeOK, serverVars
  <1>2. calls' = calls \cup {new} /\ new.run = <<t, run[t] + 1>> /\ new.file = fs[1]
    BY <1>f DEF Drop, Request
  <1>3. /\ \A c \in calls : c.run # <<t, run[t] + 1>>
        /\ \A f \in Files : <<t, run[t] + 1>> \notin writers[f]
    BY <1>1 DEF CallsInv, KnownRuns
  <1>4. \A u \in Tabs : u # t => RunOf(u)' = RunOf(u)
    BY <1>1 DEF RunOf
  <1>5. RunOf(t)' = <<t, run[t] + 1>>
    BY <1>1 DEF RunOf
  <1> HIDE DEF new
  <1>6. OneCall'
    BY <1>2, <1>3 DEF CallsInv, OneCall
  <1>7. KnownRuns'
    <2>1. \A r \in Runs : r[1] \in Tabs /\ r[2] \in Nat /\ run[r[1]] \in Nat
                          /\ (r[2] <= run[r[1]] => r[2] <= run'[r[1]])
      <3> SUFFICES ASSUME NEW r \in Runs
                   PROVE  r[1] \in Tabs /\ r[2] \in Nat /\ run[r[1]] \in Nat
                          /\ (r[2] <= run[r[1]] => r[2] <= run'[r[1]])
        OBVIOUS
      <3>1. r[1] \in Tabs /\ r[2] \in Nat
        BY DEF Runs
      <3>2. run[r[1]] \in Nat
        BY <3>1 DEF TypeOK
      <3> QED
        BY <1>1, <3>1, <3>2
    <2>2. \A c \in calls : c.run \in Runs
      BY TypeOfParts
    <2>3. \A f \in Files : writers[f] \subseteq Runs
      BY TypeOfParts
    <2>4. new.run[2] <= run'[new.run[1]]
      BY <1>1, <1>2
    <2> QED
      BY <1>1, <1>2, <2>1, <2>2, <2>3, <2>4 DEF CallsInv, KnownRuns
  <1>8. \A u \in Tabs : IsInjective(queue[u])'
    <2>1. \A u \in Tabs : IsInjective(queue'[u])
      BY <1>1, <1>f DEF CallsInv
    <2> QED
      BY <2>1 DEF IsInjective
  <1>9. NotBegun'
    <2> SUFFICES ASSUME NEW u \in Tabs, NEW i \in 2..Len(queue'[u])
                 PROVE  /\ \A e \in calls' : e.run = RunOf(u)' => e.file # queue'[u][i]
                        /\ RunOf(u)' \notin writers'[queue'[u][i]]
      BY DEF NotBegun
    <2>1. CASE u = t
      <3>1. fs[i] \in Files /\ fs[i] # fs[1] /\ queue'[u][i] = fs[i]
        BY <1>1, <1>f, <2>1 DEF IsInjective
      <3> QED
        BY <1>1, <1>2, <1>3, <1>5, <2>1, <3>1
    <2>2. CASE u # t
      <3>1. RunOf(u) # <<t, run[t] + 1>>
        BY <2>2 DEF RunOf
      <3> QED
        <4>1. queue'[u] = queue[u] /\ RunOf(u)' = RunOf(u) /\ UNCHANGED writers
          BY <1>1, <1>4, <2>2
        <4>2. /\ \A c \in calls : c.run = RunOf(u) => c.file # queue[u][i]
              /\ RunOf(u) \notin writers[queue[u][i]]
          BY <4>1 DEF CallsInv, NotBegun
        <4> QED
          BY <1>2, <3>1, <4>1, <4>2
    <2> QED
      BY <2>1, <2>2
  <1>10. ShownLast'
    <2> SUFFICES ASSUME NEW u \in Tabs
                 PROVE  /\ \A i \in DOMAIN queue'[u] : status'[u][queue'[u][i]] # "complete"
                        /\ \A e \in calls' : e.run = RunOf(u)' => status'[u][e.file] # "complete"
      BY DEF ShownLast
    <2>1. CASE u = t
      <3>1. \A i \in 1..Len(fs) : status'[t][fs[i]] # "complete"
        BY <1>1
      <3>2. \A e \in calls' : e.run = RunOf(t)' => e.file = fs[1]
        BY <1>2, <1>3, <1>5
      <3>3. \A i \in DOMAIN queue'[t] : status'[t][queue'[t][i]] # "complete"
        BY <1>1, <1>f, <3>1
      <3>4. status'[t][fs[1]] # "complete"
        BY <1>f, <3>1
      <3> QED
        BY <2>1, <3>2, <3>3, <3>4
    <2>2. CASE u # t
      <3>1. RunOf(u) # <<t, run[t] + 1>>
        BY <2>2 DEF RunOf
      <3> QED
        <4>1. /\ queue'[u] = queue[u] /\ RunOf(u)' = RunOf(u)
              /\ status'[u] = status[u]
          BY <1>1, <1>4, <2>2
        <4>2. /\ \A i \in DOMAIN queue[u] : status[u][queue[u][i]] # "complete"
              /\ \A c \in calls : c.run = RunOf(u) => status[u][c.file] # "complete"
          BY DEF CallsInv, ShownLast
        <4> QED
          BY <1>2, <3>1, <4>1, <4>2
    <2> QED
      BY <2>1, <2>2
  <1> QED
    BY <1>6, <1>7, <1>8, <1>9, <1>10 DEF CallsInv

-----------------------------------------------------------------------------
(* What a file holds while one run alone has a hand in it                  *)

Sole(f, r) == writers[f] = {r} /\ f \notin disturbed

FirstChunks(r, n) == [i \in 1..n |-> <<r, i - 1>>]

\* The first n chunks are stored, and the next one is awaited unless the API was
\* restarted.
Stored(c, n) ==
    /\ n \in 1..c.total
    /\ disk[c.file] = FirstChunks(c.run, n)
    /\ expected[c.file] \in {n, None}

\* A call whose run is alone with the file sends the chunk that follows what is
\* stored, or starts over.
ContentOf(c) ==
    /\ c.pc = "sent" => \E n \in 1..c.total : Stored(c, n) /\ c.chunk \in {0, n}
    /\ c.pc = "checking" => \E n \in 1..c.total :
          Stored(c, n) /\ c.chunk \in {0, n} /\ c.expected \in {0, n}
    /\ c.pc = "range" => \E n \in 1..c.total : Stored(c, n) /\ c.expected \in {0, n}
    /\ c.pc = "next" => Stored(c, c.expected)
    /\ c.pc = "appending" => Stored(c, c.chunk)
    /\ c.pc = "storing" =>
          c.chunk <= c.total /\ disk[c.file] = FirstChunks(c.run, c.chunk + 1)
    /\ c.pc = "created" => disk[c.file] = FirstChunks(c.run, c.total + 1)

ContentInv ==
    /\ \A c \in calls : c.pc \in {"deleting", "creating"} => c.chunk = 0
    /\ \A c \in calls : Sole(c.file, c.run) => ContentOf(c)
    /\ \A t \in Tabs, f \in Files :
          status[t][f] = "complete" /\ Sole(f, RunOf(t)) =>
              \E total \in Totals : disk[f] = FirstChunks(RunOf(t), total + 1)

-----------------------------------------------------------------------------

\* A handler changes the state of its own file only, and its run has then had a
\* hand in it.
Touches(c) ==
    /\ c.run \in writers'[c.file]
    /\ writers'[c.file] \subseteq writers[c.file] \cup {c.run}
    /\ \A f \in Files : f # c.file =>
          /\ disk'[f] = disk[f] /\ expected'[f] = expected[f] /\ writers'[f] = writers[f]
          /\ f \in disturbed' <=> f \in disturbed

LEMMA TotalType ==
  ASSUME TypeOK
  PROVE  \A c \in calls : c.total \in Nat /\ c.total < MaxChunk /\ c.total \in Totals
  <1>1. \A n \in Totals : n \in Nat /\ n < MaxChunk
    BY TotalsAssumption
  <1> QED
    BY <1>1, TypeOfParts

LEMMA CallStep ==
  ASSUME TypeOK, CallsInv, ContentInv, NEW c \in calls, NEW d, Follows(c, d),
         Waiting, UNCHANGED serverVars \/ Touches(c),
         d.pc \in {"deleting", "creating"} => d.chunk = 0,
         Sole(c.file, c.run)' => ContentOf(d)'
  PROVE  CallsInv' /\ ContentInv'
  <1>1. MarksOnly(c)
    BY DEF MarksOnly, Touches, serverVars
  <1>2. CallsInv'
    BY <1>1, FollowsCalls
  <1>3. \A e \in calls' : e = d \/ (e \in calls /\ e # c)
    BY DEF Follows, Becomes
  <1>4. d.run = c.run /\ d.file = c.file
    BY DEF Follows
  \* What another run alone has a hand in is left alone.
  <1>5. ASSUME NEW f \in Files, NEW r, Sole(f, r)', f # c.file \/ r # c.run
        PROVE  Sole(f, r) /\ disk'[f] = disk[f] /\ expected'[f] = expected[f]
    BY <1>5 DEF Sole, Touches, serverVars
  <1>6. ASSUME NEW e \in calls', Sole(e.file, e.run)' PROVE ContentOf(e)'
    <2>1. CASE e = d
      BY <1>4, <1>6, <2>1
    <2>2. CASE e \in calls /\ e # c
      <3>1. e.file \in Files /\ (e.file # c.file \/ e.run # c.run)
        BY <2>2, TypeOfParts DEF CallsInv, OneCall
      <3>2. /\ Sole(e.file, e.run)
            /\ disk'[e.file] = disk[e.file] /\ expected'[e.file] = expected[e.file]
        BY <1>5, <1>6, <3>1
      <3> QED
        BY <2>2, <3>2 DEF ContentInv, ContentOf, Stored
    <2> QED
      BY <1>3, <2>1, <2>2
  <1>7. ASSUME NEW t \in Tabs, NEW f \in Files, status'[t][f] = "complete", Sole(f, RunOf(t))'
        PROVE  \E total \in Totals : disk'[f] = FirstChunks(RunOf(t)', total + 1)
    <2>1. status[t][f] = "complete" /\ RunOf(t)' = RunOf(t)
      BY <1>7 DEF Waiting, RunOf
    <2>2. f # c.file \/ RunOf(t) # c.run
      BY <2>1 DEF CallsInv, ShownLast
    <2>3. Sole(f, RunOf(t)) /\ disk'[f] = disk[f]
      BY <1>5, <1>7, <2>1, <2>2 DEF Sole
    <2> QED
      BY <2>1, <2>3 DEF ContentInv
  <1>8. \A e \in calls' : e.pc \in {"deleting", "creating"} => e.chunk = 0
    BY <1>3 DEF ContentInv
  <1> QED
    BY <1>2, <1>6, <1>7, <1>8 DEF ContentInv

LEMMA QuietClient == UNCHANGED clientVars => Waiting
  BY DEF clientVars, Waiting

LEMMA FewerCalls ==
  ASSUME TypeOK, CallsInv, ContentInv, calls' \subseteq calls,
         UNCHANGED clientVars, UNCHANGED serverVars
  PROVE  CallsInv' /\ ContentInv'
  <1>1. CallsInv'
    BY DEF CallsInv, OneCall, KnownRuns, NotBegun, ShownLast, clientVars, serverVars, RunOf
  <1>2. ContentInv'
    BY DEF ContentInv, ContentOf, Stored, Sole, clientVars, serverVars, RunOf
  <1> QED
    BY <1>1, <1>2

LEMMA FirstChunksNext ==
  ASSUME NEW r \in Runs, NEW n \in 0..MaxChunk
  PROVE  /\ FirstChunks(r, n) \in Seq(Chunks)
         /\ <<<<r, 0>>>> = FirstChunks(r, 1)
         /\ FirstChunks(r, n) \o <<<<r, n>>>> = FirstChunks(r, n + 1)
  <1>1. FirstChunks(r, n) \in Seq(Chunks) /\ Len(FirstChunks(r, n)) = n
    <2>1. \A i \in 1..n : <<r, i - 1>> \in Chunks
      BY DEF Chunks
    <2>2. n \in Nat /\ FirstChunks(r, n) \in [1..n -> Chunks]
      BY <2>1 DEF FirstChunks
    <2>3. FirstChunks(r, n) \in Seq(Chunks)
      BY <2>2
    <2> QED
      BY <2>2, <2>3
  <1>2. <<<<r, 0>>>> = FirstChunks(r, 1)
    BY DEF FirstChunks
  <1>3. FirstChunks(r, n) \o <<<<r, n>>>> = FirstChunks(r, n + 1)
    BY <1>1 DEF FirstChunks
  <1> QED
    BY <1>1, <1>2, <1>3

-----------------------------------------------------------------------------
(* post_upload                                                             *)

LEMMA UpdateFields ==
  ASSUME NEW c \in Calls, NEW pc, NEW e
  PROVE  /\ LET d == [c EXCEPT !.pc = pc] IN
               /\ d.run = c.run /\ d.file = c.file /\ d.total = c.total
               /\ d.overwrite = c.overwrite /\ d.chunk = c.chunk
               /\ d.expected = c.expected /\ d.pc = pc
         /\ LET d == [c EXCEPT !.pc = pc, !.expected = e] IN
               /\ d.run = c.run /\ d.file = c.file /\ d.total = c.total
               /\ d.overwrite = c.overwrite /\ d.chunk = c.chunk
               /\ d.expected = e /\ d.pc = pc
  BY DEF Calls

\* A handler that leaves the server as it is and goes to pc.
LEMMA QuietStep ==
  ASSUME TypeOK, CallsInv, ContentInv, NEW c \in calls, NEW pc, GoesTo(c, pc),
         UNCHANGED clientVars, UNCHANGED serverVars,
         pc \in {"deleting", "creating"} => c.chunk = 0,
         /\ pc \notin {"sent", "checking", "next", "storing", "created"}
         /\ pc = "range" => c.pc = "checking"
         /\ pc = "appending" => c.pc = "checking" /\ c.chunk # 0 /\ c.chunk = c.expected
  PROVE  CallsInv' /\ ContentInv'
  <1> DEFINE d == [c EXCEPT !.pc = pc]
  <1>0. c \in Calls
    BY DEF TypeOK
  <1>1. /\ d.run = c.run /\ d.file = c.file /\ d.total = c.total /\ d.overwrite = c.overwrite
        /\ d.chunk = c.chunk /\ d.expected = c.expected /\ d.pc = pc
    BY <1>0, UpdateFields
  <1>2. Follows(c, d)
    BY <1>1 DEF Follows, GoesTo
  <1> HIDE DEF d
  <1>3. ASSUME Sole(c.file, c.run)' PROVE ContentOf(d)'
    <2>1. Sole(c.file, c.run)
      BY <1>3 DEF Sole, serverVars
    <2>2. ContentOf(c)
      BY <2>1 DEF ContentInv
    <2> QED
      BY <1>1, <2>2 DEF ContentOf, Stored, serverVars
  <1> QED
    BY <1>1, <1>2, <1>3, CallStep, QuietClient

LEMMA LookupContent ==
  ASSUME TypeOK, CallsInv, ContentInv, NEW c \in calls, Lookup(c)
  PROVE  CallsInv' /\ ContentInv'
  <1>0. c \in Calls
    BY DEF TypeOK
  <1>1. PICK e : e = IF Tracked(c.file) THEN expected[c.file] ELSE 0
    OBVIOUS
  <1> DEFINE d == [c EXCEPT !.pc = "checking", !.expected = e]
  <1>2. /\ d.run = c.run /\ d.file = c.file /\ d.total = c.total /\ d.overwrite = c.overwrite
        /\ d.chunk = c.chunk /\ d.expected = e /\ d.pc = "checking"
    BY <1>0, UpdateFields
  <1>3. Follows(c, d)
    BY <1>1, <1>2 DEF Follows, Lookup
  <1> HIDE DEF d
  <1>4. ASSUME Sole(c.file, c.run)' PROVE ContentOf(d)'
    <2>1. Sole(c.file, c.run)
      BY <1>4 DEF Sole, Lookup, serverVars
    <2>2. PICK n \in 1..c.total : Stored(c, n) /\ c.chunk \in {0, n}
      BY <2>1 DEF ContentInv, ContentOf, Lookup
    <2>3. e \in {0, n}
      BY <1>1, <2>2 DEF Stored, Tracked
    <2>4. Stored(d, n)'
      BY <1>2, <2>2 DEF Stored, Lookup, serverVars
    <2> QED
      BY <1>2, <2>2, <2>3, <2>4 DEF ContentOf
  <1> QED
    BY <1>2, <1>3, <1>4, CallStep, QuietClient DEF Lookup

LEMMA StartOverContent ==
  ASSUME TypeOK, CallsInv, ContentInv, NEW c \in calls, StartOver(c)
  PROVE  CallsInv' /\ ContentInv'
  <1>0. c \in Calls /\ c.file \in Files
    BY TypeOfParts DEF TypeOK
  <1> DEFINE d == [c EXCEPT !.pc = "deleting", !.expected = 0]
  <1>1. /\ d.run = c.run /\ d.file = c.file /\ d.total = c.total /\ d.overwrite = c.overwrite
        /\ d.chunk = c.chunk /\ d.pc = "deleting"
    BY <1>0, UpdateFields
  <1>2. Follows(c, d)
    BY <1>1 DEF Follows, StartOver
  <1> HIDE DEF d
  <1>3. Touches(c)
    BY <1>0 DEF Touches, StartOver, TypeOK
  <1>4. c.chunk = 0
    BY DEF StartOver, IsRestart
  <1>5. ContentOf(d)'
    BY <1>1 DEF ContentOf
  <1> QED
    BY <1>1, <1>2, <1>3, <1>4, <1>5, CallStep, QuietClient DEF StartOver

LEMMA DeleteContent ==
  ASSUME TypeOK, CallsInv, ContentInv, NEW c \in calls, Delete(c)
  PROVE  CallsInv' /\ ContentInv'
  <1>0. c \in Calls /\ c.file \in Files
    BY TypeOfParts DEF TypeOK
  <1>1. PICK pc \in {"creating", "failed"} : GoesTo(c, pc)
    BY DEF Delete
  <1> DEFINE d == [c EXCEPT !.pc = pc]
  <1>2. /\ d.run = c.run /\ d.file = c.file /\ d.total = c.total /\ d.overwrite = c.overwrite
        /\ d.chunk = c.chunk /\ d.pc = pc
    BY <1>0, UpdateFields
  <1>3. Follows(c, d)
    BY <1>1, <1>2 DEF Follows, GoesTo
  <1> HIDE DEF d
  <1>4. Touches(c)
    BY <1>0 DEF Touches, Delete, TypeOK
  <1>5. c.chunk = 0
    BY DEF Delete, ContentInv
  <1>6. ContentOf(d)'
    BY <1>1, <1>2 DEF ContentOf
  <1> QED
    BY <1>2, <1>3, <1>4, <1>5, <1>6, CallStep, QuietClient DEF Delete

LEMMA CreateContent ==
  ASSUME TypeOK, CallsInv, ContentInv, NEW c \in calls, Create(c)
  PROVE  CallsInv' /\ ContentInv'
  <1>0. c \in Calls /\ c.file \in Files /\ c.run \in Runs
    BY TypeOfParts DEF TypeOK
  <1> DEFINE d == [c EXCEPT !.pc = "storing"]
  <1>1. /\ d.run = c.run /\ d.file = c.file /\ d.total = c.total /\ d.overwrite = c.overwrite
        /\ d.chunk = c.chunk /\ d.pc = "storing"
    BY <1>0, UpdateFields
  <1>2. Follows(c, d)
    BY <1>1 DEF Follows, Create, GoesTo
  <1> HIDE DEF d
  <1>3. Touches(c)
    BY <1>0 DEF Touches, Create, TypeOK
  <1>4. c.chunk = 0 /\ c.chunk <= c.total
    BY TotalType DEF Create, ContentInv
  <1>5. disk'[c.file] = FirstChunks(c.run, 1)
    BY <1>0, <1>4, FirstChunksNext DEF Create, TypeOK
  <1>6. ContentOf(d)'
    BY <1>1, <1>4, <1>5 DEF ContentOf
  <1> QED
    BY <1>1, <1>2, <1>3, <1>6, CallStep, QuietClient DEF Create

LEMMA AppendContent ==
  ASSUME TypeOK, OldInv, CallsInv, ContentInv, NEW c \in calls, AppendChunk(c)
  PROVE  CallsInv' /\ ContentInv'
  <1>0. c \in Calls /\ c.file \in Files /\ c.run \in Runs /\ c.chunk \in 0..MaxChunk
    BY TypeOfParts DEF TypeOK
  <1> DEFINE d == [c EXCEPT !.pc = "storing"]
  <1>1. /\ d.run = c.run /\ d.file = c.file /\ d.total = c.total /\ d.overwrite = c.overwrite
        /\ d.chunk = c.chunk /\ d.pc = "storing"
    BY <1>0, UpdateFields
  <1>2. Follows(c, d)
    BY <1>1 DEF Follows, AppendChunk, GoesTo
  <1> HIDE DEF d
  <1>3. Touches(c)
    BY <1>0 DEF Touches, AppendChunk, TypeOK
  <1>4. ASSUME Sole(c.file, c.run)' PROVE ContentOf(d)'
    <2>1. writers[c.file] # {}
      BY DEF OldInv, OldCall, AppendChunk
    <2>2. writers'[c.file] = writers[c.file] \cup {c.run} /\ disturbed' = disturbed
      BY <1>0 DEF AppendChunk, TypeOK
    <2>3. Sole(c.file, c.run)
      BY <1>4, <2>1, <2>2 DEF Sole
    <2>4. Stored(c, c.chunk)
      BY <2>3 DEF ContentInv, ContentOf, AppendChunk
    <2>5. c.chunk <= c.total /\ c.total \in Nat /\ disk[c.file] = FirstChunks(c.run, c.chunk)
      BY <2>4, TotalType DEF Stored
    <2>6. disk[c.file] # None
      BY <1>0, <2>5, FirstChunksNext, NoneAssumption
    <2>7. disk'[c.file] = disk[c.file] \o <<<<c.run, c.chunk>>>>
      BY <1>0, <2>5, <2>6 DEF AppendChunk, TypeOK
    <2>8. disk'[c.file] = FirstChunks(c.run, c.chunk + 1)
      BY <1>0, <2>5, <2>7, FirstChunksNext
    <2> QED
      BY <1>1, <2>5, <2>8 DEF ContentOf
  <1> QED
    BY <1>1, <1>2, <1>3, <1>4, CallStep, QuietClient DEF AppendChunk

LEMMA StoreContent ==
  ASSUME TypeOK, OldInv, CallsInv, ContentInv, NEW c \in calls, Store(c)
  PROVE  CallsInv' /\ ContentInv'
  <1>0. c \in Calls /\ c.file \in Files /\ c.run \in Runs /\ c.chunk \in 0..MaxChunk
    BY TypeOfParts DEF TypeOK
  <1> DEFINE pc == IF c.chunk = c.total THEN "created" ELSE "next"
             d == [c EXCEPT !.pc = pc, !.expected = After(c.chunk)]
  <1>1. /\ d.run = c.run /\ d.file = c.file /\ d.total = c.total /\ d.overwrite = c.overwrite
        /\ d.chunk = c.chunk /\ d.expected = After(c.chunk) /\ d.pc = pc
    BY <1>0, UpdateFields
  <1>2. Follows(c, d)
    BY <1>1 DEF Follows, Store
  <1> HIDE DEF d
  <1>3. Touches(c)
    BY <1>0 DEF Touches, Store, TypeOK
  <1>4. ASSUME Sole(c.file, c.run)' PROVE ContentOf(d)'
    <2>1. writers[c.file] # {}
      BY DEF OldInv, OldCall, Store
    <2>2. writers'[c.file] = writers[c.file] \cup {c.run} /\ disturbed' = disturbed
      BY <1>0 DEF Store, TypeOK
    <2>3. Sole(c.file, c.run)
      BY <1>4, <2>1, <2>2 DEF Sole
    <2>4. c.chunk <= c.total /\ disk[c.file] = FirstChunks(c.run, c.chunk + 1)
      BY <2>3 DEF ContentInv, ContentOf, Store
    <2>5. c.total \in Nat /\ After(c.chunk) = c.chunk + 1
      BY <1>0, <2>4, TotalType DEF After
    <2>6. disk' = disk
      BY DEF Store
    <2>7. CASE c.chunk = c.total
      BY <1>1, <2>4, <2>6, <2>7 DEF ContentOf
    <2>8. CASE c.chunk # c.total
      <3>1. expected'[c.file] = c.chunk + 1
        BY <1>0, <2>5, <2>8 DEF Store, TypeOK
      <3>2. c.chunk + 1 \in 1..c.total
        BY <1>0, <2>4, <2>5, <2>8
      <3>3. Stored(d, d.expected)'
        BY <1>1, <2>4, <2>5, <2>6, <3>1, <3>2 DEF Stored
      <3> QED
        BY <1>1, <2>8, <3>3 DEF ContentOf
    <2> QED
      BY <2>7, <2>8
  <1> QED
    BY <1>1, <1>2, <1>3, <1>4, CallStep, QuietClient DEF Store

LEMMA HandleContent ==
  ASSUME TypeOK, OldInv, CallsInv, ContentInv, NEW c \in calls,
         Handle(c) \/ Crash(c) \/ BadRequest(c)
  PROVE  CallsInv' /\ ContentInv'
  <1>1. CASE AskForOther(c)
    BY <1>1, QuietStep DEF AskForOther
  <1>2. CASE Refuse(c)
    BY <1>2, QuietStep DEF Refuse
  <1>3. CASE Accept(c)
    <2>1. CASE c.chunk = 0
      BY <1>3, <2>1, QuietStep DEF Accept
    <2>2. CASE c.chunk # 0
      BY <1>3, <2>2, QuietStep DEF Accept
    <2> QED
      BY <2>1, <2>2
  <1>4. CASE Discard(c)
    BY <1>4, FewerCalls DEF Discard
  <1>5. CASE Crash(c) \/ BadRequest(c)
    BY <1>5, QuietStep DEF Crash, BadRequest
  <1> QED
    BY <1>1, <1>2, <1>3, <1>4, <1>5, LookupContent, StartOverContent, DeleteContent,
       CreateContent, AppendContent, StoreContent DEF Handle

-----------------------------------------------------------------------------
(* The client, and what goes wrong                                         *)

LEMMA SettleContent ==
  ASSUME TypeOK, CallsInv, ContentInv, NEW t \in Tabs, NEW c \in calls, IsAwaited(c, t),
         NEW outcome, NEW others, others \subseteq calls,
         outcome = "complete" => c.pc = "created",
         Settle(t, c, outcome, others), UNCHANGED serverVars
  PROVE  ContentInv'
  <1>0. c.file \in Files /\ c.run = RunOf(t)
    BY TypeOfParts DEF IsAwaited, RunOf
  <1>1. /\ UNCHANGED <<disk, expected, writers, disturbed, run>>
        /\ \A u \in Tabs : RunOf(u)' = RunOf(u)
    BY DEF Settle, serverVars, RunOf
  <1>2. ASSUME NEW e \in calls', e \notin calls
        PROVE  ~Sole(e.file, e.run)' /\ e.pc = "sent"
    <2>1. /\ Len(queue[t]) > 1 /\ e.run = c.run /\ e.file = queue[t][2] /\ e.pc = "sent"
      BY <1>2 DEF Settle, Request
    <2>2. RunOf(t) \notin writers[queue[t][2]]
      <3>1. 2 \in 2..Len(queue[t])
        BY <2>1 DEF TypeOK
      <3> QED
        BY <3>1 DEF CallsInv, NotBegun
    <2> QED
      BY <1>0, <1>1, <2>1, <2>2 DEF Sole
  <1>3. \A e \in calls' : e.pc \in {"deleting", "creating"} => e.chunk = 0
    BY <1>2 DEF ContentInv
  <1>4. ASSUME NEW e \in calls', Sole(e.file, e.run)' PROVE ContentOf(e)'
    <2>1. e \in calls
      BY <1>2, <1>4
    <2>2. Sole(e.file, e.run)
      BY <1>1, <1>4 DEF Sole
    <2> QED
      BY <1>1, <2>1, <2>2 DEF ContentInv, ContentOf, Stored
  <1>5. ASSUME NEW u \in Tabs, NEW f \in Files, status'[u][f] = "complete", Sole(f, RunOf(u))'
        PROVE  \E total \in Totals : disk'[f] = FirstChunks(RunOf(u)', total + 1)
    <2>1. Sole(f, RunOf(u))
      BY <1>1, <1>5 DEF Sole
    <2>2. CASE u = t /\ f = c.file
      <3>1. c.pc = "created"
        BY <1>0, <1>5, <2>2 DEF Settle, TypeOK
      <3>2. disk[f] = FirstChunks(RunOf(u), c.total + 1)
        BY <1>0, <2>1, <2>2, <3>1 DEF ContentInv, ContentOf
      <3> QED
        BY <1>1, <3>2, TotalType
    <2>3. CASE ~(u = t /\ f = c.file)
      <3>1. status[u][f] = "complete"
        BY <1>0, <1>5, <2>3 DEF Settle, TypeOK
      <3> QED
        BY <1>1, <2>1, <3>1 DEF ContentInv
    <2> QED
      BY <2>2, <2>3
  <1> QED
    BY <1>3, <1>4, <1>5 DEF ContentInv

LEMMA ReceiveContent ==
  ASSUME TypeOK, CallsInv, ContentInv, NEW t \in Tabs, NEW c \in calls,
         Receive(t, c) \/ LoseConnection(t, c)
  PROVE  CallsInv' /\ ContentInv'
  <1>0. c.expected \in Nat /\ IsAwaited(c, t) /\ UNCHANGED serverVars
    BY TypeOfParts DEF Receive, LoseConnection
  <1>1. ASSUME NEW outcome, NEW others, others \subseteq calls,
               outcome = "complete" => others = calls \ {c} /\ c.pc = "created",
               Settle(t, c, outcome, others)
        PROVE  CallsInv' /\ ContentInv'
    BY <1>0, <1>1, SettleCalls, SettleContent DEF serverVars
  <1>2. ASSUME NEW n, c.pc \in {"next", "range"}, SendNext(t, c, c.expected, n)
        PROVE  CallsInv' /\ ContentInv'
    <2>1. CASE n > MaxTries
      BY <1>1, <1>2, <2>1 DEF SendNext
    <2>2. CASE ~(n > MaxTries)
      <3> DEFINE d == Request(c.run, c.file, c.expected, n, c.total, c.overwrite)
      <3>1. /\ d.run = c.run /\ d.file = c.file /\ d.total = c.total /\ d.chunk = c.expected
            /\ d.overwrite = c.overwrite /\ d.pc = "sent"
        BY DEF Request
      <3>2. Follows(c, d) /\ UNCHANGED clientVars
        BY <1>2, <2>2, <3>1 DEF Follows, Becomes, SendNext
      <3> HIDE DEF d
      <3>3. ASSUME Sole(c.file, c.run)' PROVE ContentOf(d)'
        <4>1. Sole(c.file, c.run)
          BY <1>0, <3>3 DEF Sole, serverVars
        <4>2. PICK k \in 1..c.total : Stored(c, k) /\ c.expected \in {0, k}
          BY <1>2, <4>1 DEF ContentInv, ContentOf, Stored
        <4>3. Stored(d, k)'
          BY <1>0, <3>1, <4>2 DEF Stored, serverVars
        <4> QED
          BY <3>1, <4>2, <4>3 DEF ContentOf
      <3> QED
        BY <1>0, <3>1, <3>2, <3>3, CallStep, QuietClient
    <2> QED
      BY <2>1, <2>2
  <1>3. CASE Ignore(t, c)
    <2> DEFINE d == [c EXCEPT !.pc = "ignored"]
    <2>0. c \in Calls /\ c.file \in Files
      BY TypeOfParts DEF TypeOK
    <2>1. /\ d.run = c.run /\ d.file = c.file /\ d.total = c.total /\ d.overwrite = c.overwrite
          /\ d.pc = "ignored" /\ d.chunk = c.chunk /\ d.expected = c.expected
      BY <2>0, UpdateFields
    <2>2. Follows(c, d)
      BY <1>3, <2>1 DEF Ignore, Follows, Becomes
    <2>3. Waiting
      BY <1>3, <2>0 DEF Ignore, Waiting, TypeOK
    <2> HIDE DEF d
    <2>4. ASSUME Sole(c.file, c.run)' PROVE ContentOf(d)'
      <3>1. ContentOf(c)
        BY <1>0, <2>4 DEF Sole, serverVars, ContentInv
      <3> QED
        BY <1>0, <2>1, <3>1 DEF ContentOf, Stored, serverVars
    <2> QED
      BY <1>0, <2>1, <2>2, <2>3, <2>4, CallStep
  <1> QED
    BY <1>1, <1>2, <1>3 DEF Receive, LoseConnection

LEMMA DropContent ==
  ASSUME TypeOK, CallsInv, ContentInv, NEW t \in Tabs, NEW total \in Totals,
         NEW overwrite \in BOOLEAN, NEW fs \in Drops[t], Drop(t, fs, total, overwrite)
  PROVE  ContentInv'
  <1> DEFINE new == Request(<<t, run[t] + 1>>, Head(fs), 0, 0, total, overwrite)
  <1>1. UNCHANGED <<disk, expected, writers, disturbed>> /\ calls' = calls \cup {new}
    BY DEF Drop, serverVars
  <1>2. new.run = <<t, run[t] + 1>> /\ new.file \in Files /\ new.pc = "sent"
    BY DropsAssumption, TailOf DEF Request
  <1>3. \A f \in Files : <<t, run[t] + 1>> \notin writers[f]
    BY DEF CallsInv, KnownRuns, TypeOK
  <1>4. /\ \A u \in Tabs : u # t => status'[u] = status[u] /\ RunOf(u)' = RunOf(u)
        /\ \A f \in Files : status'[t][f] # "complete"
    BY DEF Drop, TypeOK, RunOf
  <1> HIDE DEF new
  <1>5. ASSUME NEW e \in calls', Sole(e.file, e.run)' PROVE ContentOf(e)'
    <2>1. e \in calls /\ Sole(e.file, e.run)
      BY <1>1, <1>2, <1>3, <1>5 DEF Sole
    <2> QED
      BY <1>1, <2>1 DEF ContentInv, ContentOf, Stored
  <1>6. ASSUME NEW u \in Tabs, NEW f \in Files, status'[u][f] = "complete", Sole(f, RunOf(u))'
        PROVE  \E n \in Totals : disk'[f] = FirstChunks(RunOf(u)', n + 1)
    <2>1. u # t
      BY <1>4, <1>6
    <2>2. Sole(f, RunOf(u)) /\ status[u][f] = "complete" /\ RunOf(u)' = RunOf(u)
      BY <1>1, <1>4, <1>6, <2>1 DEF Sole
    <2> QED
      BY <1>1, <2>2 DEF ContentInv
  <1>7. \A e \in calls' : e.pc \in {"deleting", "creating"} => e.chunk = 0
    BY <1>1, <1>2 DEF ContentInv
  <1> QED
    BY <1>5, <1>6, <1>7 DEF ContentInv

LEMMA LeaveContent ==
  ASSUME TypeOK, CallsInv, ContentInv, NEW t \in Tabs, Leave(t)
  PROVE  CallsInv' /\ ContentInv'
  <1>1. /\ UNCHANGED <<run, calls, disk, expected, writers, disturbed>>
        /\ \A u \in Tabs : RunOf(u)' = RunOf(u)
        /\ \A u \in Tabs : u # t => queue'[u] = queue[u] /\ status'[u] = status[u]
        /\ queue'[t] = <<>> /\ \A f \in Files : status'[t][f] = "none"
    BY DEF Leave, serverVars, RunOf, TypeOK
  <1>2. \A u \in Tabs : IsInjective(queue[u])'
    BY <1>1 DEF CallsInv, IsInjective
  <1>3. NotBegun'
    <2> SUFFICES ASSUME NEW u \in Tabs, NEW i \in 2..Len(queue'[u])
                 PROVE  /\ \A e \in calls : e.run = RunOf(u) => e.file # queue'[u][i]
                        /\ RunOf(u) \notin writers[queue'[u][i]]
      BY <1>1 DEF NotBegun
    <2>1. u # t
      BY <1>1
    <2> QED
      BY <1>1, <2>1 DEF CallsInv, NotBegun
  <1>4. ShownLast'
    <2> SUFFICES ASSUME NEW u \in Tabs
                 PROVE  /\ \A i \in DOMAIN queue'[u] : status'[u][queue'[u][i]] # "complete"
                        /\ \A e \in calls : e.run = RunOf(u) => status'[u][e.file] # "complete"
      BY <1>1 DEF ShownLast
    <2>1. CASE u = t
      BY <1>1, <2>1, TypeOfParts
    <2>2. CASE u # t
      BY <1>1, <2>2 DEF CallsInv, ShownLast
    <2> QED
      BY <2>1, <2>2
  <1>5. OneCall' /\ KnownRuns'
    BY <1>1 DEF CallsInv, OneCall, KnownRuns
  <1>6. ContentInv'
    <2>1. ASSUME NEW e \in calls, Sole(e.file, e.run)' PROVE ContentOf(e)'
      BY <1>1, <2>1 DEF ContentInv, ContentOf, Stored, Sole
    <2>2. ASSUME NEW u \in Tabs, NEW f \in Files, status'[u][f] = "complete",
                 Sole(f, RunOf(u))'
          PROVE  \E total \in Totals : disk'[f] = FirstChunks(RunOf(u)', total + 1)
      <3>1. u # t
        BY <1>1, <2>2
      <3>2. Sole(f, RunOf(u)) /\ status[u][f] = "complete"
        BY <1>1, <2>2, <3>1 DEF Sole
      <3> QED
        BY <1>1, <3>2 DEF ContentInv
    <2> QED
      BY <1>1, <2>1, <2>2 DEF ContentInv
  <1> QED
    BY <1>2, <1>3, <1>4, <1>5, <1>6 DEF CallsInv

LEMMA RestartContent ==
  ASSUME TypeOK, CallsInv, ContentInv, Restart
  PROVE  CallsInv' /\ ContentInv'
  <1>1. \A e \in calls' : \E c \in calls :
            /\ e.run = c.run /\ e.file = c.file
            /\ \/ e = c /\ c.pc \notin Handling
               \/ e = [c EXCEPT !.pc = "failed"] /\ e.pc = "failed"
    BY DEF Restart, TypeOK, Calls
  <1>2. /\ UNCHANGED <<queue, status, run, disk, writers, disturbed>>
        /\ \A f \in Files : expected'[f] = None
        /\ \A u \in Tabs : RunOf(u)' = RunOf(u)
    BY DEF Restart, clientVars, RunOf
  <1>3. OneCall'
    <2> DEFINE Failed(c) == IF c.pc \in Handling THEN [c EXCEPT !.pc = "failed"] ELSE c
    <2>1. \A c \in calls : Failed(c).run = c.run /\ Failed(c).file = c.file
      BY DEF TypeOK, Calls
    <2>2. calls' = {Failed(c) : c \in calls}
      BY DEF Restart
    <2> HIDE DEF Failed
    <2> QED
      BY <2>1, <2>2 DEF CallsInv, OneCall
  <1>4. KnownRuns'
    BY <1>1, <1>2 DEF CallsInv, KnownRuns
  <1>5. NotBegun' /\ ShownLast'
    BY <1>1, <1>2 DEF CallsInv, NotBegun, ShownLast
  <1>6. \A u \in Tabs : IsInjective(queue[u])'
    BY <1>2 DEF CallsInv
  <1>7. ASSUME NEW e \in calls', Sole(e.file, e.run)' PROVE ContentOf(e)'
    <2>1. CASE e.pc = "failed"
      BY <2>1 DEF ContentOf
    <2>2. CASE e \in calls /\ e.pc \notin Handling
      <3>1. e.file \in Files /\ Sole(e.file, e.run)
        BY <1>2, <1>7, <2>2, TypeOfParts DEF Sole
      <3>2. ContentOf(e)
        BY <2>2, <3>1 DEF ContentInv
      <3> QED
        BY <1>2, <2>2, <3>1, <3>2 DEF ContentOf, Stored, Handling
    <2> QED
      BY <1>1, <2>1, <2>2
  <1>8. \A e \in calls' : e.pc \in {"deleting", "creating"} => e.chunk = 0
    BY <1>1 DEF Handling
  <1>9. ASSUME NEW u \in Tabs, NEW f \in Files, status'[u][f] = "complete", Sole(f, RunOf(u))'
        PROVE  \E total \in Totals : disk'[f] = FirstChunks(RunOf(u)', total + 1)
    <2>1. Sole(f, RunOf(u)) /\ status[u][f] = "complete"
      BY <1>2, <1>9 DEF Sole
    <2> QED
      BY <1>2, <2>1 DEF ContentInv
  <1> QED
    BY <1>3, <1>4, <1>5, <1>6, <1>7, <1>8, <1>9 DEF CallsInv, ContentInv

LEMMA RemoveContent ==
  ASSUME TypeOK, CallsInv, ContentInv, NEW g \in Files, RemoveFile(g)
  PROVE  CallsInv' /\ ContentInv'
  <1>1. /\ UNCHANGED <<queue, status, run, calls, expected, writers>>
        /\ \A u \in Tabs : RunOf(u)' = RunOf(u)
        /\ \A f \in Files, r \in Runs : Sole(f, r)' => Sole(f, r) /\ disk'[f] = disk[f]
    BY DEF RemoveFile, clientVars, RunOf, Sole, TypeOK
  <1>2. CallsInv'
    BY <1>1 DEF CallsInv, OneCall, KnownRuns, NotBegun, ShownLast, RunOf
  <1>3. ASSUME NEW e \in calls, Sole(e.file, e.run)' PROVE ContentOf(e)'
    <2>1. e.file \in Files /\ e.run \in Runs
      BY TypeOfParts
    <2> QED
      BY <1>1, <1>3, <2>1 DEF ContentInv, ContentOf, Stored
  <1>4. ASSUME NEW u \in Tabs, NEW f \in Files, status'[u][f] = "complete", Sole(f, RunOf(u))'
        PROVE  \E total \in Totals : disk'[f] = FirstChunks(RunOf(u)', total + 1)
    <2>1. writers[f] = {RunOf(u)} /\ RunOf(u) \in Runs
      BY <1>1, <1>4 DEF Sole, TypeOK
    <2>2. Sole(f, RunOf(u)) /\ disk'[f] = disk[f]
      BY <1>1, <1>4, <2>1 DEF Sole
    <2> QED
      BY <1>1, <1>4, <2>2 DEF ContentInv
  <1> QED
    BY <1>1, <1>2, <1>3, <1>4 DEF ContentInv

LEMMA NextContent ==
  TypeOK /\ OldInv /\ CallsInv /\ ContentInv /\ [Next]_vars => CallsInv' /\ ContentInv'
  <1> SUFFICES ASSUME TypeOK, OldInv, CallsInv, ContentInv, [Next]_vars
               PROVE  CallsInv' /\ ContentInv'
    OBVIOUS
  <1>1. CASE UNCHANGED vars
    BY <1>1, FewerCalls DEF vars
  <1> QED
    BY <1>1, HandleContent, ReceiveContent, DropCalls, DropContent, LeaveContent,
       RestartContent, RemoveContent DEF Next, Handle

LEMMA InitContent == Init => CallsInv /\ ContentInv
  <1> SUFFICES ASSUME Init PROVE CallsInv /\ ContentInv
    OBVIOUS
  <1>1. \A t \in Tabs : queue[t] = <<>> /\ \A f \in Files : status[t][f] = "none"
    BY DEF Init
  <1> QED
    BY <1>1 DEF Init, CallsInv, OneCall, KnownRuns, NotBegun, ShownLast, ContentInv, IsInjective

\* A file that a tab shows as complete, and in which no other run had a hand since
\* the run began with it, holds every chunk of it once and in order.
THEOREM CompleteFilesAreWhole == Spec => []CompleteIsWhole
  <1>1. TypeOK /\ ContentInv => CompleteIsWhole
    BY DEF ContentInv, CompleteIsWhole, Whole, FirstChunks, Sole, RunOf
  <1>2. Init => TypeOK /\ OldInv /\ CallsInv /\ ContentInv
    BY InitType, InitOld, InitContent
  <1>3. TypeOK /\ OldInv /\ CallsInv /\ ContentInv /\ [Next]_vars
            => (TypeOK /\ OldInv /\ CallsInv /\ ContentInv)'
    BY NextType, NextOld, NextContent
  <1> QED
    BY <1>1, <1>2, <1>3, PTL DEF Spec

==============================================================================
