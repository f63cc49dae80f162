-------------------------- MODULE SharedContext_proofs --------------------------
(***************************************************************************)
(* What the Sanic worker processes share: the dictionary of the download   *)
(* manager and the claim on the perpetual loops.                           *)
(*                                                                         *)
(* The dictionary, for any number of workers that overlap and die: a       *)
(* write changes what it is meant to change, and any other download it     *)
(* touches is one whose update it undid.  For the rest, every handler's    *)
(* updates come one after the other in its own process, so that what it    *)
(* has added is listed while it runs and gone when it ends.                *)
(*                                                                         *)
(* The owner of the loops, for any number of worker processes: no two      *)
(* processes run them as long as none is blocked or slow to stop.  The     *)
(* heartbeat gets stale only when its owner is dead or suspect; so whoever *)
(* loses the claim has no loops any more, or is suspect.                   *)
(***************************************************************************)
EXTENDS PerpetualOwner, SharedDownloadData, TLAPS

-----------------------------------------------------------------------------
(* The shared dictionary                                                   *)

\* The step of its handler that each kind of update belongs to.
InStep(kind, step) ==
    /\ kind = "add" => step \in {"idle", "lost"}
    /\ kind = "progress" => step = "running"
    /\ kind = "delete" => step \in {"running", "finally"}
    /\ kind = "unkill" => step \in {"running", "unkill"}
    /\ kind = "clear" => step = "cleanup"

\* A handler's updates are made in its own process, and so one at a time.
Ordered ==
    \A w \in Workers : op[w] # NoOp =>
        /\ InStep(op[w].kind, stage[op[w].download])
        /\ op[w].kind # "kill" => home[op[w].download] = w

Cleaned ==
    \A d \in Downloads \ undone :
        /\ stage[d] = "running" => d \in data.processing
        /\ stage[d] \in {"idle", "cleanup"} => d \notin data.processing
        /\ stage[d] = "idle" => d \notin data.progress

SharedInv == SharedTypeOK /\ Ordered /\ Cleaned

-----------------------------------------------------------------------------

LEMMA WrittenType ==
  ASSUME SharedTypeOK, NEW o \in Updates
  PROVE  Written(o) \in Data
  BY DEF SharedTypeOK, Written, Change, Edited, Updates, Data

LEMMA AfterType ==
  ASSUME NEW kind \in Kinds, NEW step \in Stages
  PROVE  After(kind, step) \in Stages
  BY DEF After, Stages, Kinds

LEMMA ReadType ==
  ASSUME SharedTypeOK, NEW w \in Workers, NEW kind \in Kinds, NEW d \in Downloads,
         Read(w, kind, d), stage' = stage, home' \in [Downloads -> Workers]
  PROVE  SharedTypeOK'
  <1>1. [kind |-> kind, download |-> d, seen |-> Copied(kind)] \in Updates
    BY DEF Updates, SharedTypeOK, Copied, Data
  <1> QED
    BY <1>1 DEF SharedTypeOK, Read

\* The dictionary, the updates in progress and the handlers keep their types,
\* however the updates of any number of workers overlap.
THEOREM SharedTypeCorrect == SharedSpec => []SharedTypeOK
  <1>1. SharedInit => SharedTypeOK
    BY DEF SharedInit, SharedTypeOK, Data, Updates, Stages
  <1>2. SharedTypeOK /\ [SharedNext]_sharedVars => SharedTypeOK'
    <2> SUFFICES ASSUME SharedTypeOK, [SharedNext]_sharedVars PROVE SharedTypeOK'
      OBVIOUS
    <2> USE DEF Kinds
    <2>1. ASSUME NEW w \in Workers, NEW d \in Downloads, Dispatch(w, d) PROVE SharedTypeOK'
      <3>1. home' \in [Downloads -> Workers]
        BY <2>1 DEF Dispatch, SharedTypeOK
      <3> QED
        BY <2>1, <3>1, ReadType DEF Dispatch
    <2>2. ASSUME NEW d \in Downloads, Run(d) \/ End(d) PROVE SharedTypeOK'
      <3>1. home[d] \in Workers /\ home' \in [Downloads -> Workers]
        BY <2>2 DEF Run, End, SharedTypeOK
      <3> QED
        BY <2>2, <3>1, ReadType DEF Run, End
    <2>3. ASSUME NEW d \in Downloads, Fail(d) PROVE SharedTypeOK'
      BY <2>3 DEF Fail, SharedTypeOK, Stages
    <2>4. ASSUME NEW w \in Workers, NEW d \in Downloads, Kill(w, d) PROVE SharedTypeOK'
      <3>1. home' \in [Downloads -> Workers]
        BY <2>4 DEF Kill, SharedTypeOK
      <3> QED
        BY <2>4, <3>1, ReadType DEF Kill
    <2>5. ASSUME NEW w \in Workers, Write(w) PROVE SharedTypeOK'
      <3>1. op[w] \in Updates
        BY <2>5 DEF Write, SharedTypeOK
      <3>2. Written(op[w]) \in Data
        BY <3>1, WrittenType
      <3>3. After(op[w].kind, stage[op[w].download]) \in Stages
        BY <3>1, AfterType DEF Updates, SharedTypeOK
      <3> QED
        BY <2>5, <3>1, <3>2, <3>3 DEF Write, SharedTypeOK, Updates, Undone
    <2>6. ASSUME NEW w \in Workers, WorkerDies(w) PROVE SharedTypeOK'
      BY <2>6 DEF WorkerDies, SharedTypeOK, Stages
    <2>7. CASE UNCHANGED sharedVars
      BY <2>7 DEF sharedVars, SharedTypeOK
    <2> QED
      BY <2>1, <2>2, <2>3, <2>4, <2>5, <2>6, <2>7 DEF SharedNext
  <1> QED
    BY <1>1, <1>2, PTL DEF SharedSpec

-----------------------------------------------------------------------------

LEMMA SharedInitInv == SharedInit => SharedInv
  BY DEF SharedInit, SharedInv, SharedTypeOK, Ordered, Cleaned, Data, Stages

\* A step that leaves the dictionary and the handlers alone: it starts an update.
LEMMA ReadInv ==
  ASSUME SharedInv, SharedTypeOK', NEW w \in Workers, NEW kind \in Kinds, NEW d \in Downloads,
         Read(w, kind, d), stage' = stage, InStep(kind, stage[d]),
         kind # "kill" => home'[d] = w,
         \A v \in Workers : op[v] # NoOp /\ op[v].kind # "kill" =>
            home'[op[v].download] = home[op[v].download]
  PROVE  SharedInv'
  <1>1. Cleaned'
    BY DEF SharedInv, Cleaned, Read
  <1>2. Ordered'
    <2> SUFFICES ASSUME NEW v \in Workers, op'[v] # NoOp
                 PROVE  /\ InStep(op'[v].kind, stage[op'[v].download])
                        /\ op'[v].kind # "kill" => home'[op'[v].download] = v
      BY DEF Ordered
    <2>1. CASE v = w
      BY <2>1 DEF Read, SharedInv, SharedTypeOK
    <2>2. CASE v # w
      BY <2>2 DEF Read, SharedInv, SharedTypeOK, Ordered
    <2> QED
      BY <2>1, <2>2
  <1> QED
    BY <1>1, <1>2 DEF SharedInv

\* An exception while no update of that handler is on its way.
LEMMA FailInv ==
  ASSUME SharedInv, SharedTypeOK', NEW d \in Downloads, Fail(d)
  PROVE  SharedInv'
  <1>1. Ordered'
    <2> SUFFICES ASSUME NEW w \in Workers, op[w] # NoOp
                 PROVE  InStep(op[w].kind, stage'[op[w].download])
      BY DEF Ordered, SharedInv, Fail
    <2>1. op[w].download = d => op[w].kind = "kill"
      BY DEF Fail, Between
    <2> QED
      BY <2>1 DEF SharedInv, SharedTypeOK, Ordered, Fail, InStep, Updates
  <1>2. Cleaned'
    BY DEF SharedInv, SharedTypeOK, Fail, Cleaned
  <1> QED
    BY <1>1, <1>2 DEF SharedInv

\* A process dies: its updates and its handlers go together.
LEMMA DieInv ==
  ASSUME SharedInv, SharedTypeOK', NEW w \in Workers, WorkerDies(w)
  PROVE  SharedInv'
  <1>1. Ordered'
    <2> SUFFICES ASSUME NEW v \in Workers, op'[v] # NoOp
                 PROVE  /\ InStep(op[v].kind, stage'[op[v].download])
                        /\ op[v].kind # "kill" => home[op[v].download] = v
                        /\ op'[v] = op[v]
      BY DEF Ordered, WorkerDies
    <2>1. v # w /\ op[v] = op'[v] /\ op[v] \in Updates
      BY DEF WorkerDies, SharedInv, SharedTypeOK
    <2>2. CASE op[v].kind = "kill"
      BY <2>1, <2>2 DEF InStep
    <2>3. CASE op[v].kind # "kill"
      <3>1. home[op[v].download] = v
        BY <2>1, <2>3 DEF SharedInv, Ordered
      <3>2. stage'[op[v].download] = stage[op[v].download]
        BY <2>1, <3>1 DEF WorkerDies, Updates
      <3> QED
        BY <2>1, <3>1, <3>2 DEF SharedInv, Ordered
    <2> QED
      BY <2>1, <2>2, <2>3 DEF SharedInv, Ordered
  <1>2. Cleaned'
    BY DEF SharedInv, SharedTypeOK, WorkerDies, Cleaned
  <1> QED
    BY <1>1, <1>2 DEF SharedInv

\* What a write does to the downloads it does not undo.
LEMMA WriteInv ==
  ASSUME SharedInv, SharedTypeOK', NEW w \in Workers, Write(w)
  PROVE  SharedInv'
  <1> DEFINE o == op[w]
             once == Change(o.kind, o.download, data)
  <1>1. o \in Updates /\ InStep(o.kind, stage[o.download])
    BY DEF Write, SharedInv, SharedTypeOK, Ordered
  <1>2. stage'[o.download] = After(o.kind, stage[o.download])
    BY <1>1 DEF Write, SharedInv, SharedTypeOK, Updates
  <1>3. Ordered'
    <2> SUFFICES ASSUME NEW v \in Workers, v # w, op[v] # NoOp
                 PROVE  InStep(op[v].kind, stage'[op[v].download])
      BY DEF Ordered, Write, SharedInv, SharedTypeOK
    <2>1. op[v] \in Updates /\ InStep(op[v].kind, stage[op[v].download])
      BY DEF SharedInv, SharedTypeOK, Ordered
    <2>2. CASE op[v].kind = "kill"
      BY <2>2 DEF InStep
    <2>3. CASE op[v].kind # "kill" /\ op[v].download = o.download
      <3>1. o.kind = "kill"
        BY <2>3 DEF SharedInv, Ordered, Write
      <3> QED
        BY <1>2, <2>1, <2>3, <3>1 DEF After
    <2>4. CASE op[v].download # o.download
      BY <2>1, <2>4, <1>1 DEF Write, SharedInv, SharedTypeOK, Updates
    <2> QED
      BY <2>2, <2>3, <2>4
  <1>4. Cleaned'
    <2> SUFFICES ASSUME NEW d \in Downloads, d \notin undone'
                 PROVE  /\ stage'[d] = "running" => d \in data'.processing
                        /\ stage'[d] \in {"idle", "cleanup"} => d \notin data'.processing
                        /\ stage'[d] = "idle" => d \notin data'.progress
      BY DEF Cleaned
    <2>1. d \notin undone /\ d \notin Undone(o) /\ data' = Written(o)
      BY DEF Write
    <2>2. (d \in Written(o)["processing"] <=> d \in once["processing"])
          /\ (d \in Written(o)["progress"] <=> d \in once["progress"])
      BY <2>1 DEF Undone
    <2>3. (d \in data'.processing <=> d \in once.processing)
          /\ (d \in data'.progress <=> d \in once.progress)
      BY <2>1, <2>2
    <2>4. CASE d # o.download
      <3>1. stage'[d] = stage[d]
        BY <1>1, <2>4 DEF Write, SharedInv, SharedTypeOK
      <3>2. (d \in once.processing <=> d \in data.processing)
            /\ (d \in once.progress <=> d \in data.progress)
        BY <2>4 DEF Change, Edited
      <3> QED
        BY <2>1, <2>3, <3>1, <3>2 DEF SharedInv, Cleaned
    <2>5. CASE d = o.download
      BY <1>1, <1>2, <2>1, <2>3, <2>5 DEF SharedInv, SharedTypeOK, Cleaned, Change, Edited,
         After, InStep, Updates, Kinds, Stages
    <2> QED
      BY <2>4, <2>5
  <1> QED
    BY <1>3, <1>4 DEF SharedInv

LEMMA SharedNextInv == SharedTypeOK' /\ SharedInv /\ [SharedNext]_sharedVars => SharedInv'
  <1> SUFFICES ASSUME SharedTypeOK', SharedInv, [SharedNext]_sharedVars PROVE SharedInv'
    OBVIOUS
  <1> USE DEF InStep, Kinds
  <1>1. ASSUME NEW w \in Workers, NEW d \in Downloads, Dispatch(w, d) PROVE SharedInv'
    <2>1. home'[d] = w /\ \A e \in Downloads \ {d} : home'[e] = home[e]
      BY <1>1 DEF Dispatch, SharedInv, SharedTypeOK
    <2>2. \A v \in Workers : op[v] # NoOp /\ op[v].kind # "kill" =>
             op[v].download \in Downloads \ {d}
      BY <1>1 DEF Dispatch, Between, SharedInv, SharedTypeOK, Updates
    <2> QED
      BY <1>1, <2>1, <2>2, ReadInv DEF Dispatch
  <1>2. ASSUME NEW d \in Downloads, Run(d) \/ End(d) PROVE SharedInv'
    <2>1. home[d] \in Workers /\ home' = home
      BY <1>2 DEF Run, End, SharedInv, SharedTypeOK
    <2> QED
      BY <1>2, <2>1, ReadInv DEF Run, End
  <1>3. ASSUME NEW w \in Workers, NEW d \in Downloads, Kill(w, d) PROVE SharedInv'
    BY <1>3, ReadInv DEF Kill
  <1>4. CASE UNCHANGED sharedVars
    BY <1>4 DEF sharedVars, SharedInv, Ordered, Cleaned
  <1> QED
    BY <1>1, <1>2, <1>3, <1>4, FailInv, WriteInv, DieInv DEF SharedNext

LEMMA SharedInductive == SharedSpec => []SharedInv
  BY SharedInitInv, SharedNextInv, SharedTypeCorrect, PTL DEF SharedSpec

\* An ended handler leaves neither its domain nor its progress in the dictionary,
\* however many workers overlap, die and kill, except where a write of another
\* worker undid what it had done.
THEOREM EndedLeavesNothing == SharedSpec => []NothingLeftBehind
  <1>1. SharedInv => NothingLeftBehind
    BY DEF SharedInv, SharedTypeOK, Data, Cleaned, NothingLeftBehind
  <1> QED
    BY <1>1, SharedInductive, PTL

\* The domain of a download that runs is listed, with the same exception.
THEOREM RunningStaysListed == SharedSpec => []RunningIsListed
  <1>1. SharedInv => RunningIsListed
    BY DEF SharedInv, Cleaned, RunningIsListed
  <1> QED
    BY <1>1, SharedInductive, PTL

-----------------------------------------------------------------------------
(* The owner of the perpetual loops                                        *)

USE NoneIsNoProcess, LoopsCapType

ClaimIsRecorded == started = "set" <=> owner # None

StaleMeansLost ==
    heartbeat = "stale" =>
        owner # None /\ (owner \in suspect \/ pc[owner] = "dead")

SuspectsAreKnown ==
    /\ stalled \subseteq suspect
    /\ \A p \in Procs : pc[p] = "stopping" => p \in suspect

ShapeOf(p) ==
    /\ pc[p] \in {"unborn", "starting"} => owner # p
    /\ pc[p] \in {"unborn", "starting", "dead"} => loops[p] = 0

\* A process above suspicion runs the loops only as the owner, and only once.
HonestOwner ==
    \A p \in Procs \ suspect :
        /\ pc[p] \in {"dispatching", "taking"} => owner = p /\ loops[p] = 0
        /\ loops[p] > 0 => owner = p /\ loops[p] = 1

IInv ==
    /\ TypeOK
    /\ ClaimIsRecorded
    /\ StaleMeansLost
    /\ SuspectsAreKnown
    /\ \A p \in Procs : ShapeOf(p)
    /\ HonestOwner

-----------------------------------------------------------------------------

LEMMA InitInv == Init => IInv
  BY DEF Init, IInv, TypeOK, ClaimIsRecorded, StaleMeansLost, SuspectsAreKnown,
         ShapeOf, HonestOwner, Steps

\* Who loses the claim is dead or suspect.
LEMMA LoserIsLost ==
  ASSUME IInv, NEW p \in Procs, Claim(p)
  PROVE  owner # None => owner \in suspect \/ pc[owner] = "dead"
  <1>1. owner # None => ~(Running(owner) /\ heartbeat = "fresh")
    BY DEF IInv, TypeOK, ClaimIsRecorded, Claim, OwnerIsAlive
  <1>2. owner # None => pc[owner] # "unborn"
    BY DEF IInv, TypeOK, ShapeOf
  <1> QED
    BY <1>1, <1>2 DEF IInv, TypeOK, StaleMeansLost, Running

LEMMA ClaimInv ==
  ASSUME IInv, NEW p \in Procs, Claim(p), pc[p] \in {"starting", "watching"}, p \notin stalled,
         NEW step \in {"dispatching", "taking"}, Goto(p, step),
         UNCHANGED <<reused, stalled, loops, suspect, failed>>
  PROVE  IInv'
  <1>0. owner # None => owner \in suspect \/ pc[owner] = "dead"
    BY LoserIsLost
  <1> USE DEF IInv, TypeOK, Claim, Goto
  <1>1. TypeOK'
    BY DEF Steps
  <1>2. owner' = p /\ started' = "set" /\ heartbeat' = "fresh" /\ pc' = [pc EXCEPT ![p] = step]
    OBVIOUS
  <1>3. ClaimIsRecorded' /\ StaleMeansLost' /\ SuspectsAreKnown'
    BY <1>2 DEF ClaimIsRecorded, StaleMeansLost, SuspectsAreKnown
  <1>4. \A q \in Procs : ShapeOf(q)'
    BY <1>2 DEF ShapeOf
  <1>5. \A q \in Procs \ suspect : loops[q] > 0 => q = p
    BY <1>0 DEF HonestOwner, ShapeOf
  <1>6. p \notin suspect => loops[p] = 0
    <2>1. CASE pc[p] = "starting"
      BY <2>1 DEF ShapeOf
    <2>2. CASE pc[p] = "watching"
      BY <2>2, <1>0 DEF HonestOwner
    <2> QED
      BY <2>1, <2>2
  <1>7. \A q \in Procs \ suspect : pc[q] \in {"dispatching", "taking"} => q = p
    BY <1>0 DEF HonestOwner
  <1>8. HonestOwner'
    BY <1>2, <1>5, <1>6, <1>7 DEF HonestOwner
  <1> QED
    BY <1>1, <1>3, <1>4, <1>8

LEMMA NextInv == IInv /\ [Next]_vars => IInv'
  <1> SUFFICES ASSUME IInv, [Next]_vars PROVE IInv'
    OBVIOUS
  <1> USE DEF IInv, TypeOK, Steps, Goto, ClaimIsRecorded, StaleMeansLost,
              SuspectsAreKnown, ShapeOf, HonestOwner
  <1>1. ASSUME NEW p \in Procs, StartUp(p) PROVE IInv'
    <2>1. CASE Claim(p) /\ Goto(p, "dispatching")
      BY <1>1, <2>1, ClaimInv DEF StartUp
    <2>2. CASE Refused /\ Goto(p, "watching") /\ UNCHANGED <<started, owner, heartbeat>>
      BY <1>1, <2>2 DEF StartUp
    <2> QED
      BY <1>1, <2>1, <2>2 DEF StartUp
  <1>2. ASSUME NEW p \in Procs, DispatchLoops(p) PROVE IInv'
    BY <1>2 DEF DispatchLoops
  <1>13. ASSUME NEW p \in Procs, DispatchRaises(p) PROVE IInv'
    BY <1>13 DEF DispatchRaises
  <1>14. ASSUME NEW p \in Procs, LoopEnds(p) PROVE IInv'
    <2>1. loops[p] \in 1..LoopsCap /\ loops[p] - 1 \in 0..LoopsCap
      BY <1>14 DEF LoopEnds
    <2> QED
      BY <1>14, <2>1 DEF LoopEnds
  <1>3. ASSUME NEW p \in Procs, Beat(p) PROVE IInv'
    BY <1>3 DEF Beat
  <1>4. ASSUME NEW p \in Procs, TakeOver(p) PROVE IInv'
    BY <1>4, ClaimInv DEF TakeOver
  <1>5. ASSUME NEW p \in Procs, Spawn(p) PROVE IInv'
    BY <1>5 DEF Spawn
  <1>6. ASSUME NEW p \in Procs, Stall(p) PROVE IInv'
    BY <1>6 DEF Stall, Running
  <1>7. ASSUME NEW p \in Procs, Resume(p) PROVE IInv'
    BY <1>7 DEF Resume
  <1>8. ASSUME NEW p \in Procs, Stop(p) PROVE IInv'
    BY <1>8 DEF Stop
  <1>9. ASSUME NEW p \in Procs, Die(p) PROVE IInv'
    <2>1. pc' = [pc EXCEPT ![p] = "dead"] /\ loops' = [loops EXCEPT ![p] = 0]
      BY <1>9 DEF Die
    <2>2. UNCHANGED <<started, owner, heartbeat, reused, suspect>>
      BY <1>9 DEF Die
    <2>3. stalled' = stalled \ {p} /\ failed' = failed \ {p}
      BY <1>9 DEF Die
    <2>4. TypeOK'
      BY <2>1, <2>2, <2>3
    <2>5. HonestOwner'
      BY <2>1, <2>2
    <2> QED
      BY <2>1, <2>2, <2>3, <2>4, <2>5
  <1>10. ASSUME NEW p \in Procs, ReusePid(p) PROVE IInv'
    BY <1>10 DEF ReusePid
  <1>11. CASE Silence
    BY <1>11 DEF Silence
  <1>12. CASE UNCHANGED vars
    BY <1>12 DEF vars
  <1>15. ASSUME NEW p \in Procs, ProcStep(p) PROVE IInv'
    BY ONLY <1>1, <1>2, <1>3, <1>4, <1>13, <1>15 DEF ProcStep
  <1> QED
    BY ONLY <1>5, <1>6, <1>7, <1>8, <1>9, <1>10, <1>11, <1>12, <1>14, <1>15,
            [Next]_vars
    DEF Next

LEMMA Inductive == Spec => []IInv
  BY InitInv, NextInv, PTL DEF Spec

-----------------------------------------------------------------------------

\* Every variable keeps its type.
THEOREM TypeCorrect == Spec => []TypeOK
  <1>1. IInv => TypeOK
    BY DEF IInv
  <1> QED
    BY <1>1, Inductive, PTL

\* Without a blocked process, at most one runs the loops, and only once.
THEOREM OneConsumer == Spec => []OneConsumerUnlessSuspect
  <1>1. IInv => OneConsumerUnlessSuspect
    BY DEF IInv, HonestOwner, OneConsumerUnlessSuspect
  <1> QED
    BY <1>1, Inductive, PTL

================================================================================
