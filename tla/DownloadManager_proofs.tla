------------------------ MODULE DownloadManager_proofs ------------------------
(***************************************************************************)
(* Safety of the download manager for every set of rows, domains,          *)
(* dispatchers and handlers, by an inductive invariant: the types, that a  *)
(* handler which is at work has a row, that every taken domain belongs to  *)
(* a living handler, to one lost with its worker or is the empty one, and  *)
(* that every pending row is worked on or was given up.                    *)
(***************************************************************************)
EXTENDS DownloadManager, TLAPS

HandlerHasJob ==
    \A h \in Handlers : pc[h] \notin {"idle", "lost"} => job[h] \in Downloads

TypeInv == TypeOK /\ HandlerHasJob

USE DomainOfType, PerpetualIsDispatcher, BoundsType

-----------------------------------------------------------------------------
(* Types                                                                   *)

LEMMA InitTypeInv == Init => TypeInv
  BY PerpetualIsDispatcher
  DEF Init, TypeInv, TypeOK, HandlerHasJob, Statuses, Gates, Cycles, Outcomes,
      HandlerSteps

Forget == orphaned' = {d \in orphaned : status'[d] = "pending"}

LEMMA UserTypeInv == TypeInv /\ UserStep /\ Forget => TypeInv'
  <1> SUFFICES ASSUME TypeInv, UserStep, Forget PROVE TypeInv'
    OBVIOUS
  <1> USE DEF Forget
  <1> USE DEF TypeInv, TypeOK, HandlerHasJob, Renew, Drop, Statuses, dbVars,
              cycleVars, handlerVars
  <1>1. CASE \E S \in SUBSET Downloads : CreateDownloads(S)
    BY <1>1 DEF CreateDownloads
  <1>2. CASE \E d \in Editable : RecurringDownload(d)
    BY <1>2 DEF RecurringDownload
  <1>3. CASE \E d \in Editable : UpdateDownload(d)
    BY <1>3 DEF UpdateDownload
  <1>4. CASE \E d \in Downloads : RestartDownload(d)
    BY <1>4 DEF RestartDownload
  <1>5. CASE RetryDownloads
    BY <1>5 DEF RetryDownloads
  <1>6. CASE \E S \in SUBSET Downloads : DeleteDownloads(S)
    BY <1>6 DEF DeleteDownloads
  <1>7. CASE \E S \in SUBSET Downloads : ClearFinished(S)
    BY <1>7 DEF ClearFinished
  <1>8. CASE \E d \in Killable : KillFlag(d)
    BY <1>8 DEF KillFlag
  <1>9. CASE \E d \in Killable : KillCommit(d)
    BY <1>9 DEF KillCommit
  <1> QED
    BY <1>1, <1>2, <1>3, <1>4, <1>5, <1>6, <1>7, <1>8, <1>9 DEF UserStep

LEMMA PerpetualTypeInv == TypeInv /\ PerpetualStep /\ Forget => TypeInv'
  <1> SUFFICES ASSUME TypeInv, PerpetualStep, Forget PROVE TypeInv'
    OBVIOUS
  <1> USE DEF Forget
  <1> USE DEF TypeInv, TypeOK, HandlerHasJob, Renew, Drop, Statuses, dbVars,
              Cycles, handlerVars
  <1>1. CASE ScanRecurring
    BY <1>1 DEF ScanRecurring
  <1>2. CASE RenewRecurring
    BY <1>2 DEF RenewRecurring
  <1>3. CASE ScanDeferred
    BY <1>3 DEF ScanDeferred
  <1>4. CASE RenewDeferred
    BY <1>4 DEF RenewDeferred
  <1>5. CASE DeleteOld
    BY <1>5 DEF DeleteOld
  <1>6. CASE PerpetualDispatch
    BY <1>6 DEF PerpetualDispatch, Claim
  <1> QED
    BY <1>1, <1>2, <1>3, <1>4, <1>5, <1>6 DEF PerpetualStep

LEMMA DispatchTypeInv == TypeInv /\ DispatchStep /\ Forget => TypeInv'
  <1> SUFFICES ASSUME TypeInv, DispatchStep, Forget PROVE TypeInv'
    OBVIOUS
  <1> USE DEF Forget
  <1> USE DEF TypeInv, TypeOK, HandlerHasJob, dbVars, cycleVars, handlerVars
  <1>1. CASE \E k \in Dispatchers : BackgroundDispatch(k)
    BY <1>1 DEF BackgroundDispatch, Claim
  <1>2. CASE \E k \in Dispatchers, d \in Downloads, h \in Handlers : Announce(k, d, h)
    BY <1>2 DEF Announce, HandlerSteps
  <1>3. CASE \E k \in Dispatchers, d \in Downloads, h \in Handlers : AnnounceFails(k, d, h)
    BY <1>3 DEF AnnounceFails, HandlerSteps
  <1> QED
    BY <1>1, <1>2, <1>3 DEF DispatchStep

LEMMA HandlerTypeInv ==
  ASSUME NEW h \in Handlers, TypeInv, HandlerStep(h)
  PROVE  TypeInv'
  <1> USE DEF TypeInv, TypeOK, HandlerHasJob, Goto, dbVars, cycleVars
  <1>1. CASE Start(h)
    BY <1>1 DEF Start, Exists, Statuses, HandlerSteps
  <1>2. CASE NoDownloader(h)
    BY <1>2 DEF NoDownloader, GivenUp, HandlerSteps
  <1>3. CASE \E outcome \in Outcomes : Execute(h, outcome)
    BY <1>3 DEF Execute, HandlerSteps
  <1>4. CASE Cancel(h)
    BY <1>4 DEF Cancel, Outcomes, HandlerSteps
  <1>5. CASE BotBlocked(h)
    BY <1>5 DEF BotBlocked, GivenUp, Statuses, HandlerSteps
  <1>6. CASE Finish(h)
    <2>1. FinalStatus(job[h], result[h]) \in Statuses
      BY DEF FinalStatus, Statuses
    <2> QED
      BY <1>6, <2>1 DEF Finish, GivenUp, HandlerSteps
  <1>7. CASE \E S \in SUBSET Downloads : EnqueueChildren(h, S)
    BY <1>7 DEF EnqueueChildren, Renew, Statuses, HandlerSteps
  <1>8. CASE Release(h)
    BY <1>8 DEF Release, Without, HandlerSteps
  <1>9. CASE Unkill(h)
    BY <1>9 DEF Unkill, HandlerSteps
  <1>10. CASE Final(h)
    BY <1>10 DEF Final, Without, HandlerSteps
  <1> QED
    BY <1>1, <1>2, <1>3, <1>4, <1>5, <1>6, <1>7, <1>8, <1>9, <1>10 DEF HandlerStep

LEMMA RestartTypeInv == TypeInv /\ ServerRestart => TypeInv'
  BY DEF TypeInv, TypeOK, HandlerHasJob, ServerRestart, Renew, Retryable, Statuses,
         Gates, Cycles, Outcomes, HandlerSteps

LEMMA DeathTypeInv ==
  ASSUME NEW H \in SUBSET {h \in Handlers : Live(h)}, NEW K, NEW Q,
         TypeInv, WorkerDies(H, K, Q)
  PROVE  TypeInv'
  <1>1. \A h \in H : GivenUp(h) \subseteq Downloads
    BY DEF GivenUp, Live
  <1>2. orphaned' \subseteq Downloads
    BY <1>1 DEF WorkerDies, TypeInv, TypeOK
  <1>3. cycle' \in Cycles /\ due' \subseteq Downloads
    BY DEF WorkerDies, cycleVars, TypeInv, TypeOK, Cycles
  <1>4. pc' \in [Handlers -> HandlerSteps] /\ HandlerHasJob'
    BY DEF WorkerDies, TypeInv, TypeOK, HandlerHasJob, HandlerSteps
  <1> QED
    BY <1>2, <1>3, <1>4 DEF WorkerDies, dbVars, TypeInv, TypeOK

LEMMA NextTypeInv == TypeInv /\ [Next]_vars => TypeInv'
  <1> SUFFICES ASSUME TypeInv, [Next]_vars PROVE TypeInv'
    OBVIOUS
  <1>1. CASE (\E g \in Gates : SetGate(g)) /\ Forget
    BY <1>1 DEF SetGate, TypeInv, TypeOK, HandlerHasJob, dbVars, cycleVars,
         handlerVars, Forget
  <1>2. CASE UNCHANGED vars
    BY <1>2 DEF TypeInv, TypeOK, HandlerHasJob, vars
  <1>3. CASE OtherStep
    BY <1>1, <1>3, UserTypeInv, PerpetualTypeInv, DispatchTypeInv DEF OtherStep, Forget
  <1> QED
    BY <1>2, <1>3, HandlerTypeInv, DeathTypeInv, RestartTypeInv DEF Next

\* Every variable keeps its type.
THEOREM TypeCorrect == Spec => []TypeOK
  <1>1. TypeInv => TypeOK
    BY DEF TypeInv
  <1> QED
    BY <1>1, InitTypeInv, NextTypeInv, PTL DEF Spec

LEMMA TypeInvariant == Spec => []TypeInv
  BY InitTypeInv, NextTypeInv, PTL DEF Spec

-----------------------------------------------------------------------------
(* No leaked domain                                                        *)

\* The steps outside of dispatching, of handlers' ends, of deaths and restarts.
LEMMA SameEntries ==
  ASSUME NoLeakedDomain, UNCHANGED <<processing, job>>,
         processing \subseteq Handlers \X Domains,
         \A g \in Handlers : /\ pc'[g] = "lost" <=> pc[g] = "lost"
                             /\ pc'[g] = "idle" => pc[g] = "idle"
  PROVE  NoLeakedDomain'
  BY DEF NoLeakedDomain, Live

\* The slot of a new handler has no entry yet.
LEMMA AnnounceNoLeak ==
  ASSUME NEW k \in Dispatchers, NEW d \in Downloads, NEW h \in Handlers,
         TypeInv, NoLeakedDomain, Announce(k, d, h) \/ AnnounceFails(k, d, h)
  PROVE  NoLeakedDomain'
  <1> SUFFICES ASSUME NEW e \in processing'
               PROVE  \/ Live(e[1])' /\ DomainOf[job'[e[1]]] = e[2]
                      \/ pc'[e[1]] = "lost"
                      \/ e[2] = Blank
    BY DEF NoLeakedDomain
  <1>1. CASE e = <<h, DomainOf[d]>>
    BY <1>1 DEF Announce, AnnounceFails, Live, TypeInv, TypeOK
  <1>2. CASE e \in processing
    <2>1. e[1] \in Handlers /\ e[1] # h
      BY <1>2 DEF Announce, AnnounceFails, Free, TypeInv, TypeOK
    <2>2. pc'[e[1]] = pc[e[1]] /\ job'[e[1]] = job[e[1]]
      BY <2>1 DEF Announce, AnnounceFails, TypeInv, TypeOK
    <2> QED
      BY <1>2, <2>2 DEF NoLeakedDomain, Live
  <1> QED
    BY <1>1, <1>2 DEF Announce, AnnounceFails

LEMMA DeathNoLeak ==
  ASSUME NEW H \in SUBSET {h \in Handlers : Live(h)}, NEW K, NEW Q,
         TypeInv, NoLeakedDomain, WorkerDies(H, K, Q)
  PROVE  NoLeakedDomain'
  <1> SUFFICES ASSUME NEW e \in processing
               PROVE  \/ Live(e[1])' /\ DomainOf[job'[e[1]]] = e[2]
                      \/ pc'[e[1]] = "lost"
                      \/ e[2] = Blank
    BY DEF NoLeakedDomain, WorkerDies
  <1>1. e[1] \in Handlers
    BY DEF TypeInv, TypeOK
  <1>2. CASE e[1] \in H
    BY <1>1, <1>2 DEF WorkerDies
  <1>3. CASE e[1] \notin H
    BY <1>1, <1>3 DEF WorkerDies, NoLeakedDomain, Live
  <1> QED
    BY <1>2, <1>3

LEMMA HandlerNoLeak ==
  ASSUME NEW h \in Handlers, TypeInv, NoLeakedDomain, HandlerStep(h)
  PROVE  NoLeakedDomain'
  <1> USE DEF TypeInv, TypeOK, Goto
  <1>1. CASE Start(h)
    BY <1>1, SameEntries DEF Start
  <1>2. CASE NoDownloader(h)
    BY <1>2, SameEntries DEF NoDownloader
  <1>3. CASE \E outcome \in Outcomes : Execute(h, outcome)
    BY <1>3, SameEntries DEF Execute
  <1>4. CASE Cancel(h)
    BY <1>4, SameEntries DEF Cancel
  <1>5. CASE BotBlocked(h)
    BY <1>5, SameEntries DEF BotBlocked
  <1>6. CASE Finish(h)
    BY <1>6, SameEntries DEF Finish
  <1>7. CASE \E S \in SUBSET Downloads : EnqueueChildren(h, S)
    BY <1>7, SameEntries DEF EnqueueChildren
  <1>8. CASE Release(h)
    BY <1>8 DEF Release, Without, NoLeakedDomain, Live
  <1>9. CASE Unkill(h)
    BY <1>9, SameEntries DEF Unkill
  <1>10. CASE Final(h)
    \* The handler that ends takes every entry of its domain with it, unless
    \* that domain is the empty one.
    <2> SUFFICES ASSUME NEW e \in processing', e[2] # Blank
                 PROVE  \/ Live(e[1])' /\ DomainOf[job'[e[1]]] = e[2]
                        \/ pc'[e[1]] = "lost"
      BY DEF NoLeakedDomain
    <2>1. e \in processing /\ e[1] \in Handlers /\ e[2] # DomainOf[job[h]]
      BY <1>10 DEF Final, Without
    <2>2. \/ Live(e[1]) /\ DomainOf[job[e[1]]] = e[2]
          \/ pc[e[1]] = "lost"
      BY <2>1 DEF NoLeakedDomain
    <2>3. e[1] # h
      BY <1>10, <2>1, <2>2 DEF Final
    <2>4. pc'[e[1]] = pc[e[1]] /\ job'[e[1]] = job[e[1]]
      BY <1>10, <2>1, <2>3 DEF Final
    <2> QED
      BY <2>2, <2>4 DEF Live
  <1> QED
    BY <1>1, <1>2, <1>3, <1>4, <1>5, <1>6, <1>7, <1>8, <1>9, <1>10 DEF HandlerStep

LEMMA NextNoLeak == TypeInv /\ NoLeakedDomain /\ [Next]_vars => NoLeakedDomain'
  <1> SUFFICES ASSUME TypeInv, NoLeakedDomain, [Next]_vars PROVE NoLeakedDomain'
    OBVIOUS
  <1>1. CASE UserStep
    BY <1>1 DEF UserStep, CreateDownloads, RecurringDownload, UpdateDownload,
         RestartDownload, RetryDownloads, DeleteDownloads, ClearFinished, KillFlag,
         KillCommit, handlerVars, NoLeakedDomain, Live
  <1>2. CASE \E g \in Gates : SetGate(g)
    BY <1>2 DEF SetGate, handlerVars, NoLeakedDomain, Live
  <1>3. CASE PerpetualStep
    BY <1>3 DEF PerpetualStep, ScanRecurring, RenewRecurring, ScanDeferred,
         RenewDeferred, DeleteOld, PerpetualDispatch, handlerVars, NoLeakedDomain, Live
  <1>4. CASE DispatchStep
    <2>1. CASE \E k \in Dispatchers : BackgroundDispatch(k)
      BY <2>1 DEF BackgroundDispatch, handlerVars, NoLeakedDomain, Live
    <2> QED
      BY <1>4, <2>1, AnnounceNoLeak DEF DispatchStep
  <1>5. CASE ServerRestart
    BY <1>5 DEF ServerRestart, NoLeakedDomain
  <1>6. CASE UNCHANGED vars
    BY <1>6 DEF vars, NoLeakedDomain, Live
  <1> QED
    BY <1>1, <1>2, <1>3, <1>4, <1>5, <1>6, HandlerNoLeak, DeathNoLeak DEF Next, OtherStep

\* A domain in `processing_domains` always belongs to a living handler, unless a
\* worker died with the handler or the domain is the empty one.
THEOREM NoDomainIsLeaked == Spec => []NoLeakedDomain
  <1>1. Init => NoLeakedDomain
    BY DEF Init, NoLeakedDomain
  <1> QED
    BY <1>1, NextNoLeak, TypeInvariant, PTL DEF Spec

-----------------------------------------------------------------------------
(* Every pending row is worked on, or was given up                         *)

\* A step of the table alone that turns no row into a pending one.
LEMMA NothingStarts ==
  ASSUME PendingIsOwned, UNCHANGED <<job, pc>>, Forget,
         \A d \in Downloads : status'[d] = "pending" => status[d] = "pending"
  PROVE  PendingIsOwned'
  BY DEF PendingIsOwned, Working, Forget

\* Renewing or dropping rows starts none.
LEMMA RenewStartsNone ==
  ASSUME NEW S, NEW d \in Downloads
  PROVE  /\ Renew(S)[d] = "pending" => status[d] = "pending"
         /\ Drop(S)[d] = "pending" => status[d] = "pending"
  BY DEF Renew, Drop

\* A handler that stops working on its row leaves it given up or not pending;
\* what the other handlers work on is what they worked on before.
LEMMA HandlerOwned ==
  ASSUME NEW h \in Handlers, TypeInv, PendingIsOwned, HandlerStep(h)
  PROVE  PendingIsOwned'
  <1> DEFINE d0 == job[h]
  <1> USE DEF TypeInv, TypeOK, HandlerHasJob, Goto, Working
  <1>1. CASE Start(h)
    <2>1. CASE pc'[h] = "running"
      <3> SUFFICES ASSUME NEW d \in Downloads, status'[d] = "pending"
                   PROVE  d \in orphaned' \/ \E g \in Handlers : Working(g, d)'
        BY DEF PendingIsOwned
      <3>1. CASE d = d0
        BY <1>1, <2>1, <3>1 DEF Start
      <3>2. CASE d # d0
        <4>1. d \in orphaned \/ \E g \in Handlers : Working(g, d)
          BY <1>1, <2>1, <3>2 DEF Start, PendingIsOwned
        <4>2. \A g \in Handlers : Working(g, d) => Working(g, d)'
          BY <1>1, <2>1 DEF Start
        <4> QED
          BY <1>1, <2>1, <3>2, <4>1, <4>2 DEF Start
      <3> QED
        BY <3>1, <3>2
    <2>2. CASE pc'[h] = "final" /\ UNCHANGED <<status, orphaned>>
      BY <1>1, <2>2 DEF Start, PendingIsOwned
    <2> QED
      BY <1>1, <2>1, <2>2 DEF Start
  <1>2. CASE NoDownloader(h)
    BY <1>2 DEF NoDownloader, GivenUp, PendingIsOwned, dbVars
  <1>3. CASE \E outcome \in Outcomes : Execute(h, outcome)
    BY <1>3 DEF Execute, PendingIsOwned, dbVars
  <1>4. CASE Cancel(h)
    BY <1>4 DEF Cancel, PendingIsOwned, dbVars
  <1>5. CASE BotBlocked(h)
    <2>1. \A d \in Downloads : status'[d] = "pending" =>
             status[d] = "pending" /\ (d \in orphaned => d \in orphaned')
      BY <1>5 DEF BotBlocked
    <2> QED
      BY <1>5, <2>1 DEF BotBlocked, GivenUp, PendingIsOwned
  <1>6. CASE Finish(h)
    <2>1. \A d \in Downloads : status'[d] = "pending" =>
             status[d] = "pending" /\ (d \in orphaned => d \in orphaned')
      <3>1. FinalStatus(job[h], result[h]) # "pending"
        BY DEF FinalStatus
      <3> QED
        BY <1>6, <3>1 DEF Finish, Exists
    <2>2. status'[d0] = "pending" => d0 \in orphaned'
      <3>1. FinalStatus(job[h], result[h]) # "pending"
        BY DEF FinalStatus
      <3> QED
        BY <1>6, <3>1 DEF Finish, GivenUp
    <2> QED
      BY <1>6, <2>1, <2>2 DEF Finish, PendingIsOwned
  <1>7. CASE \E S \in SUBSET Downloads : EnqueueChildren(h, S)
    <2>1. PICK S \in SUBSET Downloads : EnqueueChildren(h, S)
      BY <1>7
    <2>2. \A d \in Downloads : status'[d] = "pending" =>
             status[d] = "pending" /\ (d \in orphaned => d \in orphaned')
      BY <2>1 DEF EnqueueChildren, Renew
    <2> QED
      BY <2>1, <2>2 DEF EnqueueChildren, PendingIsOwned
  <1>8. CASE Release(h)
    BY <1>8 DEF Release, PendingIsOwned, dbVars
  <1>9. CASE Unkill(h)
    BY <1>9 DEF Unkill, PendingIsOwned, dbVars
  <1>10. CASE Final(h)
    BY <1>10 DEF Final, PendingIsOwned, dbVars
  <1> QED
    BY <1>1, <1>2, <1>3, <1>4, <1>5, <1>6, <1>7, <1>8, <1>9, <1>10 DEF HandlerStep

LEMMA UserOwned == TypeInv /\ PendingIsOwned /\ UserStep /\ Forget => PendingIsOwned'
  <1> SUFFICES ASSUME TypeInv, PendingIsOwned, UserStep, Forget PROVE PendingIsOwned'
    OBVIOUS
  <1>1. UNCHANGED <<job, pc>>
    BY DEF UserStep, CreateDownloads, RecurringDownload, UpdateDownload,
       RestartDownload, RetryDownloads, DeleteDownloads, ClearFinished, KillFlag,
       KillCommit, handlerVars
  <1>2. ASSUME NEW d \in Downloads, status'[d] = "pending"
        PROVE  status[d] = "pending"
    <2>1. CASE UNCHANGED status
      BY <1>2, <2>1
    <2>2. CASE \E S \in SUBSET Downloads : status' = Renew(S) \/ status' = Drop(S)
      BY <1>2, <2>2, RenewStartsNone
    <2>3. CASE \E e \in Killable : KillCommit(e)
      BY <1>2, <2>3 DEF KillCommit, TypeInv, TypeOK
    <2>4. Retryable \subseteq Downloads /\ \A e \in Downloads : {e} \subseteq Downloads
      BY DEF Retryable
    <2> QED
      BY <2>1, <2>2, <2>3, <2>4 DEF UserStep, CreateDownloads, RecurringDownload,
         UpdateDownload, RestartDownload, RetryDownloads, DeleteDownloads,
         ClearFinished, KillFlag, dbVars
  <1> QED
    BY <1>1, <1>2, NothingStarts

LEMMA DeathOwned ==
  ASSUME NEW H \in SUBSET {h \in Handlers : Live(h)}, NEW K, NEW Q,
         TypeInv, PendingIsOwned, WorkerDies(H, K, Q)
  PROVE  PendingIsOwned'
  <1> SUFFICES ASSUME NEW d \in Downloads, status[d] = "pending", d \notin orphaned
               PROVE  d \in orphaned' \/ \E g \in Handlers : Working(g, d)'
    BY DEF PendingIsOwned, WorkerDies, dbVars
  <1>1. PICK g \in Handlers : Working(g, d)
    BY DEF PendingIsOwned
  <1>2. CASE g \in H
    BY <1>1, <1>2 DEF WorkerDies, GivenUp, Working
  <1>3. CASE g \notin H
    BY <1>1, <1>3 DEF WorkerDies, Working
  <1> QED
    BY <1>2, <1>3

LEMMA NextOwned == TypeInv /\ PendingIsOwned /\ [Next]_vars => PendingIsOwned'
  <1> SUFFICES ASSUME TypeInv, PendingIsOwned, [Next]_vars PROVE PendingIsOwned'
    OBVIOUS
  <1>1. CASE (\E g \in Gates : SetGate(g)) /\ Forget
    BY <1>1, NothingStarts DEF SetGate, dbVars, handlerVars
  <1>2. CASE PerpetualStep /\ Forget
    <2>1. UNCHANGED <<job, pc>>
      BY <1>2 DEF PerpetualStep, ScanRecurring, RenewRecurring, ScanDeferred,
         RenewDeferred, DeleteOld, PerpetualDispatch, handlerVars
    <2>2. \/ UNCHANGED status
          \/ \E S : status' = Renew(S) \/ status' = Drop(S)
      BY <1>2 DEF PerpetualStep, ScanRecurring, RenewRecurring, ScanDeferred,
         RenewDeferred, DeleteOld, PerpetualDispatch, dbVars
    <2> QED
      BY <1>2, <2>1, <2>2, RenewStartsNone, NothingStarts
  <1>3. CASE DispatchStep /\ Forget
    <2>1. CASE \E k \in Dispatchers : BackgroundDispatch(k)
      BY <1>3, <2>1, NothingStarts DEF BackgroundDispatch, dbVars, handlerVars
    <2>2. ASSUME NEW k \in Dispatchers, NEW d \in Downloads, NEW h \in Handlers,
                 Announce(k, d, h) \/ AnnounceFails(k, d, h)
          PROVE  PendingIsOwned'
      \* The slot that gets the row was free: nobody worked on a row there.
      <3>1. UNCHANGED status /\ \A g \in Handlers \ {h} : job'[g] = job[g] /\ pc'[g] = pc[g]
        BY <2>2 DEF Announce, AnnounceFails, TypeInv, TypeOK, dbVars
      <3>2. pc[h] \in {"idle", "lost"}
        BY <2>2 DEF Announce, AnnounceFails, Free
      <3> QED
        BY <1>3, <3>1, <3>2 DEF Forget, PendingIsOwned, Working
    <2> QED
      BY <1>3, <2>1, <2>2 DEF DispatchStep
  <1>4. CASE ServerRestart
    BY <1>4 DEF ServerRestart, PendingIsOwned
  <1>5. CASE UNCHANGED vars
    BY <1>5 DEF vars, PendingIsOwned, Working
  <1>6. CASE OtherStep
    BY <1>1, <1>2, <1>3, <1>6, UserOwned DEF OtherStep, Forget
  <1> QED
    BY <1>4, <1>5, <1>6, HandlerOwned, DeathOwned DEF Next

\* A pending row has a handler that will still record an outcome, or its
\* handler was lost on one of the paths that skip the recording.
THEOREM PendingAlwaysOwned == Spec => []PendingIsOwned
  <1>1. Init => PendingIsOwned
    BY DEF Init, PendingIsOwned
  <1> QED
    BY <1>1, NextOwned, TypeInvariant, PTL DEF Spec

-----------------------------------------------------------------------------
(* What the steps may never do                                             *)

\* The perpetual worker changes rows it read in an earlier transaction.  It takes
\* none from a handler, and revives a failed row only if the row was read as due
\* with a frequency.
THEOREM RenewalIsSafe == Spec => RenewalLeavesOthersAlone
  <1> DEFINE Kept(d) ==
                /\ status[d] = "pending" => status'[d] = "pending"
                /\ status[d] = "failed" =>
                      \/ status'[d] = "failed"
                      \/ status'[d] = "new" /\ cycle = "recurring" /\ d \in due
                      \/ status'[d] = "absent" /\ cycle = "cleanup" /\ d \notin recurring
             Safe == PerpetualStep => \A d \in Downloads : Kept(d)
  <1>1. TypeInv /\ [Next]_vars => [Safe]_vars
    <2> SUFFICES ASSUME TypeInv, PerpetualStep, NEW d \in Downloads
                 PROVE  Kept(d)
      BY DEF Safe
    <2> USE DEF TypeInv, TypeOK, dbVars
    <2>1. CASE UNCHANGED status
      BY <2>1
    <2>2. CASE RenewRecurring
      BY <2>2 DEF RenewRecurring, StillRenewable, Renew
    <2>3. CASE RenewDeferred
      BY <2>3 DEF RenewDeferred, StillDeferred, Renew
    <2>4. CASE DeleteOld
      BY <2>4 DEF DeleteOld, FinishedOnce, Drop
    <2> QED
      BY <2>1, <2>2, <2>3, <2>4 DEF PerpetualStep, ScanRecurring, ScanDeferred,
         PerpetualDispatch
  <1> QED
    BY <1>1, TypeInvariant, PTL DEF Spec, RenewalLeavesOthersAlone

\* Nothing fails a row while it has a frequency.
THEOREM RecurringIsNeverFailed == Spec => RecurringNeverFails
  <1> DEFINE Safe == \A d \in recurring : status'[d] = "failed" => status[d] = "failed"
  <1>1. TypeInv /\ [Next]_vars => [Safe]_vars
    <2> SUFFICES ASSUME TypeInv, Next, NEW d \in recurring, status'[d] = "failed"
                 PROVE  status[d] = "failed"
      BY DEF Safe
    <2> USE DEF TypeInv, TypeOK, dbVars, Renew, Drop
    <2>1. CASE UserStep
      BY <2>1 DEF UserStep, CreateDownloads, RecurringDownload, UpdateDownload,
         RestartDownload, RetryDownloads, DeleteDownloads, ClearFinished, KillFlag,
         KillCommit
    <2>2. CASE \E g \in Gates : SetGate(g)
      BY <2>2 DEF SetGate
    <2>3. CASE PerpetualStep
      BY <2>3 DEF PerpetualStep, ScanRecurring, RenewRecurring, ScanDeferred,
         RenewDeferred, DeleteOld, PerpetualDispatch
    <2>4. CASE DispatchStep
      BY <2>4 DEF DispatchStep, BackgroundDispatch, Announce, AnnounceFails
    <2>5. ASSUME NEW h \in Handlers, HandlerStep(h)
          PROVE  status[d] = "failed"
      <3>1. CASE Finish(h)
        <4>1. FinalStatus(d, result[h]) # "failed"
          BY DEF FinalStatus
        <4> QED
          BY <3>1, <4>1 DEF Finish
      <3>2. CASE BotBlocked(h)
        BY <3>2 DEF BotBlocked
      <3>3. CASE Start(h)
        BY <3>3 DEF Start
      <3> QED
        BY <2>5, <3>1, <3>2, <3>3 DEF HandlerStep, NoDownloader, Execute, Cancel,
           EnqueueChildren, Release, Unkill, Final
    <2>6. CASE ServerRestart
      BY <2>6 DEF ServerRestart
    <2>7. CASE \E H \in SUBSET {h \in Handlers : Live(h)}, K \in SUBSET Busy,
                  Q \in SUBSET killing : WorkerDies(H, K, Q)
      BY <2>7 DEF WorkerDies
    <2> QED
      BY <2>1, <2>2, <2>3, <2>4, <2>5, <2>6, <2>7 DEF Next, OtherStep
  <1> QED
    BY <1>1, TypeInvariant, PTL DEF Spec, RecurringNeverFails

===============================================================================
