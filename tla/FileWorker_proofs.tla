-------------------------- MODULE FileWorker_proofs --------------------------
(***************************************************************************)
(* Safety of the file worker for every set of jobs, every number of        *)
(* collections and every bound on faults: the types, that no job which     *)
(* somebody waits for loses its task, that batches do their collections in *)
(* order and complete only with all of them, that a move is recorded as it *)
(* ended, and that all of it is an implementation of JobBoard.             *)
(***************************************************************************)
EXTENDS FileWorker, SequenceTheorems, TLAPS

\* A process that has not queued its move yet has no job.
AsksOnce == \A m \in Move : client[m] \in {"idle", "flagged"} => jobs[m] = "none"

TasksInv == OneTaskPerJob /\ PendingIsHeld /\ AsksOnce

-----------------------------------------------------------------------------
(* Queues as sequences of tasks                                            *)

LEMMA AppendJobs ==
    ASSUME NEW s \in Seq(Task), NEW t \in Task
    PROVE  /\ Append(s, t) \in Seq(Task)
           /\ JobsOf(Append(s, t)) = JobsOf(s) \cup {t.job}
  <1> DEFINE a == Append(s, t)
  <1>1. a \in Seq(Task) /\ Len(a) = Len(s) + 1 /\ a[Len(s) + 1] = t
    OBVIOUS
  <1>2. \A i \in 1..Len(s) : a[i] = s[i]
    OBVIOUS
  <1>3. DOMAIN a = DOMAIN s \cup {Len(s) + 1}
    BY <1>1
  <1> HIDE DEF a
  <1>4. JobsOf(a) = JobsOf(s) \cup {t.job}
    BY <1>1, <1>2, <1>3 DEF JobsOf
  <1> QED
    BY <1>1, <1>4 DEF a

LEMMA PushJobs ==
    ASSUME NEW s \in Seq(Task), NEW t \in Task
    PROVE  /\ <<t>> \o s \in Seq(Task)
           /\ JobsOf(<<t>> \o s) = JobsOf(s) \cup {t.job}
  <1> DEFINE a == <<t>> \o s
  <1>1. a \in Seq(Task) /\ Len(a) = Len(s) + 1 /\ a[1] = t
    OBVIOUS
  <1>2. \A i \in 1..Len(s) : a[i + 1] = s[i]
    OBVIOUS
  <1>3. \A j \in DOMAIN a : j = 1 \/ (j - 1 \in 1..Len(s) /\ a[j] = s[j - 1])
    BY <1>1, <1>2
  <1> HIDE DEF a
  <1>4. JobsOf(a) \subseteq JobsOf(s) \cup {t.job}
    BY <1>1, <1>3 DEF JobsOf
  <1>5. JobsOf(s) \cup {t.job} \subseteq JobsOf(a)
    <2>1. t.job \in JobsOf(a)
      <3>1. 1 \in DOMAIN a
        BY <1>1
      <3> QED
        BY <3>1, <1>1 DEF JobsOf
    <2>2. ASSUME NEW i \in DOMAIN s PROVE s[i].job \in JobsOf(a)
      <3>1. i \in 1..Len(s) /\ i + 1 \in DOMAIN a
        BY <1>1
      <3>2. a[i + 1] = s[i]
        BY <3>1, <1>2
      <3> QED
        BY <3>1, <3>2 DEF JobsOf
    <2> QED
      BY <2>1, <2>2 DEF JobsOf
  <1> QED
    BY <1>1, <1>4, <1>5 DEF a

LEMMA PopJobs ==
    ASSUME NEW s \in Seq(Task), s # <<>>
    PROVE  /\ Head(s) \in Task
           /\ Tail(s) \in Seq(Task)
           /\ JobsOf(s) = JobsOf(Tail(s)) \cup {Head(s).job}
  <1>1. Head(s) \in Task /\ Tail(s) \in Seq(Task) /\ s = <<Head(s)>> \o Tail(s)
    OBVIOUS
  <1> QED
    BY <1>1, PushJobs

LEMMA LongTail ==
    ASSUME NEW s \in Seq(Task), Len(s) > 1
    PROVE  Tail(s) # <<>> /\ s[2] = Head(Tail(s))
  <1>1. s # <<>>
    OBVIOUS
  <1>2. Tail(s) \in Seq(Task) /\ Len(Tail(s)) = Len(s) - 1
    BY <1>1, HeadTailProperties
  <1>3. \A i \in 1..Len(Tail(s)) : Tail(s)[i] = s[i + 1]
    BY <1>1, HeadTailProperties
  <1>4. Len(Tail(s)) > 0
    BY <1>2
  <1>5. Tail(s) # <<>> /\ 1 \in 1..Len(Tail(s))
    <2> DEFINE n == Len(Tail(s))
    <2>1. n \in Nat /\ n > 0
      BY <1>2, <1>4, LenProperties
    <2>2. 1 \in 1..n
      <3> HIDE DEF n
      <3> QED
        BY <2>1
    <2>3. ASSUME Tail(s) = <<>> PROVE FALSE
      <3>1. Len(<<>>) = 0
        OBVIOUS
      <3>2. Len(Tail(s)) = Len(<<>>)
        BY <2>3, Zenon
      <3>3. n = 0
        BY <3>1, <3>2, Zenon
      <3> HIDE DEF n
      <3> QED
        BY <3>3, <2>1
    <2> QED
      BY <2>2, <2>3
  <1>6. Tail(s)[1] = s[2]
    BY <1>3, <1>5
  <1> QED
    BY <1>2, <1>5, <1>6

LEMMA TransferJobs ==
    ASSUME NEW s \in Seq(Task), NEW p \in Seq(Task)
    PROVE  /\ Reverse(s) \o p \in Seq(Task)
           /\ JobsOf(Reverse(s) \o p) = JobsOf(s) \cup JobsOf(p)
  <1> DEFINE r == Reverse(s)
             a == r \o p
  <1>1. /\ r \in Seq(Task) /\ Len(r) = Len(s)
        /\ \A i \in 1..Len(s) : r[i] = s[(Len(s) - i) + 1]
    BY DEF Reverse
  <1> HIDE DEF r
  <1>2. /\ a \in Seq(Task) /\ Len(a) = Len(s) + Len(p)
        /\ \A i \in 1..Len(s) : a[i] = r[i]
        /\ \A i \in 1..Len(p) : a[Len(s) + i] = p[i]
    <2>1. a \in Seq(Task) /\ Len(a) = Len(r) + Len(p)
      <3>1. r \in Seq(Task)
        BY <1>1
      <3> QED
        BY <3>1
    <2>2. \A i \in 1..Len(r) : a[i] = r[i]
      BY <1>1
    <2>3. \A i \in 1..Len(p) : a[Len(r) + i] = p[i]
      BY <1>1
    <2> QED
      BY <2>1, <2>2, <2>3, <1>1
  <1> HIDE DEF a
  <1>3. ASSUME NEW k \in DOMAIN a PROVE a[k].job \in JobsOf(s) \cup JobsOf(p)
    <2>1. CASE k <= Len(s)
      <3>1. (Len(s) - k) + 1 \in DOMAIN s /\ a[k] = s[(Len(s) - k) + 1]
        BY <2>1, <1>1, <1>2
      <3> QED
        BY <3>1 DEF JobsOf
    <2>2. CASE k > Len(s)
      <3>1. k - Len(s) \in 1..Len(p) /\ Len(s) + (k - Len(s)) = k
        BY <2>2, <1>2
      <3>2. a[k] = p[k - Len(s)]
        BY <3>1, <1>2
      <3> QED
        BY <3>1, <3>2 DEF JobsOf
    <2> QED
      BY <2>1, <2>2, <1>2
  <1>4. ASSUME NEW i \in DOMAIN s PROVE s[i].job \in JobsOf(a)
    <2>1. /\ (Len(s) - i) + 1 \in 1..Len(s)
          /\ (Len(s) - i) + 1 \in DOMAIN a
          /\ (Len(s) - ((Len(s) - i) + 1)) + 1 = i
      BY <1>2
    <2>2. a[(Len(s) - i) + 1] = s[i]
      BY <2>1, <1>1, <1>2
    <2> QED
      BY <2>1, <2>2 DEF JobsOf
  <1>5. ASSUME NEW i \in DOMAIN p PROVE p[i].job \in JobsOf(a)
    <2>1. Len(s) + i \in DOMAIN a /\ a[Len(s) + i] = p[i]
      BY <1>2
    <2> QED
      BY <2>1 DEF JobsOf
  <1>6. JobsOf(a) = JobsOf(s) \cup JobsOf(p)
    BY <1>3, <1>4, <1>5 DEF JobsOf
  <1> QED
    BY <1>2, <1>6 DEF a, r

LEMMA EmptyJobs == JobsOf(<<>>) = {} /\ JobsDiffer(<<>>) /\ <<>> \in Seq(Task)
  BY DEF JobsOf, JobsDiffer

LEMMA AppendDiffers ==
    ASSUME NEW s \in Seq(Task), NEW t \in Task,
           JobsDiffer(s), t.job \notin JobsOf(s)
    PROVE  JobsDiffer(Append(s, t))
  <1> DEFINE a == Append(s, t)
  <1>1. a \in Seq(Task) /\ Len(a) = Len(s) + 1 /\ a[Len(s) + 1] = t
    OBVIOUS
  <1>2. \A i \in 1..Len(s) : a[i] = s[i]
    OBVIOUS
  <1> HIDE DEF a
  <1>3. \A i \in 1..Len(s) : a[i].job # t.job
    BY <1>2 DEF JobsOf
  <1>4. JobsDiffer(a)
    BY <1>1, <1>2, <1>3 DEF JobsDiffer
  <1> QED
    BY <1>4 DEF a

LEMMA PushDiffers ==
    ASSUME NEW s \in Seq(Task), NEW t \in Task
    PROVE  JobsDiffer(<<t>> \o s) <=> JobsDiffer(s) /\ t.job \notin JobsOf(s)
  <1> DEFINE a == <<t>> \o s
  <1>1. a \in Seq(Task) /\ Len(a) = Len(s) + 1 /\ a[1] = t
    OBVIOUS
  <1>2. \A i \in 1..Len(s) : a[i + 1] = s[i]
    OBVIOUS
  <1> HIDE DEF a
  <1>3. ASSUME JobsDiffer(s), t.job \notin JobsOf(s) PROVE JobsDiffer(a)
    <2> SUFFICES ASSUME NEW i \in DOMAIN a, NEW k \in DOMAIN a, a[i].job = a[k].job
                 PROVE  i = k
      BY DEF JobsDiffer
    <2>1. \A n \in DOMAIN a : n = 1 \/ (n - 1 \in DOMAIN s /\ a[n] = s[n - 1])
      <3> SUFFICES ASSUME NEW n \in DOMAIN a, n # 1
                   PROVE  n - 1 \in DOMAIN s /\ a[n] = s[n - 1]
        OBVIOUS
      <3>1. n - 1 \in 1..Len(s) /\ (n - 1) + 1 = n
        BY <1>1
      <3> QED
        BY <3>1, <1>2
    <2>2. \A n \in DOMAIN s : s[n].job # t.job
      BY <1>3 DEF JobsOf
    <2>3. CASE i = 1
      BY <2>1, <2>2, <2>3, <1>1
    <2>4. CASE k = 1
      BY <2>1, <2>2, <2>4, <1>1
    <2>5. CASE i # 1 /\ k # 1
      <3>1. s[i - 1].job = s[k - 1].job /\ i - 1 \in DOMAIN s /\ k - 1 \in DOMAIN s
        BY <2>1, <2>5
      <3>2. i - 1 = k - 1
        BY <3>1, <1>3 DEF JobsDiffer
      <3> QED
        BY <3>2, <1>1
    <2> QED
      BY <2>3, <2>4, <2>5
  <1>4. ASSUME JobsDiffer(a) PROVE JobsDiffer(s) /\ t.job \notin JobsOf(s)
    <2>1. \A n \in DOMAIN s : n + 1 \in DOMAIN a /\ n + 1 # 1 /\ a[n + 1] = s[n]
      BY <1>1, <1>2
    <2>2. t.job \notin JobsOf(s)
      <3> SUFFICES ASSUME NEW n \in DOMAIN s, s[n].job = t.job PROVE FALSE
        BY DEF JobsOf
      <3>1. 1 \in DOMAIN a
        BY <1>1
      <3> QED
        BY <2>1, <3>1, <1>1, <1>4 DEF JobsDiffer
    <2>3. JobsDiffer(s)
      <3> SUFFICES ASSUME NEW i \in DOMAIN s, NEW k \in DOMAIN s, s[i].job = s[k].job
                   PROVE  i = k
        BY DEF JobsDiffer
      <3>1. i + 1 = k + 1
        BY <2>1, <1>4 DEF JobsDiffer
      <3> QED
        BY <3>1
    <2> QED
      BY <2>2, <2>3
  <1> QED
    BY <1>3, <1>4 DEF a

LEMMA PopDiffers ==
    ASSUME NEW s \in Seq(Task), s # <<>>, JobsDiffer(s)
    PROVE  JobsDiffer(Tail(s)) /\ Head(s).job \notin JobsOf(Tail(s))
  <1>1. Head(s) \in Task /\ Tail(s) \in Seq(Task) /\ s = <<Head(s)>> \o Tail(s)
    OBVIOUS
  <1> QED
    BY <1>1, PushDiffers

LEMMA TransferDiffers ==
    ASSUME NEW s \in Seq(Task), NEW p \in Seq(Task),
           JobsDiffer(s), JobsDiffer(p), JobsOf(s) \cap JobsOf(p) = {}
    PROVE  JobsDiffer(Reverse(s) \o p)
  <1> DEFINE r == Reverse(s)
             a == r \o p
  <1>1. /\ r \in Seq(Task) /\ Len(r) = Len(s)
        /\ \A i \in 1..Len(s) : r[i] = s[(Len(s) - i) + 1]
    BY DEF Reverse
  <1> HIDE DEF r
  <1>2. \A i \in 1..Len(s) : a[i] = r[i]
    <2>1. r \in Seq(Task)
      BY <1>1
    <2>2. \A i \in 1..Len(r) : a[i] = r[i]
      BY <2>1
    <2> QED
      BY <2>2, <1>1
  <1>3. \A i \in 1..Len(p) : a[Len(s) + i] = p[i]
    <2>1. r \in Seq(Task)
      BY <1>1
    <2>2. \A i \in 1..Len(p) : a[Len(r) + i] = p[i]
      BY <2>1
    <2> QED
      BY <2>2, <1>1
  <1>4. a \in Seq(Task) /\ Len(a) = Len(s) + Len(p)
    <2>1. r \in Seq(Task)
      BY <1>1
    <2>2. a \in Seq(Task) /\ Len(a) = Len(r) + Len(p)
      BY <2>1
    <2> QED
      BY <2>2, <1>1
  <1> HIDE DEF a
  <1>5. ASSUME NEW k \in DOMAIN a
        PROVE  \/ /\ k <= Len(s) /\ (Len(s) - k) + 1 \in DOMAIN s
                  /\ a[k] = s[(Len(s) - k) + 1]
               \/ /\ k > Len(s) /\ k - Len(s) \in DOMAIN p
                  /\ a[k] = p[k - Len(s)]
    <2>1. CASE k <= Len(s)
      <3>1. k \in 1..Len(s) /\ (Len(s) - k) + 1 \in DOMAIN s
        BY <2>1, <1>4
      <3> QED
        BY <2>1, <3>1, <1>1, <1>2
    <2>2. CASE k > Len(s)
      <3>1. k - Len(s) \in 1..Len(p) /\ Len(s) + (k - Len(s)) = k
        BY <2>2, <1>4
      <3>2. a[k] = p[k - Len(s)]
        BY <3>1, <1>3
      <3> QED
        BY <2>2, <3>1, <3>2
    <2> QED
      BY <2>1, <2>2, <1>4
  <1>6. ASSUME NEW i \in DOMAIN s, NEW k \in DOMAIN p PROVE s[i].job # p[k].job
    BY DEF JobsOf
  <1>7. JobsDiffer(a)
    <2> SUFFICES ASSUME NEW i \in DOMAIN a, NEW k \in DOMAIN a, a[i].job = a[k].job
                 PROVE  i = k
      BY DEF JobsDiffer
    <2>0. i \in Nat /\ k \in Nat /\ Len(s) \in Nat
      BY <1>4
    <2>1. CASE i <= Len(s) /\ k <= Len(s)
      <3>1. (Len(s) - i) + 1 \in DOMAIN s /\ a[i] = s[(Len(s) - i) + 1]
        BY <2>0, <2>1, <1>5
      <3>2. (Len(s) - k) + 1 \in DOMAIN s /\ a[k] = s[(Len(s) - k) + 1]
        BY <2>0, <2>1, <1>5
      <3>3. (Len(s) - i) + 1 = (Len(s) - k) + 1
        BY <3>1, <3>2 DEF JobsDiffer
      <3> QED
        BY <3>3, <2>0
    <2>2. CASE i > Len(s) /\ k > Len(s)
      <3>1. i - Len(s) \in DOMAIN p /\ a[i] = p[i - Len(s)]
        BY <2>0, <2>2, <1>5
      <3>2. k - Len(s) \in DOMAIN p /\ a[k] = p[k - Len(s)]
        BY <2>0, <2>2, <1>5
      <3>3. i - Len(s) = k - Len(s)
        BY <3>1, <3>2 DEF JobsDiffer
      <3> QED
        BY <3>3, <2>0
    <2>3. CASE (i <= Len(s)) /\ (k > Len(s))
      <3>1. (Len(s) - i) + 1 \in DOMAIN s /\ a[i] = s[(Len(s) - i) + 1]
        BY <2>0, <2>3, <1>5
      <3>2. k - Len(s) \in DOMAIN p /\ a[k] = p[k - Len(s)]
        BY <2>0, <2>3, <1>5
      <3> QED
        BY <3>1, <3>2, <1>6
    <2>4. CASE (i > Len(s)) /\ (k <= Len(s))
      <3>1. (Len(s) - k) + 1 \in DOMAIN s /\ a[k] = s[(Len(s) - k) + 1]
        BY <2>0, <2>4, <1>5
      <3>2. i - Len(s) \in DOMAIN p /\ a[i] = p[i - Len(s)]
        BY <2>0, <2>4, <1>5
      <3> QED
        BY <3>1, <3>2, <1>6
    <2> QED
      BY <2>0, <2>1, <2>2, <2>3, <2>4
  <1> QED
    BY <1>7 DEF a, r

-----------------------------------------------------------------------------
(* Types                                                                   *)

LEMMA SubIsJob ==
    ASSUME NEW b \in Batch, NEW k \in 1..Collections[b]
    PROVE  Sub(b, k) \in Jobs
  BY DEF Jobs, SubJobs

LEMMA InitType == Init => TypeOK
  <1> SUFFICES ASSUME Init PROVE TypeOK
    OBVIOUS
  <1>1. <<>> \in Seq(Task)
    BY EmptyJobs
  <1>2. \A b \in Batch : 1 \in 1..(Collections[b] + 1)
    BY CollectionsAssumption
  <1>3. /\ at \in [Batch -> Nat] /\ jobs \in [Jobs -> Statuses] /\ busy \in BOOLEAN
        /\ client \in [Move -> Clients] /\ directory \in [Move -> {"old", "new"}]
    BY DEF Init, Statuses, Clients
  <1>4. \A b \in Batch : at[b] \in 1..(Collections[b] + 1)
    BY <1>2 DEF Init
  <1>5. lost \subseteq Jobs /\ faults \in 0..MaxFaults
    BY MaxFaultsAssumption DEF Init
  <1> QED
    BY <1>1, <1>3, <1>4, <1>5 DEF Init, TypeOK

\* What `put' leaves well typed.
LEMMA PutType ==
    ASSUME TypeOK, NEW j \in Jobs, NEW step \in Steps, Put(j, step)
    PROVE  public' \in Seq(Task) /\ jobs' \in [Jobs -> Statuses]
  <1>1. [job |-> j, step |-> step] \in Task
    BY DEF Task
  <1> QED
    BY <1>1, AppendJobs DEF Put, TypeOK, Statuses

\* What a handler that returns leaves well typed.
LEMMA ReturnsType ==
    ASSUME TypeOK, stack # <<>>, NEW status \in Statuses, Returns(status)
    PROVE  /\ public' \in Seq(Task) /\ private' \in Seq(Task) /\ stack' \in Seq(Task)
           /\ jobs' \in [Jobs -> Statuses]
           /\ busy' \in BOOLEAN
  <1>1. Top \in Task /\ Tail(stack) \in Seq(Task)
    BY PopJobs DEF Top, TypeOK
  <1>2. busy' \in BOOLEAN
    BY Zenon DEF Returns, ClearBusyIfDone
  <1> QED
    BY <1>1, <1>2 DEF Returns, TypeOK

LEMMA ClientType == TypeOK /\ Client => TypeOK'
  <1> SUFFICES ASSUME TypeOK, Client PROVE TypeOK'
    OBVIOUS
  <1> USE DEF clientVars
  <1>1. ASSUME NEW r \in Refresh, QueueRefresh(r) PROVE TypeOK'
    <2>1. r \in Jobs /\ "count" \in Steps
      BY DEF Jobs, Steps
    <2> QED
      BY <1>1, <2>1, PutType DEF QueueRefresh, TypeOK
  <1>2. ASSUME NEW b \in Batch, QueueBatch(b) PROVE TypeOK'
    <2>1. b \in Jobs /\ "batch" \in Steps
      BY DEF Jobs, Steps
    <2> QED
      BY <1>2, <2>1, PutType DEF QueueBatch, TypeOK
  <1>3. ASSUME NEW m \in Move, MoveEnters(m) PROVE TypeOK'
    BY <1>3 DEF MoveEnters, TypeOK, Clients
  <1>4. ASSUME NEW m \in Move, MoveQueues(m) PROVE TypeOK'
    <2>1. m \in Jobs /\ "move" \in Steps
      BY DEF Jobs, Steps
    <2> QED
      BY <1>4, <2>1, PutType DEF MoveQueues, TypeOK, Clients
  <1>5. ASSUME NEW m \in Move, MoveSeesJob(m) PROVE TypeOK'
    BY <1>5 DEF MoveSeesJob, PutBack, TypeOK, Clients
  <1>6. ASSUME NEW m \in Move, MoveGivesUp(m) PROVE TypeOK'
    BY <1>6, MaxFaultsAssumption DEF MoveGivesUp, PutBack, Fault, TypeOK, Clients
  <1> QED
    BY <1>1, <1>2, <1>3, <1>4, <1>5, <1>6 DEF Client

LEMMA DrainType == TypeOK /\ (Transfer \/ Process \/ ProcessNothing) => TypeOK'
  <1> SUFFICES ASSUME TypeOK, Transfer \/ Process \/ ProcessNothing PROVE TypeOK'
    OBVIOUS
  <1> USE DEF clientVars
  <1>1. CASE Transfer
    <2>1. public' \in Seq(Task) /\ private' \in Seq(Task)
      BY <1>1, TransferJobs, EmptyJobs DEF Transfer, TypeOK
    <2> QED
      BY <1>1, <2>1 DEF Transfer, TypeOK
  <1>2. CASE Process
    <2>1. Head(private) \in Task /\ Tail(private) \in Seq(Task)
      BY <1>2, PopJobs DEF Process, TypeOK
    <2>2. stack' \in Seq(Task)
      BY <1>2, <2>1, PushJobs DEF Process, TypeOK
    <2>3. jobs' \in [Jobs -> Statuses]
      BY <1>2 DEF Process, TypeOK, Statuses
    <2> QED
      BY <1>2, <2>1, <2>2, <2>3 DEF Process, TypeOK
  <1>3. CASE ProcessNothing
    BY <1>3 DEF ProcessNothing, TypeOK
  <1> QED
    BY <1>1, <1>2, <1>3

LEMMA HandlerType ==
    TypeOK /\ (CountDone \/ RefreshDone \/ HandlerRaises \/ MoveReturns) => TypeOK'
  <1> SUFFICES ASSUME TypeOK, CountDone \/ RefreshDone \/ HandlerRaises \/ MoveReturns
               PROVE  TypeOK'
    OBVIOUS
  <1> USE DEF clientVars
  <1>0. stack # <<>> /\ Top \in Task /\ Tail(stack) \in Seq(Task)
    BY PopJobs DEF Top, TypeOK, CountDone, RefreshDone, HandlerRaises, MoveReturns
  <1>1. CASE CountDone
    <2>1. [Top EXCEPT !.step = "refresh"] \in Task
      BY <1>0 DEF Task, Steps
    <2>2. private' \in Seq(Task) /\ stack' \in Seq(Task)
      BY <1>1, <1>0, <2>1, PushJobs DEF CountDone, TypeOK
    <2>3. busy' \in BOOLEAN
      BY <1>1, Zenon DEF CountDone, ClearBusyIfDone
    <2> QED
      BY <1>1, <2>2, <2>3 DEF CountDone, TypeOK
  <1>2. CASE RefreshDone
    BY <1>2, <1>0, ReturnsType DEF RefreshDone, TypeOK, Statuses
  <1>3. CASE HandlerRaises
    <2> DEFINE TwoFail ==
          /\ Len(stack) > 1
          /\ jobs' = [jobs EXCEPT ![Top.job] = "failed", ![stack[2].job] = "failed"]
          /\ stack' = Tail(Tail(stack))
          /\ UNCHANGED <<public, private>>
          /\ ClearBusyIfDone
    <2>0. (Len(stack) = 1 /\ Returns("failed")) \/ TwoFail
      BY <1>3 DEF HandlerRaises
    <2>1. CASE Len(stack) = 1 /\ Returns("failed")
      BY <1>3, <2>1, <1>0, ReturnsType DEF HandlerRaises, TypeOK, Statuses
    <2>2. CASE TwoFail
      <3>1. Tail(stack) # <<>>
        BY <2>2, LongTail DEF TypeOK
      <3>2. stack' \in Seq(Task)
        BY <2>2, <1>0, <3>1, PopJobs
      <3>3. busy' \in BOOLEAN
        BY <2>2, Zenon DEF ClearBusyIfDone
      <3>4. jobs' \in [Jobs -> Statuses]
        BY <2>2 DEF TypeOK, Statuses
      <3> QED
        BY <1>3, <2>2, <3>2, <3>3, <3>4 DEF HandlerRaises, TypeOK
    <2> QED
      BY <2>0, <2>1, <2>2
  <1>4. CASE MoveReturns
    BY <1>4, <1>0, ReturnsType DEF MoveReturns, TypeOK, Statuses
  <1> QED
    BY <1>1, <1>2, <1>3, <1>4

LEMMA BatchType ==
    ASSUME TypeOK, NEW b \in Batch, BatchStep(b) \/ BatchTimesOut(b)
    PROVE  TypeOK'
  <1> USE DEF clientVars
  <1>0. at[b] \in Nat /\ Collections[b] \in Nat
    BY CollectionsAssumption DEF TypeOK
  <1>1. CASE BatchQueues(b)
    <2>1. at[b] \in 1..Collections[b]
      BY <1>1, <1>0 DEF BatchQueues, AtCollection, TypeOK
    <2>2. Sub(b, at[b]) \in Jobs /\ "reorganize" \in Steps
      BY <2>1, SubIsJob DEF Steps
    <2> QED
      BY <1>1, <2>2, PutType DEF BatchQueues, TypeOK
  <1>2. CASE BatchSkips(b) \/ BatchAdvances(b)
    <2>1. at[b] <= Collections[b] /\ NextCollection(b)
      BY <1>2 DEF BatchSkips, BatchAdvances, AtCollection
    <2>2. at' \in [Batch -> Nat] /\ \A c \in Batch : at'[c] \in 1..(Collections[c] + 1)
      BY <2>1, <1>0 DEF NextCollection, TypeOK
    <2> QED
      BY <2>1, <2>2 DEF NextCollection, TypeOK
  <1>3. CASE BatchStops(b)
    BY <1>3, ReturnsType DEF BatchStops, AtCollection, TypeOK, Statuses
  <1>4. CASE BatchDone(b)
    BY <1>4, ReturnsType DEF BatchDone, TypeOK, Statuses
  <1>5. CASE BatchTimesOut(b)
    BY <1>5, ReturnsType, MaxFaultsAssumption
    DEF BatchTimesOut, AtCollection, Fault, TypeOK, Statuses
  <1> QED
    BY <1>1, <1>2, <1>3, <1>4, <1>5 DEF BatchStep

LEMMA OutsideType == TypeOK /\ (Cancelled \/ Dies) => TypeOK'
  <1> SUFFICES ASSUME TypeOK, Cancelled \/ Dies PROVE TypeOK'
    OBVIOUS
  <1> USE DEF clientVars
  <1>1. CASE Cancelled
    <2>1. busy' \in BOOLEAN
      BY <1>1, Zenon DEF Cancelled, ClearBusyIfDone
    <2>2. jobs' \in [Jobs -> Statuses]
      BY <1>1 DEF Cancelled, TypeOK, Statuses
    <2> QED
      BY <1>1, <2>1, <2>2, EmptyJobs, MaxFaultsAssumption DEF Cancelled, Fault, TypeOK
  <1>2. CASE Dies
    <2>1. \A s \in Seq(Task) : JobsOf(s) \subseteq Jobs
      <3> SUFFICES ASSUME NEW s \in Seq(Task), NEW i \in DOMAIN s PROVE s[i].job \in Jobs
        BY DEF JobsOf
      <3>1. s[i] \in Task
        OBVIOUS
      <3> QED
        BY <3>1 DEF Task
    <2> QED
      BY <1>2, <2>1, EmptyJobs, MaxFaultsAssumption DEF Dies, Fault, TypeOK
  <1> QED
    BY <1>1, <1>2

LEMMA NextType == TypeOK /\ [Next]_vars => TypeOK'
  <1> SUFFICES ASSUME TypeOK, [Next]_vars PROVE TypeOK'
    OBVIOUS
  <1>1. CASE UNCHANGED vars
    BY <1>1 DEF vars, clientVars, TypeOK
  <1>2. CASE Next
    BY <1>2, ClientType, DrainType, HandlerType, BatchType, OutsideType DEF Next, Consumer
  <1> QED
    BY <1>1, <1>2

\* Every variable keeps its type.
THEOREM TypeCorrect == Spec => []TypeOK
  BY InitType, NextType, PTL DEF Spec

-----------------------------------------------------------------------------
(* One task per job                                                        *)

LEMMA HeldJobs == TypeOK => Held \subseteq Jobs
  <1>1. ASSUME NEW s \in Seq(Task) PROVE JobsOf(s) \subseteq Jobs
    <2> SUFFICES ASSUME NEW i \in DOMAIN s PROVE s[i].job \in Jobs
      BY DEF JobsOf
    <2>1. s[i] \in Task
      OBVIOUS
    <2> QED
      BY <2>1 DEF Task
  <1> QED
    BY <1>1 DEF TypeOK, Held

LEMMA InitTasks == Init => TasksInv
  BY EmptyJobs DEF Init, TasksInv, OneTaskPerJob, PendingIsHeld, AsksOnce, Held, Jobs

\* A new job's task joins the public queue.
LEMMA PutKeeps ==
    ASSUME TypeOK, OneTaskPerJob, PendingIsHeld,
           NEW j \in Jobs, NEW step \in Steps, jobs[j] = "none",
           Put(j, step), UNCHANGED <<private, stack, lost>>
    PROVE  /\ OneTaskPerJob' /\ PendingIsHeld'
           /\ \A k \in Jobs \ {j} : jobs'[k] = jobs[k]
  <1>1. j \notin Held
    BY DEF OneTaskPerJob
  <1>2. [job |-> j, step |-> step] \in Task
    BY DEF Task
  <1>3. JobsOf(public') = JobsOf(public) \cup {j}
    BY <1>2, AppendJobs DEF Put, TypeOK
  <1>4. JobsDiffer(public')
    BY <1>1, <1>2, AppendDiffers DEF Put, TypeOK, OneTaskPerJob, Held
  <1>5. /\ JobsOf(private') = JobsOf(private) /\ JobsOf(stack') = JobsOf(stack)
        /\ JobsDiffer(private') /\ JobsDiffer(stack')
    BY DEF OneTaskPerJob
  <1>6. Held' = Held \cup {j}
    BY <1>3, <1>5 DEF Held
  <1>7. jobs'[j] = "pending" /\ \A k \in Jobs \ {j} : jobs'[k] = jobs[k]
    BY DEF Put, TypeOK
  <1>8. OneTaskPerJob'
    <2>1. \A k \in Held' : jobs'[k] \in {"pending", "running"}
      BY <1>6, <1>7, HeldJobs DEF OneTaskPerJob
    <2> QED
      BY <2>1, <1>1, <1>3, <1>4, <1>5 DEF OneTaskPerJob, Held
  <1>9. PendingIsHeld'
    BY <1>6, <1>7 DEF PendingIsHeld
  <1> QED
    BY <1>7, <1>8, <1>9

\* A handler returns: its job settles and its task goes.
LEMMA ReturnKeeps ==
    ASSUME TypeOK, OneTaskPerJob, PendingIsHeld, stack # <<>>,
           NEW status \in Settled, Returns(status), lost' = lost
    PROVE  /\ OneTaskPerJob' /\ PendingIsHeld'
           /\ Top.job \in Held
           /\ \A k \in Jobs \ {Top.job} : jobs'[k] = jobs[k]
  <1>1. /\ Top \in Task
        /\ JobsOf(stack) = JobsOf(stack') \cup {Top.job}
        /\ JobsDiffer(stack') /\ Top.job \notin JobsOf(stack')
    BY PopJobs, PopDiffers DEF Returns, Top, TypeOK, OneTaskPerJob
  <1>2. Top.job \in Jobs
    BY <1>1 DEF Task
  <1>3. /\ JobsOf(public') = JobsOf(public) /\ JobsOf(private') = JobsOf(private)
        /\ JobsDiffer(private') /\ JobsDiffer(public')
    BY DEF OneTaskPerJob, Returns
  <1>4. Top.job \in Held /\ Held' = Held \ {Top.job}
    BY <1>1, <1>3 DEF Held, OneTaskPerJob
  <1>5. jobs'[Top.job] = status /\ \A k \in Jobs \ {Top.job} : jobs'[k] = jobs[k]
    BY <1>2 DEF Returns, TypeOK
  <1>6. OneTaskPerJob'
    <2>1. \A k \in Held' : jobs'[k] \in {"pending", "running"}
      BY <1>4, <1>5, HeldJobs DEF OneTaskPerJob
    <2> QED
      BY <2>1, <1>1, <1>3 DEF OneTaskPerJob
  <1>7. PendingIsHeld'
    BY <1>4, <1>5 DEF PendingIsHeld, Settled
  <1> QED
    BY <1>4, <1>5, <1>6, <1>7

\* Steps of the consumer touch neither a client nor a job nobody holds.
LEMMA AsksKept ==
    ASSUME TypeOK, TasksInv, client' = client,
           \A k \in Move : jobs[k] = "none" => jobs'[k] = "none"
    PROVE  AsksOnce'
  BY DEF TasksInv, AsksOnce

LEMMA ReturnTasks ==
    ASSUME TypeOK, TasksInv, stack # <<>>,
           NEW status \in Settled, Returns(status), lost' = lost, client' = client
    PROVE  TasksInv'
  <1>1. /\ OneTaskPerJob' /\ PendingIsHeld' /\ Top.job \in Held
        /\ \A k \in Jobs \ {Top.job} : jobs'[k] = jobs[k]
    BY ReturnKeeps DEF TasksInv
  <1>2. jobs[Top.job] # "none"
    BY <1>1 DEF TasksInv, OneTaskPerJob
  <1>3. AsksOnce'
    BY <1>1, <1>2, AsksKept DEF Jobs
  <1> QED
    BY <1>1, <1>3 DEF TasksInv

LEMMA ClientTasks == TypeOK /\ TasksInv /\ Client => TasksInv'
  <1> SUFFICES ASSUME TypeOK, TasksInv, Client PROVE TasksInv'
    OBVIOUS
  <1> USE DEF clientVars
  <1>0. OneTaskPerJob /\ PendingIsHeld /\ AsksOnce
    BY DEF TasksInv
  <1>1. ASSUME NEW r \in Refresh, QueueRefresh(r) PROVE TasksInv'
    <2>1. r \in Jobs /\ r \notin Move /\ "count" \in Steps
      BY JobsAssumption DEF Jobs, Steps
    <2>2. /\ OneTaskPerJob' /\ PendingIsHeld'
          /\ \A k \in Jobs \ {r} : jobs'[k] = jobs[k]
      BY <1>0, <1>1, <2>1, PutKeeps DEF QueueRefresh
    <2>3. AsksOnce'
      BY <1>1, <2>1, <2>2, AsksKept DEF QueueRefresh, Jobs
    <2> QED
      BY <2>2, <2>3 DEF TasksInv
  <1>2. ASSUME NEW b \in Batch, QueueBatch(b) PROVE TasksInv'
    <2>1. b \in Jobs /\ b \notin Move /\ "batch" \in Steps
      BY JobsAssumption DEF Jobs, Steps
    <2>2. /\ OneTaskPerJob' /\ PendingIsHeld'
          /\ \A k \in Jobs \ {b} : jobs'[k] = jobs[k]
      BY <1>0, <1>2, <2>1, PutKeeps DEF QueueBatch
    <2>3. AsksOnce'
      BY <1>2, <2>1, <2>2, AsksKept DEF QueueBatch, Jobs
    <2> QED
      BY <2>2, <2>3 DEF TasksInv
  <1>3. ASSUME NEW m \in Move,
               MoveEnters(m) \/ MoveSeesJob(m) \/ MoveGivesUp(m)
        PROVE  TasksInv'
    <2>1. UNCHANGED <<public, private, stack, jobs, lost>>
      BY <1>3 DEF MoveEnters, MoveSeesJob, MoveGivesUp
    <2>2. OneTaskPerJob' /\ PendingIsHeld'
      BY <1>0, <2>1 DEF OneTaskPerJob, PendingIsHeld, Held
    <2>3. AsksOnce'
      BY <1>0, <1>3, <2>1
      DEF AsksOnce, MoveEnters, MoveSeesJob, MoveGivesUp, PutBack, TypeOK
    <2> QED
      BY <2>2, <2>3 DEF TasksInv
  <1>4. ASSUME NEW m \in Move, MoveQueues(m) PROVE TasksInv'
    <2>1. m \in Jobs /\ jobs[m] = "none" /\ "move" \in Steps
      BY <1>0, <1>4 DEF Jobs, Steps, MoveQueues, AsksOnce
    <2>2. /\ OneTaskPerJob' /\ PendingIsHeld'
          /\ \A k \in Jobs \ {m} : jobs'[k] = jobs[k]
      BY <1>0, <1>4, <2>1, PutKeeps DEF MoveQueues
    <2>3. AsksOnce'
      BY <1>0, <1>4, <2>2 DEF AsksOnce, MoveQueues, TypeOK, Jobs
    <2> QED
      BY <2>2, <2>3 DEF TasksInv
  <1> QED
    BY <1>1, <1>2, <1>3, <1>4 DEF Client

LEMMA DrainTasks == TypeOK /\ TasksInv /\ (Transfer \/ Process \/ ProcessNothing) => TasksInv'
  <1> SUFFICES ASSUME TypeOK, TasksInv, Transfer \/ Process \/ ProcessNothing
               PROVE  TasksInv'
    OBVIOUS
  <1> USE DEF clientVars
  <1>0. OneTaskPerJob /\ PendingIsHeld /\ AsksOnce
    BY DEF TasksInv
  <1>1. CASE Transfer
    <2>1. JobsOf(public') = {} /\ JobsDiffer(public')
      BY <1>1, EmptyJobs DEF Transfer
    <2>2. JobsOf(private') = JobsOf(public) \cup JobsOf(private) /\ JobsDiffer(private')
      BY <1>0, <1>1, TransferJobs, TransferDiffers DEF Transfer, TypeOK, OneTaskPerJob
    <2>3. UNCHANGED <<stack, jobs, lost, client>>
      BY <1>1 DEF Transfer
    <2>4. Held' = Held
      BY <2>1, <2>2, <2>3 DEF Held
    <2>5. OneTaskPerJob'
      BY <1>0, <2>1, <2>2, <2>3, <2>4 DEF OneTaskPerJob
    <2> QED
      BY <1>0, <2>3, <2>4, <2>5, AsksKept DEF TasksInv, PendingIsHeld
  <1>2. CASE Process
    <2> DEFINE task == Head(private)
    <2>1. /\ task \in Task /\ JobsOf(private) = JobsOf(private') \cup {task.job}
          /\ JobsDiffer(private') /\ task.job \notin JobsOf(private')
      BY <1>0, <1>2, PopJobs, PopDiffers DEF Process, TypeOK, OneTaskPerJob
    <2>2. task.job \in Jobs /\ task.job \in Held /\ task.job \notin JobsOf(stack)
      BY <1>0, <2>1 DEF Task, Held, OneTaskPerJob
    <2>3. JobsOf(stack') = JobsOf(stack) \cup {task.job} /\ JobsDiffer(stack')
      BY <1>0, <1>2, <2>1, <2>2, PushJobs, PushDiffers DEF Process, TypeOK, OneTaskPerJob
    <2>4. UNCHANGED <<public, lost, client>>
      BY <1>2 DEF Process
    <2>5. Held' = Held
      BY <2>1, <2>3, <2>4 DEF Held
    <2>6. jobs[task.job] \in {"pending", "running"}
      BY <1>0, <2>2 DEF OneTaskPerJob
    <2>7. /\ \A k \in Jobs \ {task.job} : jobs'[k] = jobs[k]
          /\ jobs'[task.job] \in {"pending", "running"}
      BY <1>2, <2>2, <2>6 DEF Process, TypeOK
    <2>8. \A k \in Held' : jobs'[k] \in {"pending", "running"}
      BY <1>0, <2>5, <2>7, HeldJobs DEF OneTaskPerJob
    <2>9. OneTaskPerJob'
      BY <1>0, <2>1, <2>2, <2>3, <2>4, <2>8 DEF OneTaskPerJob
    <2>10. PendingIsHeld'
      BY <1>0, <2>2, <2>4, <2>5, <2>7 DEF PendingIsHeld
    <2>11. AsksOnce'
      BY <2>4, <2>6, <2>7, AsksKept DEF Jobs
    <2> QED
      BY <2>9, <2>10, <2>11 DEF TasksInv
  <1>3. CASE ProcessNothing
    BY <1>0, <1>3
    DEF ProcessNothing, TasksInv, OneTaskPerJob, PendingIsHeld, AsksOnce, Held
  <1> QED
    BY <1>1, <1>2, <1>3

LEMMA HandlerTasks ==
    TypeOK /\ TasksInv /\ (CountDone \/ RefreshDone \/ HandlerRaises \/ MoveReturns)
      => TasksInv'
  <1> SUFFICES ASSUME TypeOK, TasksInv,
                      CountDone \/ RefreshDone \/ HandlerRaises \/ MoveReturns
               PROVE  TasksInv'
    OBVIOUS
  <1> USE DEF clientVars
  <1>0. OneTaskPerJob /\ PendingIsHeld /\ AsksOnce
    BY DEF TasksInv
  <1>1. CASE CountDone
    <2> DEFINE task == [Top EXCEPT !.step = "refresh"]
    <2>1. /\ Top \in Task /\ JobsOf(stack) = JobsOf(stack') \cup {Top.job}
          /\ JobsDiffer(stack') /\ Top.job \notin JobsOf(stack')
      BY <1>0, <1>1, PopJobs, PopDiffers DEF CountDone, Top, TypeOK, OneTaskPerJob
    <2>2. task \in Task /\ task.job = Top.job
      BY <2>1 DEF Task, Steps
    <2>3. private' = <<task>> \o private /\ UNCHANGED <<public, jobs, lost, client>>
      BY <1>1 DEF CountDone
    <2>4. Top.job \notin JobsOf(private) /\ Top.job \notin JobsOf(public)
      BY <1>0, <2>1 DEF OneTaskPerJob
    <2>5. JobsOf(private') = JobsOf(private) \cup {Top.job} /\ JobsDiffer(private')
      BY <1>0, <2>2, <2>3, <2>4, PushJobs, PushDiffers DEF TypeOK, OneTaskPerJob
    <2>6. Held' = Held
      BY <2>1, <2>3, <2>5 DEF Held
    <2>7. OneTaskPerJob'
      BY <1>0, <2>1, <2>3, <2>4, <2>5, <2>6 DEF OneTaskPerJob
    <2> QED
      BY <1>0, <2>3, <2>6, <2>7, AsksKept DEF TasksInv, PendingIsHeld
  <1>2. CASE RefreshDone
    BY <1>2, ReturnTasks DEF RefreshDone, Settled
  <1>3. CASE HandlerRaises
    <2> DEFINE TwoFail ==
          /\ Len(stack) > 1
          /\ jobs' = [jobs EXCEPT ![Top.job] = "failed", ![stack[2].job] = "failed"]
          /\ stack' = Tail(Tail(stack))
          /\ UNCHANGED <<public, private>>
    <2>0. (Len(stack) = 1 /\ Returns("failed")) \/ TwoFail
      BY <1>3 DEF HandlerRaises
    <2>1. stack # <<>> /\ UNCHANGED <<lost, client>>
      BY <1>3 DEF HandlerRaises
    <2>2. CASE Len(stack) = 1 /\ Returns("failed")
      BY <2>1, <2>2, ReturnTasks DEF Settled
    <2>3. CASE TwoFail
      <3> DEFINE S == {Top.job, stack[2].job}
      <3>1. /\ Top \in Task /\ Tail(stack) \in Seq(Task)
            /\ JobsOf(stack) = JobsOf(Tail(stack)) \cup {Top.job}
            /\ JobsDiffer(Tail(stack)) /\ Top.job \notin JobsOf(Tail(stack))
        BY <1>0, <2>1, PopJobs, PopDiffers DEF Top, TypeOK, OneTaskPerJob
      <3>2. Tail(stack) # <<>> /\ stack[2] = Head(Tail(stack))
        BY <2>3, LongTail DEF TypeOK
      <3>3. /\ stack[2] \in Task
            /\ JobsOf(Tail(stack)) = JobsOf(stack') \cup {stack[2].job}
            /\ JobsDiffer(stack') /\ stack[2].job \notin JobsOf(stack')
        BY <2>3, <3>1, <3>2, PopJobs, PopDiffers
      <3>4. S \subseteq Jobs /\ S \subseteq Held
        BY <3>1, <3>3 DEF Task, Held
      <3>5. UNCHANGED <<public, private>>
        BY <2>3
      <3>6. S \cap JobsOf(stack') = {} /\ JobsOf(stack) = JobsOf(stack') \cup S
        BY <3>1, <3>3
      <3>7. Held' = Held \ S
        BY <1>0, <3>5, <3>6 DEF Held, OneTaskPerJob
      <3>8. /\ \A k \in S : jobs'[k] = "failed"
            /\ \A k \in Jobs \ S : jobs'[k] = jobs[k]
        BY <2>3, <3>4 DEF TypeOK
      <3>9. \A k \in Held' : jobs'[k] \in {"pending", "running"}
        BY <1>0, <3>7, <3>8, HeldJobs DEF OneTaskPerJob
      <3>10. OneTaskPerJob'
        BY <1>0, <3>3, <3>5, <3>6, <3>9 DEF OneTaskPerJob
      <3>11. PendingIsHeld'
        BY <1>0, <2>1, <3>7, <3>8 DEF PendingIsHeld
      <3>12. AsksOnce'
        BY <1>0, <2>1, <3>4, <3>8, AsksKept DEF OneTaskPerJob, Jobs
      <3> QED
        BY <3>10, <3>11, <3>12 DEF TasksInv
    <2> QED
      BY <2>0, <2>2, <2>3
  <1>4. CASE MoveReturns
    BY <1>4, ReturnTasks DEF MoveReturns, Settled
  <1> QED
    BY <1>1, <1>2, <1>3, <1>4

LEMMA BatchTasks ==
    ASSUME TypeOK, TasksInv, NEW b \in Batch, BatchStep(b) \/ BatchTimesOut(b)
    PROVE  TasksInv'
  <1> USE DEF clientVars
  <1>0. /\ OneTaskPerJob /\ PendingIsHeld /\ AsksOnce
        /\ at[b] \in Nat /\ Collections[b] \in Nat
    BY CollectionsAssumption DEF TasksInv, TypeOK
  <1>1. CASE BatchQueues(b)
    <2> DEFINE j == Sub(b, at[b])
    <2>1. at[b] \in 1..Collections[b] /\ jobs[j] = "none"
      BY <1>1, <1>0 DEF BatchQueues, AtCollection, TypeOK
    <2>2. j \in Jobs /\ j \notin Move /\ "reorganize" \in Steps
      <3>1. j \in SubJobs
        BY <2>1 DEF SubJobs
      <3> QED
        BY <3>1, JobsAssumption DEF Jobs, Steps
    <2>3. Put(j, "reorganize") /\ UNCHANGED <<private, stack, lost, client>>
      BY <1>1 DEF BatchQueues
    <2> HIDE DEF j
    <2>4. /\ OneTaskPerJob' /\ PendingIsHeld'
          /\ \A k \in Jobs \ {j} : jobs'[k] = jobs[k]
      BY <1>0, <2>1, <2>2, <2>3, PutKeeps
    <2>5. AsksOnce'
      BY <2>2, <2>3, <2>4, AsksKept DEF Jobs
    <2> QED
      BY <2>4, <2>5 DEF TasksInv
  <1>2. CASE BatchSkips(b) \/ BatchAdvances(b)
    <2>1. UNCHANGED <<public, private, stack, jobs, lost, client>>
      BY <1>2 DEF BatchSkips, BatchAdvances, NextCollection
    <2> QED
      BY <1>0, <2>1 DEF TasksInv, OneTaskPerJob, PendingIsHeld, AsksOnce, Held
  <1>3. CASE BatchStops(b)
    BY <1>3, ReturnTasks DEF BatchStops, AtCollection, Settled
  <1>4. CASE BatchDone(b)
    BY <1>4, ReturnTasks DEF BatchDone, Settled
  <1>5. CASE BatchTimesOut(b)
    BY <1>5, ReturnTasks DEF BatchTimesOut, AtCollection, Settled
  <1> QED
    BY <1>1, <1>2, <1>3, <1>4, <1>5 DEF BatchStep

LEMMA OutsideTasks == TypeOK /\ TasksInv /\ (Cancelled \/ Dies) => TasksInv'
  <1> SUFFICES ASSUME TypeOK, TasksInv, Cancelled \/ Dies PROVE TasksInv'
    OBVIOUS
  <1> USE DEF clientVars
  <1>0. OneTaskPerJob /\ PendingIsHeld /\ AsksOnce
    BY DEF TasksInv
  <1>1. CASE Cancelled
    <2>1. JobsOf(stack') = {} /\ JobsDiffer(stack')
      BY <1>1, EmptyJobs DEF Cancelled
    <2>2. UNCHANGED <<public, private, lost, client>>
      BY <1>1 DEF Cancelled
    <2>3. Held' = Held \ JobsOf(stack)
      BY <1>0, <2>1, <2>2 DEF Held, OneTaskPerJob
    <2>4. \A k \in Jobs : jobs'[k] = IF k \in JobsOf(stack) THEN "failed" ELSE jobs[k]
      BY <1>1 DEF Cancelled
    <2>5. \A k \in Held' : jobs'[k] \in {"pending", "running"}
      BY <1>0, <2>3, <2>4, HeldJobs DEF OneTaskPerJob
    <2>6. OneTaskPerJob'
      BY <1>0, <2>1, <2>2, <2>5 DEF OneTaskPerJob
    <2>7. PendingIsHeld'
      BY <1>0, <2>2, <2>3, <2>4 DEF PendingIsHeld
    <2>8. \A k \in Move : jobs[k] = "none" => jobs'[k] = "none"
      BY <1>0, <2>4 DEF OneTaskPerJob, Held, Jobs
    <2> QED
      BY <2>2, <2>6, <2>7, <2>8, AsksKept DEF TasksInv
  <1>2. CASE Dies
    <2>1. /\ JobsOf(stack') = {} /\ JobsDiffer(stack')
          /\ JobsOf(private') = {} /\ JobsDiffer(private')
      BY <1>2, EmptyJobs DEF Dies
    <2>2. UNCHANGED <<public, jobs, client>>
      BY <1>2 DEF Dies
    <2>3. Held' = JobsOf(public) /\ Held \cup lost = Held' \cup lost'
      BY <1>2, <2>1, <2>2 DEF Held, Dies
    <2>4. OneTaskPerJob'
      BY <1>0, <2>1, <2>2, <2>3 DEF OneTaskPerJob, Held
    <2>5. PendingIsHeld'
      BY <1>0, <2>2, <2>3 DEF PendingIsHeld
    <2> QED
      BY <2>2, <2>4, <2>5, AsksKept DEF TasksInv
  <1> QED
    BY <1>1, <1>2

LEMMA NextTasks == TypeOK /\ TasksInv /\ [Next]_vars => TasksInv'
  <1> SUFFICES ASSUME TypeOK, TasksInv, [Next]_vars PROVE TasksInv'
    OBVIOUS
  <1>1. CASE UNCHANGED vars
    BY <1>1
    DEF vars, clientVars, TasksInv, OneTaskPerJob, PendingIsHeld, AsksOnce, Held
  <1>2. CASE Next
    BY <1>2, ClientTasks, DrainTasks, HandlerTasks, BatchTasks, OutsideTasks
    DEF Next, Consumer
  <1> QED
    BY <1>1, <1>2

LEMMA TasksInvariant == Spec => [](TypeOK /\ TasksInv)
  BY InitType, InitTasks, NextType, NextTasks, PTL DEF Spec

\* However handlers nest, fail, are cancelled or die, a job somebody waits for
\* keeps its task, unless that task died with its process.
THEOREM NoTaskIsDropped == Spec => []PendingIsHeld
  BY TasksInvariant, PTL DEF TasksInv

\* Nothing is queued twice, handled twice at once, or queued once it is over.
THEOREM OneTaskForEachJob == Spec => []OneTaskPerJob
  BY TasksInvariant, PTL DEF TasksInv

-----------------------------------------------------------------------------
(* Settled jobs                                                            *)

SettledStay == \A j \in Jobs : jobs[j] \in Settled => jobs'[j] = jobs[j]

\* A step that sets the status of one job, which is new or still has its task.
LEMMA OneSettledStays ==
    ASSUME TypeOK, OneTaskPerJob, NEW x, x \in Held \/ jobs[x] = "none", NEW status,
           jobs' = [jobs EXCEPT ![x] = status]
    PROVE  SettledStay
  <1>1. jobs[x] \notin Settled
    BY DEF OneTaskPerJob, Settled
  <1> QED
    BY <1>1 DEF SettledStay, TypeOK

LEMMA TopIsHeld ==
    ASSUME TypeOK, stack # <<>>
    PROVE  Top.job \in Held
  BY PopJobs DEF Top, Held, TypeOK

LEMMA NextSettled == TypeOK /\ TasksInv /\ [Next]_vars => SettledStay
  <1> SUFFICES ASSUME TypeOK, TasksInv, [Next]_vars PROVE SettledStay
    OBVIOUS
  <1>0. OneTaskPerJob /\ AsksOnce
    BY DEF TasksInv
  <1>1. ASSUME jobs' = jobs PROVE SettledStay
    BY <1>1 DEF SettledStay
  <1>2. ASSUME stack # <<>>, NEW status, Returns(status) PROVE SettledStay
    BY <1>0, <1>2, TopIsHeld, OneSettledStays DEF Returns
  <1>3. ASSUME NEW j, NEW step, jobs[j] = "none", Put(j, step) PROVE SettledStay
    BY <1>0, <1>3, OneSettledStays DEF Put
  <1>4. CASE Client
    <2>1. ASSUME NEW m \in Move, MoveQueues(m) PROVE SettledStay
      BY <1>0, <1>3, <2>1 DEF MoveQueues, AsksOnce
    <2> QED
      BY <1>1, <1>3, <1>4, <2>1
      DEF Client, QueueRefresh, QueueBatch, MoveEnters, MoveSeesJob, MoveGivesUp
  <1>5. CASE Process
    <2> DEFINE task == Head(private)
    <2>1. task.job \in Held
      BY <1>5, PopJobs DEF Process, Held, TypeOK
    <2>2. jobs' = jobs \/ jobs' = [jobs EXCEPT ![task.job] = "running"]
      BY <1>5 DEF Process
    <2> QED
      BY <1>0, <1>1, <2>1, <2>2, OneSettledStays
  <1>6. CASE HandlerRaises
    <2>1. CASE Returns("failed")
      BY <1>2, <1>6, <2>1 DEF HandlerRaises
    <2>2. CASE /\ Len(stack) > 1
               /\ jobs' = [jobs EXCEPT ![Top.job] = "failed", ![stack[2].job] = "failed"]
      <3>1. Top.job \in Held
        BY <1>6, TopIsHeld DEF HandlerRaises
      <3>2. stack[2].job \in Held
        BY <2>2 DEF TypeOK, Held, JobsOf
      <3>3. jobs[Top.job] \notin Settled /\ jobs[stack[2].job] \notin Settled
        BY <1>0, <3>1, <3>2 DEF OneTaskPerJob, Settled
      <3> QED
        BY <2>2, <3>3 DEF SettledStay, TypeOK
    <2> QED
      BY <1>6, <2>1, <2>2 DEF HandlerRaises
  <1>7. ASSUME NEW b \in Batch, BatchStep(b) \/ BatchTimesOut(b) PROVE SettledStay
    BY <1>1, <1>2, <1>3, <1>7
    DEF BatchStep, BatchQueues, BatchSkips, BatchAdvances, BatchStops, BatchDone,
        BatchTimesOut, AtCollection, NextCollection
  <1>8. CASE Cancelled
    BY <1>0, <1>8 DEF Cancelled, OneTaskPerJob, Held, Settled, SettledStay
  <1>9. CASE Transfer \/ ProcessNothing \/ CountDone \/ Dies \/ UNCHANGED vars
    BY <1>1, <1>9 DEF Transfer, ProcessNothing, CountDone, Dies, vars
  <1>10. CASE RefreshDone \/ MoveReturns
    BY <1>2, <1>10 DEF RefreshDone, MoveReturns
  <1> QED
    BY <1>4, <1>5, <1>6, <1>7, <1>8, <1>9, <1>10 DEF Next, Consumer

\* A job that has completed or failed is never run or judged again: what a
\* waiting process read of it stays true.
THEOREM JobsSettleOnce == Spec => SettlesOnce
  <1>1. Spec => [][SettledStay]_vars
    BY TasksInvariant, NextSettled, PTL DEF Spec
  <1> QED
    BY <1>1 DEF SettlesOnce, SettledStay

-----------------------------------------------------------------------------
(* Which handler works for which job                                       *)

\* What `put' is given: the step of a task tells the kind of its job.
KindTask ==
    [job : Refresh, step : {"count", "refresh"}] \cup [job : Move, step : {"move"}]
    \cup [job : SubJobs, step : {"reorganize"}] \cup [job : Batch, step : {"batch"}]

KindInv ==
    public \in Seq(KindTask) /\ private \in Seq(KindTask) /\ stack \in Seq(KindTask)

LEMMA KindOf ==
    ASSUME NEW t \in KindTask
    PROVE  /\ t \in Task
           /\ t.step \in {"count", "refresh"} => t.job \in Refresh
           /\ t.step = "move" => t.job \in Move
           /\ t.step = "reorganize" => t.job \in SubJobs
           /\ t.step = "batch" => t.job \in Batch
  BY DEF KindTask, Task, Jobs, Steps

LEMMA TopKind ==
    ASSUME KindInv, stack # <<>>
    PROVE  Top \in KindTask /\ Tail(stack) \in Seq(KindTask)
  BY DEF KindInv, Top

LEMMA PutKind ==
    ASSUME KindInv, NEW j, NEW step, [job |-> j, step |-> step] \in KindTask, Put(j, step),
           UNCHANGED <<private, stack>>
    PROVE  KindInv'
  BY DEF KindInv, Put

LEMMA ReturnsKind ==
    ASSUME KindInv, stack # <<>>, NEW status, Returns(status)
    PROVE  KindInv'
  BY TopKind DEF KindInv, Returns

LEMMA NextKind == TypeOK /\ KindInv /\ [Next]_vars => KindInv'
  <1> SUFFICES ASSUME TypeOK, KindInv, [Next]_vars PROVE KindInv'
    OBVIOUS
  <1> USE DEF clientVars
  <1>1. CASE Client
    <2>1. ASSUME NEW r \in Refresh, QueueRefresh(r) PROVE KindInv'
      <3>1. [job |-> r, step |-> "count"] \in KindTask
        BY DEF KindTask
      <3> QED
        BY <2>1, <3>1, PutKind DEF QueueRefresh
    <2>2. ASSUME NEW b \in Batch, QueueBatch(b) PROVE KindInv'
      <3>1. [job |-> b, step |-> "batch"] \in KindTask
        BY DEF KindTask
      <3> QED
        BY <2>2, <3>1, PutKind DEF QueueBatch
    <2>3. ASSUME NEW m \in Move, MoveQueues(m) PROVE KindInv'
      <3>1. [job |-> m, step |-> "move"] \in KindTask
        BY DEF KindTask
      <3> QED
        BY <2>3, <3>1, PutKind DEF MoveQueues
    <2>4. ASSUME NEW m \in Move, MoveEnters(m) \/ MoveSeesJob(m) \/ MoveGivesUp(m)
          PROVE  KindInv'
      BY <2>4 DEF MoveEnters, MoveSeesJob, MoveGivesUp, KindInv
    <2> QED
      BY <1>1, <2>1, <2>2, <2>3, <2>4 DEF Client
  <1>2. CASE Transfer
    <2>1. /\ Reverse(public) \in Seq(KindTask)
          /\ private \in Seq(KindTask) /\ stack \in Seq(KindTask)
      BY DEF KindInv, Reverse
    <2>2. /\ private' = Reverse(public) \o private
          /\ public' = <<>> /\ stack' = stack
      BY <1>2 DEF Transfer
    <2>3. \A s, t \in Seq(KindTask) : s \o t \in Seq(KindTask)
      OBVIOUS
    <2>4. private' \in Seq(KindTask)
      BY <2>1, <2>2, <2>3
    <2> QED
      BY <2>1, <2>2, <2>4 DEF KindInv
  <1>3. CASE Process
    <2>1. private # <<>> /\ private \in Seq(KindTask) /\ stack \in Seq(KindTask)
      BY <1>3 DEF Process, KindInv
    <2>2. Head(private) \in KindTask /\ Tail(private) \in Seq(KindTask)
      BY <2>1
    <2>3. <<Head(private)>> \o stack \in Seq(KindTask)
      BY <2>1, <2>2
    <2> QED
      BY <1>3, <2>2, <2>3 DEF Process, KindInv
  <1>4. CASE CountDone
    <2>1. /\ stack # <<>> /\ Top.step = "count"
          /\ private' = <<[Top EXCEPT !.step = "refresh"]>> \o private
          /\ stack' = Tail(stack) /\ public' = public
      BY <1>4 DEF CountDone
    <2>2. Top \in [job : Refresh, step : {"count", "refresh"}]
      BY <2>1, TopKind DEF KindTask
    <2>3. [Top EXCEPT !.step = "refresh"] \in KindTask
      BY <2>2 DEF KindTask
    <2>4. private' \in Seq(KindTask)
      BY <2>1, <2>3 DEF KindInv
    <2> QED
      BY <2>1, <2>4, TopKind DEF KindInv
  <1>5. CASE RefreshDone \/ MoveReturns
    BY <1>5, ReturnsKind DEF RefreshDone, MoveReturns
  <1>6. CASE HandlerRaises
    <2>1. CASE Returns("failed")
      BY <1>6, <2>1, ReturnsKind DEF HandlerRaises
    <2>2. CASE /\ Len(stack) > 1 /\ stack' = Tail(Tail(stack))
               /\ UNCHANGED <<public, private>>
      <3>1. Tail(stack) # <<>>
        BY <2>2, LongTail DEF TypeOK
      <3>2. Tail(stack) \in Seq(KindTask)
        BY <1>6, TopKind DEF HandlerRaises
      <3>3. Tail(Tail(stack)) \in Seq(KindTask)
        BY <3>1, <3>2
      <3> QED
        BY <2>2, <3>3 DEF KindInv
    <2> QED
      BY <1>6, <2>1, <2>2 DEF HandlerRaises
  <1>7. ASSUME NEW b \in Batch, BatchStep(b) \/ BatchTimesOut(b) PROVE KindInv'
    <2>1. CASE BatchQueues(b)
      <3>1. at[b] \in 1..Collections[b]
        BY <2>1, CollectionsAssumption DEF BatchQueues, AtCollection, TypeOK
      <3>2. [job |-> Sub(b, at[b]), step |-> "reorganize"] \in KindTask
        BY <3>1 DEF KindTask, SubJobs
      <3> QED
        BY <2>1, <3>2, PutKind DEF BatchQueues
    <2>2. CASE BatchSkips(b) \/ BatchAdvances(b)
      BY <2>2 DEF BatchSkips, BatchAdvances, NextCollection, KindInv
    <2>3. CASE BatchStops(b) \/ BatchDone(b) \/ BatchTimesOut(b)
      BY <2>3, ReturnsKind DEF BatchStops, BatchDone, BatchTimesOut, AtCollection
    <2> QED
      BY <1>7, <2>1, <2>2, <2>3 DEF BatchStep
  <1>8. CASE Cancelled \/ Dies
    <2>1. <<>> \in Seq(KindTask)
      OBVIOUS
    <2>2. /\ public' = public /\ stack' = <<>>
          /\ private' = private \/ private' = <<>>
      BY <1>8 DEF Cancelled, Dies
    <2> QED
      BY <2>1, <2>2 DEF KindInv
  <1>9. CASE ProcessNothing \/ UNCHANGED vars
    BY <1>9 DEF ProcessNothing, vars, KindInv
  <1> QED
    BY <1>1, <1>2, <1>3, <1>4, <1>5, <1>6, <1>7, <1>8, <1>9 DEF Next, Consumer

-----------------------------------------------------------------------------
(* Batches                                                                 *)

\* Nobody but its batch asks for the reorganization of a collection.
SubsStayNew ==
    \A b \in Batch : \A k \in 1..Collections[b] :
        jobs[Sub(b, k)] = "none" =>
            jobs'[Sub(b, k)] = "none" \/ (BatchQueues(b) /\ k = at[b])

LEMMA NextSubs == TypeOK /\ TasksInv /\ [Next]_vars => SubsStayNew
  <1> SUFFICES ASSUME TypeOK, TasksInv, [Next]_vars,
                      NEW b \in Batch, NEW k \in 1..Collections[b],
                      jobs[Sub(b, k)] = "none"
               PROVE  jobs'[Sub(b, k)] = "none" \/ (BatchQueues(b) /\ k = at[b])
    BY DEF SubsStayNew
  <1> DEFINE x == Sub(b, k)
  <1>1. x \in SubJobs /\ x \in Jobs
    BY DEF SubJobs, Jobs
  <1>2. x \notin Held
    BY DEF TasksInv, OneTaskPerJob
  <1>3. x \notin Refresh /\ x \notin Batch /\ x \notin Move
    BY <1>1, JobsAssumption
  <1>4. ASSUME NEW y, y # x, NEW status, jobs' = [jobs EXCEPT ![y] = status]
        PROVE  jobs'[x] = "none"
    BY <1>1, <1>4 DEF TypeOK
  <1>5. ASSUME stack # <<>>, NEW status, Returns(status) PROVE jobs'[x] = "none"
    BY <1>2, <1>4, <1>5, TopIsHeld DEF Returns
  <1>6. CASE Client
    BY <1>3, <1>4, <1>6
    DEF Client, QueueRefresh, QueueBatch, MoveEnters, MoveQueues, MoveSeesJob,
        MoveGivesUp, Put
  <1>7. CASE Process
    <2>1. Head(private).job \in Held
      BY <1>7, PopJobs DEF Process, Held, TypeOK
    <2> QED
      BY <1>2, <1>4, <1>7, <2>1 DEF Process
  <1>8. CASE HandlerRaises
    <2>1. CASE Returns("failed")
      BY <1>5, <1>8, <2>1 DEF HandlerRaises
    <2>2. CASE /\ Len(stack) > 1
               /\ jobs' = [jobs EXCEPT ![Top.job] = "failed", ![stack[2].job] = "failed"]
      <3>1. Top.job \in Held
        BY <1>8, TopIsHeld DEF HandlerRaises
      <3>2. stack[2].job \in Held
        BY <2>2 DEF TypeOK, Held, JobsOf
      <3>3. x # Top.job /\ x # stack[2].job
        BY <1>2, <3>1, <3>2
      <3> QED
        BY <1>1, <2>2, <3>3 DEF TypeOK
    <2> QED
      BY <1>8, <2>1, <2>2 DEF HandlerRaises
  <1>9. ASSUME NEW c \in Batch, BatchStep(c) \/ BatchTimesOut(c)
        PROVE  jobs'[x] = "none" \/ (BatchQueues(b) /\ k = at[b])
    <2>1. CASE BatchQueues(c)
      <3>1. CASE x = Sub(c, at[c])
        <4>1. b = c /\ k = at[c]
          BY <3>1 DEF Sub
        <4> QED
          BY <2>1, <4>1
      <3>2. CASE x # Sub(c, at[c])
        BY <1>4, <2>1, <3>2 DEF BatchQueues, Put
      <3> QED
        BY <3>1, <3>2
    <2>2. CASE BatchSkips(c) \/ BatchAdvances(c)
      BY <2>2 DEF BatchSkips, BatchAdvances, NextCollection
    <2>3. CASE BatchStops(c) \/ BatchDone(c) \/ BatchTimesOut(c)
      BY <1>5, <2>3 DEF BatchStops, BatchDone, BatchTimesOut, AtCollection
    <2> QED
      BY <1>9, <2>1, <2>2, <2>3 DEF BatchStep
  <1>10. CASE Cancelled
    BY <1>1, <1>2, <1>10 DEF Cancelled, Held
  <1>11. CASE Transfer \/ ProcessNothing \/ CountDone \/ Dies \/ UNCHANGED vars
    BY <1>11 DEF Transfer, ProcessNothing, CountDone, Dies, vars
  <1>12. CASE RefreshDone \/ MoveReturns
    BY <1>5, <1>12 DEF RefreshDone, MoveReturns
  <1> QED
    BY <1>6, <1>7, <1>8, <1>9, <1>10, <1>11, <1>12 DEF Next, Consumer

\* A batch leaves a collection that needed nothing or has been reorganized.
Leaves(b) == jobs[Sub(b, at[b])] \in {"none", "complete"} /\ NextCollection(b)

LEMMA NextAt == TypeOK /\ [Next]_vars => at' = at \/ \E b \in Batch : Leaves(b)
  BY DEF Next, vars, clientVars, Consumer, Client, Transfer, Process, ProcessNothing,
         CountDone, RefreshDone, HandlerRaises, MoveReturns, BatchStep, BatchQueues,
         BatchSkips, BatchAdvances, BatchStops, BatchDone, BatchTimesOut, Cancelled,
         Dies, QueueRefresh, QueueBatch, MoveEnters, MoveQueues, MoveSeesJob,
         MoveGivesUp, AtCollection, Leaves

LEMMA NextSequential ==
    TypeOK /\ TasksInv /\ BatchIsSequential /\ [Next]_vars => BatchIsSequential'
  <1> SUFFICES ASSUME TypeOK, TasksInv, BatchIsSequential, [Next]_vars,
                      NEW b \in Batch, NEW k \in 1..Collections[b]
               PROVE  /\ k < at'[b] => jobs'[Sub(b, k)] \in {"none", "complete"}
                      /\ k > at'[b] => jobs'[Sub(b, k)] = "none"
    BY DEF BatchIsSequential
  <1> DEFINE x == Sub(b, k)
  <1>1. /\ x \in Jobs /\ at[b] \in Nat /\ k \in Nat
        /\ k < at[b] => jobs[x] \in {"none", "complete"}
        /\ k > at[b] => jobs[x] = "none"
    BY SubIsJob, CollectionsAssumption DEF BatchIsSequential, TypeOK
  <1>2. /\ jobs[x] = "complete" => jobs'[x] = "complete"
        /\ jobs[x] = "none" => jobs'[x] = "none" \/ k = at[b]
    BY <1>1, NextSettled, NextSubs DEF SettledStay, Settled, SubsStayNew
  <1>3. CASE at' = at
    BY <1>1, <1>2, <1>3
  <1>4. ASSUME NEW c \in Batch, Leaves(c)
        PROVE  /\ k < at'[b] => jobs'[x] \in {"none", "complete"}
               /\ k > at'[b] => jobs'[x] = "none"
    <2>1. jobs' = jobs /\ at' = [at EXCEPT ![c] = @ + 1]
      BY <1>4 DEF Leaves, NextCollection
    <2>2. CASE b = c
      <3>1. at'[b] = at[b] + 1
        BY <2>1, <2>2 DEF TypeOK
      <3>2. k = at[b] => jobs[x] \in {"none", "complete"}
        BY <1>4, <2>2 DEF Leaves
      <3> QED
        BY <1>1, <2>1, <3>1, <3>2
    <2>3. CASE b # c
      <3>1. at'[b] = at[b]
        BY <2>1, <2>3 DEF TypeOK
      <3> QED
        BY <1>1, <2>1, <3>1
    <2> QED
      BY <2>2, <2>3
  <1> QED
    BY <1>3, <1>4, NextAt

\* A batch completes when it has left its last collection.
LEMMA NextCompletes ==
    ASSUME TypeOK, KindInv, [Next]_vars, NEW b \in Batch,
           jobs'[b] = "complete", jobs[b] # "complete"
    PROVE  at[b] > Collections[b] /\ \A k \in 1..Collections[b] : jobs'[Sub(b, k)] = jobs[Sub(b, k)]
  <1>0. b \in Jobs /\ b \notin Refresh /\ b \notin Move /\ b \notin SubJobs
    BY JobsAssumption DEF Jobs
  <1>1. ASSUME NEW y, NEW status, jobs' = [jobs EXCEPT ![y] = status]
        PROVE  y = b /\ status = "complete"
    BY <1>0, <1>1 DEF TypeOK
  <1>2. ~Client
    <2>1. ASSUME NEW j, NEW step, Put(j, step) PROVE FALSE
      BY <1>1, <2>1 DEF Put
    <2> QED
      BY <2>1 DEF Client, QueueRefresh, QueueBatch, MoveEnters, MoveQueues, MoveSeesJob,
                  MoveGivesUp
  <1>3. ~Process
    BY <1>1 DEF Process
  <1>4. ~(RefreshDone \/ MoveReturns)
    <2>1. ASSUME RefreshDone \/ MoveReturns PROVE FALSE
      <3>1. Top.job = b
        BY <1>1, <2>1 DEF RefreshDone, MoveReturns, Returns
      <3>2. Top.job \in Refresh \cup Move \cup SubJobs
        BY <2>1, TopKind, KindOf DEF RefreshDone, MoveReturns
      <3> QED
        BY <1>0, <3>1, <3>2
    <2> QED
      BY <2>1
  <1>5. ~HandlerRaises
    <2>1. ~Returns("failed")
      BY <1>1 DEF Returns
    <2>2. jobs' # [jobs EXCEPT ![Top.job] = "failed", ![stack[2].job] = "failed"]
      BY <1>0 DEF TypeOK
    <2> QED
      BY <2>1, <2>2 DEF HandlerRaises
  <1>6. ASSUME NEW c \in Batch, BatchStep(c) \/ BatchTimesOut(c)
        PROVE  /\ at[b] > Collections[b]
               /\ \A k \in 1..Collections[b] : jobs'[Sub(b, k)] = jobs[Sub(b, k)]
    <2>1. ~(BatchQueues(c) \/ BatchSkips(c) \/ BatchAdvances(c))
      <3>1. ~BatchQueues(c)
        <4>1. BatchQueues(c) => jobs' = [jobs EXCEPT ![Sub(c, at[c])] = "pending"]
          BY DEF BatchQueues, Put
        <4> QED
          BY <1>1, <4>1
      <3>2. ~(BatchSkips(c) \/ BatchAdvances(c))
        BY DEF BatchSkips, BatchAdvances, NextCollection
      <3> QED
        BY <3>1, <3>2
    <2>2. ~(BatchStops(c) \/ BatchTimesOut(c))
      BY <1>1 DEF BatchStops, BatchTimesOut, Returns
    <2>3. BatchDone(c) /\ Returns("complete")
      BY <1>6, <2>1, <2>2 DEF BatchStep, BatchDone
    <2>4. Top.job = b /\ b = c
      BY <1>1, <2>3 DEF BatchDone, Returns
    <2>5. ASSUME NEW k \in 1..Collections[b] PROVE jobs'[Sub(b, k)] = jobs[Sub(b, k)]
      <3>1. Sub(b, k) \in SubJobs /\ Sub(b, k) \in Jobs
        BY DEF SubJobs, Jobs
      <3> QED
        BY <1>0, <2>3, <2>4, <3>1 DEF Returns, TypeOK
    <2> QED
      BY <2>3, <2>4, <2>5 DEF BatchDone
  <1>7. ~Cancelled
    BY <1>0 DEF Cancelled
  <1>8. ~(Transfer \/ ProcessNothing \/ CountDone \/ Dies \/ UNCHANGED vars)
    BY DEF Transfer, ProcessNothing, CountDone, Dies, vars
  <1> QED
    BY <1>2, <1>3, <1>4, <1>5, <1>6, <1>7, <1>8 DEF Next, Consumer

LEMMA NextComplete ==
    ASSUME TypeOK, TasksInv, KindInv, BatchIsSequential, CompleteBatchIsComplete, [Next]_vars
    PROVE  CompleteBatchIsComplete'
  <1> SUFFICES ASSUME NEW b \in Batch, jobs'[b] = "complete", NEW k \in 1..Collections[b]
               PROVE  jobs'[Sub(b, k)] \in {"none", "complete"}
    BY DEF CompleteBatchIsComplete
  <1>0. b \in Jobs /\ Sub(b, k) \in Jobs
    BY SubIsJob DEF Jobs
  <1>1. CASE jobs[b] # "complete"
    <2>1. at[b] > Collections[b] /\ jobs'[Sub(b, k)] = jobs[Sub(b, k)]
      BY <1>1, NextCompletes
    <2>2. k < at[b]
      BY <2>1, CollectionsAssumption DEF TypeOK
    <2> QED
      BY <2>1, <2>2 DEF BatchIsSequential
  <1>2. CASE jobs[b] = "complete"
    <2>1. jobs[Sub(b, k)] \in {"none", "complete"}
      BY <1>2 DEF CompleteBatchIsComplete
    <2>2. ~BatchQueues(b)
      <3>1. ASSUME BatchQueues(b) PROVE FALSE
        <4>1. stack # <<>> /\ Top.job = b
          BY <3>1 DEF BatchQueues, AtCollection
        <4> QED
          BY <1>2, <4>1, TopIsHeld DEF TasksInv, OneTaskPerJob
      <3> QED
        BY <3>1
    <2> QED
      BY <1>0, <2>1, <2>2, NextSettled, NextSubs DEF SettledStay, Settled, SubsStayNew
  <1> QED
    BY <1>1, <1>2

BatchesInv == KindInv /\ BatchIsSequential /\ CompleteBatchIsComplete

LEMMA InitBatches == Init => BatchesInv
  <1> SUFFICES ASSUME Init PROVE BatchesInv
    OBVIOUS
  <1>1. KindInv
    BY DEF Init, KindInv
  <1>2. \A b \in Batch : b \in Jobs /\ \A k \in 1..Collections[b] : jobs[Sub(b, k)] = "none"
    BY SubIsJob DEF Init, Jobs
  <1>3. \A b \in Batch : jobs[b] = "none"
    BY <1>2 DEF Init
  <1> QED
    BY <1>1, <1>2, <1>3 DEF BatchesInv, BatchIsSequential, CompleteBatchIsComplete

LEMMA BatchesInvariant == Spec => []BatchesInv
  <1>1. TypeOK /\ TasksInv /\ BatchesInv /\ [Next]_vars => BatchesInv'
    BY NextKind, NextSequential, NextComplete DEF BatchesInv
  <1> QED
    BY <1>1, InitBatches, TasksInvariant, PTL DEF Spec

\* Of each batch the collections before the one it has reached are done, and
\* those after it are not asked for, however batches nest.
THEOREM BatchesAreSequential == Spec => []BatchIsSequential
  BY BatchesInvariant, PTL DEF BatchesInv

\* No batch completes past a collection that failed.
THEOREM CompleteBatchesAreComplete == Spec => []CompleteBatchIsComplete
  BY BatchesInvariant, PTL DEF BatchesInv

-----------------------------------------------------------------------------
(* Moves                                                                   *)

\* Where the database has a collection while its move is under way.
OutcomeInv ==
    \A m \in Move :
        /\ client[m] \in {"flagged", "waiting"} => directory[m] = "new"
        /\ client[m] = "moved" => directory[m] = "new" /\ jobs[m] = "complete"
        /\ client[m] = "reverted" => directory[m] = "old" /\ jobs[m] = "failed"

LEMMA NextOutcome == TypeOK /\ TasksInv /\ OutcomeInv /\ [Next]_vars => OutcomeInv'
  <1> SUFFICES ASSUME TypeOK, TasksInv, OutcomeInv, [Next]_vars PROVE OutcomeInv'
    OBVIOUS
  <1>1. \A m \in Move : jobs[m] \in Settled => jobs'[m] = jobs[m]
    BY NextSettled DEF SettledStay, Jobs
  <1>2. CASE UNCHANGED clientVars
    BY <1>1, <1>2 DEF OutcomeInv, clientVars, Settled
  <1>3. ASSUME NEW m \in Move,
               MoveEnters(m) \/ MoveQueues(m) \/ MoveSeesJob(m) \/ MoveGivesUp(m)
        PROVE  OutcomeInv'
    <2> SUFFICES ASSUME NEW n \in Move
                 PROVE  /\ client'[n] \in {"flagged", "waiting"} => directory'[n] = "new"
                        /\ client'[n] = "moved" =>
                              directory'[n] = "new" /\ jobs'[n] = "complete"
                        /\ client'[n] = "reverted" =>
                              directory'[n] = "old" /\ jobs'[n] = "failed"
      BY DEF OutcomeInv
    <2>1. CASE n # m
      <3>1. client'[n] = client[n] /\ directory'[n] = directory[n]
        BY <1>3, <2>1
        DEF MoveEnters, MoveQueues, MoveSeesJob, MoveGivesUp, PutBack, TypeOK
      <3> QED
        BY <1>1, <3>1 DEF OutcomeInv, Settled
    <2>2. CASE n = m
      BY <1>1, <1>3, <2>2
      DEF MoveEnters, MoveQueues, MoveSeesJob, MoveGivesUp, PutBack, TypeOK, OutcomeInv,
          Settled
    <2> QED
      BY <2>1, <2>2
  <1>4. \/ UNCHANGED clientVars
        \/ \E m \in Move :
              MoveEnters(m) \/ MoveQueues(m) \/ MoveSeesJob(m) \/ MoveGivesUp(m)
    <2>1. UNCHANGED vars \/ Transfer \/ Process \/ ProcessNothing \/ CountDone
             \/ RefreshDone \/ HandlerRaises \/ MoveReturns \/ Cancelled \/ Dies
          => UNCHANGED clientVars
      BY DEF vars, Transfer, Process, ProcessNothing, CountDone, RefreshDone,
             HandlerRaises, MoveReturns, Cancelled, Dies, clientVars
    <2>2. ASSUME NEW b \in Batch, BatchStep(b) \/ BatchTimesOut(b)
          PROVE  UNCHANGED clientVars
      BY <2>2 DEF BatchStep, BatchQueues, BatchSkips, BatchAdvances, BatchStops,
                  BatchDone, BatchTimesOut, NextCollection
    <2>3. \A r : QueueRefresh(r) \/ QueueBatch(r) => UNCHANGED clientVars
      BY DEF QueueRefresh, QueueBatch
    <2> QED
      <3>1. CASE \E m \in Move :
                    MoveEnters(m) \/ MoveQueues(m) \/ MoveSeesJob(m) \/ MoveGivesUp(m)
        BY <3>1
      <3>2. CASE Client
        BY <2>3, <3>1, <3>2 DEF Client
      <3>3. CASE UNCHANGED vars \/ Consumer \/ (\E b \in Batch : BatchTimesOut(b))
                    \/ Cancelled \/ Dies
        BY <2>1, <2>2, <3>3 DEF Consumer
      <3> QED
        BY <3>1, <3>2, <3>3 DEF Next
  <1> QED
    BY <1>2, <1>3, <1>4

\* The database has the directory that the files are in, once a process that did
\* not give up has heard of its move.
THEOREM OutcomesAreRecorded == Spec => []OutcomeIsRecorded
  <1>1. Init => OutcomeInv
    BY DEF Init, OutcomeInv
  <1>2. OutcomeInv => OutcomeIsRecorded
    BY DEF OutcomeInv, OutcomeIsRecorded
  <1> QED
    BY <1>1, <1>2, NextOutcome, TasksInvariant, PTL DEF Spec
-----------------------------------------------------------------------------
(* The board of jobs                                                       *)

\* All handlers but the innermost are batches: only they let others run.
Nests(s) == \A i \in DOMAIN s : i > 1 => s[i].step = "batch"
Nested == Nests(stack)

\* A job that was lost is held by nobody, and never settles.
LostInv == \A j \in lost : j \notin Held /\ jobs[j] \in {"pending", "running"}

BoardInv == TypeOK /\ TasksInv /\ KindInv /\ LostInv /\ Nested

LEMMA NestsPop ==
    ASSUME NEW s \in Seq(Task), s # <<>>, Nests(s)
    PROVE  Nests(Tail(s))
  <1>1. /\ Tail(s) \in Seq(Task) /\ Len(Tail(s)) = Len(s) - 1
        /\ \A i \in 1..Len(Tail(s)) : Tail(s)[i] = s[i + 1]
    BY HeadTailProperties
  <1>2. DOMAIN Tail(s) = 1..Len(Tail(s)) /\ DOMAIN s = 1..Len(s) /\ Len(s) \in Nat
    BY <1>1
  <1>3. ASSUME NEW i \in DOMAIN Tail(s), i > 1 PROVE Tail(s)[i].step = "batch"
    <2>1. i + 1 \in DOMAIN s /\ i + 1 > 1
      BY <1>1, <1>2, <1>3
    <2> QED
      BY <1>1, <1>2, <2>1 DEF Nests
  <1> QED
    BY <1>3 DEF Nests

LEMMA NestsPush ==
    ASSUME NEW s \in Seq(Task), NEW t \in Task, Nests(s),
           s = <<>> \/ Head(s).step = "batch"
    PROVE  /\ Nests(<<t>> \o s)
           /\ \A i \in DOMAIN s : s[i].step = "batch"
  <1>1. \A i \in DOMAIN s : s[i].step = "batch"
    <2>1. ASSUME NEW i \in DOMAIN s PROVE s[i].step = "batch"
      <3>1. s # <<>> /\ Head(s) = s[1] /\ (i = 1 \/ i > 1)
        BY <2>1
      <3> QED
        BY <3>1 DEF Nests
    <2> QED
      BY <2>1
  <1> DEFINE a == <<t>> \o s
  <1>2. a \in Seq(Task) /\ Len(a) = Len(s) + 1
    OBVIOUS
  <1>3. \A i \in 1..Len(s) : a[i + 1] = s[i]
    OBVIOUS
  <1>4. ASSUME NEW i \in DOMAIN a, i > 1 PROVE a[i].step = "batch"
    <2>1. i - 1 \in 1..Len(s) /\ (i - 1) + 1 = i
      BY <1>2, <1>4
    <2>2. a[i] = s[i - 1] /\ i - 1 \in DOMAIN s
      BY <1>3, <2>1
    <2> QED
      BY <1>1, <2>2
  <1> HIDE DEF a
  <1>5. Nests(a)
    BY <1>4 DEF Nests
  <1> QED
    BY <1>1, <1>5 DEF a

\* The queues are drained when every handler under way is a batch.
LEMMA DrainingNests ==
    ASSUME BoardInv, Draining
    PROVE  /\ stack = <<>> \/ Head(stack).step = "batch"
           /\ JobsOf(stack) \subseteq Batch
  <1>1. stack \in Seq(Task) /\ stack \in Seq(KindTask) /\ Nests(stack)
    BY DEF BoardInv, TypeOK, KindInv, Nested
  <1>2. stack = <<>> \/ Head(stack).step = "batch"
    BY DEF Draining, Polling, Top
  <1>3. \A i \in DOMAIN stack : stack[i].step = "batch"
    <2>1. CASE stack = <<>>
      BY <2>1
    <2>2. CASE stack # <<>>
      <3>1. Head(stack) \in Task
        BY <1>1, <2>2
      <3> QED
        BY <1>1, <1>2, <2>2, <3>1, NestsPush
    <2> QED
      BY <2>1, <2>2
  <1>4. \A i \in DOMAIN stack : stack[i] \in KindTask
    BY <1>1
  <1>5. \A i \in DOMAIN stack : stack[i].job \in Batch
    BY <1>3, <1>4, KindOf
  <1> QED
    BY <1>2, <1>5 DEF JobsOf

LEMMA NextNested == BoardInv /\ [Next]_vars => Nested'
  <1> SUFFICES ASSUME BoardInv, [Next]_vars PROVE Nested'
    OBVIOUS
  <1>0. /\ stack \in Seq(Task) /\ private \in Seq(Task) /\ Nests(stack)
    BY DEF BoardInv, TypeOK, Nested
  <1>1. CASE stack' = stack
    BY <1>0, <1>1 DEF Nested
  <1>2. CASE stack # <<>> /\ stack' = Tail(stack)
    BY <1>0, <1>2, NestsPop DEF Nested
  <1>3. CASE Len(stack) > 1 /\ stack' = Tail(Tail(stack))
    <2>1. stack # <<>> /\ Tail(stack) \in Seq(Task) /\ Tail(stack) # <<>>
      BY <1>0, <1>3, LongTail
    <2> QED
      BY <1>0, <1>3, <2>1, NestsPop DEF Nested
  <1>4. CASE stack' = <<>>
    BY <1>4 DEF Nested, Nests
  <1>5. CASE Process
    BY <1>0, <1>5, DrainingNests, NestsPush, PopJobs DEF Process, Nested
  <1>6. CASE UNCHANGED vars
    BY <1>1, <1>6 DEF vars
  <1>7. CASE Client
    BY <1>1, <1>7
    DEF Client, QueueRefresh, QueueBatch, MoveEnters, MoveQueues, MoveSeesJob, MoveGivesUp
  <1>8. ASSUME NEW b \in Batch, BatchStep(b) \/ BatchTimesOut(b) PROVE Nested'
    BY <1>1, <1>2, <1>8
    DEF BatchStep, BatchQueues, BatchSkips, BatchAdvances, BatchStops, BatchDone,
        BatchTimesOut, AtCollection, NextCollection, Returns
  <1>9. CASE Transfer \/ ProcessNothing \/ CountDone \/ RefreshDone \/ MoveReturns
    BY <1>1, <1>2, <1>9 DEF Transfer, ProcessNothing, CountDone, RefreshDone, MoveReturns, Returns
  <1>10. CASE HandlerRaises
    BY <1>2, <1>3, <1>10 DEF HandlerRaises, Returns
  <1>11. CASE Cancelled \/ Dies
    BY <1>4, <1>11 DEF Cancelled, Dies
  <1> QED
    BY <1>5, <1>6, <1>7, <1>8, <1>9, <1>10, <1>11 DEF Next, Consumer

-----------------------------------------------------------------------------
(* Where each job is on the board                                          *)

\* One job moves and the others stay: a move of the board.
LEMMA OneMoves ==
    ASSUME NEW j \in Jobs, NEW from, NEW to, Place(j) = from, Place(j)' = to,
           \A k \in Jobs \ {j} : Place(k)' = Place(k)
    PROVE  JB!Moves(j, from, to)
  <1>1. \A k \in Jobs : Place(k)' = IF k = j THEN to ELSE Place(k)
    OBVIOUS
  <1>2. [k \in Jobs |-> Place(k)]' = [[k \in Jobs |-> Place(k)] EXCEPT ![j] = to]
    BY <1>1
  <1> QED
    BY <1>2 DEF JB!Moves

LEMMA PlaceTypes ==
    ASSUME NEW j \in Jobs
    PROVE  Place(j) \in JB!Places /\ Place(j)' \in JB!Places
  BY DEF Place, JB!Places, Settled

\* Jobs that end together are an end of the board's jobs.
LEMMA EndsTogether ==
    ASSUME NEW S \in SUBSET Jobs, NEW from, NEW to, to \in JB!Places,
           \A j \in S : Place(j) \in from /\ Place(j)' = to,
           \A j \in Jobs \ S : Place(j)' = Place(j)
    PROVE  JB!EndTogether(from, to)
  <1>1. [j \in Jobs |-> Place(j)]' \in [Jobs -> JB!Places]
    BY PlaceTypes
  <1> QED
    BY <1>1 DEF JB!EndTogether

LEMMA PlaceStays ==
    ASSUME jobs' = jobs, lost' = lost, JobsOf(stack') = JobsOf(stack), Held' = Held
    PROVE  \A j \in Jobs : Place(j)' = Place(j)
  BY DEF Place

LEMMA BoardStays ==
    ASSUME LostInv, jobs' = jobs, lost' = lost, JobsOf(stack') = JobsOf(stack), Held' = Held
    PROVE  LostInv' /\ UNCHANGED JB!vars
  BY PlaceStays DEF LostInv, JB!vars

\* What Place says of the jobs of each kind.
LEMMA PlaceOf ==
    ASSUME BoardInv
    PROVE  /\ \A j \in Jobs : Place(j) = "taken" <=> j \in JobsOf(stack)
           /\ \A j \in JobsOf(public) \cup JobsOf(private) : Place(j) = "queued"
           /\ \A j \in Jobs : jobs[j] = "none" => Place(j) = "none"
  <1>1. OneTaskPerJob /\ LostInv /\ Held \subseteq Jobs
    BY HeldJobs DEF BoardInv, TasksInv
  <1>2. \A j \in Held : j \notin lost /\ jobs[j] \notin Settled
    BY <1>1 DEF OneTaskPerJob, LostInv, Settled
  <1>3. \A j \in JobsOf(public) \cup JobsOf(private) : j \in Held /\ j \notin JobsOf(stack)
    BY <1>1 DEF OneTaskPerJob, Held
  <1>4. \A j \in JobsOf(public) \cup JobsOf(private) : Place(j) = "queued"
    BY <1>2, <1>3 DEF Place
  <1>5. ASSUME NEW j \in Jobs PROVE Place(j) = "taken" <=> j \in JobsOf(stack)
    <2>1. j \in JobsOf(stack) => j \in Held
      BY DEF Held
    <2> QED
      BY <1>2, <2>1 DEF Place, Settled
  <1>6. ASSUME NEW j \in Jobs, jobs[j] = "none" PROVE Place(j) = "none"
    <2>1. j \notin Held /\ j \notin lost /\ j \notin JobsOf(stack)
      BY <1>1, <1>6 DEF OneTaskPerJob, LostInv, Held
    <2> QED
      BY <1>6, <2>1 DEF Place, Settled
  <1> QED
    BY <1>4, <1>5, <1>6

LEMMA PutAsks ==
    ASSUME BoardInv, NEW j \in Jobs, NEW step \in Steps, jobs[j] = "none",
           Put(j, step), UNCHANGED <<private, stack, lost>>
    PROVE  LostInv' /\ JB!Ask(j)
  <1>1. TypeOK /\ OneTaskPerJob /\ LostInv /\ Place(j) = "none"
    BY PlaceOf DEF BoardInv, TasksInv
  <1>2. j \notin Held /\ j \notin lost /\ j \notin JobsOf(stack)
    BY <1>1 DEF OneTaskPerJob, LostInv, Held
  <1>3. /\ JobsOf(public') = JobsOf(public) \cup {j}
        /\ JobsOf(private') = JobsOf(private) /\ JobsOf(stack') = JobsOf(stack)
    <2>1. [job |-> j, step |-> step] \in Task
      BY DEF Task
    <2> QED
      BY <1>1, <2>1, AppendJobs DEF Put, TypeOK
  <1>4. Held' = Held \cup {j}
    BY <1>3 DEF Held
  <1>5. jobs'[j] = "pending" /\ \A k \in Jobs \ {j} : jobs'[k] = jobs[k]
    BY <1>1 DEF Put, TypeOK
  <1>6. lost' = lost /\ lost \subseteq Jobs
    BY <1>1 DEF TypeOK
  <1>7. Place(j)' = "queued"
    BY <1>2, <1>3, <1>4, <1>5, <1>6 DEF Place, Settled
  <1>8. ASSUME NEW k \in Jobs \ {j} PROVE Place(k)' = Place(k)
    BY <1>3, <1>4, <1>5, <1>6 DEF Place
  <1>9. LostInv'
    BY <1>1, <1>2, <1>4, <1>5, <1>6 DEF LostInv
  <1> QED
    BY <1>1, <1>7, <1>8, <1>9, OneMoves DEF JB!Ask

LEMMA ProcessTakes ==
    ASSUME BoardInv, Process
    PROVE  LostInv' /\ \E j \in Jobs : JB!Take(j)
  <1> DEFINE task == Head(private)
  <1>1. TypeOK /\ OneTaskPerJob /\ LostInv /\ JobsOf(stack) \subseteq Batch
    BY DrainingNests DEF BoardInv, TasksInv, Process
  <1>a. task \in Task
    BY <1>1, PopJobs DEF Process, TypeOK
  <1>b. PICK j \in Jobs : j = task.job
    BY <1>a DEF Task
  <1>2. /\ JobsOf(private) = JobsOf(private') \cup {j}
        /\ j \notin JobsOf(private')
    BY <1>1, <1>b, PopJobs, PopDiffers DEF Process, TypeOK, OneTaskPerJob
  <1>3. j \in Jobs /\ j \in Held /\ j \notin lost /\ Place(j) = "queued"
    BY <1>1, <1>2, PlaceOf DEF Held, LostInv
  <1>4. JobsOf(stack') = JobsOf(stack) \cup {j} /\ JobsOf(public') = JobsOf(public)
    BY <1>1, <1>a, <1>b, PushJobs DEF Process, TypeOK
  <1>5. Held' = Held /\ lost' = lost
    BY <1>2, <1>4 DEF Held, Process
  <1>6. /\ jobs'[j] \in {"pending", "running"}
        /\ \A k \in Jobs \ {j} : jobs'[k] = jobs[k]
    BY <1>1, <1>3, <1>b DEF Process, TypeOK, OneTaskPerJob
  <1>7. Place(j)' = "taken"
    BY <1>3, <1>4, <1>5, <1>6 DEF Place, Settled
  <1>8. ASSUME NEW k \in Jobs \ {j} PROVE Place(k)' = Place(k)
    BY <1>4, <1>5, <1>6 DEF Place
  <1>9. LostInv'
    BY <1>1, <1>3, <1>5, <1>6 DEF LostInv, TypeOK
  <1>10. JB!Moves(j, "queued", "taken")
    BY <1>3, <1>7, <1>8, OneMoves
  <1>11. \A k \in Jobs : Place(k) = "taken" => k \in Batch
    BY <1>1, PlaceOf
  <1> QED
    BY <1>3, <1>9, <1>10, <1>11 DEF JB!Take

LEMMA CountChains ==
    ASSUME BoardInv, CountDone
    PROVE  LostInv' /\ \E j \in Jobs : JB!Chain(j)
  <1> DEFINE task == [Top EXCEPT !.step = "refresh"]
  <1>1. TypeOK /\ OneTaskPerJob /\ LostInv /\ KindInv /\ stack # <<>>
    BY DEF BoardInv, TasksInv, CountDone
  <1>a. Top \in Task
    BY <1>1, PopJobs DEF Top, TypeOK
  <1>b. PICK j \in Jobs : j = Top.job
    BY <1>a DEF Task
  <1>2. /\ JobsOf(stack) = JobsOf(stack') \cup {j}
        /\ j \notin JobsOf(stack')
    BY <1>1, <1>b, PopJobs, PopDiffers DEF CountDone, Top, TypeOK, OneTaskPerJob
  <1>3. j \in Refresh
    BY <1>1, <1>b, TopKind, KindOf DEF CountDone
  <1>4. task \in Task /\ task.job = j
    BY <1>a, <1>b DEF Task, Steps
  <1>5. JobsOf(private') = JobsOf(private) \cup {j} /\ JobsOf(public') = JobsOf(public)
    BY <1>1, <1>4, PushJobs DEF CountDone, TypeOK
  <1>6. Held' = Held /\ lost' = lost /\ jobs' = jobs
    BY <1>2, <1>5 DEF Held, CountDone
  <1>7. j \in Jobs /\ j \in Held /\ j \notin lost /\ Place(j) = "taken"
    BY <1>1, <1>2, PlaceOf DEF Held, LostInv
  <1>8. jobs[j] \notin Settled
    BY <1>1, <1>7 DEF OneTaskPerJob, Settled
  <1>9. Place(j)' = "queued"
    BY <1>2, <1>6, <1>7, <1>8 DEF Place
  <1>10. ASSUME NEW k \in Jobs \ {j} PROVE Place(k)' = Place(k)
    BY <1>2, <1>6 DEF Place
  <1>11. LostInv'
    BY <1>1, <1>6 DEF LostInv
  <1> QED
    BY <1>3, <1>7, <1>9, <1>10, <1>11, OneMoves DEF JB!Chain

\* Jobs of the innermost handlers settle in this way, and their tasks go.
LEMMA HandlersEnd ==
    ASSUME BoardInv, NEW S \in SUBSET JobsOf(stack), NEW status \in Settled,
           S \cap JobsOf(stack') = {}, JobsOf(stack) = JobsOf(stack') \cup S,
           UNCHANGED <<public, private, lost>>,
           \A j \in S : jobs'[j] = status,
           \A j \in Jobs \ S : jobs'[j] = jobs[j]
    PROVE  /\ LostInv'
           /\ \A j \in S : j \in Jobs /\ Place(j) = "taken" /\ Place(j)' = status
           /\ \A j \in Jobs \ S : Place(j)' = Place(j)
  <1>1. TypeOK /\ OneTaskPerJob /\ LostInv /\ Held \subseteq Jobs
    BY HeldJobs DEF BoardInv, TasksInv
  <1>2. /\ JobsOf(public') = JobsOf(public) /\ JobsOf(private') = JobsOf(private)
        /\ S \subseteq Held /\ lost' = lost
    BY DEF Held
  <1>3. Held' = Held \ S
    BY <1>1, <1>2 DEF Held, OneTaskPerJob
  <1>4. ASSUME NEW j \in S PROVE j \in Jobs /\ Place(j) = "taken" /\ Place(j)' = status
    BY <1>1, <1>2, PlaceOf DEF Place
  <1>5. ASSUME NEW j \in Jobs \ S PROVE Place(j)' = Place(j)
    BY <1>2, <1>3 DEF Place
  <1>6. LostInv'
    BY <1>1, <1>2, <1>3 DEF LostInv, TypeOK
  <1> QED
    BY <1>4, <1>5, <1>6

LEMMA HandlersFail ==
    ASSUME BoardInv, NEW S \in SUBSET JobsOf(stack),
           S \cap JobsOf(stack') = {}, JobsOf(stack) = JobsOf(stack') \cup S,
           UNCHANGED <<public, private, lost>>,
           \A j \in S : jobs'[j] = "failed",
           \A j \in Jobs \ S : jobs'[j] = jobs[j]
    PROVE  LostInv' /\ JB!Fail
  <1>1. "failed" \in Settled /\ "failed" \in JB!Places
    BY DEF Settled, JB!Places
  <1>2. /\ LostInv'
        /\ \A j \in S : j \in Jobs /\ Place(j) = "taken" /\ Place(j)' = "failed"
        /\ \A j \in Jobs \ S : Place(j)' = Place(j)
    BY <1>1, HandlersEnd
  <1>3. S \in SUBSET Jobs /\ \A j \in S : Place(j) \in {"taken"} /\ Place(j)' = "failed"
    BY <1>2
  <1> QED
    BY <1>1, <1>2, <1>3, EndsTogether DEF JB!Fail

LEMMA ReturnEnds ==
    ASSUME BoardInv, stack # <<>>, NEW status \in Settled, Returns(status), lost' = lost
    PROVE  LostInv' /\ (JB!Fail \/ \E j \in Jobs : JB!Complete(j))
  <1> DEFINE S == {Top.job}
  <1>1. TypeOK /\ OneTaskPerJob
    BY DEF BoardInv, TasksInv
  <1>2. /\ Top \in Task /\ JobsOf(stack) = JobsOf(stack') \cup S
        /\ S \cap JobsOf(stack') = {}
    BY <1>1, PopJobs, PopDiffers DEF Returns, Top, TypeOK, OneTaskPerJob
  <1>3. S \in SUBSET JobsOf(stack) /\ Top.job \in Jobs
    BY <1>2 DEF Task
  <1>4. UNCHANGED <<public, private, lost>>
    BY DEF Returns
  <1>5. (\A j \in S : jobs'[j] = status) /\ \A j \in Jobs \ S : jobs'[j] = jobs[j]
    BY <1>1, <1>3 DEF Returns, TypeOK
  <1>6. CASE status = "failed"
    <2>1. \A j \in S : jobs'[j] = "failed"
      BY <1>5, <1>6
    <2> HIDE DEF S
    <2> QED
      BY <1>2, <1>3, <1>4, <1>5, <2>1, HandlersFail
  <1>7. CASE status = "complete"
    <2>1. /\ LostInv'
          /\ \A j \in S : j \in Jobs /\ Place(j) = "taken" /\ Place(j)' = status
          /\ \A j \in Jobs \ S : Place(j)' = Place(j)
      <3> HIDE DEF S
      <3> QED
        BY <1>2, <1>3, <1>4, <1>5, HandlersEnd
    <2>2. JB!Complete(Top.job)
      BY <1>3, <1>7, <2>1, OneMoves DEF JB!Complete
    <2> QED
      BY <1>3, <2>1, <2>2
  <1> QED
    BY <1>6, <1>7 DEF Settled

LEMMA RaiseFails ==
    ASSUME BoardInv, HandlerRaises
    PROVE  LostInv' /\ (JB!Fail \/ \E j \in Jobs : JB!Complete(j))
  <1> USE DEF clientVars
  <1> DEFINE TwoFail ==
        /\ Len(stack) > 1
        /\ jobs' = [jobs EXCEPT ![Top.job] = "failed", ![stack[2].job] = "failed"]
        /\ stack' = Tail(Tail(stack))
        /\ UNCHANGED <<public, private>>
  <1>1. TypeOK /\ OneTaskPerJob /\ stack # <<>> /\ lost' = lost
    BY DEF BoardInv, TasksInv, HandlerRaises
  <1>2. Returns("failed") \/ TwoFail
    BY DEF HandlerRaises
  <1>3. CASE Returns("failed")
    BY <1>1, <1>3, ReturnEnds DEF Settled
  <1>4. CASE TwoFail
    <2> DEFINE S == {Top.job, stack[2].job}
    <2>1. /\ Top \in Task /\ Tail(stack) \in Seq(Task)
          /\ JobsOf(stack) = JobsOf(Tail(stack)) \cup {Top.job}
          /\ JobsDiffer(Tail(stack)) /\ Top.job \notin JobsOf(Tail(stack))
      BY <1>1, PopJobs, PopDiffers DEF Top, TypeOK, OneTaskPerJob
    <2>2. Tail(stack) # <<>> /\ stack[2] = Head(Tail(stack))
      BY <1>1, <1>4, LongTail DEF TypeOK
    <2>3. /\ stack[2] \in Task
          /\ JobsOf(Tail(stack)) = JobsOf(stack') \cup {stack[2].job}
          /\ stack[2].job \notin JobsOf(stack')
      BY <1>4, <2>1, <2>2, PopJobs, PopDiffers
    <2>4. S \cap JobsOf(stack') = {} /\ JobsOf(stack) = JobsOf(stack') \cup S
      BY <2>1, <2>3
    <2>5. S \in SUBSET JobsOf(stack) /\ S \subseteq Jobs
      BY <2>1, <2>3, <2>4 DEF Task
    <2>6. (\A j \in S : jobs'[j] = "failed") /\ \A j \in Jobs \ S : jobs'[j] = jobs[j]
      BY <1>1, <1>4, <2>5 DEF TypeOK
    <2>7. UNCHANGED <<public, private, lost>>
      BY <1>1, <1>4
    <2> HIDE DEF S
    <2> QED
      BY <2>4, <2>5, <2>6, <2>7, HandlersFail
  <1> QED
    BY <1>2, <1>3, <1>4

LEMMA CancelFails == BoardInv /\ Cancelled => LostInv' /\ JB!Fail
  <1> SUFFICES ASSUME BoardInv, Cancelled PROVE LostInv' /\ JB!Fail
    OBVIOUS
  <1>1. JobsOf(stack') = {} /\ UNCHANGED <<public, private, lost>>
    BY EmptyJobs DEF Cancelled
  <1>2. JobsOf(stack) \subseteq Jobs
    BY HeldJobs DEF BoardInv, Held
  <1>3. /\ \A j \in JobsOf(stack) : jobs'[j] = "failed"
        /\ \A j \in Jobs \ JobsOf(stack) : jobs'[j] = jobs[j]
    BY <1>2 DEF Cancelled
  <1> QED
    BY <1>1, <1>3, HandlersFail

LEMMA DeathLoses == BoardInv /\ Dies => LostInv' /\ JB!Lose
  <1> SUFFICES ASSUME BoardInv, Dies PROVE LostInv' /\ JB!Lose
    OBVIOUS
  <1> DEFINE S == JobsOf(stack) \cup JobsOf(private)
  <1>1. OneTaskPerJob /\ LostInv /\ Held \subseteq Jobs
    BY HeldJobs DEF BoardInv, TasksInv
  <1>2. JobsOf(stack') = {} /\ JobsOf(private') = {} /\ JobsOf(public') = JobsOf(public)
    BY EmptyJobs DEF Dies
  <1>3. jobs' = jobs /\ lost' = lost \cup S
    BY DEF Dies
  <1>4. Held' = JobsOf(public) /\ S \subseteq Held /\ Held' = Held \ S
    BY <1>1, <1>2 DEF Held, OneTaskPerJob
  <1>5. LostInv'
    BY <1>1, <1>3, <1>4 DEF LostInv, OneTaskPerJob
  <1>6. ASSUME NEW j \in S PROVE Place(j) \in {"queued", "taken"} /\ Place(j)' = "lost"
    <2>1. j \in Jobs /\ jobs[j] \notin Settled
      BY <1>1, <1>4 DEF OneTaskPerJob, Settled
    <2>2. Place(j) \in {"queued", "taken"}
      BY <2>1, PlaceOf
    <2> QED
      BY <1>3, <2>1, <2>2 DEF Place
  <1>7. ASSUME NEW j \in Jobs \ S PROVE Place(j)' = Place(j)
    BY <1>2, <1>3, <1>4 DEF Place
  <1>8. \A j \in Jobs : Place(j)' # "taken"
    BY <1>2 DEF Place, Settled
  <1>9. JB!EndTogether({"queued", "taken"}, "lost")
    <2>1. S \in SUBSET Jobs /\ "lost" \in JB!Places
      BY <1>1, <1>4 DEF JB!Places
    <2> HIDE DEF S
    <2> QED
      BY <1>6, <1>7, <2>1, EndsTogether
  <1> QED
    BY <1>5, <1>8, <1>9 DEF JB!Lose

LEMMA BoardStep == BoardInv /\ [Next]_vars => LostInv' /\ [JB!Next]_JB!vars
  <1> SUFFICES ASSUME BoardInv, [Next]_vars PROVE LostInv' /\ [JB!Next]_JB!vars
    OBVIOUS
  <1> USE DEF clientVars
  <1>0. TypeOK /\ TasksInv /\ OneTaskPerJob /\ AsksOnce /\ LostInv
    BY DEF BoardInv, TasksInv
  <1>1. ASSUME UNCHANGED <<public, private, stack, jobs, lost>>
        PROVE  LostInv' /\ UNCHANGED JB!vars
    BY <1>0, <1>1, BoardStays DEF Held
  <1>2. ASSUME NEW j \in Jobs, NEW step \in Steps, jobs[j] = "none",
               Put(j, step), UNCHANGED <<private, stack, lost>>
        PROVE  LostInv' /\ JB!Next
    BY <1>2, PutAsks DEF JB!Next
  <1>3. ASSUME stack # <<>>, NEW status \in Settled, Returns(status), lost' = lost
        PROVE  LostInv' /\ JB!Next
    BY <1>3, ReturnEnds DEF JB!Next
  <1>4. CASE UNCHANGED vars
    BY <1>1, <1>4 DEF vars
  <1>5. CASE Client
    <2>1. ASSUME NEW r \in Refresh, QueueRefresh(r) PROVE LostInv' /\ JB!Next
      BY <1>2, <2>1 DEF QueueRefresh, Jobs, Steps
    <2>2. ASSUME NEW b \in Batch, QueueBatch(b) PROVE LostInv' /\ JB!Next
      BY <1>2, <2>2 DEF QueueBatch, Jobs, Steps
    <2>3. ASSUME NEW m \in Move, MoveQueues(m) PROVE LostInv' /\ JB!Next
      BY <1>0, <1>2, <2>3 DEF MoveQueues, AsksOnce, Jobs, Steps
    <2>4. ASSUME NEW m \in Move, MoveEnters(m) \/ MoveSeesJob(m) \/ MoveGivesUp(m)
          PROVE  LostInv' /\ UNCHANGED JB!vars
      BY <1>1, <2>4 DEF MoveEnters, MoveSeesJob, MoveGivesUp
    <2> QED
      BY <1>5, <2>1, <2>2, <2>3, <2>4 DEF Client
  <1>6. CASE Transfer
    <2>1. JobsOf(private') = JobsOf(public) \cup JobsOf(private) /\ JobsOf(public') = {}
      BY <1>0, <1>6, TransferJobs, EmptyJobs DEF Transfer, TypeOK
    <2>2. UNCHANGED <<stack, jobs, lost>>
      BY <1>6 DEF Transfer
    <2>3. Held' = Held
      BY <2>1, <2>2 DEF Held
    <2> QED
      BY <1>0, <2>2, <2>3, BoardStays
  <1>7. CASE Process
    BY <1>7, ProcessTakes DEF JB!Next
  <1>8. CASE CountDone
    BY <1>8, CountChains DEF JB!Next
  <1>9. CASE RefreshDone \/ MoveReturns
    BY <1>3, <1>9 DEF RefreshDone, MoveReturns, Settled
  <1>10. CASE HandlerRaises
    BY <1>10, RaiseFails DEF JB!Next
  <1>11. ASSUME NEW b \in Batch, BatchStep(b) \/ BatchTimesOut(b)
         PROVE  LostInv' /\ [JB!Next]_JB!vars
    <2>1. CASE BatchQueues(b)
      <3>1. at[b] \in 1..Collections[b] /\ jobs[Sub(b, at[b])] = "none"
        BY <1>0, <2>1, CollectionsAssumption DEF BatchQueues, AtCollection, TypeOK
      <3>2. Sub(b, at[b]) \in Jobs /\ "reorganize" \in Steps
        BY <3>1, SubIsJob DEF Steps
      <3> QED
        BY <1>2, <2>1, <3>1, <3>2 DEF BatchQueues
    <2>2. CASE BatchSkips(b) \/ BatchAdvances(b)
      BY <1>1, <2>2 DEF BatchSkips, BatchAdvances, NextCollection
    <2>3. CASE BatchStops(b) \/ BatchDone(b) \/ BatchTimesOut(b)
      BY <1>3, <2>3 DEF BatchStops, BatchDone, BatchTimesOut, AtCollection, Settled
    <2> QED
      BY <1>11, <2>1, <2>2, <2>3 DEF BatchStep
  <1>12. CASE ProcessNothing
    BY <1>1, <1>12 DEF ProcessNothing
  <1>13. CASE Cancelled
    BY <1>13, CancelFails DEF JB!Next
  <1>14. CASE Dies
    BY <1>14, DeathLoses DEF JB!Next
  <1> QED
    BY <1>4, <1>5, <1>6, <1>7, <1>8, <1>9, <1>10, <1>11, <1>12, <1>13, <1>14
    DEF Next, Consumer

LEMMA InitBoard == Init => KindInv /\ LostInv /\ Nested /\ JB!Init
  <1> SUFFICES ASSUME Init PROVE KindInv /\ LostInv /\ Nested /\ JB!Init
    OBVIOUS
  <1>1. <<>> \in Seq(KindTask)
    OBVIOUS
  <1>2. Held = {} /\ JobsOf(stack) = {}
    BY EmptyJobs DEF Init, Held
  <1>3. \A j \in Jobs : Place(j) = "none"
    BY <1>2 DEF Init, Place, Settled
  <1> QED
    BY <1>1, <1>3 DEF Init, KindInv, LostInv, Nested, Nests, JB!Init

LEMMA NextBoard == BoardInv /\ [Next]_vars => BoardInv'
  BY NextType, NextTasks, NextKind, BoardStep, NextNested DEF BoardInv

LEMMA BoardInvariant == Spec => []BoardInv
  <1>1. Init => BoardInv
    BY InitType, InitTasks, InitBoard DEF BoardInv
  <1> QED
    BY <1>1, NextBoard, PTL DEF Spec

\* For any jobs, collections and faults the queues, the handlers that nest, their
\* failures and the deaths of the consumer are steps of the board of jobs: each is
\* asked for, taken and settled once, one handler works on files at a time, and a
\* job that died is never run again.
THEOREM JobsAreABoard == Spec => ImplementsJobBoard
  <1>1. Spec => JB!Init
    BY InitBoard, PTL DEF Spec
  <1>2. Spec => [][JB!Next]_JB!vars
    BY BoardInvariant, BoardStep, PTL DEF Spec
  <1> QED
    BY <1>1, <1>2, PTL DEF ImplementsJobBoard, JB!Spec

\* However they nest, at most one of the handlers under way is not a batch: no two
\* of them move or index files at once.
THEOREM OneHandlerWorks == Spec => [](\A j, k \in JobsOf(stack) \ Batch : j = k)
  <1>1. ASSUME BoardInv, NEW j \in JobsOf(stack) \ Batch PROVE j = stack[1].job
    <2>1. PICK i \in DOMAIN stack : j = stack[i].job
      BY DEF JobsOf
    <2>2. stack[i] \in KindTask /\ stack \in Seq(KindTask)
      BY <1>1, <2>1 DEF BoardInv, KindInv
    <2>3. stack[i].step # "batch"
      BY <2>1, <2>2, KindOf
    <2>4. i = 1
      BY <1>1, <2>1, <2>2, <2>3 DEF BoardInv, Nested, Nests
    <2> QED
      BY <2>1, <2>4
  <1>2. BoardInv => \A j, k \in JobsOf(stack) \ Batch : j = k
    BY <1>1
  <1> QED
    BY <1>2, BoardInvariant, PTL
=============================================================================
