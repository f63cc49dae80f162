--------------------------- MODULE EventFeed_proofs ---------------------------
(***************************************************************************)
(* The order of the events and what a page may pass over, for any workers, *)
(* pages, size of the history and number of faults.  The argument follows  *)
(* an event that is in the list or about to be: a request that began after *)
(* it was stamped finds it behind the page's time, among what it has read, *)
(* ahead of its index, or on record as one of those that slip past.        *)
(***************************************************************************)
EXTENDS EventFeed, SequenceTheorems, TLAPS

\* What a worker has stamped is a time after the start.
StampInv ==
    \A w \in Workers : pc[w] = "stamped" => stamp[w] \in Events

IType == TypeOK /\ StampInv

LEMMA InitType == Init => IType
<1> SUFFICES ASSUME Init PROVE IType
  OBVIOUS
<1> USE BoundsAssumption DEF Init
<1>1. Idle \in Feeds
  BY DEF Idle, Feeds, Times
<1>2. feed \in [Tabs -> Feeds]
  BY <1>1
<1>3. QED
  BY <1>2 DEF IType, TypeOK, StampInv, Times

LEMMA SendType ==
    ASSUME IType, NEW w \in Workers, Send(w)
    PROVE  IType'
<1> USE BoundsAssumption
<1>1. CASE Acquire(w)
  BY <1>1 DEF IType, TypeOK, StampInv, Acquire, Goes, pageVars
<1>2. CASE Stamp(w)
  <2>1. clock' \in Events /\ clock' \in Times
    BY <1>2 DEF IType, TypeOK, Stamp, Times, Events
  <2>2. QED
    BY <1>2, <2>1 DEF IType, TypeOK, StampInv, Stamp, Goes, pageVars
<1>3. CASE AppendEvent(w)
  <2>1. history' \in Seq(Events)
    BY <1>3 DEF IType, TypeOK, StampInv, AppendEvent
  <2>2. QED
    BY <1>3, <2>1 DEF IType, TypeOK, StampInv, AppendEvent, Goes, pageVars
<1>4. CASE Trim(w)
  <2>1. history' \in Seq(Events)
    <3>1. history \in Seq(Events) /\ history # <<>>
      BY <1>4, HistoryAssumption DEF IType, TypeOK, Trim
    <3>2. QED
      BY <1>4, <3>1 DEF Trim
  <2>2. ASSUME NEW t \in Tabs PROVE feed'[t] \in Feeds
    <3>1. feed[t] \in Feeds /\ history \in Seq(Events)
      BY DEF IType, TypeOK
    <3>2. CASE feed[t].pc = "reading" /\ feed[t].index \in 2..Len(history)
      <4>1. history[feed[t].index] \in Events
        BY <3>1, <3>2
      <4>2. feed'[t] = [feed[t] EXCEPT !.risk = @ \cup {history[feed[t].index]}]
        BY <1>4, <3>2 DEF Trim
      <4>3. QED
        BY <3>1, <4>1, <4>2 DEF Feeds
    <3>3. CASE ~(feed[t].pc = "reading" /\ feed[t].index \in 2..Len(history))
      BY <1>4, <3>1, <3>3 DEF Trim
    <3>4. QED
      BY <3>2, <3>3
  <2>3. feed' \in [Tabs -> Feeds]
    BY <1>4, <2>2 DEF Trim
  <2>4. UNCHANGED <<sendVars, pageVars, faults>>
    BY <1>4 DEF Trim
  <2>5. QED
    BY <2>1, <2>3, <2>4 DEF IType, TypeOK, StampInv, sendVars, pageVars
<1>5. CASE Release(w)
  BY <1>5 DEF IType, TypeOK, StampInv, Release, Goes, pageVars, Times
<1>6. QED
  BY <1>1, <1>2, <1>3, <1>4, <1>5 DEF Send

LEMMA ServeType ==
    ASSUME IType, NEW t \in Tabs, Serve(t)
    PROVE  IType'
<1> USE BoundsAssumption
<1>0. feed[t] \in Feeds /\ feed \in [Tabs -> Feeds] /\ history \in Seq(Events)
  BY DEF IType, TypeOK
<1>1. CASE Begin(t)
  <2>1. clock \in Times /\ InTransit \subseteq Events
    BY DEF IType, TypeOK, StampInv, InTransit
  <2>2. feed' \in [Tabs -> Feeds]
    BY <1>0, <1>1, <2>1 DEF Begin, Feeds
  <2>3. UNCHANGED <<sendVars, history, pageVars, faults>>
    BY <1>1 DEF Begin
  <2>4. QED
    BY <2>2, <2>3 DEF IType, TypeOK, StampInv, sendVars, pageVars
<1>2. CASE ReadOne(t)
  <2>1. history[feed[t].index] \in Events
    BY <1>0, <1>2 DEF ReadOne
  <2>2. <<history[feed[t].index]>> \o feed[t].found \in Seq(Events)
    <3>1. feed[t].found \in Seq(Events) /\ <<history[feed[t].index]>> \in Seq(Events)
      BY <1>0, <2>1 DEF Feeds
    <3>2. QED
      BY <3>1
  <2>3. feed' \in [Tabs -> Feeds]
    <3>1. PICK s \in Seq(Events), k \in Nat :
             feed' = [feed EXCEPT ![t].index = k, ![t].found = s]
      <4>1. feed[t].found \in Seq(Events) /\ feed[t].index + 1 \in Nat
        BY <1>0 DEF Feeds
      <4>2. QED
        BY <1>2, <2>2, <4>1 DEF ReadOne
    <3>2. QED
      BY <1>0, <3>1 DEF Feeds
  <2>4. UNCHANGED <<sendVars, history, pageVars, faults>>
    BY <1>2 DEF ReadOne
  <2>5. QED
    BY <2>3, <2>4 DEF IType, TypeOK, StampInv, sendVars, pageVars
<1>3. CASE Finish(t)
  <2>1. feed' \in [Tabs -> Feeds]
    BY <1>0, <1>3 DEF Finish, Feeds
  <2>2. UNCHANGED <<sendVars, history, pageVars, faults>>
    BY <1>3 DEF Finish
  <2>3. QED
    BY <2>1, <2>2 DEF IType, TypeOK, StampInv, sendVars, pageVars
<1>4. QED
  BY <1>1, <1>2, <1>3 DEF Serve

LEMMA PollType ==
    ASSUME IType, NEW t \in Tabs, Poll(t)
    PROVE  IType'
<1> USE BoundsAssumption
<1>0. /\ feed[t] \in Feeds /\ feed \in [Tabs -> Feeds]
      /\ now \in [Tabs -> Times \cup {None, Undefined}]
      /\ shown \in [Tabs -> Seq(Events) \cup {None}]
      /\ seen \in [Tabs -> SUBSET Events]
  BY DEF IType, TypeOK
<1>i. Idle \in Feeds
  BY DEF Idle, Feeds, Times
<1>1. CASE Ask(t)
  <2>1. feed' \in [Tabs -> Feeds]
    BY <1>0, <1>i, <1>1 DEF Ask, Idle, Feeds
  <2>2. UNCHANGED <<sendVars, history, pageVars, faults>>
    BY <1>1 DEF Ask
  <2>3. QED
    BY <2>1, <2>2 DEF IType, TypeOK, StampInv, sendVars, pageVars
<1>2. CASE Receive(t)
  <2>1. feed[t].start \in Times /\ feed[t].found \in Seq(Events) /\ feed[t].risk \subseteq Events
    BY <1>0 DEF Feeds
  <2>2. feed' \in [Tabs -> Feeds]
    BY <1>0, <1>i, <1>2 DEF Receive
  <2>3. ToSet(feed[t].found) \subseteq Events
    BY <2>1 DEF ToSet
  <2>4. seen' \in [Tabs -> SUBSET Events] /\ missed' \subseteq Events
    BY <1>0, <1>2, <2>1, <2>3 DEF Receive, IType, TypeOK
  <2>5. now' \in [Tabs -> Times \cup {None, Undefined}] /\ stored' \in Times
    BY <1>0, <1>2, <2>1 DEF Receive
  <2>6. shown' \in [Tabs -> Seq(Events) \cup {None}]
    BY <1>0, <1>2, <2>1 DEF Receive
  <2>7. UNCHANGED <<sendVars, history, faults>>
    BY <1>2 DEF Receive
  <2>8. QED
    BY <2>2, <2>4, <2>5, <2>6, <2>7 DEF IType, TypeOK, StampInv, sendVars
<1>3. CASE ReceiveRefusal(t)
  <2>1. feed' \in [Tabs -> Feeds]
    BY <1>0, <1>i, <1>3 DEF ReceiveRefusal
  <2>2. /\ now' \in [Tabs -> Times \cup {None, Undefined}]
        /\ stored' \in Times \cup {None, Undefined}
        /\ shown' \in [Tabs -> Seq(Events) \cup {None}]
    BY <1>0, <1>3 DEF ReceiveRefusal
  <2>3. UNCHANGED <<sendVars, history, seen, missed, faults>>
    BY <1>3 DEF ReceiveRefusal
  <2>4. QED
    BY <2>1, <2>2, <2>3 DEF IType, TypeOK, StampInv, sendVars
<1>4. CASE ReceiveException(t)
  <2>1. feed' \in [Tabs -> Feeds]
    BY <1>0, <1>i, <1>4 DEF ReceiveException
  <2>2. shown' \in [Tabs -> Seq(Events) \cup {None}]
    BY <1>0, <1>4 DEF ReceiveException
  <2>3. UNCHANGED <<sendVars, history, now, stored, seen, missed, faults>>
    BY <1>4 DEF ReceiveException
  <2>4. QED
    BY <2>1, <2>2, <2>3 DEF IType, TypeOK, StampInv, sendVars
<1>5. QED
  BY <1>1, <1>2, <1>3, <1>4 DEF Poll

LEMMA FaultType ==
    ASSUME IType,
           Restart \/ \E t \in Tabs : Fail(t) \/ Reload(t)
    PROVE  IType'
<1> USE BoundsAssumption
<1>0. /\ feed \in [Tabs -> Feeds]
      /\ now \in [Tabs -> Times \cup {None, Undefined}]
      /\ stored \in Times \cup {None, Undefined}
      /\ shown \in [Tabs -> Seq(Events) \cup {None}]
      /\ seen \in [Tabs -> SUBSET Events]
      /\ faults \in 0..MaxFaults
  BY DEF IType, TypeOK
<1>1. ASSUME NEW t \in Tabs, Fail(t) PROVE IType'
  <2>1. feed' \in [Tabs -> Feeds]
    <3>1. PICK p \in {"refused", "broken"} : feed' = [feed EXCEPT ![t].pc = p]
      BY <1>1 DEF Fail
    <3>2. [feed[t] EXCEPT !.pc = p] \in Feeds
      BY <1>0 DEF Feeds
    <3>3. feed' = [feed EXCEPT ![t] = [feed[t] EXCEPT !.pc = p]]
      BY <3>1
    <3>4. QED
      BY <1>0, <3>2, <3>3
  <2>2. faults' \in 0..MaxFaults
    BY <1>0, <1>1 DEF Fail, Fault
  <2>3. UNCHANGED <<sendVars, history, pageVars>>
    BY <1>1 DEF Fail
  <2>4. QED
    BY <2>1, <2>2, <2>3 DEF IType, TypeOK, StampInv, sendVars, pageVars
<1>2. ASSUME NEW t \in Tabs, Reload(t) PROVE IType'
  <2>1. feed' \in [Tabs -> Feeds]
    <3>1. Idle \in Feeds
      BY DEF Idle, Feeds, Times
    <3>2. QED
      BY <1>0, <1>2, <3>1 DEF Reload
  <2>2. /\ now' \in [Tabs -> Times \cup {None, Undefined}]
        /\ shown' \in [Tabs -> Seq(Events) \cup {None}]
        /\ seen' \in [Tabs -> SUBSET Events]
    BY <1>0, <1>2 DEF Reload
  <2>3. faults' \in 0..MaxFaults
    BY <1>0, <1>2 DEF Reload, Fault
  <2>4. UNCHANGED <<sendVars, history, stored, missed>>
    BY <1>2 DEF Reload
  <2>5. QED
    BY <2>1, <2>2, <2>3, <2>4 DEF IType, TypeOK, StampInv, sendVars
<1>3. ASSUME Restart PROVE IType'
  <2>1. feed' \in [Tabs -> Feeds]
    <3>1. ASSUME NEW t \in Tabs PROVE [feed[t] EXCEPT !.pc = "broken"] \in Feeds
      BY <1>0 DEF Feeds
    <3>2. QED
      BY <1>0, <1>3, <3>1 DEF Restart
  <2>2. faults' \in 0..MaxFaults
    BY <1>0, <1>3 DEF Restart, Fault
  <2>3. /\ holder' \in Workers \cup {None}
        /\ pc' \in [Workers -> {"idle", "locked", "stamped", "appended"}]
        /\ \A w \in Workers : pc'[w] # "stamped"
        /\ stamp' \in [Workers -> Times]
        /\ history' \in Seq(Events)
    BY <1>3 DEF Restart, Times
  <2>4. UNCHANGED <<clock, pageVars>>
    BY <1>3 DEF Restart
  <2>5. QED
    BY <2>1, <2>2, <2>3, <2>4 DEF IType, TypeOK, StampInv, pageVars
<1>4. QED
  BY <1>1, <1>2, <1>3

LEMMA NextType == IType /\ [Next]_vars => IType'
<1>1. ASSUME IType, Next PROVE IType'
  BY <1>1, SendType, ServeType, PollType, FaultType DEF Next
<1>2. ASSUME IType, UNCHANGED vars PROVE IType'
  BY <1>2 DEF IType, TypeOK, StampInv, vars, sendVars, pageVars
<1>3. QED
  BY <1>1, <1>2

\* The variables stay within their types.
THEOREM TypeCorrect == Spec => []TypeOK
<1>1. IType => TypeOK
  BY DEF IType
<1>2. QED
  BY InitType, NextType, <1>1, PTL DEF Spec

-----------------------------------------------------------------------------
(* Who has stamped an event has the lock, and its time is the latest.      *)

OrderInv ==
    /\ \A w \in Workers : pc[w] # "idle" => holder = w
    /\ TimeOrder
    /\ \A i \in DOMAIN history : history[i] =< clock
    /\ \A w \in Workers : pc[w] = "stamped" =>
          /\ stamp[w] = clock
          /\ \A i \in DOMAIN history : history[i] < clock

LEMMA SendOrder ==
    ASSUME IType, OrderInv, NEW w \in Workers, Send(w)
    PROVE  OrderInv'
<1>0. /\ pc \in [Workers -> {"idle", "locked", "stamped", "appended"}]
      /\ stamp \in [Workers -> Nat] /\ clock \in Nat /\ history \in Seq(Events)
      /\ \A i \in DOMAIN history : history[i] \in Nat
  <2>1. Times \subseteq Nat /\ Events \subseteq Nat
    BY BoundsAssumption DEF Times, Events
  <2>2. history \in Seq(Events)
    BY DEF IType, TypeOK
  <2>3. \A i \in DOMAIN history : history[i] \in Nat
    <3>1. DOMAIN history = 1..Len(history)
      BY <2>2
    <3>2. \A i \in 1..Len(history) : history[i] \in Events
      BY <2>2, ElementOfSeq
    <3>3. QED
      BY <2>1, <3>1, <3>2
  <2>4. pc \in [Workers -> {"idle", "locked", "stamped", "appended"}]
    BY DEF IType, TypeOK
  <2>5. stamp \in [Workers -> Nat] /\ clock \in Nat
    BY <2>1 DEF IType, TypeOK
  <2>6. QED
    BY <2>2, <2>3, <2>4, <2>5
<1>1. CASE Acquire(w)
  BY <1>0, <1>1, NoneAssumption DEF OrderInv, TimeOrder, Acquire, Goes
<1>2. CASE Stamp(w)
  BY <1>0, <1>2 DEF OrderInv, TimeOrder, Stamp, Goes
<1>3. CASE AppendEvent(w)
  <2>1. /\ DOMAIN history' = 1..(Len(history) + 1)
        /\ \A i \in DOMAIN history : history'[i] = history[i]
        /\ history'[Len(history) + 1] = clock
    BY <1>0, <1>3 DEF AppendEvent, OrderInv
  <2>2. DOMAIN history = 1..Len(history) /\ Len(history) \in Nat
    BY <1>0
  <2>3. TimeOrder'
    BY <1>0, <1>3, <2>1, <2>2 DEF AppendEvent, OrderInv, TimeOrder
  <2>4. \A i \in DOMAIN history' : history'[i] =< clock
    BY <1>0, <2>1, <2>2 DEF OrderInv
  <2>5. \A v \in Workers : pc'[v] # "stamped" /\ (pc'[v] # "idle" => holder = v)
    BY <1>0, <1>3 DEF AppendEvent, Goes, OrderInv
  <2>6. UNCHANGED <<holder, clock>>
    BY <1>3 DEF AppendEvent
  <2>7. QED
    BY <2>3, <2>4, <2>5, <2>6 DEF OrderInv
<1>4. CASE Trim(w)
  <2>1. history # <<>> /\ history' = Tail(history)
    BY <1>0, <1>4, HistoryAssumption DEF Trim
  <2>2. Len(history') = Len(history) - 1 /\ Len(history) \in Nat \ {0}
    BY <1>0, <2>1
  <2>3. \A i \in 1..(Len(history) - 1) : i + 1 \in DOMAIN history /\ history'[i] = history[i + 1]
    BY <1>0, <2>1
  <2>4. DOMAIN history' = 1..(Len(history) - 1)
    BY <1>0, <2>1
  <2>5. TimeOrder'
    <3>1. SUFFICES ASSUME NEW i \in 1..(Len(history) - 1), NEW j \in 1..(Len(history) - 1),
                          i < j
                   PROVE  history[i + 1] < history[j + 1]
      BY <2>3, <2>4 DEF TimeOrder
    <3>2. i + 1 < j + 1
      BY <2>2, <3>1
    <3>3. QED
      BY <2>3, <3>2 DEF OrderInv, TimeOrder
  <2>6. \A i \in DOMAIN history' : history'[i] =< clock
    BY <2>3, <2>4 DEF OrderInv
  <2>7. \A v \in Workers : pc[v] # "stamped"
    BY <1>4 DEF Trim, OrderInv
  <2>8. UNCHANGED <<holder, pc, stamp, clock>>
    BY <1>4 DEF Trim, sendVars
  <2>9. QED
    BY <2>5, <2>6, <2>7, <2>8 DEF OrderInv
<1>5. CASE Release(w)
  BY <1>0, <1>5 DEF OrderInv, TimeOrder, Release, Goes
<1>6. QED
  BY <1>1, <1>2, <1>3, <1>4, <1>5 DEF Send

LEMMA NextOrder ==
    ASSUME IType, OrderInv, [Next]_vars
    PROVE  OrderInv'
<1>1. ASSUME UNCHANGED <<sendVars, history>> PROVE OrderInv'
  BY <1>1 DEF OrderInv, TimeOrder, sendVars
<1>2. ASSUME NEW t \in Tabs, Serve(t) \/ Poll(t) \/ Fail(t) \/ Reload(t)
      PROVE  OrderInv'
  BY <1>1, <1>2 DEF Serve, Begin, ReadOne, Finish, Poll, Ask, Receive, ReceiveRefusal,
                    ReceiveException, Fail, Reload
<1>3. ASSUME Restart PROVE OrderInv'
  <2>1. /\ \A w \in Workers : pc'[w] = "idle"
        /\ DOMAIN history' = {}
    BY <1>3 DEF Restart
  <2>2. QED
    BY <2>1 DEF OrderInv, TimeOrder
<1>4. ASSUME UNCHANGED vars PROVE OrderInv'
  BY <1>1, <1>4 DEF vars
<1>5. QED
  BY <1>2, <1>3, <1>4, SendOrder DEF Next

\* Events are in the list in the order of their times, whatever the senders do.
THEOREM InTimeOrder == Spec => []TimeOrder
<1>1. Init => OrderInv
  BY BoundsAssumption DEF Init, OrderInv, TimeOrder
<1>2. OrderInv => TimeOrder
  BY DEF OrderInv
<1>3. IType /\ OrderInv /\ [Next]_vars => OrderInv'
  BY NextOrder
<1>4. QED
  BY InitType, NextType, <1>1, <1>2, <1>3, PTL DEF Spec

-----------------------------------------------------------------------------
(* What becomes of an event that is in the list or about to be.            *)

Listed == {history[i] : i \in DOMAIN history}
Live == Listed \cup InTransit

\* What a page has behind it when it asks from `time'.
Before(time) == {e \in Events : time \in Times /\ e =< time}

\* What is in the list from the index of a request on.
Ahead(t) == {history[i] : i \in {j \in DOMAIN history : j >= feed[t].index}}

\* What some page has dispatched.
Dispatched == {e \in Events : \E t \in Tabs : e \in seen[t]}

PageInv ==
    /\ \A t \in Tabs : Live \cap Before(now[t]) \subseteq seen[t] \cup missed
    /\ Live \cap Before(stored) \subseteq Dispatched \cup missed

TimesInv ==
    /\ \A t \in Tabs : (now[t] \in Times => now[t] =< clock) /\ feed[t].start =< clock
    /\ stored \in Times => stored =< clock

ShownInv == \A t \in Tabs : shown[t] # None => ToSet(shown[t]) \subseteq seen[t]

ShapeInv ==
    \A t \in Tabs :
        /\ feed[t].pc # "idle" => feed[t].after = now[t]
        /\ feed[t].pc \in {"reading", "answered"} => feed[t].after # Undefined
        /\ feed[t].pc \in {"idle", "asked"} => feed[t].index = 1
        /\ feed[t].index >= 1

Accounted(t) == Before(now[t]) \cup ToSet(feed[t].found) \cup feed[t].risk

\* A request will have come to every event of before its start, or has it on
\* record.
RequestOf(t) ==
    /\ feed[t].pc = "reading" =>
          Live \cap Before(feed[t].start) \subseteq Accounted(t) \cup Ahead(t)
    /\ feed[t].pc = "answered" =>
          Live \cap Before(feed[t].start) \subseteq Accounted(t)

RequestInv == \A t \in Tabs : RequestOf(t)

FeedInv == PageInv /\ TimesInv /\ ShownInv /\ ShapeInv /\ RequestInv

\* Only the taking of a time makes an event, and a later one than all before.
LEMMA LiveStep ==
    ASSUME IType, [Next]_vars
    PROVE  /\ Live' \subseteq Live \cup {e \in Events : e > clock}
           /\ clock' >= clock
<1>0. /\ clock \in Nat /\ history \in Seq(Events)
      /\ pc \in [Workers -> {"idle", "locked", "stamped", "appended"}]
      /\ stamp \in [Workers -> Times]
  BY BoundsAssumption DEF IType, TypeOK, Times
<1>1. ASSUME UNCHANGED <<pc, stamp, clock, history>>
      PROVE  Live' \subseteq Live /\ clock' >= clock
  BY <1>0, <1>1 DEF Live, Listed, InTransit
<1>2. ASSUME NEW w \in Workers, Acquire(w) \/ Release(w)
      PROVE  Live' \subseteq Live /\ clock' >= clock
  <2>1. Listed' = Listed /\ clock' = clock
    BY <1>2 DEF Acquire, Release, Listed
  <2>2. InTransit' \subseteq InTransit
    BY <1>0, <1>2 DEF Acquire, Release, InTransit, Goes
  <2>3. QED
    BY <1>0, <2>1, <2>2 DEF Live
<1>3. ASSUME NEW w \in Workers, Stamp(w)
      PROVE  Live' \subseteq Live \cup {clock + 1} /\ clock' = clock + 1 /\ clock + 1 \in Events
  <2>1. Listed' = Listed /\ clock' = clock + 1 /\ clock + 1 \in Events
    BY <1>0, <1>3, BoundsAssumption DEF Stamp, Listed, Events
  <2>2. InTransit' \subseteq InTransit \cup {clock + 1}
    BY <1>0, <1>3 DEF Stamp, InTransit, Goes
  <2>3. QED
    BY <2>1, <2>2 DEF Live
<1>4. ASSUME NEW w \in Workers, AppendEvent(w)
      PROVE  Live' \subseteq Live /\ clock' >= clock
  <2>1. InTransit' \subseteq InTransit /\ stamp[w] \in InTransit /\ clock' = clock
    BY <1>0, <1>4 DEF AppendEvent, InTransit, Goes
  <2>2. Listed' \subseteq Listed \cup {stamp[w]}
    <3>1. /\ DOMAIN history' = 1..(Len(history) + 1)
          /\ \A i \in 1..Len(history) : history'[i] = history[i]
          /\ history'[Len(history) + 1] = stamp[w]
          /\ DOMAIN history = 1..Len(history)
      BY <1>0, <1>4 DEF AppendEvent
    <3>2. \A i \in 1..(Len(history) + 1) : i \in 1..Len(history) \/ i = Len(history) + 1
      BY <1>0
    <3>3. QED
      BY <3>1, <3>2 DEF Listed
  <2>3. QED
    BY <1>0, <2>1, <2>2 DEF Live
<1>5. ASSUME NEW w \in Workers, Trim(w)
      PROVE  Live' \subseteq Live /\ clock' >= clock
  <2>1. InTransit' = InTransit /\ clock' = clock
    BY <1>5 DEF Trim, sendVars, InTransit
  <2>2. Listed' \subseteq Listed
    <3>1. history # <<>> /\ history' = Tail(history)
      BY <1>0, <1>5, HistoryAssumption DEF Trim
    <3>2. \A i \in DOMAIN history' : i + 1 \in DOMAIN history /\ history'[i] = history[i + 1]
      BY <1>0, <3>1
    <3>3. QED
      BY <3>2 DEF Listed
  <2>3. QED
    BY <1>0, <2>1, <2>2 DEF Live
<1>6. ASSUME Restart
      PROVE  Live' \subseteq Live /\ clock' >= clock
  <2>1. Listed' = {} /\ InTransit' = {} /\ clock' = clock
    BY <1>6 DEF Restart, Listed, InTransit
  <2>2. QED
    BY <1>0, <2>1 DEF Live
<1>7. ASSUME NEW t \in Tabs, Serve(t) \/ Poll(t) \/ Fail(t) \/ Reload(t)
      PROVE  UNCHANGED <<pc, stamp, clock, history>>
  BY <1>7 DEF Serve, Begin, ReadOne, Finish, Poll, Ask, Receive, ReceiveRefusal,
              ReceiveException, Fail, Reload, sendVars
<1>8. UNCHANGED vars => UNCHANGED <<pc, stamp, clock, history>>
  BY DEF vars, sendVars
<1>9. \/ Live' \subseteq Live /\ clock' >= clock
      \/ Live' \subseteq Live \cup {clock + 1} /\ clock' = clock + 1 /\ clock + 1 \in Events
  BY <1>1, <1>2, <1>3, <1>4, <1>5, <1>6, <1>7, <1>8 DEF Next, Send
<1>10. clock + 1 > clock /\ clock + 1 >= clock
  BY <1>0
<1>11. clock + 1 \in Events => clock + 1 \in {e \in Events : e > clock}
  BY <1>10
<1>12. CASE Live' \subseteq Live /\ clock' >= clock
  BY <1>12
<1>13. CASE Live' \subseteq Live \cup {clock + 1} /\ clock' = clock + 1 /\ clock + 1 \in Events
  <2>1. clock' >= clock
    BY <1>10, <1>13
  <2>2. clock + 1 \in {e \in Events : e > clock}
    BY <1>11, <1>13
  <2>3. QED
    BY <1>13, <2>1, <2>2
<1>14. QED
  BY <1>9, <1>12, <1>13

LEMMA LiveBefore ==
    ASSUME IType, [Next]_vars, NEW x, x \in Times => x =< clock
    PROVE  Live' \cap Before(x) \subseteq Live
<1>1. clock \in Nat
  BY BoundsAssumption DEF IType, TypeOK, Times
<1>2. SUFFICES ASSUME NEW e \in Live', e \in Before(x) PROVE e \in Live
  OBVIOUS
<1>3. e \in Events /\ x \in Times /\ e =< x
  BY <1>2 DEF Before
<1>4. ~(e > clock)
  BY <1>1, <1>3, BoundsAssumption DEF Times, Events
<1>5. QED
  BY <1>2, <1>4, LiveStep

LEMMA TimesStep ==
    ASSUME IType, TimesInv, [Next]_vars
    PROVE  TimesInv'
<1>0. /\ clock \in Times /\ Times \subseteq Nat /\ 0 \in Times
      /\ None \notin Times /\ Undefined \notin Times
      /\ feed \in [Tabs -> Feeds] /\ \A t \in Tabs : feed[t].start \in Times
      /\ now \in [Tabs -> Times \cup {None, Undefined}]
  BY BoundsAssumption, NoneAssumption DEF IType, TypeOK, Times, Feeds
<1>1. clock' >= clock /\ clock' \in Nat
  BY LiveStep, NextType, <1>0, BoundsAssumption DEF IType, TypeOK, Times
<1>2. Idle.start = 0
  BY DEF Idle
<1>3. ASSUME \A t \in Tabs : feed'[t].start \in {feed[t].start, clock, 0},
             \A t \in Tabs : now'[t] \in {now[t], stored, None, feed[t].start},
             stored' \in {stored, Undefined} \cup {feed[u].start : u \in Tabs}
      PROVE  TimesInv'
  <2>1. \A x \in Times : x =< clock => x =< clock'
    BY <1>0, <1>1
  <2>2. /\ clock =< clock' /\ 0 =< clock'
        /\ \A t \in Tabs : feed[t].start =< clock'
        /\ \A t \in Tabs : now[t] \in Times => now[t] =< clock'
        /\ stored \in Times => stored =< clock'
    <3>1. clock =< clock' /\ 0 =< clock'
      BY <1>0, <1>1
    <3>2. \A t \in Tabs : feed[t].start =< clock'
      BY <1>0, <2>1 DEF TimesInv
    <3>3. /\ \A t \in Tabs : now[t] \in Times => now[t] =< clock'
          /\ stored \in Times => stored =< clock'
      BY <2>1 DEF TimesInv
    <3>4. QED
      BY <3>1, <3>2, <3>3
  <2>3. \A t \in Tabs : feed'[t].start =< clock'
    BY <1>3, <2>2
  <2>4. \A t \in Tabs : now'[t] \in Times => now'[t] =< clock'
    BY <1>0, <1>3, <2>2
  <2>5. stored' \in Times => stored' =< clock'
    BY <1>0, <1>3, <2>2
  <2>6. QED
    BY <2>3, <2>4, <2>5 DEF TimesInv
<1>4. ASSUME NEW w \in Workers, Send(w) PROVE TimesInv'
  <2>1. UNCHANGED <<now, stored>>
    BY <1>4 DEF Send, Acquire, Stamp, AppendEvent, Trim, Release, pageVars
  <2>2. \A t \in Tabs : feed'[t].start = feed[t].start
    BY <1>0, <1>4 DEF Send, Acquire, Stamp, AppendEvent, Trim, Release, Feeds
  <2>3. QED
    BY <1>3, <2>1, <2>2
<1>5. ASSUME NEW u \in Tabs, Serve(u) \/ Fail(u) PROVE TimesInv'
  <2>1. UNCHANGED <<now, stored>>
    BY <1>5 DEF Serve, Begin, ReadOne, Finish, Fail, pageVars
  <2>2. \A t \in Tabs : feed'[t].start \in {feed[t].start, clock}
    <3>1. CASE Begin(u)
      BY <1>0, <3>1 DEF Begin, Feeds
    <3>2. CASE ReadOne(u)
      BY <1>0, <3>2 DEF ReadOne, Feeds
    <3>3. CASE Finish(u)
      BY <1>0, <3>3 DEF Finish, Feeds
    <3>4. CASE Fail(u)
      <4>1. PICK p \in {"refused", "broken"} : feed' = [feed EXCEPT ![u].pc = p]
        BY <3>4 DEF Fail
      <4>2. QED
        BY <1>0, <4>1 DEF Feeds
    <3>5. QED
      BY <1>5, <3>1, <3>2, <3>3, <3>4 DEF Serve
  <2>3. QED
    BY <1>3, <2>1, <2>2
<1>6. ASSUME NEW u \in Tabs, Poll(u) \/ Reload(u) PROVE TimesInv'
  <2>1. /\ \A t \in Tabs : now'[t] \in {now[t], stored, None, feed[t].start}
        /\ stored' \in {stored, Undefined} \cup {feed[v].start : v \in Tabs}
    BY <1>0, <1>6 DEF Poll, Ask, Receive, ReceiveRefusal, ReceiveException, Reload, pageVars
  <2>2. \A t \in Tabs : feed'[t].start \in {feed[t].start, 0}
    BY <1>0, <1>2, <1>6 DEF Poll, Ask, Receive, ReceiveRefusal, ReceiveException, Reload, Idle
  <2>3. QED
    BY <1>3, <2>1, <2>2
<1>7. ASSUME Restart PROVE TimesInv'
  <2>1. UNCHANGED <<now, stored>>
    BY <1>7 DEF Restart, pageVars
  <2>2. \A t \in Tabs : feed'[t].start = feed[t].start
    BY <1>0, <1>7 DEF Restart, Feeds
  <2>3. QED
    BY <1>3, <2>1, <2>2
<1>8. ASSUME UNCHANGED vars PROVE TimesInv'
  BY <1>3, <1>8 DEF vars, pageVars
<1>9. QED
  BY <1>4, <1>5, <1>6, <1>7, <1>8 DEF Next

LEMMA ShapeStep ==
    ASSUME IType, ShapeInv, [Next]_vars
    PROVE  ShapeInv'
<1>0. feed \in [Tabs -> Feeds] /\ now \in [Tabs -> Times \cup {None, Undefined}]
  BY DEF IType, TypeOK
<1>1. ASSUME NEW w \in Workers, Send(w) PROVE ShapeInv'
  <2>1. now' = now
    BY <1>1 DEF Send, Acquire, Stamp, AppendEvent, Trim, Release, pageVars
  <2>2. \A t \in Tabs : /\ feed'[t].pc = feed[t].pc
                        /\ feed'[t].after = feed[t].after
                        /\ feed'[t].index = feed[t].index
    BY <1>0, <1>1 DEF Send, Acquire, Stamp, AppendEvent, Trim, Release, Feeds
  <2>3. QED
    BY <2>1, <2>2 DEF ShapeInv
<1>2. ASSUME NEW u \in Tabs, Serve(u) PROVE ShapeInv'
  <2>1. now' = now
    BY <1>2 DEF Serve, Begin, ReadOne, Finish, pageVars
  <2>2. CASE Begin(u)
    BY <1>0, <2>1, <2>2 DEF Begin, ShapeInv, Feeds
  <2>3. CASE ReadOne(u)
    <3>1. \A t \in Tabs : /\ feed'[t].pc = feed[t].pc
                          /\ feed'[t].after = feed[t].after
                          /\ t # u => feed'[t].index = feed[t].index
      BY <1>0, <2>3 DEF ReadOne, Feeds
    <3>2. feed'[u].index = feed[u].index + 1 /\ feed[u].index \in Nat /\ feed[u].pc = "reading"
      BY <1>0, <2>3 DEF ReadOne, Feeds
    <3>3. QED
      BY <2>1, <3>1, <3>2 DEF ShapeInv
  <2>4. CASE Finish(u)
    BY <1>0, <2>1, <2>4 DEF Finish, ShapeInv, Feeds
  <2>5. QED
    BY <1>2, <2>2, <2>3, <2>4 DEF Serve
<1>3. ASSUME NEW u \in Tabs, Ask(u) PROVE ShapeInv'
  BY <1>0, <1>3 DEF Ask, ShapeInv, Idle, pageVars
<1>4. ASSUME NEW u \in Tabs, Poll(u) \/ Reload(u), ~Ask(u) PROVE ShapeInv'
  <2>1. feed' = [feed EXCEPT ![u] = Idle] /\ \A t \in Tabs \ {u} : now'[t] = now[t]
    BY <1>0, <1>4 DEF Poll, Receive, ReceiveRefusal, ReceiveException, Reload
  <2>2. QED
    BY <1>0, <2>1 DEF ShapeInv, Idle
<1>5. ASSUME NEW u \in Tabs, Fail(u) PROVE ShapeInv'
  BY <1>0, <1>5 DEF Fail, ShapeInv, Feeds, pageVars
<1>6. ASSUME Restart PROVE ShapeInv'
  BY <1>0, <1>6 DEF Restart, ShapeInv, Feeds, pageVars
<1>7. ASSUME UNCHANGED vars PROVE ShapeInv'
  BY <1>7 DEF vars, ShapeInv, pageVars
<1>8. QED
  BY <1>1, <1>2, <1>3, <1>4, <1>5, <1>6, <1>7 DEF Next

LEMMA ShownStep ==
    ASSUME IType, ShownInv, [Next]_vars
    PROVE  ShownInv'
<1>0. /\ shown \in [Tabs -> Seq(Events) \cup {None}]
      /\ seen \in [Tabs -> SUBSET Events]
      /\ \A t \in Tabs : feed[t].found \in Seq(Events)
  BY DEF IType, TypeOK, Feeds
<1>1. ASSUME UNCHANGED <<shown, seen>> PROVE ShownInv'
  BY <1>1 DEF ShownInv
<1>2. ASSUME NEW u \in Tabs, Receive(u) PROVE ShownInv'
  <2>1. None \notin Seq(Events)
    <3>1. ASSUME NEW s \in Seq(Events) PROVE s \in Seq(Nat)
      <4>1. Events \subseteq Nat
        BY BoundsAssumption DEF Events
      <4>2. QED
        BY <4>1, SeqMonotonic
    <3>2. QED
      BY <3>1, NoneAssumption
  <2>2. \A t \in Tabs : seen[t] \subseteq seen'[t]
    BY <1>0, <1>2 DEF Receive
  <2>3. ToSet(feed[u].found) \subseteq seen'[u]
    <3>1. CASE feed[u].found # shown[u]
      BY <1>0, <1>2, <3>1 DEF Receive
    <3>2. CASE feed[u].found = shown[u]
      BY <1>0, <1>2, <2>1, <2>2, <3>2 DEF ShownInv
    <3>3. QED
      BY <3>1, <3>2
  <2>4. shown' = [shown EXCEPT ![u] = feed[u].found]
    BY <1>2 DEF Receive
  <2>5. QED
    BY <1>0, <2>2, <2>3, <2>4 DEF ShownInv
<1>3. ASSUME NEW u \in Tabs, ReceiveRefusal(u) \/ ReceiveException(u) \/ Reload(u)
      PROVE  ShownInv'
  <2>1. shown' = [shown EXCEPT ![u] = None] /\ \A t \in Tabs : seen[t] \subseteq seen'[t]
    BY <1>0, <1>3 DEF ReceiveRefusal, ReceiveException, Reload
  <2>2. QED
    BY <1>0, <2>1 DEF ShownInv
<1>4. ASSUME NEW w \in Workers, Send(w) PROVE UNCHANGED <<shown, seen>>
  BY <1>4 DEF Send, Acquire, Stamp, AppendEvent, Trim, Release, pageVars
<1>5. ASSUME NEW u \in Tabs, Serve(u) \/ Ask(u) \/ Fail(u) PROVE UNCHANGED <<shown, seen>>
  BY <1>5 DEF Serve, Begin, ReadOne, Finish, Ask, Fail, pageVars
<1>6. Restart \/ UNCHANGED vars => UNCHANGED <<shown, seen>>
  BY DEF Restart, vars, pageVars
<1>7. QED
  BY <1>1, <1>2, <1>3, <1>4, <1>5, <1>6 DEF Next, Poll

LEMMA PageStep ==
    ASSUME IType, FeedInv, [Next]_vars
    PROVE  PageInv'
<1>0. /\ seen \in [Tabs -> SUBSET Events] /\ feed \in [Tabs -> Feeds]
      /\ now \in [Tabs -> Times \cup {None, Undefined}]
      /\ None \notin Times /\ Undefined \notin Times
  BY BoundsAssumption, NoneAssumption DEF IType, TypeOK, Times
<1>1. /\ \A t \in Tabs : Live' \cap Before(now[t]) \subseteq seen[t] \cup missed
      /\ Live' \cap Before(stored) \subseteq Dispatched \cup missed
  <2>1. ASSUME NEW t \in Tabs PROVE Live' \cap Before(now[t]) \subseteq Live
    BY LiveBefore DEF FeedInv, TimesInv
  <2>2. Live' \cap Before(stored) \subseteq Live
    BY LiveBefore DEF FeedInv, TimesInv
  <2>3. \A t \in Tabs : Live \cap Before(now[t]) \subseteq seen[t] \cup missed
    BY DEF FeedInv, PageInv
  <2>4. Live \cap Before(stored) \subseteq Dispatched \cup missed
    BY DEF FeedInv, PageInv
  <2>5. \A t \in Tabs : Live' \cap Before(now[t]) \subseteq seen[t] \cup missed
    BY <2>1, <2>3
  <2>6. Live' \cap Before(stored) \subseteq Dispatched \cup missed
    BY <2>2, <2>4
  <2>7. QED
    BY <2>5, <2>6
<1>2. Before(None) = {} /\ Before(Undefined) = {}
  BY <1>0 DEF Before
<1>3. ASSUME UNCHANGED <<now, stored, seen, missed>> PROVE PageInv'
  <2>1. \A t \in Tabs : Live' \cap Before(now'[t]) \subseteq seen'[t] \cup missed'
    BY <1>1, <1>3
  <2>2. Dispatched' = Dispatched /\ stored' = stored /\ missed' = missed
    BY <1>3 DEF Dispatched
  <2>3. Live' \cap Before(stored') \subseteq Dispatched' \cup missed'
    BY <1>1, <2>2
  <2>4. QED
    BY <2>1, <2>3 DEF PageInv, Before
<1>4. ASSUME NEW u \in Tabs, Receive(u) PROVE PageInv'
  <2> DEFINE f == feed[u]
  <2>1. /\ \A t \in Tabs : seen[t] \subseteq seen'[t]
        /\ missed \subseteq missed'
        /\ f.risk \subseteq missed' \cup ToSet(f.found)
    BY <1>0, <1>4 DEF Receive
  <2>2. ToSet(f.found) \subseteq seen'[u]
    <3>1. shown' = [shown EXCEPT ![u] = f.found] /\ seen' \in [Tabs -> SUBSET Events]
      BY <1>4, NextType DEF Receive, IType, TypeOK
    <3>2. CASE f.found # shown[u]
      BY <1>0, <1>4, <3>2 DEF Receive
    <3>3. CASE f.found = shown[u]
      <4>1. f.found # None
        <5>1. f.found \in Seq(Events) /\ Events \subseteq Nat
          BY <1>0, BoundsAssumption DEF Feeds, Events
        <5>2. QED
          BY <5>1, SeqMonotonic, NoneAssumption
      <4>2. QED
        BY <2>1, <3>3, <4>1 DEF FeedInv, ShownInv
    <3>4. QED
      BY <3>2, <3>3
  <2>3. Live' \cap Before(f.start) \subseteq seen'[u] \cup missed'
    <3>1. Live' \cap Before(f.start) \subseteq Live
      BY LiveBefore DEF FeedInv, TimesInv
    <3>2. Live \cap Before(f.start) \subseteq Accounted(u)
      BY <1>4 DEF FeedInv, RequestInv, RequestOf, Receive
    <3>3. Live \cap Before(now[u]) \subseteq seen[u] \cup missed
      BY DEF FeedInv, PageInv
    <3>4. QED
      BY <2>1, <2>2, <3>1, <3>2, <3>3 DEF Accounted
  <2>4. now' = [now EXCEPT ![u] = f.start] /\ stored' = f.start
    BY <1>4 DEF Receive
  <2>5. \A t \in Tabs : Live' \cap Before(now'[t]) \subseteq seen'[t] \cup missed'
    BY <1>0, <1>1, <2>1, <2>3, <2>4
  <2>6. Live' \cap Before(stored') \subseteq Dispatched' \cup missed'
    <3>1. Live' \cap Before(stored') \cap seen'[u] \subseteq Dispatched'
      BY DEF Dispatched, Before
    <3>2. Live' \cap Before(stored') \subseteq seen'[u] \cup missed'
      BY <2>3, <2>4
    <3>3. QED
      BY <3>1, <3>2
  <2>7. QED
    BY <2>5, <2>6 DEF PageInv, Before
<1>5. ASSUME NEW u \in Tabs, ReceiveRefusal(u) PROVE PageInv'
  <2>1. /\ now' = [now EXCEPT ![u] = None] /\ stored' = Undefined
        /\ UNCHANGED <<seen, missed>>
    BY <1>5 DEF ReceiveRefusal
  <2>2. \A t \in Tabs : Live' \cap Before(now'[t]) \subseteq seen'[t] \cup missed'
    BY <1>0, <1>1, <1>2, <2>1
  <2>3. Live' \cap Before(stored') = {}
    BY <1>2, <2>1
  <2>4. QED
    BY <2>2, <2>3 DEF PageInv, Before
<1>6. ASSUME NEW u \in Tabs, Reload(u) PROVE PageInv'
  <2>1. /\ now' = [now EXCEPT ![u] = stored]
        /\ seen' = [seen EXCEPT ![u] = UNION {seen[t] : t \in Tabs}]
        /\ UNCHANGED <<stored, missed>>
    BY <1>6 DEF Reload
  <2>2. \A t \in Tabs : seen[t] \subseteq seen'[t]
    BY <1>0, <2>1
  <2>3. Dispatched \subseteq seen'[u]
    BY <1>0, <2>1 DEF Dispatched
  <2>4. \A t \in Tabs : Live' \cap Before(now'[t]) \subseteq seen'[t] \cup missed'
    <3>1. \A t \in Tabs \ {u} : now'[t] = now[t]
      BY <1>0, <2>1
    <3>2. Live' \cap Before(now'[u]) \subseteq seen'[u] \cup missed'
      BY <1>0, <1>1, <2>1, <2>3
    <3>3. QED
      BY <1>1, <2>1, <2>2, <3>1, <3>2
  <2>5. Live' \cap Before(stored') \subseteq Dispatched' \cup missed'
    <3>1. Dispatched \subseteq Dispatched'
      BY <2>2 DEF Dispatched
    <3>2. Live' \cap Before(stored') \subseteq Dispatched \cup missed'
      BY <1>1, <2>1
    <3>3. QED
      BY <3>1, <3>2
  <2>6. QED
    BY <2>4, <2>5 DEF PageInv, Before
<1>7. ASSUME NEW w \in Workers, Send(w) PROVE UNCHANGED <<now, stored, seen, missed>>
  BY <1>7 DEF Send, Acquire, Stamp, AppendEvent, Trim, Release, pageVars
<1>8. ASSUME NEW u \in Tabs, Serve(u) \/ Ask(u) \/ ReceiveException(u) \/ Fail(u)
      PROVE  UNCHANGED <<now, stored, seen, missed>>
  BY <1>8 DEF Serve, Begin, ReadOne, Finish, Ask, ReceiveException, Fail, pageVars
<1>9. Restart \/ UNCHANGED vars => UNCHANGED <<now, stored, seen, missed>>
  BY DEF Restart, vars, pageVars
<1>10. QED
  BY <1>3, <1>4, <1>5, <1>6, <1>7, <1>8, <1>9 DEF Next, Poll

\* A page whose request, time and rest of the list are not touched.
LEMMA RequestFrame ==
    ASSUME IType, FeedInv, [Next]_vars, NEW t \in Tabs,
           feed'[t] = feed[t], now'[t] = now[t],
           Live' \cap Ahead(t) \subseteq Ahead(t)'
    PROVE  RequestOf(t)'
<1>1. Live' \cap Before(feed[t].start) \subseteq Live
  BY LiveBefore DEF FeedInv, TimesInv
<1>2. Accounted(t)' = Accounted(t)
  BY DEF Accounted, Before
<1>3. RequestOf(t)
  BY DEF FeedInv, RequestInv
<1>4. ASSUME feed'[t].pc = "reading"
      PROVE  Live' \cap Before(feed'[t].start) \subseteq Accounted(t)' \cup Ahead(t)'
  <2>1. Live \cap Before(feed[t].start) \subseteq Accounted(t) \cup Ahead(t)
    BY <1>3, <1>4 DEF RequestOf
  <2>2. Live' \cap Before(feed[t].start) \subseteq Accounted(t) \cup Ahead(t)'
    BY <1>1, <2>1
  <2>3. QED
    BY <1>2, <2>2
<1>5. ASSUME feed'[t].pc = "answered"
      PROVE  Live' \cap Before(feed'[t].start) \subseteq Accounted(t)'
  <2>1. Live \cap Before(feed[t].start) \subseteq Accounted(t)
    BY <1>3, <1>5 DEF RequestOf
  <2>2. QED
    BY <1>1, <1>2, <2>1
<1>6. QED
  BY <1>4, <1>5 DEF RequestOf, Before

\* The removal of the oldest event.
LEMMA TrimRequest ==
    ASSUME IType, OrderInv, FeedInv, NEW w \in Workers, Trim(w), [Next]_vars, NEW t \in Tabs
    PROVE  RequestOf(t)'
<1> DEFINE f == feed[t]
<1>0. /\ history \in Seq(Events) /\ history # <<>> /\ history' = Tail(history)
      /\ f \in Feeds /\ f.index \in Nat /\ f.index >= 1
      /\ now'[t] = now[t]
  BY HistoryAssumption DEF IType, TypeOK, Trim, Feeds, FeedInv, ShapeInv, pageVars
<1>1. CASE f.pc # "reading"
  <2>1. feed'[t] = f
    BY <1>1 DEF Trim
  <2>2. Live' \cap Before(f.start) \subseteq Live
    BY LiveBefore DEF FeedInv, TimesInv
  <2>3. Accounted(t)' = Accounted(t)
    BY <1>0, <2>1 DEF Accounted, Before
  <2>4. RequestOf(t)
    BY DEF FeedInv, RequestInv
  <2>5. QED
    BY <1>1, <2>1, <2>2, <2>3, <2>4 DEF RequestOf, Before
<1>2. CASE f.pc = "reading"
  <2>1. /\ feed'[t].pc = "reading" /\ feed'[t].start = f.start
        /\ feed'[t].index = f.index /\ feed'[t].found = f.found
        /\ f.risk \subseteq feed'[t].risk
        /\ f.index \in 2..Len(history) => history[f.index] \in feed'[t].risk
    <3>1. CASE f.index \in 2..Len(history)
      <4>1. feed'[t] = [f EXCEPT !.risk = f.risk \cup {history[f.index]}]
        BY <1>2, <3>1 DEF Trim
      <4>2. QED
        BY <1>0, <1>2, <4>1 DEF Feeds
    <3>2. CASE f.index \notin 2..Len(history)
      <4>1. feed'[t] = f
        BY <1>2, <3>2 DEF Trim
      <4>2. QED
        BY <1>2, <3>2, <4>1
    <3>3. QED
      BY <3>1, <3>2
  <2>2. Accounted(t) \subseteq Accounted(t)'
    BY <1>0, <2>1 DEF Accounted, Before
  <2>3. /\ DOMAIN history = 1..Len(history) /\ Len(history) \in Nat \ {0}
        /\ DOMAIN history' = 1..(Len(history) - 1)
        /\ \A i \in 1..(Len(history) - 1) : history'[i] = history[i + 1]
    BY <1>0
  <2>4. Live' = Listed'
    <3>1. \A v \in Workers : pc[v] # "stamped" /\ pc'[v] = pc[v]
      BY DEF Trim, OrderInv, sendVars
    <3>2. QED
      BY <3>1 DEF Live, InTransit
  <2>5. SUFFICES ASSUME NEW e \in Live', e \in Before(f.start)
                 PROVE  e \in Accounted(t)' \cup Ahead(t)'
    BY <2>1 DEF RequestOf, Before
  <2>6. e \in Accounted(t) \cup Ahead(t)
    <3>1. e \in Live
      BY <2>5, LiveBefore DEF FeedInv, TimesInv
    <3>2. QED
      BY <1>2, <2>5, <3>1 DEF FeedInv, RequestInv, RequestOf
  <2>7. CASE e \in Accounted(t)
    BY <2>2, <2>7
  <2>8. CASE e \in Ahead(t)
    <3>1. PICK i \in DOMAIN history : i >= f.index /\ e = history[i]
      BY <2>8 DEF Ahead
    <3>2. CASE i > f.index
      <4>1. i - 1 \in 1..(Len(history) - 1) /\ i - 1 >= f.index /\ (i - 1) + 1 = i
        BY <1>0, <2>3, <3>1, <3>2
      <4>2. history'[i - 1] = e
        BY <2>3, <3>1, <4>1
      <4>3. e \in Ahead(t)'
        BY <2>1, <2>3, <4>1, <4>2 DEF Ahead
      <4>4. QED
        BY <4>3
    <3>3. CASE i = f.index /\ i # 1
      <4>1. f.index \in 2..Len(history)
        BY <1>0, <2>3, <3>1, <3>3
      <4>2. QED
        BY <2>1, <3>1, <3>3, <4>1 DEF Accounted
    <3>4. CASE i = f.index /\ i = 1
      <4>1. PICK j \in DOMAIN history' : e = history'[j]
        BY <2>4, <2>5 DEF Listed
      <4>2. j >= feed'[t].index
        BY <2>1, <2>3, <3>4, <4>1
      <4>3. QED
        BY <4>1, <4>2 DEF Ahead
    <3>5. QED
      BY <1>0, <2>3, <3>1, <3>2, <3>3, <3>4
  <2>9. QED
    BY <2>6, <2>7, <2>8
<1>3. QED
  BY <1>1, <1>2

LEMMA ServeRequest ==
    ASSUME IType, FeedInv, NEW t \in Tabs, Serve(t), [Next]_vars
    PROVE  RequestOf(t)'
<1> DEFINE f == feed[t]
<1>0. /\ feed \in [Tabs -> Feeds] /\ f \in Feeds /\ f.found \in Seq(Events) /\ f.index \in Nat
      /\ history \in Seq(Events) /\ clock \in Nat /\ now' = now
  BY BoundsAssumption
     DEF IType, TypeOK, Times, Feeds, Serve, Begin, ReadOne, Finish, pageVars
<1>1. CASE Begin(t)
  <2>1. UNCHANGED <<pc, stamp, history>>
    BY <1>1 DEF Begin, sendVars
  <2>2. Live' = Live
    BY <2>1 DEF Live, Listed, InTransit
  <2>3. /\ feed'[t].index = 1 /\ feed'[t].risk = InTransit
        /\ feed'[t].pc \in {"refused", "reading"}
    BY <1>0, <1>1 DEF Begin, Feeds, FeedInv, ShapeInv
  <2>4. InTransit \subseteq Accounted(t)'
    BY <2>3 DEF Accounted
  <2>5. Listed \subseteq Ahead(t)'
    <3>1. \A i \in DOMAIN history : i >= 1
      BY <1>0
    <3>2. QED
      BY <2>1, <2>3, <3>1 DEF Listed, Ahead
  <2>6. QED
    BY <2>2, <2>3, <2>4, <2>5 DEF Live, RequestOf
<1>2. CASE ReadOne(t)
  <2> DEFINE e == history[f.index]
  <2>1. UNCHANGED <<pc, stamp, history>> /\ f.pc = "reading" /\ f.index \in DOMAIN history
    BY <1>2 DEF ReadOne, sendVars
  <2>2. Live' = Live
    BY <2>1 DEF Live, Listed, InTransit
  <2>3. /\ feed'[t].pc = "reading" /\ feed'[t].index = f.index + 1
        /\ feed'[t].start = f.start /\ feed'[t].risk = f.risk
        /\ feed'[t].found = IF f.after = None \/ e > f.after THEN <<e>> \o f.found ELSE f.found
    BY <1>0, <1>2, <2>1 DEF ReadOne, Feeds
  <2>4. e \in Events
    BY <1>0, <2>1
  <2>5. ToSet(<<e>> \o f.found) = {e} \cup ToSet(f.found)
    <3> HIDE DEF e
    <3> DEFINE s == f.found
    <3>1. s \in Seq(Events) /\ Len(s) \in Nat /\ DOMAIN s = 1..Len(s)
      BY <1>0
    <3> HIDE DEF s
    <3>2. /\ DOMAIN (<<e>> \o s) = 1..(Len(s) + 1)
          /\ (<<e>> \o s)[1] = e
          /\ \A i \in 1..Len(s) : (<<e>> \o s)[i + 1] = s[i]
      BY <2>4, <3>1
    <3>3. \A i \in 1..(Len(s) + 1) : i = 1 \/ \E j \in 1..Len(s) : i = j + 1
      <4>1. ASSUME NEW i \in 1..(Len(s) + 1), i # 1 PROVE i - 1 \in 1..Len(s) /\ i = (i - 1) + 1
        BY <3>1, <4>1
      <4>2. QED
        BY <4>1
    <3>4. \A j \in 1..Len(s) : j + 1 \in 1..(Len(s) + 1)
      BY <3>1
    <3>5. 1 \in 1..(Len(s) + 1)
      BY <3>1
    <3>6. ToSet(<<e>> \o s) \subseteq {e} \cup ToSet(s)
      BY <3>1, <3>2, <3>3 DEF ToSet
    <3>7. {e} \cup ToSet(s) \subseteq ToSet(<<e>> \o s)
      <4>1. e \in ToSet(<<e>> \o s)
        BY <3>2, <3>5 DEF ToSet
      <4>2. ASSUME NEW j \in 1..Len(s) PROVE s[j] \in ToSet(<<e>> \o s)
        BY <3>2, <3>4 DEF ToSet
      <4>3. QED
        BY <3>1, <4>1, <4>2 DEF ToSet
    <3>8. QED
      BY <3>6, <3>7 DEF s
  <2>6. ToSet(f.found) \subseteq ToSet(feed'[t].found)
    BY <2>3, <2>5
  <2>7. e \in Accounted(t)'
    <3>1. CASE f.after = None \/ e > f.after
      BY <2>3, <2>5, <3>1 DEF Accounted
    <3>2. CASE f.after # None /\ ~(e > f.after)
      <4>1. f.after = now[t] /\ f.after \in Times
        BY <1>0, <2>1, <3>2 DEF FeedInv, ShapeInv, Feeds
      <4>2. e =< f.after
        BY <2>4, <3>2, <4>1, BoundsAssumption DEF Times, Events
      <4>3. QED
        BY <1>0, <2>4, <4>1, <4>2 DEF Accounted, Before
    <3>3. QED
      BY <3>1, <3>2
  <2>8. Accounted(t) \subseteq Accounted(t)'
    BY <1>0, <2>3, <2>6 DEF Accounted, Before
  <2>9. Ahead(t) \subseteq Ahead(t)' \cup {e}
    <3>1. ASSUME NEW i \in DOMAIN history, i >= f.index, i # f.index PROVE i >= f.index + 1
      BY <1>0, <3>1
    <3>2. QED
      BY <2>1, <2>3, <3>1 DEF Ahead
  <2>10. Live \cap Before(f.start) \subseteq Accounted(t) \cup Ahead(t)
    BY <2>1 DEF FeedInv, RequestInv, RequestOf
  <2>11. Live' \cap Before(feed'[t].start) \subseteq Accounted(t)' \cup Ahead(t)'
    <3> HIDE DEF e
    <3>1. QED
      BY <2>2, <2>3, <2>7, <2>8, <2>9, <2>10
  <2>12. QED
    BY <2>3, <2>11 DEF RequestOf, Before
<1>3. CASE Finish(t)
  <2>1. UNCHANGED <<pc, stamp, history>> /\ f.pc = "reading" /\ f.index \notin DOMAIN history
    BY <1>3 DEF Finish, sendVars
  <2>2. Live' = Live
    BY <2>1 DEF Live, Listed, InTransit
  <2>3. feed' = [feed EXCEPT ![t].pc = "answered"]
    BY <1>3 DEF Finish
  <2>4. /\ feed'[t].pc = "answered" /\ feed'[t].start = f.start
        /\ feed'[t].found = f.found /\ feed'[t].risk = f.risk
    BY <1>0, <2>3 DEF Feeds
  <2>5. Ahead(t) = {}
    <3>1. f.index >= 1 /\ DOMAIN history = 1..Len(history) /\ Len(history) \in Nat
      BY <1>0 DEF FeedInv, ShapeInv
    <3>2. \A i \in DOMAIN history : ~(i >= f.index)
      BY <1>0, <2>1, <3>1
    <3>3. QED
      BY <3>2 DEF Ahead
  <2>6. Accounted(t)' = Accounted(t)
    BY <1>0, <2>4 DEF Accounted, Before
  <2>7. Live \cap Before(f.start) \subseteq Accounted(t)
    BY <2>1, <2>5 DEF FeedInv, RequestInv, RequestOf
  <2>8. QED
    BY <2>2, <2>4, <2>6, <2>7 DEF RequestOf, Before
<1>4. QED
  BY <1>1, <1>2, <1>3 DEF Serve

LEMMA RequestStep ==
    ASSUME IType, OrderInv, FeedInv, [Next]_vars
    PROVE  RequestInv'
<1>0. /\ feed \in [Tabs -> Feeds] /\ history \in Seq(Events)
      /\ now \in [Tabs -> Times \cup {None, Undefined}]
  BY DEF IType, TypeOK
<1>1. ASSUME NEW t \in Tabs, feed'[t] = feed[t], now'[t] = now[t], history' = history
      PROVE  RequestOf(t)'
  <2>1. Ahead(t)' = Ahead(t)
    BY <1>1 DEF Ahead
  <2>2. QED
    BY <1>1, <2>1, RequestFrame
<1>2. ASSUME NEW w \in Workers, Send(w) PROVE RequestInv'
  <2>1. CASE Trim(w)
    BY <2>1, TrimRequest DEF RequestInv
  <2>2. CASE AppendEvent(w)
    <3>1. ASSUME NEW t \in Tabs PROVE Ahead(t) \subseteq Ahead(t)'
      <4>1. /\ DOMAIN history \subseteq DOMAIN history'
            /\ \A i \in DOMAIN history : history'[i] = history[i]
        BY <1>0, <2>2 DEF AppendEvent, IType, TypeOK, StampInv
      <4>2. feed' = feed
        BY <2>2 DEF AppendEvent
      <4>3. QED
        BY <4>1, <4>2 DEF Ahead
    <3>2. feed' = feed /\ now' = now
      BY <2>2 DEF AppendEvent, pageVars
    <3>3. QED
      BY <3>1, <3>2, RequestFrame DEF RequestInv
  <2>3. CASE Acquire(w) \/ Stamp(w) \/ Release(w)
    <3>1. feed' = feed /\ now' = now /\ history' = history
      BY <2>3 DEF Acquire, Stamp, Release, pageVars
    <3>2. QED
      BY <1>1, <3>1 DEF RequestInv
  <2>4. QED
    BY <1>2, <2>1, <2>2, <2>3 DEF Send
<1>3. ASSUME NEW u \in Tabs, Serve(u) PROVE RequestInv'
  <2>1. \A t \in Tabs \ {u} : feed'[t] = feed[t] /\ now'[t] = now[t]
    BY <1>0, <1>3 DEF Serve, Begin, ReadOne, Finish, pageVars
  <2>2. history' = history
    BY <1>3 DEF Serve, Begin, ReadOne, Finish
  <2>3. RequestOf(u)'
    BY <1>3, ServeRequest
  <2>4. \A t \in Tabs \ {u} : RequestOf(t)'
    BY <1>1, <2>1, <2>2
  <2>5. QED
    BY <2>3, <2>4 DEF RequestInv
<1>4. ASSUME NEW u \in Tabs, Poll(u) \/ Fail(u) \/ Reload(u) PROVE RequestInv'
  <2>1. \A t \in Tabs \ {u} : feed'[t] = feed[t] /\ now'[t] = now[t]
    BY <1>0, <1>4 DEF Poll, Ask, Receive, ReceiveRefusal, ReceiveException, Fail, Reload, pageVars
  <2>2. history' = history
    BY <1>4 DEF Poll, Ask, Receive, ReceiveRefusal, ReceiveException, Fail, Reload
  <2>3. feed'[u].pc \notin {"reading", "answered"}
    <3>0. CASE Ask(u)
      BY <1>0, <3>0 DEF Ask, Idle
    <3>1. CASE Receive(u) \/ ReceiveRefusal(u) \/ ReceiveException(u) \/ Reload(u)
      <4>1. feed' = [feed EXCEPT ![u] = Idle]
        BY <3>1 DEF Receive, ReceiveRefusal, ReceiveException, Reload
      <4>2. QED
        BY <1>0, <4>1 DEF Idle
    <3>2. CASE Fail(u)
      <4>1. PICK p \in {"refused", "broken"} : feed' = [feed EXCEPT ![u].pc = p]
        BY <3>2 DEF Fail
      <4>2. QED
        BY <1>0, <4>1 DEF Feeds
    <3>3. QED
      BY <1>4, <3>0, <3>1, <3>2 DEF Poll
  <2>4. RequestOf(u)'
    BY <2>3 DEF RequestOf
  <2>5. \A t \in Tabs \ {u} : RequestOf(t)'
    BY <1>1, <2>1, <2>2
  <2>6. QED
    BY <2>4, <2>5 DEF RequestInv
<1>5. ASSUME Restart PROVE RequestInv'
  <2>1. Live' = {}
    BY <1>5 DEF Restart, Live, Listed, InTransit
  <2>2. QED
    BY <2>1 DEF RequestInv, RequestOf
<1>6. ASSUME UNCHANGED vars PROVE RequestInv'
  BY <1>1, <1>6 DEF vars, pageVars, RequestInv
<1>7. QED
  BY <1>2, <1>3, <1>4, <1>5, <1>6 DEF Next

LEMMA FeedStep == IType /\ OrderInv /\ FeedInv /\ [Next]_vars => FeedInv'
<1> SUFFICES ASSUME IType, OrderInv, FeedInv, [Next]_vars PROVE FeedInv'
  OBVIOUS
<1>1. PageInv'
  BY PageStep
<1>2. TimesInv' /\ ShownInv' /\ ShapeInv'
  BY TimesStep, ShownStep, ShapeStep DEF FeedInv
<1>3. RequestInv'
  BY RequestStep
<1>4. QED
  BY <1>1, <1>2, <1>3 DEF FeedInv

\* A page's time passes over no event of the list that the page has not
\* dispatched, but for the two kinds that slip past a request.
THEOREM NonePassedOver == Spec => []NothingPassedOver
<1>1. Init => OrderInv
  BY BoundsAssumption DEF Init, OrderInv, TimeOrder
<1>2. ASSUME Init PROVE FeedInv
  <2>1. Live = {} /\ clock = 0 /\ feed = [t \in Tabs |-> Idle]
    BY <1>2 DEF Init, Live, Listed, InTransit
  <2>2. None \notin Times
    BY BoundsAssumption, NoneAssumption DEF Times
  <2>3. now = [t \in Tabs |-> None] /\ stored = None /\ shown = [t \in Tabs |-> None]
    BY <1>2 DEF Init
  <2>4. PageInv
    BY <2>1 DEF PageInv
  <2>5. TimesInv /\ ShownInv
    BY <2>1, <2>2, <2>3 DEF TimesInv, ShownInv, Idle
  <2>6. ShapeInv /\ RequestInv
    BY <2>1 DEF ShapeInv, RequestInv, RequestOf, Idle
  <2>7. QED
    BY <2>4, <2>5, <2>6 DEF FeedInv
<1>3. ASSUME IType, FeedInv PROVE NothingPassedOver
  <2>1. SUFFICES ASSUME NEW t \in Tabs, now[t] \in Times, NEW i \in DOMAIN history,
                        history[i] =< now[t]
                 PROVE  history[i] \in seen[t] \cup missed
    BY DEF NothingPassedOver
  <2>2. history[i] \in Events
    <3>1. history \in Seq(Events)
      BY <1>3 DEF IType, TypeOK
    <3>2. QED
      BY <3>1, <2>1, LenProperties, ElementOfSeq
  <2>3. history[i] \in Live /\ history[i] \in Before(now[t])
    BY <2>1, <2>2 DEF Live, Listed, Before
  <2>4. QED
    BY <1>3, <2>3 DEF FeedInv, PageInv
<1>4. IType /\ OrderInv /\ [Next]_vars => OrderInv'
  BY NextOrder
<1>5. QED
  BY InitType, NextType, FeedStep, <1>1, <1>2, <1>3, <1>4, PTL DEF Spec
=============================================================================
