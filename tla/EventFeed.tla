------------------------------ MODULE EventFeed ------------------------------
(***************************************************************************)
(* Events, from the workers of the API to the pages of the browser:        *)
(* send_event and get_events of wrolpi/events.py, the handler `feed' of    *)
(* wrolpi/root_api.py, and useEventsInterval of app/src/Events.js, which   *)
(* asks again and again for the events since its last successful request.  *)
(*                                                                         *)
(* The history is a list that the workers share through a manager process. *)
(* Each use of it is one step: reading it asks for one index after another *)
(* until there is none, without the lock of the senders.                   *)
(*                                                                         *)
(* Abstracted: an event is its time, and a time is the number of events    *)
(* stamped so far, as no two events have the same one.  Toasts are left    *)
(* out; an event is seen when it is dispatched in a page.  The polls that  *)
(* are skipped while another hook believes the API is down are left out.   *)
(***************************************************************************)
EXTENDS Naturals, Sequences, SequencesExt

CONSTANTS
    Workers,     \* workers of the API that send events
    Tabs,        \* the open pages, all of one browser
    HistorySize, \* HISTORY_SIZE
    MaxEvents,   \* bound on events
    MaxFaults,   \* bound on failures and reloads
    None,        \* nobody; a value that is absent
    Undefined    \* the string `undefined', which localStorage makes of a missing value

ASSUME HistoryAssumption == HistorySize \in Nat \ {0}
ASSUME BoundsAssumption == MaxEvents \in Nat /\ MaxFaults \in Nat
ASSUME NoneAssumption ==
    /\ None \notin Nat \cup Workers
    /\ None \notin Seq(Nat)
    /\ Undefined \notin Nat \cup {None}

VARIABLES
    holder,      \* the worker that has events_lock
    pc,          \* how far each worker is in send_event
    stamp,       \* dt, of the event it sends
    clock,       \* the time
    history,     \* events_history: the times of the events, oldest first
    feed,        \* the request each page has under way
    now,         \* the time a page asks from
    stored,      \* the same in localStorage, which the pages share
    shown,       \* the events of its last answer
    seen,        \* history: the events dispatched in each page
    missed,      \* history: events that slipped past a request
    faults       \* (bound) failures and reloads so far

sendVars == <<holder, pc, stamp, clock>>
pageVars == <<now, stored, shown, seen, missed>>
vars == <<sendVars, history, feed, pageVars, faults>>

Times == 0..MaxEvents
Events == 1..MaxEvents

\* `risk' is history: what was stamped but not in the list when the time of the
\* request was taken, and what a removal has moved past its index.
Feeds == [pc : {"idle", "asked", "reading", "answered", "refused", "broken"},
          after : Times \cup {None, Undefined}, start : Times, index : Nat,
          found : Seq(Events), risk : SUBSET Events]

Idle == [pc |-> "idle", after |-> None, start |-> 0, index |-> 1,
         found |-> <<>>, risk |-> {}]

TypeOK ==
    /\ holder \in Workers \cup {None}
    /\ pc \in [Workers -> {"idle", "locked", "stamped", "appended"}]
    /\ stamp \in [Workers -> Times]
    /\ clock \in Times
    /\ history \in Seq(Events)
    /\ feed \in [Tabs -> Feeds]
    /\ now \in [Tabs -> Times \cup {None, Undefined}]
    /\ stored \in Times \cup {None, Undefined}
    /\ shown \in [Tabs -> Seq(Events) \cup {None}]
    /\ seen \in [Tabs -> SUBSET Events]
    /\ missed \subseteq Events
    /\ faults \in 0..MaxFaults

Init ==
    /\ holder = None
    /\ pc = [w \in Workers |-> "idle"]
    /\ stamp = [w \in Workers |-> 0]
    /\ clock = 0
    /\ history = <<>>
    /\ feed = [t \in Tabs |-> Idle]
    /\ now = [t \in Tabs |-> None]
    /\ stored = None
    /\ shown = [t \in Tabs |-> None]
    /\ seen = [t \in Tabs |-> {}]
    /\ missed = {}
    /\ faults = 0

-----------------------------------------------------------------------------
(* send_event                                                              *)

Goes(w, p) == pc' = [pc EXCEPT ![w] = p]

\* Mutant: the lock is not waited for.
AcquireAnyway(w) ==
    /\ pc[w] = "idle"
    /\ clock < MaxEvents
    /\ holder' = w
    /\ Goes(w, "locked")
    /\ UNCHANGED <<stamp, clock, history, feed, pageVars, faults>>

Acquire(w) ==
    /\ pc[w] = "idle"
    /\ clock < MaxEvents
    /\ holder = None
    /\ holder' = w
    /\ Goes(w, "locked")
    /\ UNCHANGED <<stamp, clock, history, feed, pageVars, faults>>

\* dt = now()
Stamp(w) ==
    /\ pc[w] = "locked"
    /\ clock < MaxEvents
    /\ clock' = clock + 1
    /\ stamp' = [stamp EXCEPT ![w] = clock']
    /\ Goes(w, "stamped")
    /\ UNCHANGED <<holder, history, feed, pageVars, faults>>

AppendEvent(w) ==
    /\ pc[w] = "stamped"
    /\ history' = Append(history, stamp[w])
    /\ Goes(w, "appended")
    /\ UNCHANGED <<holder, stamp, clock, feed, pageVars, faults>>

\* pop(0): every index moves, and a reader passes over the event it would have
\* come to next.
Trim(w) ==
    /\ pc[w] = "appended"
    /\ Len(history) > HistorySize
    /\ history' = Tail(history)
    /\ feed' = [t \in Tabs |->
                  IF feed[t].pc = "reading" /\ feed[t].index \in 2..Len(history)
                  THEN [feed[t] EXCEPT !.risk = @ \cup {history[feed[t].index]}]
                  ELSE feed[t]]
    /\ UNCHANGED <<sendVars, pageVars, faults>>

Release(w) ==
    /\ pc[w] = "appended"
    /\ Len(history) =< HistorySize
    /\ holder' = None
    /\ Goes(w, "idle")
    /\ stamp' = [stamp EXCEPT ![w] = 0]
    /\ UNCHANGED <<clock, history, feed, pageVars, faults>>

-----------------------------------------------------------------------------
(* The handler of /api/events/feed, and get_events                         *)

InTransit == {stamp[w] : w \in {v \in Workers : pc[v] = "stamped"}}

\* start = now(); a time that cannot be parsed is refused.
Begin(t) ==
    /\ feed[t].pc = "asked"
    /\ feed' = [feed EXCEPT ![t].pc = IF feed[t].after = Undefined
                                      THEN "refused" ELSE "reading",
                            ![t].start = clock,
                            ![t].risk = InTransit]
    /\ UNCHANGED <<sendVars, history, pageVars, faults>>

\* One event of the list, kept if it is later than `after'.
ReadOne(t) ==
    LET f == feed[t] IN
    /\ f.pc = "reading"
    /\ f.index \in DOMAIN history
    /\ feed' = [feed EXCEPT ![t].index = @ + 1,
                            ![t].found = IF f.after = None \/ history[f.index] > f.after
                                         THEN <<history[f.index]>> \o @ ELSE @]
    /\ UNCHANGED <<sendVars, history, pageVars, faults>>

\* Mutant: the time of the request is taken when the list has been read.
FinishLate(t) ==
    /\ feed[t].pc = "reading"
    /\ feed[t].index \notin DOMAIN history
    /\ feed' = [feed EXCEPT ![t].pc = "answered", ![t].start = clock]
    /\ UNCHANGED <<sendVars, history, pageVars, faults>>

\* There is no event at the index.
Finish(t) ==
    /\ feed[t].pc = "reading"
    /\ feed[t].index \notin DOMAIN history
    /\ feed' = [feed EXCEPT ![t].pc = "answered"]
    /\ UNCHANGED <<sendVars, history, pageVars, faults>>

-----------------------------------------------------------------------------
(* useEventsInterval                                                       *)

\* getEvents: without a time all events are asked for.
Ask(t) ==
    /\ feed[t].pc = "idle"
    /\ feed' = [feed EXCEPT ![t] = [Idle EXCEPT !.pc = "asked", !.after = now[t]]]
    /\ UNCHANGED <<sendVars, history, pageVars, faults>>

\* The events are dispatched when they are not those of the last answer.
Receive(t) ==
    LET f == feed[t] IN
    /\ f.pc = "answered"
    /\ now' = [now EXCEPT ![t] = f.start]
    /\ stored' = f.start
    /\ shown' = [shown EXCEPT ![t] = f.found]
    /\ seen' = IF f.found # shown[t]
               THEN [seen EXCEPT ![t] = @ \cup ToSet(f.found)] ELSE seen
    /\ missed' = missed \cup (f.risk \ ToSet(f.found))
    /\ feed' = [feed EXCEPT ![t] = Idle]
    /\ UNCHANGED <<sendVars, history, faults>>

\* getEvents returns the answer that says what is wrong, and it has no `now'.
ReceiveRefusal(t) ==
    /\ feed[t].pc = "refused"
    /\ now' = [now EXCEPT ![t] = None]
    /\ stored' = Undefined
    /\ shown' = [shown EXCEPT ![t] = None]
    /\ feed' = [feed EXCEPT ![t] = Idle]
    /\ UNCHANGED <<sendVars, history, seen, missed, faults>>

\* Mutant: the exception ends the recurring timeout.
ReceiveExceptionOnce(t) ==
    /\ feed[t].pc = "broken"
    /\ shown[t] # None
    /\ shown' = [shown EXCEPT ![t] = None]
    /\ UNCHANGED <<sendVars, history, feed, now, stored, seen, missed, faults>>

\* getEvents throws: the API is down, or did not answer in time.
ReceiveException(t) ==
    /\ feed[t].pc = "broken"
    /\ shown' = [shown EXCEPT ![t] = None]
    /\ feed' = [feed EXCEPT ![t] = Idle]
    /\ UNCHANGED <<sendVars, history, now, stored, seen, missed, faults>>

-----------------------------------------------------------------------------
(* What goes wrong                                                         *)

Fault == faults < MaxFaults /\ faults' = faults + 1

\* The request fails with an answer, or without one.
Fail(t) ==
    /\ Fault
    /\ feed[t].pc \in {"asked", "reading", "answered"}
    /\ \E p \in {"refused", "broken"} : feed' = [feed EXCEPT ![t].pc = p]
    /\ UNCHANGED <<sendVars, history, pageVars>>

\* The page is loaded again.  What another page of the browser has dispatched
\* the user has seen.
Reload(t) ==
    /\ Fault
    /\ feed' = [feed EXCEPT ![t] = Idle]
    /\ now' = [now EXCEPT ![t] = stored]
    /\ shown' = [shown EXCEPT ![t] = None]
    /\ seen' = [seen EXCEPT ![t] = UNION {seen[u] : u \in Tabs}]
    /\ UNCHANGED <<sendVars, history, stored, missed>>

\* The API is restarted.
Restart ==
    /\ Fault
    /\ holder' = None
    /\ pc' = [w \in Workers |-> "idle"]
    /\ history' = <<>>
    /\ feed' = [t \in Tabs |-> IF feed[t].pc \in {"asked", "reading"}
                               THEN [feed[t] EXCEPT !.pc = "broken"] ELSE feed[t]]
    /\ stamp' = [w \in Workers |-> 0]
    /\ UNCHANGED <<clock, pageVars>>

-----------------------------------------------------------------------------

Send(w) == Acquire(w) \/ Stamp(w) \/ AppendEvent(w) \/ Trim(w) \/ Release(w)
Serve(t) == Begin(t) \/ ReadOne(t) \/ Finish(t)
Poll(t) == Ask(t) \/ Receive(t) \/ ReceiveRefusal(t) \/ ReceiveException(t)

Next ==
    \/ \E w \in Workers : Send(w)
    \/ \E t \in Tabs : Serve(t) \/ Poll(t) \/ Fail(t) \/ Reload(t)
    \/ Restart

\* A sender and a handler go on to their end; the timer of a page fires.
Fairness ==
    /\ \A w \in Workers : WF_vars(Stamp(w) \/ AppendEvent(w) \/ Trim(w) \/ Release(w))
    /\ \A t \in Tabs : WF_vars(Serve(t)) /\ WF_vars(Poll(t))

Spec == Init /\ [][Next]_vars /\ Fairness

-----------------------------------------------------------------------------
(* Properties                                                              *)

\* `All events will be in time order', with no two at the same time.
TimeOrder == \A i, j \in DOMAIN history : i < j => history[i] < history[j]

\* A page never asks from a time later than an event that is in the list and
\* that it has not dispatched, except for the events that slip past a request:
\* one that was stamped and not yet in the list when the request took its time,
\* and one that the removal of the oldest moves past the index of the reader.
NothingPassedOver ==
    \A t \in Tabs :
        now[t] \in Times =>
            \A i \in DOMAIN history :
                history[i] =< now[t] => history[i] \in seen[t] \cup missed

\* Every event is dispatched in every open page, unless it is removed from the
\* list first, or slips past a request.
Delivered ==
    \A t \in Tabs, e \in Events :
        (e \in ToSet(history)) ~>
            (e \in seen[t] \cup missed \/ e \notin ToSet(history))
=============================================================================
