----------------------------- MODULE Switchboard -----------------------------
(***************************************************************************)
(* What the switches of wrolpi/switches.py promise, whoever activates them *)
(* and however the worker waits: a switch that is activated is handled     *)
(* some time later, the switches are handled one at a time, and one that   *)
(* is activated while it is handled is handled again.  Activating a switch *)
(* that has not been handled yet changes nothing.  A restart forgets all.  *)
(***************************************************************************)
CONSTANTS
    Switches,    \* names of switches
    None         \* no switch: not a member of Switches

VARIABLES
    pending,     \* the switches that are on
    handling     \* the one whose handler runs

vars == <<pending, handling>>

TypeOK == pending \subseteq Switches /\ handling \in Switches \cup {None}

Init == pending = {} /\ handling = None

Activate(s) ==
    /\ pending' = pending \cup {s}
    /\ UNCHANGED handling

Take(s) ==
    /\ handling = None
    /\ s \in pending
    /\ pending' = pending \ {s}
    /\ handling' = s

\* The handler returns, or raises, or its process dies.
Finish ==
    /\ handling # None
    /\ handling' = None
    /\ UNCHANGED pending

Forget ==
    /\ pending' = {}
    /\ handling' = None

Next ==
    \/ \E s \in Switches : Activate(s)
    \/ \E s \in Switches : Take(s)
    \/ Finish
    \/ Forget

Spec == Init /\ [][Next]_vars /\ WF_vars(\E s \in Switches : Take(s)) /\ WF_vars(Finish)
=============================================================================
