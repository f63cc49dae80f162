----------------------------- MODULE MCEventFeed -----------------------------
(* Two senders, and one page.                                                *)
EXTENDS EventFeed, TLC

CONSTANTS w1, w2, t1, t2
==============================================================================
