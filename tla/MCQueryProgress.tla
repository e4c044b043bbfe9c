-------------------------- MODULE MCQueryProgress ---------------------------
(* Model values for the trackers, the subscribers and the callbacks.       *)
EXTENDS QueryProgress

CONSTANTS t1, t2, s1, s2, p1
=============================================================================
