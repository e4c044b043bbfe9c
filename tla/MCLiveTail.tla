----------------------------- MODULE MCLiveTail ------------------------------
(* Model values for the calls and the event sources.                       *)
EXTENDS LiveTail

CONSTANTS q1, q2, h1, h2, s1, s2
=============================================================================
