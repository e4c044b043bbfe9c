--------------------------- MODULE MCRuleManager ----------------------------
(* Model values for the ids of rules and requests.                         *)
EXTENDS RuleManager

CONSTANTS r1, r2, q1, q2
=============================================================================
