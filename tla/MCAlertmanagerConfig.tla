------------------------ MODULE MCAlertmanagerConfig ------------------------
(* What the rules of the checked instance name: no channel, or the first. *)
EXTENDS AlertmanagerConfig
CONSTANTS n1, n2
SomeChoices == {{}, {n1}}
=============================================================================
